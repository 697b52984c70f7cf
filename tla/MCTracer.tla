------------------------------ MODULE MCTracer ------------------------------
(* Tracer on small instances.                                              *)
EXTENDS Tracer, TLC

(* The functions with source below the target are interchangeable.         *)
Symmetry == Permutations(Codes \ ({Target} \cup Sourceless))

=============================================================================
