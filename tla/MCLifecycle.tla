----------------------------- MODULE MCLifecycle -----------------------------
(* Lifecycle on small instances.                                           *)
EXTENDS Lifecycle, TLC

(* "app start -> component start -> app handle request" (README.md:16): an *)
(* application has its handler whenever its servers accept connections.    *)
(* Application.__start is set before the components start and is never     *)
(* reset (app.py:55-58).                                                   *)
StartedBeforeHandling ==
  \A s \in Servers : server[s] \in Accepting => appOf[s] \in handler

=============================================================================
