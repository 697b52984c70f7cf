-------------------------- MODULE MCHandlerTimeout --------------------------
(* HandlerTimeout on small instances.                                      *)
EXTENDS HandlerTimeout, TLC

=============================================================================
