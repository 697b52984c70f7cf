------------------------------ MODULE MCHttp1 -------------------------------
(* Http1 on small instances.                                               *)
EXTENDS Http1

(* A request without a body, with one, with a blank line in its body, one  *)
(* after a stray blank line, one whose body has a request line in a line,  *)
(* an upgrade, and one that is not HTTP.                                   *)
SmallShapes ==
  { <<"start", "field", "blank">>,
    <<"start", "field", "blank", "text">>,
    <<"start", "blank", "text", "blank", "text">>,
    <<"blank", "start", "field", "blank", "text">>,
    <<"start", "blank", "quote">>,
    <<"start", "upgrade", "settings", "blank">>,
    <<"start", "nocolon", "blank">> }

=============================================================================
