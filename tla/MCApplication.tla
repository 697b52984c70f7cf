--------------------------- MODULE MCApplication ----------------------------
(* Application on small instances, and what the documentation says.        *)
EXTENDS Application, TLC

Get(segs, slash, query, utf8) ==
  [method |-> "GET", segs |-> segs, slash |-> slash, query |-> query, utf8 |-> utf8]

Route(segs, args, meta, compiled, kind, params, gives) ==
  [method |-> "GET", segs |-> segs, args |-> args, compiled |-> compiled,
   slash |-> FALSE, meta |-> meta,
   handler |-> [kind |-> kind, params |-> params, gives |-> gives]]

NoArgs == <<>>

(* A path without and with a slash and a query, that one not in UTF-8, and *)
(* two with an argument.                                                   *)
SmallAsks ==
  { Get(<<"q">>, FALSE, FALSE, TRUE), Get(<<"q">>, TRUE, TRUE, FALSE),
    Get(<<"user", "ann">>, FALSE, FALSE, TRUE), Get(<<"job", "one">>, FALSE, FALSE, TRUE) }

SmallRoutes ==
  << Route(<<"q">>, NoArgs, {}, FALSE, "sync", <<"request">>, {"list", "text"}),
     Route(<<"user", "*">>, (2 :> "logger"), {"template"}, FALSE,
           "async", <<"request", "logger">>, {"dict", "none"}),
     Route(<<"job", "*">>, (2 :> "push"), {"process"}, FALSE, "sync",
           <<"request">>, {"dict"}) >>

(* A compiled catch-all.                                                   *)
SmallLateRoutes ==
  { Route(<<"*">>, (1 :> "profile_condition"), {}, TRUE, "async", <<>>, {"response"}) }

(* All components, or all but one.                                         *)
SmallConfigs ==
  {Components} \cup
  {Components \ {c} : c \in {"patch_request", "logger", "error_handle",
                            "handler_timeout", "sync_to_async", "injector"}}

AllOn == {Components}

(* README.md:65: "`profile` - auto profile for handlers (detect long       *)
(* running handlers and trace time execution and memory usage of it)":     *)
(* a handler that is traced runs as it would without.                      *)
ProfileOnlyWatches ==
  \A r \in profiled :
    runs[r] = HowItRuns(route[r].handler, scope[r], FALSE)

=============================================================================
