-------------------------- MODULE MCRouteLifecycle --------------------------
(***************************************************************************)
(* Small instances of RouteLifecycle: the chains an operator submits.      *)
(***************************************************************************)
EXTENDS RouteLifecycle

CONSTANTS a, b, c

Pair == {<<a, b>>}
Shortened == {<<a, b, c>>, <<a, c>>}   \* a change frees b and turns a elsewhere
Rerouted == {<<a, b>>, <<a>>}          \* a change frees b and turns a elsewhere
=============================================================================
