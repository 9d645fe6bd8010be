--------------------------- MODULE MCListenerChain ---------------------------
(* Servers with overlapping paths, and requests, for ListenerChain. *)
EXTENDS ListenerChain

CONSTANTS A, B, a, ab, none

\* Requests for the path of one server, of both (a RegExp), and of neither.
CHas == A :> {a, ab} @@ B :> {ab}
CDenies == A :> {none} @@ B :> {a, ab}
=============================================================================
