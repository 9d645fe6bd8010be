----------------------------- MODULE WsdlProvider -----------------------------
(***************************************************************************)
(* What createClient promises, however loads interleave and fail: each call *)
(* is answered with an error or with everything its WSDL includes,   *)
(* the first answer stands, and only a WSDL that a call is about to be      *)
(* answered with is ever stored.                                            *)
(***************************************************************************)
CONSTANTS Call, Url, Everything, None

VARIABLES asked, answer, stored

vars == <<asked, answer, stored>>

Init ==
    /\ asked = [c \in Call |-> None]
    /\ answer = [c \in Call |-> None]
    /\ stored = {}

Waiting(c) == asked[c] # None /\ answer[c] = None

Ask(c, url) ==
    /\ asked[c] = None
    /\ asked' = [asked EXCEPT ![c] = url]
    /\ UNCHANGED <<answer, stored>>

Store(c) ==
    /\ Waiting(c)
    /\ stored' = stored \cup {asked[c]}
    /\ UNCHANGED <<asked, answer>>

Fail(c) ==
    /\ Waiting(c)
    /\ answer' = [answer EXCEPT ![c] = {}]
    /\ UNCHANGED <<asked, stored>>

Succeed(c) ==
    /\ Waiting(c)
    /\ answer' = [answer EXCEPT ![c] = Everything[asked[c]]]
    /\ UNCHANGED <<asked, stored>>

Next ==
    \E c \in Call :
        \/ \E url \in Url : Ask(c, url)
        \/ Store(c)
        \/ Fail(c)
        \/ Succeed(c)

Spec == Init /\ [][Next]_vars
=============================================================================
