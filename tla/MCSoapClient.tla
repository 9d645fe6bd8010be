----------------------------- MODULE MCSoapClient -----------------------------
(* Two exchanges of one client. *)
EXTENDS SoapClient

CONSTANTS c1, c2

\* Every body with status 200, and those that another status changes something for; of
\* multipart responses one of each kind.
MCResponse ==
    [status : {"ok"}, body : Body, multipart : {"no"}]
    \cup [status : {"bad"}, body : {"result", "fault", "empty", "unusable"}, multipart : {"no"}]
    \cup [status : {"other"}, body : {"empty"}, multipart : {"no"}]
    \cup [status : {"ok"}, body : {"result", "fault"}, multipart : {"parts"}]
    \cup [status : {"ok"}, body : {"empty"}, multipart : {"nobody", "noboundary", "badtype"}]

MCInvocation ==
    {[output |-> "none", extra |-> FALSE, attachments |-> FALSE],
     [output |-> "untyped", extra |-> FALSE, attachments |-> FALSE],
     [output |-> "typed", extra |-> TRUE, attachments |-> FALSE],
     [output |-> "typed", extra |-> FALSE, attachments |-> TRUE]}
=============================================================================
