----------------------------- MODULE SoapExchange -----------------------------
(***************************************************************************)
(* What the server promises about one HTTP exchange, whatever the user's    *)
(* functions do and however their callbacks and promises race: the first    *)
(* response decides the exchange, a refused request never reaches a service *)
(* method, and a result is only sent for a method that was called.          *)
(***************************************************************************)
CONSTANT Req

VARIABLE exchange

Answer == {"refused", "served", "accepted", "failed"}

Init == exchange = [r \in Req |-> [status |-> "idle", ran |-> FALSE, answer |-> "none"]]

Become(r, status, ran, answer) ==
    exchange' = [exchange EXCEPT ![r] =
                    [status |-> status, ran |-> ran, answer |-> answer]]

\* The request is not a SOAP request, or its body never ends.
Drop(r) ==
    /\ exchange[r].status = "idle"
    /\ Become(r, "ended", FALSE, "none")

\* The message cannot be read.
Reject(r) ==
    /\ exchange[r].status = "idle"
    /\ Become(r, "ended", FALSE, "failed")

\* The server works on the request: it may call the method, unless it did or has refused
\* the request, and it may answer, unless it did.
Work(r, ran, answer) ==
    /\ exchange[r].status # "ended"
    /\ exchange[r].ran => ran
    /\ exchange[r].answer \in {"none", answer}
    /\ answer = "refused" => ~ran
    /\ answer = "served" => ran
    /\ Become(r, "waiting", ran, answer)

Next ==
    \E r \in Req :
        \/ Drop(r)
        \/ Reject(r)
        \/ \E ran \in BOOLEAN, answer \in Answer \cup {"none"} : Work(r, ran, answer)

Spec == Init /\ [][Next]_exchange
=============================================================================
