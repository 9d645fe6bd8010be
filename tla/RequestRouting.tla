---------------------------- MODULE RequestRouting ----------------------------
(***************************************************************************)
(* What becomes of the requests of an HTTP server on which SOAP servers and *)
(* listeners of the application are registered, one after the other.  On    *)
(* Node's server the last SOAP server that has the request's path, or       *)
(* refuses the connection, takes it, and of the application's listeners     *)
(* only those registered after it are called; if none does, all are.  On    *)
(* Express the first handler that is there for the path takes it.           *)
(***************************************************************************)
EXTENDS Lists

CONSTANTS Servers, Apps, Requests, Has, Denies

VARIABLES
    express,    \* whether the server is an Express application
    log,        \* the registrations, in order: servers and listeners of the application
    guarded,    \* the servers with an authorizeConnection
    fate        \* what became of each request

vars == <<express, log, guarded, fate>>

Pending == [server |-> {}, refused |-> FALSE, apps |-> <<>>, over |-> FALSE]

Init ==
    /\ express \in BOOLEAN /\ log = <<>> /\ guarded = {}
    /\ fate = [r \in Requests |-> Pending]

Register(entry) ==
    /\ log' = Append(log, entry)
    /\ UNCHANGED <<express, guarded, fate>>

Guard(s) == guarded' = guarded \cup {s} /\ UNCHANGED <<express, log, fate>>

Refuses(s, r) == s \in guarded /\ r \in Denies[s]

\* The application's listeners among the registrations l, from the i-th on.
AppsFrom(l, i) == Only(SubSeq(l, i, Len(l)), Apps)

\* The registrations that would take r, were they asked.
Takers(l, r) ==
    {i \in DOMAIN l : IF express THEN l[i] \in Apps \/ r \in Has[l[i]]
                      ELSE l[i] \in Servers /\ (Refuses(l[i], r) \/ r \in Has[l[i]])}

\* What becomes of a request that the i-th of the registrations l takes.
TakenBy(l, i, r) ==
    IF l[i] \in Apps
    THEN [server |-> {}, refused |-> FALSE, apps |-> <<l[i]>>, over |-> TRUE]
    ELSE [server |-> {l[i]}, refused |-> Refuses(l[i], r),
          apps |-> IF express THEN <<>> ELSE AppsFrom(l, i), over |-> TRUE]

Route(r) ==
    /\ ~fate[r].over
    /\ fate' = [fate EXCEPT ![r] =
                   LET l == log
                       takers == Takers(l, r)
                   IN  IF takers # {} THEN TakenBy(l, IF express THEN Min(takers)
                                                      ELSE Max(takers), r)
                       ELSE [server |-> {}, refused |-> FALSE, apps |-> AppsFrom(l, 1),
                             over |-> TRUE]]
    /\ UNCHANGED <<express, log, guarded>>

Next ==
    \/ \E e \in Servers \cup Apps : Register(e)
    \/ \E s \in Servers : Guard(s)
    \/ \E r \in Requests : Route(r)

Spec == Init /\ [][Next]_vars
=============================================================================
