---------------------------- MODULE ListenerChain ----------------------------
(***************************************************************************)
(* Several SOAP servers on one HTTP server (src/server.ts, the constructor  *)
(* of Server).  When the WSDL of a server is ready it takes the 'request'   *)
(* listeners that are there off the HTTP server, puts its own in their      *)
(* place and calls the others for requests that are not its own.  On an     *)
(* Express application it adds a route.                                     *)
(*                                                                          *)
(* The calls Node makes for a request run to completion before anything     *)
(* else: `current` is the request they are for, `pending` the listeners     *)
(* still to be called.  The same holds for the delivery of a WSDL, during   *)
(* which the user's callback may throw.  The application's own handlers on  *)
(* Express are taken to answer, its authorizeConnection not to throw.       *)
(***************************************************************************)
EXTENDS FiniteSets, Lists

CONSTANTS
    Servers,    \* the SOAP servers made with listen()
    Apps,       \* the application's own listeners
    Requests,   \* the requests
    Has,        \* [Servers -> SUBSET Requests]: those that have the server's path
    Denies,     \* [Servers -> SUBSET Requests]: those authorizeConnection returns false for
    NoRequest, NoServer,
    MaxRequests,\* bound: requests in one behaviour
    MaxThrows   \* bound: how often the loader catches an exception of one user callback

ASSUME ListenerAssumption ==
    /\ Servers \cap Apps = {} /\ NoRequest \notin Requests /\ NoServer \notin Servers
    /\ \A s \in Servers : Has[s] \subseteq Requests /\ Denies[s] \subseteq Requests
    /\ {MaxThrows, MaxRequests} \subseteq Nat

VARIABLES
    express,    \* isExpress(server)
    loading,    \* the servers whose WSDL is not ready
    delivering, \* the server whose user callback has thrown, NoServer for none
    throws,     \* [Servers -> how often it has]
    wrappers,   \* the listeners that servers made: [server, saved], saved a sequence of listeners
    log,        \* history: the registrations of servers and of the application's listeners
    listeners,  \* server.listeners('request'), or the handlers of the Express application
    guarded,    \* the servers whose authorizeConnection is set
    arrived,    \* the requests that came
    current, pending,
    outcomes    \* [Requests -> what was done with it, in order]

loadVars == <<loading, delivering, throws>>
dispatchVars == <<arrived, current, pending, outcomes>>
vars == <<express, loadVars, wrappers, log, listeners, guarded, dispatchVars>>

\* A listener: that of wrappers[n], or one of the application.
Wrapper(n) == [wrapper |-> n, app |-> {}]
App(a) == [wrapper |-> 0, app |-> {a}]

Idle == delivering = NoServer /\ current = NoRequest

\* What happens to a request: authorizeConnection is asked, the server serves or refuses it
\* (res.end()), a listener of the application is called.
Did(what, who) == [what |-> what, who |-> who]

Init ==
    /\ express \in BOOLEAN
    /\ loading = Servers /\ delivering = NoServer /\ throws = [s \in Servers |-> 0]
    /\ wrappers = <<>> /\ log = <<>> /\ listeners = <<>> /\ guarded = {}
    /\ arrived = {} /\ current = NoRequest /\ pending = <<>>
    /\ outcomes = [r \in Requests |-> <<>>]

----------------------------------------------------------------------------

\* Mutant: the listeners that are there are read when the new one is among them.
ReadLast(s) ==
    /\ wrappers' = Append(wrappers, [server |-> s,
                                     saved |-> Append(listeners, Wrapper(Len(wrappers) + 1))])
    /\ listeners' = <<Wrapper(Len(wrappers) + 1)>>

\* The listener of a server, in place of those that are there, or its route.
Register(s) ==
    /\ wrappers' = Append(wrappers, [server |-> s, saved |-> IF express THEN <<>> ELSE listeners])
    /\ listeners' = IF express THEN Append(listeners, Wrapper(Len(wrappers) + 1))
                    ELSE <<Wrapper(Len(wrappers) + 1)>>

\* The user's callback returns, or throws: into a try clause of the loader, which calls
\* onReady's callback again, or to the event loop.
Deliver(s) ==
    /\ Register(s) /\ log' = Append(log, s)
    /\ \E throw \in BOOLEAN :
         /\ throws' = [throws EXCEPT ![s] = IF throw THEN @ + 1 ELSE @]
         /\ delivering' = IF throw /\ throws[s] < MaxThrows THEN s ELSE NoServer
    /\ UNCHANGED <<express, guarded, dispatchVars>>

\* wsdl.onReady, with or without an error.
OnReady(s) == Idle /\ s \in loading /\ loading' = loading \ {s} /\ Deliver(s)

OnReadyAgain(s) == delivering = s /\ Deliver(s) /\ UNCHANGED loading

\* httpServer.on('request', a), or a handler of the Express application; bound: once each.
AddListener(a) ==
    /\ Idle /\ a \notin ToSet(log)
    /\ listeners' = Append(listeners, App(a)) /\ log' = Append(log, a)
    /\ UNCHANGED <<express, loadVars, wrappers, guarded, dispatchVars>>

\* server.authorizeConnection = function.
SetAuthorizeConnection(s) ==
    /\ Idle /\ s \notin guarded
    /\ guarded' = guarded \cup {s}
    /\ UNCHANGED <<express, loadVars, wrappers, log, listeners, dispatchVars>>

\* A request comes in: Node calls the listeners there are.
Request(r) ==
    /\ Idle /\ r \notin arrived /\ Cardinality(arrived) < MaxRequests
    /\ arrived' = arrived \cup {r} /\ current' = r /\ pending' = listeners
    /\ UNCHANGED <<express, loadVars, wrappers, log, listeners, guarded, outcomes>>

\* The outcomes of the current request, with those of this call.
Note(did) == outcomes' = [outcomes EXCEPT ![current] = @ \o did]

Calling(n) == current # NoRequest /\ pending # <<>> /\ Head(pending).wrapper = n

\* Mutant: it is asked again when the path is that of the server.
AskedAgain(s) ==
    IF s \in guarded THEN [n \in 1..(IF current \in Has[s] THEN 2 ELSE 1) |-> Did("asked", s)]
    ELSE <<>>

Asked(s) == IF s \in guarded THEN <<Did("asked", s)>> ELSE <<>>

\* Mutant: authorizeConnection is only asked for the server's own path.
RefusesOwn(s) == s \in guarded /\ current \in Denies[s] \cap Has[s]

\* authorizeConnection returns false: it is asked before the path is looked at.
Refuses(s) == s \in guarded /\ current \in Denies[s]

\* Mutants: the listeners saved are called for the server's own requests too; those of the
\* moment are called.
AllSaved(w) == wrappers[w].saved

ListenersNow(w) ==
    IF current \in Has[wrappers[w].server] \/ Refuses(wrappers[w].server) THEN <<>>
    ELSE listeners

\* What is called after the server's listener: for a request of another path the listeners
\* it has saved.
Saved(w) ==
    LET s == wrappers[w].server
    IN  IF current \in Has[s] \/ Refuses(s) THEN <<>> ELSE wrappers[w].saved

\* The listener of a server on Node's HTTP server.
CallListener(w) ==
    /\ ~express /\ Calling(w) /\ w \in DOMAIN wrappers
    /\ LET s == wrappers[w].server
       IN  Note(Asked(s) \o IF Refuses(s) THEN <<Did("refused", s)>>
                            ELSE IF current \in Has[s] THEN <<Did("served", s)>> ELSE <<>>)
    /\ pending' = Saved(w) \o Tail(pending)
    /\ UNCHANGED <<express, loadVars, wrappers, log, listeners, guarded, arrived, current>>

\* The route of a server on Express, which the path has to match first and which does not
\* pass the request on.
CallRoute(w) ==
    /\ express /\ Calling(w) /\ w \in DOMAIN wrappers
    /\ LET s == wrappers[w].server
       IN  IF current \notin Has[s] THEN pending' = Tail(pending) /\ UNCHANGED outcomes
           ELSE /\ Note(Asked(s) \o <<Did(IF Refuses(s) THEN "refused" ELSE "served", s)>>)
                /\ pending' = <<>>
    /\ UNCHANGED <<express, loadVars, wrappers, log, listeners, guarded, arrived, current>>

CallApp ==
    /\ Calling(0)
    /\ \E a \in Head(pending).app : Note(<<Did("called", a)>>)
    /\ pending' = IF express THEN <<>> ELSE Tail(pending)
    /\ UNCHANGED <<express, loadVars, wrappers, log, listeners, guarded, arrived, current>>

\* All calls have returned.
Return ==
    /\ current # NoRequest /\ pending = <<>>
    /\ current' = NoRequest
    /\ UNCHANGED <<express, loadVars, wrappers, log, listeners, guarded, arrived, pending, outcomes>>

\* bound: the wrappers there can be.
MaxWrappers == Cardinality(Servers) * (MaxThrows + 1)

Next ==
    \/ \E s \in Servers : OnReady(s) \/ OnReadyAgain(s) \/ SetAuthorizeConnection(s)
    \/ \E a \in Apps : AddListener(a)
    \/ \E r \in Requests : Request(r)
    \/ \E w \in 1..MaxWrappers : CallListener(w) \/ CallRoute(w)
    \/ CallApp
    \/ Return

Spec == Init /\ [][Next]_vars

\* WSDLs are delivered, and the calls of Node and of the loader return.
Fairness ==
    /\ \A s \in Servers : WF_vars(OnReady(s)) /\ WF_vars(OnReadyAgain(s))
    /\ WF_vars(\E w \in 1..MaxWrappers : CallListener(w) \/ CallRoute(w))
    /\ WF_vars(CallApp) /\ WF_vars(Return)

FairSpec == Spec /\ Fairness

----------------------------------------------------------------------------
(* Properties. *)

\* The listeners there can be when there are k wrappers.
ListenersUpTo(k) == {Wrapper(n) : n \in 1..k} \cup {App(a) : a \in Apps}

Outcome == [what : {"asked", "served", "refused", "called"}, who : Servers \cup Apps]

\* A wrapper has saved listeners that are older than itself: the chain is well-founded.
TypeOK ==
    /\ express \in BOOLEAN /\ loading \subseteq Servers /\ guarded \subseteq Servers
    /\ delivering \in Servers \cup {NoServer} /\ throws \in [Servers -> Nat]
    /\ wrappers \in Seq([server : Servers, saved : Seq(ListenersUpTo(Len(wrappers)))])
    /\ \A k \in DOMAIN wrappers : wrappers[k].saved \in Seq(ListenersUpTo(k - 1))
    /\ log \in Seq(Servers \cup Apps)
    /\ listeners \in Seq(ListenersUpTo(Len(wrappers)))
    /\ arrived \subseteq Requests /\ current \in arrived \cup {NoRequest}
    /\ pending \in Seq(ListenersUpTo(Len(wrappers)))
    /\ outcomes \in [Requests -> Seq(Outcome)]

\* Where r was served or refused.
TakenAt(r) == {i \in DOMAIN outcomes[r] : outcomes[r][i].what \in {"served", "refused"}}

\* However many servers there are, whenever they became ready and however often their
\* callbacks made the loader deliver the WSDL, a request is served or refused once at most.
TakenOnce == \A r \in Requests : \A i, j \in TakenAt(r) : i = j

\* Where authorizeConnection of s was asked about r.
AskedAt(r, s) == {i \in DOMAIN outcomes[r] : outcomes[r][i] = Did("asked", s)}

\* authorizeConnection is asked about a request once more at most than the server was
\* delivered again, however its listeners and those of other servers call each other.
AskedOnce ==
    \A r \in Requests : \A s \in Servers : Cardinality(AskedAt(r, s)) <= throws[s] + 1

\* The listeners that call listeners come to an end: the chain has no cycle.
DispatchEnds == []<>Idle

Fate(r) ==
    [server  |-> {outcomes[r][i].who : i \in TakenAt(r)},
     refused |-> \E i \in TakenAt(r) : outcomes[r][i].what = "refused",
     apps    |-> LET called == Only(outcomes[r], [what : {"called"}, who : Apps])
                 IN  [n \in DOMAIN called |-> called[n].who],
     over    |-> r \in arrived]

\* The fate of a request while it is dispatched: it is not decided before all have returned.
Undecided == [server |-> {}, refused |-> FALSE, apps |-> <<>>, over |-> FALSE]

Routing == INSTANCE RequestRouting WITH
    fate <- [r \in Requests |-> IF r = current THEN Undecided ELSE Fate(r)]

\* The chain of listeners routes requests as RequestRouting says.
ImplementsRouting == Routing!Spec
=============================================================================
