------------------------------ MODULE SoapServer ------------------------------
(***************************************************************************)
(* Request processing of the SOAP server (src/server.ts): from the arrival  *)
(* of a request at _requestListener to the replies sent on its response.    *)
(*                                                                          *)
(* Node runs one callback at a time, so an action is everything one         *)
(* callback does until it returns: a user function that is called           *)
(* synchronously is part of the step, and what it does is chosen from       *)
(* AuthBehaviour, MethodBehaviour and Outcome.  Requests interleave         *)
(* wherever the code returns to the event loop: while a body is read, while *)
(* `authenticate` or the service method has a callback or a promise         *)
(* outstanding.                                                             *)
(*                                                                          *)
(* The operators of the middle section take the record of one request and   *)
(* return it as the called function leaves it.  A thrown exception is the   *)
(* field exc, which the operator of the nearest catch clause clears.        *)
(***************************************************************************)
EXTENDS SoapBinding

CONSTANTS
    Req,              \* the requests
    Message,          \* what a request may carry; see MessageType
    Fault,            \* the objects user code throws or passes as { Fault: f }
    FaultStatus,      \* f.statusCode as the user sets it; 0 for none
    Implemented,      \* the pairs <<service, port>> of the user's `services` object
    Handlers,         \* the triples <<service, port, method>> it has a function for
    AuthMode,         \* what server.authenticate is: "none", "function" or "invalid"
    AuthBehaviour,    \* what one call of authenticate may do; see AuthBehaviourType
    MethodBehaviour,  \* what one call of a service method may do
    Outcome,          \* what a callback or a promise of a service method may deliver
    OneWayCode,       \* oneWay.responseCode, 0 when it is not set
    OneWayEnvelope,   \* oneWay.emptyBody: an envelope with an empty body, or nothing
    Header,           \* values of SOAP headers registered on the server
    MaxHeaders,       \* bound: registered headers
    NoMessage, NoOperation

VARIABLES
    conn,         \* [Req -> the state of the request]
    faultStatus,  \* the statusCode property of each user fault object, 0 once undefined
    soapHeaders   \* this.soapHeaders (null and [] are both <<>>)

vars == <<conn, faultStatus, soapHeaders>>

Verdict == {"yes", "no", "error", "other"}    \* true, false, an Error, anything else
Source  == {"callback", "promise"}

MessageType ==
    [path : STRING, action : STRING, element : STRING, headers : BOOLEAN,
     parse : {"ok", "invalid", "fault"}]

\* Arguments of a service method's callback, or (null, v) for a promise resolved with v
\* and (e, undefined) for one rejected with e.  "bad" is a result that does not serialise.
OutcomeType == [error : {"null", "error"} \cup Fault, result : {"undefined", "ok", "bad"}]

\* One call of authenticate: the value it passes to its callback before returning ("none"
\* for none), how it ends, with which value, and whether it keeps the callback for later.
AuthBehaviourType ==
    [calls : Verdict \cup {"none"}, keeps : BOOLEAN,
     how : {"return", "promise", "throw"}, what : Verdict \cup {"undefined"} \cup Fault]

\* One call of a service method, likewise; an async method, and one with a try clause
\* around the call of its callback, catches what the callback throws.
NoCall == [error |-> "none", result |-> "none"]
MethodBehaviourType ==
    [calls : OutcomeType \cup {NoCall}, catches : BOOLEAN, keeps : BOOLEAN,
     how : {"return", "promise", "throw"},
     what : {"undefined", "ok", "bad", "error"} \cup Fault]

ASSUME FaultAssumption ==
    /\ Fault \cap {"none", "null", "error", "undefined"} = {}
    /\ FaultStatus \in [Fault -> Nat]
ASSUME BehaviourAssumption ==
    /\ Message \subseteq MessageType
    /\ AuthMode \in {"none", "function", "invalid"}
    /\ AuthBehaviour \subseteq AuthBehaviourType
    /\ MethodBehaviour \subseteq MethodBehaviourType
    /\ Outcome \subseteq OutcomeType
ASSUME OptionAssumption == OneWayCode \in Nat /\ OneWayEnvelope \in BOOLEAN
ASSUME BoundAssumption == MaxHeaders \in Nat

Operation == [service : STRING, port : STRING, method : STRING, binding : DOMAIN Bindings]
Event == {"request", "headers", "method", "response"}
NoFault == "none"
ReplyType ==
    [kind : {"result", "empty", "oneway", "refused", "fault", "text"},
     status : Nat, fault : Fault \cup {NoFault}, headers : Seq(Header)]

ConnType ==
    [stage    : {"new", "reading", "open", "closed"},
     msg      : Message \cup {NoMessage},
     authWait : SUBSET Source,                  \* pending sources of an auth result
     verdict  : Verdict \cup {"none"},          \* the result processAuthResult took
     op       : Operation \cup {NoOperation},   \* the operation being executed
     headers  : Seq(Header),                    \* `headers` of _executeMethod
     methWait : SUBSET Source,                  \* pending sources of a result
     handled  : BOOLEAN,
     throws   : Nat,                            \* calls of user functions that threw
     exc      : {"none", "error"} \cup Fault,   \* the exception in flight
     uncaught : BOOLEAN,                        \* handleResult threw where no catch clause
                                                \* of the server could see it
     events   : Seq(Event),                     \* emitted events and method calls
     replies  : Seq(ReplyType)]

ASSUME NullAssumption == NoOperation \notin Operation

NewConn ==
    [stage |-> "new", msg |-> NoMessage, authWait |-> {}, verdict |-> "none",
     op |-> NoOperation, headers |-> <<>>, methWait |-> {}, handled |-> FALSE,
     throws |-> 0, exc |-> "none", uncaught |-> FALSE, events |-> <<>>, replies |-> <<>>]

Init ==
    /\ conn = [r \in Req |-> NewConn]
    /\ faultStatus = FaultStatus
    /\ soapHeaders = <<>>

-----------------------------------------------------------------------------
(* Replying. *)

Throw(c, e) == [c EXCEPT !.exc = e]

Emit(c, e) == [c EXCEPT !.events = Append(@, e)]

\* Every path that runs `callback` of _process: the 'response' event, then the response.
Reply(c, rep) == [Emit(c, "response") EXCEPT !.replies = Append(@, rep)]

\* _sendError clears the statusCode of the fault object it is given.  A fault object
\* already used in a reply to this request was cleared earlier in this step.
StatusOf(c, f) ==
    IF \E i \in DOMAIN c.replies : c.replies[i].fault = f THEN 0 ELSE faultStatus[f]

HttpStatus(code, default) == IF code # 0 THEN code ELSE default

FaultReply(c, f, default) ==
    [kind |-> "fault", status |-> HttpStatus(StatusOf(c, f), default), fault |-> f,
     headers |-> <<>>]

\* _sendError through `callback`: without a statusCode the response keeps Node's 200.
SendFault(c, f) == Reply(c, FaultReply(c, f, 200))

\* _sendError with a fault the server makes itself.
ServerFault(c, status) ==
    Reply(c, [kind |-> IF status = 401 THEN "refused" ELSE "fault", status |-> status,
              fault |-> NoFault, headers |-> <<>>])

SendResultWithLatestHeaders(c, kind, status) ==
    Reply(c, [kind |-> kind, status |-> status, fault |-> NoFault, headers |-> soapHeaders])

\* Mutant: a port without service is answered with a result, too.
SendAnyResult(c, kind, status) ==
    Reply(c, [kind |-> "result", status |-> status, fault |-> NoFault, headers |-> c.headers])

SendResult(c, kind, status) ==
    Reply(c, [kind |-> kind, status |-> status, fault |-> NoFault, headers |-> c.headers])

CatchNothing(c) == c

SwallowInAuth(c) == Throw(c, "none")

\* The catch clauses of `process` and of processAuthResult together: a Fault is sent as
\* it is, anything else as an InternalServerError fault.
CatchInAuth(c) ==
    LET d == Throw(c, "none")
    IN  IF c.exc = "none" THEN c
        ELSE IF c.exc = "error" THEN ServerFault(d, 500) ELSE SendFault(d, c.exc)

\* The catch clause of _processRequestXml: replies directly, with no 'response' event,
\* and in plain text unless the exception carries a Fault.
CatchInRequest(c) ==
    LET d == Throw(c, "none")
        text == [kind |-> "text", status |-> 500, fault |-> NoFault, headers |-> <<>>]
    IN  IF c.exc = "none" THEN c
        ELSE IF c.exc = "error" THEN [d EXCEPT !.replies = Append(@, text)]
        ELSE [d EXCEPT !.replies = Append(@, FaultReply(d, c.exc, 500))]

-----------------------------------------------------------------------------
(* Executing the operation. *)

\* methodCallback: one argument that is no Fault is the result, even when it is an Error.
CallbackArguments(o) ==
    IF o.error \notin Fault /\ o.result = "undefined"
    THEN [error |-> "null", result |-> o.error] ELSE o

HandleResultTwice(c, o) ==
    IF o.error \in Fault THEN SendFault(c, o.error)
    ELSE IF o.error = "error" THEN ServerFault(c, 500)
    ELSE SendResult(c, "result", 200)

\* handleResult: only the first outcome of a call counts.
HandleResult(c, o) ==
    LET d == [c EXCEPT !.handled = TRUE]
    IN  IF c.handled THEN c
        ELSE IF o.error \in Fault THEN SendFault(d, o.error)
        ELSE IF o.error = "error" THEN ServerFault(d, 500)
        ELSE IF o.result = "bad" THEN Throw(d, "error")
        ELSE SendResult(d, "result", 200)

\* handleResult where what it throws stays with the user's code: in a later callback, or
\* in one the method calls before it returns and whose exception it catches.
HandleUncaught(c, o) ==
    LET d == HandleResult(c, o)
    IN  IF d.exc = "none" THEN d ELSE [Throw(d, "none") EXCEPT !.uncaught = TRUE]

\* method.apply and what follows it in _executeMethod, for one behaviour of the method.
\* What handleResult throws inside the callback leaves the method the same way, unless
\* the method catches it: then the method goes on.
CallMethod(c, beh) ==
    LET called == Emit(c, "method")
        told   == IF beh.calls = NoCall THEN called
                  ELSE IF beh.catches
                  THEN HandleUncaught(called, CallbackArguments(beh.calls))
                  ELSE HandleResult(called, CallbackArguments(beh.calls))
        kept   == [told EXCEPT !.methWait = (IF beh.keeps THEN {"callback"} ELSE {})
                        \cup (IF beh.how = "promise" THEN {"promise"} ELSE {})]
    IN  IF told.exc # "none" THEN told
        ELSE IF beh.how = "throw"
        THEN [Throw(kept, IF beh.what \in Fault THEN beh.what ELSE "error")
                EXCEPT !.throws = @ + 1]
        ELSE IF beh.how = "return" /\ beh.what # "undefined"
        THEN HandleResult(kept, [error |-> "null", result |-> beh.what])
        ELSE kept

\* `services` has the port but no such function: `undefined.apply` throws a TypeError.
CallMissingMethod(c) == [Throw(c, "error") EXCEPT !.throws = @ + 1]

AnswerOneWayUnmarked(c) ==
    Reply(c, [kind |-> "oneway", status |-> HttpStatus(OneWayCode, 200), fault |-> NoFault,
              headers |-> <<>>])

\* An operation without output is answered before its method runs.
AnswerOneWay(c) ==
    Reply([c EXCEPT !.handled = TRUE],
          [kind |-> "oneway", status |-> HttpStatus(OneWayCode, 200), fault |-> NoFault,
           headers |-> IF OneWayEnvelope THEN c.headers ELSE <<>>])

ExecuteMethod(c, f, m, beh) ==
    LET opened  == [c EXCEPT !.headers = soapHeaders]
        started == [opened EXCEPT
                        !.op = [service |-> f.service, port |-> f.port, method |-> m,
                                binding |-> f.binding]]
        ready   == IF MethodOf(BindingAt(f.service, f.port), m).output THEN started
                   ELSE AnswerOneWay(started)
    IN  IF ~HasPort(f.service, f.port) THEN Throw(c, "error")
        ELSE IF <<f.service, f.port>> \notin Implemented THEN SendResult(opened, "empty", 200)
        ELSE IF ~HasMethod(BindingAt(f.service, f.port), m) THEN Throw(opened, "error")
        ELSE IF <<f.service, f.port, m>> \notin Handlers THEN CallMissingMethod(ready)
        ELSE CallMethod(ready, beh)

Announce(c) ==
    IF c.msg.headers THEN Emit(Emit(c, "request"), "headers") ELSE Emit(c, "request")

\* `process`: resolve the binding and the operation, emit the events, execute.
Process(c, beh) ==
    LET f == FindBinding(c.msg.path)
        m == TargetMethod(f.binding, c.msg)
    IN  IF Ports = <<>> THEN Throw(c, "error")
        ELSE IF ~HasMethod(f.binding, m) THEN Throw(c, "error")
        ELSE IF StyleOf(f.binding, m) # "rpc" /\ ~HasPair(f.binding, c.msg)
        THEN Throw(Announce(c), "error")
        ELSE ExecuteMethod(Announce(c), f, m, beh)

-----------------------------------------------------------------------------
(* Authentication and the entry of a request. *)

ProcessEveryAuthResult(c, v, beh) ==
    LET d == [c EXCEPT !.verdict = v]
    IN  IF v = "error" THEN ServerFault(d, 500)
        ELSE IF v = "no" THEN ServerFault(d, 401)
        ELSE IF v = "yes" THEN CatchInAuth(Process(d, beh))
        ELSE d

\* processAuthResult: only the first result counts, and one that is neither a boolean
\* nor an Error counts too, without any reply.
ProcessAuthResult(c, v, beh) ==
    LET d == [c EXCEPT !.verdict = v]
    IN  IF c.verdict # "none" THEN c
        ELSE IF v = "error" THEN ServerFault(d, 500)
        ELSE IF v = "no" THEN ServerFault(d, 401)
        ELSE IF v = "yes" THEN CatchInAuth(Process(d, beh))
        ELSE d

\* The call of authenticate.  A returned value that is no boolean and no promise is
\* ignored.
Authenticate(c, auth, beh) ==
    LET told == IF auth.calls = "none" THEN c ELSE ProcessAuthResult(c, auth.calls, beh)
        kept == [told EXCEPT !.authWait = (IF auth.keeps THEN {"callback"} ELSE {})
                        \cup (IF auth.how = "promise" THEN {"promise"} ELSE {})]
    IN  IF auth.how = "throw"
        THEN [Throw(kept, IF auth.what \in Fault THEN auth.what ELSE "error")
                EXCEPT !.throws = @ + 1]
        ELSE IF auth.how = "return" /\ auth.what \in {"yes", "no"}
        THEN ProcessAuthResult(kept, auth.what, beh)
        ELSE kept

\* _processRequestXml and _process, up to their return.  A message the parser refuses is
\* answered here: malformed XML with the parser's own Fault, a Fault in the body with text.
ProcessRequestXml(c, auth, beh) ==
    LET d       == [c EXCEPT !.stage = "open"]
        invalid == [kind |-> "fault", status |-> 500, fault |-> NoFault, headers |-> <<>>]
    IN  IF c.msg.parse = "invalid"
        THEN [c EXCEPT !.stage = "closed", !.replies = Append(@, invalid)]
        ELSE IF c.msg.parse = "fault" \/ AuthMode = "invalid"
        THEN CatchInRequest(Throw([c EXCEPT !.stage = "closed"], "error"))
        ELSE IF AuthMode = "none"
        THEN CatchInRequest(ProcessAuthResult(d, "yes", beh))
        ELSE CatchInRequest(Authenticate(d, auth, beh))

-----------------------------------------------------------------------------
(* The callbacks of the event loop. *)

FaultsIn(c) == {c.replies[i].fault : i \in DOMAIN c.replies}

\* Request r's callback leaves it as c, and the fault objects it used without statusCode.
Step(r, c) ==
    /\ conn' = [conn EXCEPT ![r] = c]
    /\ faultStatus' = [f \in Fault |-> IF f \in FaultsIn(c) THEN 0 ELSE faultStatus[f]]
    /\ UNCHANGED soapHeaders

\* GET (with ?wsdl or without) and every method but POST: the response is ended at once.
EndWithoutBody(r) ==
    /\ conn[r].stage = "new"
    /\ Step(r, [conn[r] EXCEPT !.stage = "closed"])

\* POST: the body arrives in chunks ...
BeginBody(r, m) ==
    /\ conn[r].stage = "new"
    /\ Step(r, [conn[r] EXCEPT !.stage = "reading", !.msg = m])

\* ... and is processed at its end, ...
EndBody(r, auth, beh) ==
    /\ conn[r].stage = "reading"
    /\ Step(r, ProcessRequestXml(conn[r], auth, beh))

\* ... which never comes when the client goes away or the gzip stream is corrupt.
LoseBody(r) ==
    /\ conn[r].stage = "reading"
    /\ Step(r, [conn[r] EXCEPT !.stage = "closed"])

\* The body is there already: a body parser of Express, or processRequest.
ReceiveWhole(r, m, auth, beh) ==
    /\ conn[r].stage = "new"
    /\ Step(r, ProcessRequestXml([conn[r] EXCEPT !.msg = m], auth, beh))

\* authenticate calls its callback later.  Nothing stops it from doing so again.
AuthCallback(r, v, beh) ==
    /\ "callback" \in conn[r].authWait
    /\ \E again \in BOOLEAN :
         Step(r, ProcessAuthResult(
                    IF again THEN conn[r] ELSE [conn[r] EXCEPT !.authWait = @ \ {"callback"}],
                    v, beh))

\* The promise authenticate returned is resolved with v, or rejected with v.
AuthPromise(r, v, beh) ==
    /\ "promise" \in conn[r].authWait
    /\ Step(r, ProcessAuthResult([conn[r] EXCEPT !.authWait = @ \ {"promise"}], v, beh))

MethodCallback(r, o) ==
    /\ "callback" \in conn[r].methWait
    /\ \E again \in BOOLEAN :
         Step(r, HandleUncaught(
                    IF again THEN conn[r] ELSE [conn[r] EXCEPT !.methWait = @ \ {"callback"}],
                    CallbackArguments(o)))

MethodPromise(r, o) ==
    /\ "promise" \in conn[r].methWait
    /\ o.error = "null" \/ o.result = "undefined"
    /\ Step(r, HandleUncaught([conn[r] EXCEPT !.methWait = @ \ {"promise"}], o))

AddSoapHeader(h) ==
    /\ Len(soapHeaders) < MaxHeaders
    /\ soapHeaders' = Append(soapHeaders, h)
    /\ UNCHANGED <<conn, faultStatus>>

\* An index one past the end is how the first header of a cleared list may be set.
ChangeSoapHeader(i, h) ==
    /\ i <= MaxHeaders
    /\ soapHeaders' = [j \in 1..Max({i, Len(soapHeaders)}) |->
                          IF j = i THEN h ELSE soapHeaders[j]]
    /\ UNCHANGED <<conn, faultStatus>>

ClearSoapHeaders ==
    /\ soapHeaders' = <<>>
    /\ UNCHANGED <<conn, faultStatus>>

AuthSettles(r) ==
    \E v \in Verdict, beh \in MethodBehaviour : AuthCallback(r, v, beh) \/ AuthPromise(r, v, beh)

MethodSettles(r) ==
    \E o \in Outcome : MethodCallback(r, o) \/ MethodPromise(r, o)

Next ==
    \/ \E r \in Req :
        \/ EndWithoutBody(r)
        \/ \E m \in Message : BeginBody(r, m)
        \/ \E auth \in AuthBehaviour, beh \in MethodBehaviour :
            \/ EndBody(r, auth, beh)
            \/ \E m \in Message : ReceiveWhole(r, m, auth, beh)
        \/ LoseBody(r)
        \/ AuthSettles(r)
        \/ MethodSettles(r)
    \/ \E h \in Header :
        \/ AddSoapHeader(h)
        \/ \E i \in 1..(Len(soapHeaders) + 1) : ChangeSoapHeader(i, h)
    \/ Header # {} /\ ClearSoapHeaders

Spec == Init /\ [][Next]_vars

\* A promise or a retained callback of user code is eventually settled.
Fairness == \A r \in Req : WF_vars(AuthSettles(r)) /\ WF_vars(MethodSettles(r))

FairSpec == Spec /\ Fairness

-----------------------------------------------------------------------------
(* Properties. *)

\* Every request record has its type and no exception is left in flight when a callback
\* of the event loop has returned: each one met a catch clause or was uncaught.
TypeOK ==
    /\ conn \in [Req -> ConnType]
    /\ faultStatus \in [Fault -> Nat]
    /\ soapHeaders \in Seq(Header)
    /\ \A r \in Req : conn[r].exc = "none"

\* A response is sent once, and once more for every user function that threw after its
\* result had been taken: whatever callbacks, promises and returned values race, the two
\* one-shot guards of _process and _executeMethod leave no other way to a second response.
RepliesPaidByThrows == \A r \in Req : Len(conn[r].replies) <= 1 + conn[r].throws

Executions(c) == {i \in DOMAIN c.events : c.events[i] = "method"}

\* A service method runs at most once per request, and only for a request authenticate
\* has accepted and the server has not refused, however many results authenticate gives.
ExecutionAuthorised ==
    \A r \in Req : LET c == conn[r] IN
        /\ \A i, j \in Executions(c) : i = j
        /\ Executions(c) # {} => /\ c.verdict = "yes"
                                 /\ \A i \in DOMAIN c.replies : c.replies[i].kind # "refused"

\* A result is sent with the SOAP headers registered when its method was called, even
\* when the list is changed or cleared while the method's answer is outstanding.
HeadersOfInvocation ==
    [][\A r \in Req : LET c == conn[r] IN
          /\ c.op # NoOperation =>
                \A i \in DOMAIN conn'[r].replies :
                    conn'[r].replies[i].kind = "result" =>
                        conn'[r].replies[i].headers = c.headers
          /\ c.op = NoOperation /\ conn'[r].op # NoOperation =>
                conn'[r].headers = soapHeaders]_vars

IsOneWay(op) == ~MethodOf(BindingAt(op.service, op.port), op.method).output

\* A one-way operation is answered before its method runs, with the configured status,
\* and nothing the method returns, resolves to or passes to its callback is ever sent.
OneWayDisregardsResult ==
    \A r \in Req : LET c == conn[r] IN
        c.op # NoOperation /\ IsOneWay(c.op) =>
            /\ \E i \in DOMAIN c.replies :
                 c.replies[i].kind = "oneway"
                    /\ c.replies[i].status = HttpStatus(OneWayCode, 200)
            /\ \A i \in DOMAIN c.replies : c.replies[i].kind # "result"
            /\ ~c.uncaught

\* What was decided stays: the first auth result, the operation executed and every reply
\* already sent, when late callbacks and promises deliver something else.
FirstResultStands ==
    [][\A r \in Req :
          /\ conn[r].verdict # "none" => conn'[r].verdict = conn[r].verdict
          /\ conn[r].op # NoOperation => conn'[r].op = conn[r].op
          /\ IsPrefix(conn[r].replies, conn'[r].replies)
          /\ conn[r].handled => conn'[r].replies = conn[r].replies]_vars

\* Every message that reaches authentication is answered, unless authenticate answered
\* with neither a boolean nor an Error, or the result could not be serialised and the
\* exception of handleResult, which has set `handled`, stayed with the user's code: in a
\* later callback, or in a method that catches what its callback throws, as every async
\* one does.  These requests hang; a result the callback refuses in a method that does
\* not catch, or that is returned, is answered with a fault.
Answered ==
    \A r \in Req :
        conn[r].stage = "open" ~>
            \/ conn[r].replies # <<>>
            \/ conn[r].verdict = "other"
            \/ conn[r].uncaught

\* Readme, "Server Response on one-way calls": the result of the operation, which
\* includes its failing, is disregarded.  One response is sent, and only one.
OneWaySingleReply ==
    \A r \in Req : LET c == conn[r] IN
        c.op # NoOperation /\ IsOneWay(c.op) => Len(c.replies) = 1

\* Readme, "SOAP Fault": a fault's statusCode is the HTTP status of the response.
FaultStatusHonoured ==
    \A r \in Req : \A i \in DOMAIN conn[r].replies :
        LET f == conn[r].replies[i].fault IN
        f \in Fault /\ FaultStatus[f] # 0 => conn[r].replies[i].status = FaultStatus[f]

-----------------------------------------------------------------------------
(* The server implements SoapExchange. *)

AnswerOf(c) ==
    IF c.replies = <<>> THEN "none"
    ELSE LET kind == Head(c.replies).kind IN
         IF kind = "refused" THEN "refused"
         ELSE IF kind = "result" THEN "served"
         ELSE IF kind = "oneway" THEN "accepted" ELSE "failed"

ExchangeOf(c) ==
    [status |-> IF c.stage \in {"new", "reading"} THEN "idle"
                ELSE IF c.stage = "open" THEN "waiting" ELSE "ended",
     ran    |-> Executions(c) # {},
     answer |-> AnswerOf(c)]

Exchange == INSTANCE SoapExchange WITH exchange <- [r \in Req |-> ExchangeOf(conn[r])]

\* The first response decides an exchange and a refused request stays refused: every
\* step of the server is a step of the exchange it promises.
ImplementsExchange == Exchange!Spec
=============================================================================
