--------------------------- MODULE SoapServerProofs ---------------------------
(***************************************************************************)
(* Theorems about SoapServer, for every WSDL, every set of requests and     *)
(* every set of behaviours of the user's functions.                         *)
(*                                                                          *)
(* The argument is a balance.  A request owes one response while its auth   *)
(* result or the result of its method has not been taken, and one for an    *)
(* exception in flight.  Responses sent and owed never exceed one plus the  *)
(* number of calls of user functions that threw.                            *)
(*                                                                         *)
(* The second part proves that SoapServer implements SoapExchange: the      *)
(* first response decides an exchange, a result is only sent for a method   *)
(* that was called, and what is decided for a request stays decided.  Each  *)
(* operator makes the record of a request grow: the responses stay, and so  *)
(* does the execution of a method.  A result that was sent, and a method    *)
(* that is waited for, are backed by an execution; this is what IInv does   *)
(* not say.                                                                 *)
(*                                                                          *)
(* The last part is about headers and one-way operations: a result carries  *)
(* the headers of its invocation, and for an operation without output there *)
(* is none, because its one-shot guard is closed before the method is       *)
(* called.                                                                  *)
(***************************************************************************)
EXTENDS SoapServer, SequenceTheorems, WellFoundedInduction, TLAPS

Refused(c) == \E i \in DOMAIN c.replies : c.replies[i].kind = "refused"

One(b) == IF b THEN 1 ELSE 0

SameCore(c, d) ==
    /\ d.stage = c.stage /\ d.authWait = c.authWait
    /\ d.verdict = c.verdict /\ d.op = c.op

SameRun(c, d) ==
    d.methWait = c.methWait /\ d.handled = c.handled /\ d.throws = c.throws

SameLog(c, d) == d.events = c.events /\ d.replies = c.replies

\* d is c after one response that does not refuse the request.
OneReply(c, d) ==
    /\ SameCore(c, d) /\ SameRun(c, d) /\ d.exc = c.exc
    /\ Executions(d) = Executions(c)
    /\ Len(d.replies) = Len(c.replies) + 1
    /\ Refused(d) <=> Refused(c)

-----------------------------------------------------------------------------
(* Replying. *)

LEMMA LengthType == \A c \in ConnType : Len(c.replies) \in Nat /\ c.throws \in Nat
  <1> SUFFICES ASSUME NEW c \in ConnType
               PROVE  Len(c.replies) \in Nat /\ c.throws \in Nat
    OBVIOUS
  <1>1. c.replies \in Seq(ReplyType) /\ c.throws \in Nat
    BY DEF ConnType
  <1> QED BY <1>1

LEMMA ThrowFrame ==
    ASSUME NEW c \in ConnType, NEW e \in {"none", "error"} \cup Fault
    PROVE  /\ Throw(c, e) \in ConnType
           /\ SameCore(c, Throw(c, e)) /\ SameRun(c, Throw(c, e))
           /\ SameLog(c, Throw(c, e))
           /\ Throw(c, e).exc = e
  BY DEF Throw, ConnType, SameCore, SameRun, SameLog

LEMMA EmitFrame ==
    ASSUME NEW c \in ConnType, NEW e \in Event
    PROVE  /\ Emit(c, e) \in ConnType
           /\ SameCore(c, Emit(c, e)) /\ SameRun(c, Emit(c, e))
           /\ Emit(c, e).replies = c.replies /\ Emit(c, e).exc = c.exc
           /\ Emit(c, e).events = Append(c.events, e)
           /\ e # "method" => Executions(Emit(c, e)) = Executions(c)
           /\ e = "method" /\ Executions(c) = {} =>
                \A i, j \in Executions(Emit(c, e)) : i = j
  <1>1. c.events \in Seq(Event)
    BY DEF ConnType
  <1>2. Append(c.events, e) \in Seq(Event)
    BY <1>1
  <1>3. \A s \in Seq(Event) : [c EXCEPT !.events = s] \in ConnType
    BY DEF ConnType
  <1>4. Emit(c, e) \in ConnType
    BY <1>2, <1>3 DEF Emit
  <1>5. Emit(c, e).events = Append(c.events, e)
    BY DEF Emit, ConnType
  <1>6. /\ SameCore(c, Emit(c, e)) /\ SameRun(c, Emit(c, e))
        /\ Emit(c, e).replies = c.replies /\ Emit(c, e).exc = c.exc
    BY DEF Emit, ConnType, SameCore, SameRun
  <1>7. e # "method" => Executions(Emit(c, e)) = Executions(c)
    BY <1>1, <1>5 DEF Executions
  <1>8. e = "method" /\ Executions(c) = {} =>
            \A i, j \in Executions(Emit(c, e)) : i = j
    BY <1>1, <1>5 DEF Executions
  <1> QED BY <1>4, <1>5, <1>6, <1>7, <1>8

LEMMA ReplyFrame ==
    ASSUME NEW c \in ConnType, NEW rep \in ReplyType
    PROVE  /\ Reply(c, rep) \in ConnType
           /\ rep.kind # "refused" => OneReply(c, Reply(c, rep))
           /\ SameCore(c, Reply(c, rep)) /\ SameRun(c, Reply(c, rep))
           /\ Reply(c, rep).exc = c.exc
           /\ Executions(Reply(c, rep)) = Executions(c)
           /\ Len(Reply(c, rep).replies) = Len(c.replies) + 1
  <1> DEFINE d == Emit(c, "response")
  <1>1. /\ d \in ConnType /\ SameCore(c, d) /\ SameRun(c, d)
        /\ d.replies = c.replies /\ d.exc = c.exc
        /\ Executions(d) = Executions(c)
    BY EmitFrame DEF Event
  <1>2. d.replies \in Seq(ReplyType)
    BY <1>1 DEF ConnType
  <1>3. Append(d.replies, rep) \in Seq(ReplyType)
    BY <1>2
  <1>4. \A s \in Seq(ReplyType) : [d EXCEPT !.replies = s] \in ConnType
    BY <1>1 DEF ConnType
  <1>5. Reply(c, rep) \in ConnType
    BY <1>3, <1>4 DEF Reply
  <1> HIDE DEF d
  <1>6. Reply(c, rep) = [d EXCEPT !.replies = Append(@, rep)]
    BY DEF Reply, d
  <1>7. /\ SameCore(d, Reply(c, rep)) /\ SameRun(d, Reply(c, rep))
        /\ Reply(c, rep).exc = d.exc /\ Reply(c, rep).events = d.events
        /\ Reply(c, rep).replies = Append(d.replies, rep)
    BY <1>1, <1>6 DEF ConnType, SameCore, SameRun
  <1>8. /\ SameCore(c, Reply(c, rep)) /\ SameRun(c, Reply(c, rep))
        /\ Reply(c, rep).exc = c.exc
    BY <1>1, <1>7 DEF SameCore, SameRun
  <1>9. Executions(Reply(c, rep)) = Executions(c)
    BY <1>1, <1>7 DEF Executions
  <1>10. Len(Reply(c, rep).replies) = Len(c.replies) + 1
    BY <1>1, <1>2, <1>7
  <1>11. rep.kind # "refused" => (Refused(Reply(c, rep)) <=> Refused(c))
    BY <1>1, <1>2, <1>7 DEF Refused
  <1> QED BY <1>5, <1>8, <1>9, <1>10, <1>11 DEF OneReply

FaultStatusOK == faultStatus \in [Fault -> Nat]

LEMMA FaultReplyType ==
    ASSUME FaultStatusOK, NEW c \in ConnType, NEW f \in Fault, NEW default \in Nat
    PROVE  FaultReply(c, f, default) \in ReplyType /\ FaultReply(c, f, default).kind = "fault"
  <1>1. StatusOf(c, f) \in Nat
    BY DEF FaultStatusOK, StatusOf
  <1>2. HttpStatus(StatusOf(c, f), default) \in Nat
    BY <1>1 DEF HttpStatus
  <1>3. <<>> \in Seq(Header)
    OBVIOUS
  <1> QED BY <1>2, <1>3 DEF FaultReply, ReplyType

LEMMA SendFaultFrame ==
    ASSUME FaultStatusOK, NEW c \in ConnType, NEW f \in Fault
    PROVE  SendFault(c, f) \in ConnType /\ OneReply(c, SendFault(c, f))
  <1>1. 200 \in Nat
    OBVIOUS
  <1>2. FaultReply(c, f, 200) \in ReplyType /\ FaultReply(c, f, 200).kind # "refused"
    BY <1>1, FaultReplyType
  <1>3. SendFault(c, f) = Reply(c, FaultReply(c, f, 200))
    BY DEF SendFault
  <1> HIDE DEF FaultReply
  <1> QED BY <1>2, <1>3, ReplyFrame

LEMMA ServerFaultFrame ==
    ASSUME NEW c \in ConnType, NEW status \in {401, 500}
    PROVE  /\ ServerFault(c, status) \in ConnType
           /\ status = 500 => OneReply(c, ServerFault(c, status))
           /\ SameCore(c, ServerFault(c, status)) /\ SameRun(c, ServerFault(c, status))
           /\ ServerFault(c, status).exc = c.exc
           /\ Executions(ServerFault(c, status)) = Executions(c)
           /\ Len(ServerFault(c, status).replies) = Len(c.replies) + 1
  <1> DEFINE rep == [kind |-> IF status = 401 THEN "refused" ELSE "fault",
                     status |-> status, fault |-> NoFault, headers |-> <<>>]
  <1>1. <<>> \in Seq(Header)
    OBVIOUS
  <1>2. rep \in ReplyType /\ (status = 500 => rep.kind # "refused")
    BY <1>1 DEF ReplyType
  <1> HIDE DEF rep
  <1>3. ServerFault(c, status) = Reply(c, rep)
    BY DEF ServerFault, rep
  <1> QED BY <1>2, <1>3, ReplyFrame

LEMMA SendResultFrame ==
    ASSUME NEW c \in ConnType, NEW kind \in {"result", "empty"}
    PROVE  SendResult(c, kind, 200) \in ConnType /\ OneReply(c, SendResult(c, kind, 200))
  <1> DEFINE rep == [kind |-> kind, status |-> 200, fault |-> NoFault, headers |-> c.headers]
  <1>1. c.headers \in Seq(Header)
    BY DEF ConnType
  <1>2. rep \in ReplyType /\ rep.kind # "refused"
    BY <1>1 DEF ReplyType
  <1> HIDE DEF rep
  <1>3. SendResult(c, kind, 200) = Reply(c, rep)
    BY DEF SendResult, rep
  <1> QED BY <1>2, <1>3, ReplyFrame

-----------------------------------------------------------------------------
(* The catch clauses: the exception in flight becomes one response. *)

LEMMA CatchInAuthFrame ==
    ASSUME FaultStatusOK, NEW c \in ConnType
    PROVE  LET d == CatchInAuth(c) IN
           /\ d \in ConnType /\ d.exc = "none"
           /\ SameCore(c, d) /\ SameRun(c, d)
           /\ Executions(d) = Executions(c)
           /\ Refused(d) <=> Refused(c)
           /\ Len(d.replies) = Len(c.replies) + One(c.exc # "none")
  <1> DEFINE t == Throw(c, "none")
  <1>1. /\ t \in ConnType /\ SameCore(c, t) /\ SameRun(c, t) /\ SameLog(c, t)
        /\ t.exc = "none"
    BY ThrowFrame
  <1>2. Executions(t) = Executions(c) /\ (Refused(t) <=> Refused(c))
    BY <1>1 DEF SameLog, Executions, Refused
  <1>3. Len(c.replies) \in Nat
    BY LengthType
  <1>4. c.exc \in {"none", "error"} \cup Fault
    BY DEF ConnType
  <1> HIDE DEF t
  <1>5. CASE c.exc = "none"
    BY <1>3, <1>5 DEF CatchInAuth, SameCore, SameRun, One
  <1>6. CASE c.exc = "error"
    <2>1. CatchInAuth(c) = ServerFault(t, 500)
      BY <1>6 DEF CatchInAuth, t
    <2> QED BY <1>1, <1>2, <1>3, <1>6, <2>1, ServerFaultFrame
            DEF OneReply, SameCore, SameRun, SameLog, One
  <1>7. CASE c.exc \notin {"none", "error"}
    <2>1. CatchInAuth(c) = SendFault(t, c.exc) /\ c.exc \in Fault
      BY <1>4, <1>7 DEF CatchInAuth, t
    <2>2. SendFault(t, c.exc) \in ConnType /\ OneReply(t, SendFault(t, c.exc))
      BY <1>1, <2>1, SendFaultFrame
    <2>3. c.exc # "none"
      BY <1>7
    <2> QED BY <1>1, <1>2, <1>3, <2>1, <2>2, <2>3
            DEF OneReply, SameCore, SameRun, SameLog, One
  <1> QED BY <1>5, <1>6, <1>7

LEMMA CatchInRequestFrame ==
    ASSUME FaultStatusOK, NEW c \in ConnType
    PROVE  LET d == CatchInRequest(c) IN
           /\ d \in ConnType /\ d.exc = "none"
           /\ SameCore(c, d) /\ SameRun(c, d)
           /\ Executions(d) = Executions(c)
           /\ Refused(d) <=> Refused(c)
           /\ Len(d.replies) = Len(c.replies) + One(c.exc # "none")
  <1> DEFINE t == Throw(c, "none")
             text == [kind |-> "text", status |-> 500, fault |-> NoFault, headers |-> <<>>]
  <1>1. /\ t \in ConnType /\ SameCore(c, t) /\ SameRun(c, t) /\ SameLog(c, t)
        /\ t.exc = "none"
    BY ThrowFrame
  <1>2. Executions(t) = Executions(c) /\ (Refused(t) <=> Refused(c))
    BY <1>1 DEF SameLog, Executions, Refused
  <1>3. Len(c.replies) \in Nat
    BY LengthType
  <1>4. c.exc \in {"none", "error"} \cup Fault
    BY DEF ConnType
  <1>5. <<>> \in Seq(Header)
    OBVIOUS
  <1>6. text \in ReplyType /\ text.kind # "refused"
    BY <1>5 DEF ReplyType
  <1> HIDE DEF t
  <1>7. \A rep \in ReplyType :
            LET d == [t EXCEPT !.replies = Append(@, rep)] IN
            /\ rep.kind # "refused" => Refused(d) <=> Refused(t)
            /\ d \in ConnType /\ SameCore(t, d) /\ SameRun(t, d) /\ d.exc = t.exc
            /\ Executions(d) = Executions(t)
            /\ Len(d.replies) = Len(t.replies) + 1
    <2> SUFFICES ASSUME NEW rep \in ReplyType
                 PROVE  LET d == [t EXCEPT !.replies = Append(@, rep)] IN
                        /\ rep.kind # "refused" => Refused(d) <=> Refused(t)
                        /\ d \in ConnType /\ SameCore(t, d) /\ SameRun(t, d) /\ d.exc = t.exc
                        /\ Executions(d) = Executions(t)
                        /\ Len(d.replies) = Len(t.replies) + 1
      OBVIOUS
    <2> DEFINE d == [t EXCEPT !.replies = Append(@, rep)]
    <2>1. t.replies \in Seq(ReplyType)
      BY <1>1 DEF ConnType
    <2>2. Append(t.replies, rep) \in Seq(ReplyType)
      BY <2>1
    <2>3. \A s \in Seq(ReplyType) : [t EXCEPT !.replies = s] \in ConnType
      BY <1>1 DEF ConnType
    <2>4. d \in ConnType
      BY <2>2, <2>3
    <2>5. /\ SameCore(t, d) /\ SameRun(t, d) /\ d.exc = t.exc /\ d.events = t.events
          /\ d.replies = Append(t.replies, rep)
      BY <1>1 DEF ConnType, SameCore, SameRun
    <2> HIDE DEF d
    <2>6. rep.kind # "refused" => Refused(d) <=> Refused(t)
      BY <2>1, <2>5 DEF Refused
    <2>7. Len(d.replies) = Len(t.replies) + 1
      BY <2>1, <2>5
    <2> QED BY <2>4, <2>5, <2>6, <2>7 DEF Executions, d
  <1> HIDE DEF text
  <1>8. CASE c.exc = "none"
    BY <1>3, <1>8 DEF CatchInRequest, SameCore, SameRun, One
  <1>9. CASE c.exc = "error"
    <2>1. CatchInRequest(c) = [t EXCEPT !.replies = Append(@, text)]
      BY <1>9 DEF CatchInRequest, t, text
    <2> QED BY <1>1, <1>2, <1>3, <1>6, <1>7, <1>9, <2>1 DEF SameCore, SameRun, SameLog, One
  <1>10. CASE c.exc \notin {"none", "error"}
    <2>1. c.exc \in Fault
      BY <1>4, <1>10
    <2>2. CatchInRequest(c) = [t EXCEPT !.replies = Append(@, FaultReply(t, c.exc, 500))]
      BY <1>10 DEF CatchInRequest, t
    <2>3. /\ FaultReply(t, c.exc, 500) \in ReplyType
          /\ FaultReply(t, c.exc, 500).kind # "refused"
      BY <1>1, <2>1, FaultReplyType
    <2> DEFINE rep == FaultReply(t, c.exc, 500)
    <2>4. /\ Refused(CatchInRequest(c)) <=> Refused(t)
          /\ CatchInRequest(c) \in ConnType /\ SameCore(t, CatchInRequest(c))
          /\ SameRun(t, CatchInRequest(c)) /\ CatchInRequest(c).exc = t.exc
          /\ Executions(CatchInRequest(c)) = Executions(t)
          /\ Len(CatchInRequest(c).replies) = Len(t.replies) + 1
      <3> HIDE DEF rep
      <3> QED BY <1>7, <2>2, <2>3 DEF rep
    <2>5. c.exc # "none"
      BY <1>10
    <2> QED BY <1>1, <1>2, <1>3, <2>4, <2>5 DEF SameCore, SameRun, SameLog, One
  <1> QED BY <1>8, <1>9, <1>10

-----------------------------------------------------------------------------
(* Executing the operation. *)

\* Responses sent, and owed while the method's result is outstanding.
RunBalance(c) ==
    Len(c.replies) + One(c.handled = FALSE) + One(c.exc # "none") <= 1 + c.throws

LEMMA HandleResultFrame ==
    ASSUME FaultStatusOK, NEW c \in ConnType, c.exc = "none", NEW o
    PROVE  LET d == HandleResult(c, o) IN
           /\ d \in ConnType /\ SameCore(c, d)
           /\ d.methWait = c.methWait /\ d.throws = c.throws /\ d.handled = TRUE
           /\ Executions(d) = Executions(c)
           /\ Refused(d) <=> Refused(c)
           /\ c.handled = TRUE => d = c
           /\ c.handled = FALSE => Len(d.replies) + One(d.exc # "none") = Len(c.replies) + 1
  <1> DEFINE h == [c EXCEPT !.handled = TRUE]
  <1>1. /\ h \in ConnType /\ SameCore(c, h) /\ SameLog(c, h) /\ h.exc = c.exc
        /\ h.methWait = c.methWait /\ h.throws = c.throws /\ h.handled = TRUE
    BY DEF ConnType, SameCore, SameLog
  <1>2. Executions(h) = Executions(c) /\ (Refused(h) <=> Refused(c))
    BY <1>1 DEF SameLog, Executions, Refused
  <1>3. Len(c.replies) \in Nat
    BY LengthType
  <1> HIDE DEF h
  <1>4. CASE c.handled = TRUE
    BY <1>4 DEF HandleResult, SameCore
  <1>5. ASSUME NEW d \in ConnType, OneReply(h, d)
        PROVE  /\ d \in ConnType /\ SameCore(c, d)
               /\ d.methWait = c.methWait /\ d.throws = c.throws /\ d.handled = TRUE
               /\ Executions(d) = Executions(c)
               /\ Refused(d) <=> Refused(c)
               /\ Len(d.replies) + One(d.exc # "none") = Len(c.replies) + 1
    <2>1. SameCore(c, d)
      BY <1>1, <1>5 DEF OneReply, SameCore
    <2>2. d.methWait = c.methWait /\ d.throws = c.throws /\ d.handled = TRUE
      BY <1>1, <1>5 DEF OneReply, SameRun
    <2>3. Executions(d) = Executions(c) /\ (Refused(d) <=> Refused(c))
      BY <1>2, <1>5 DEF OneReply
    <2>4. d.exc = "none" /\ Len(d.replies) = Len(c.replies) + 1
      BY <1>1, <1>5 DEF OneReply, SameLog
    <2>5. Len(d.replies) + One(d.exc # "none") = Len(c.replies) + 1
      BY <1>3, <2>4 DEF One
    <2> QED BY <2>1, <2>2, <2>3, <2>5
  <1>6. CASE c.handled = FALSE /\ o.error \in Fault
    <2>1. HandleResult(c, o) = SendFault(h, o.error)
      BY <1>6 DEF HandleResult, h
    <2>2. SendFault(h, o.error) \in ConnType /\ OneReply(h, SendFault(h, o.error))
      BY <1>1, <1>6, SendFaultFrame
    <2> QED BY <1>5, <1>6, <2>1, <2>2
  <1>7. CASE c.handled = FALSE /\ o.error \notin Fault /\ o.error = "error"
    <2> DEFINE s == ServerFault(h, 500)
    <2>1. HandleResult(c, o) = s
      BY <1>7 DEF HandleResult, h
    <2>2. s \in ConnType /\ OneReply(h, s)
      BY <1>1, ServerFaultFrame
    <2> HIDE DEF s
    <2> QED BY <1>5, <1>7, <2>1, <2>2
  <1>8. CASE c.handled = FALSE /\ o.error \notin Fault /\ o.error # "error" /\ o.result = "bad"
    <2>1. HandleResult(c, o) = Throw(h, "error")
      BY <1>8 DEF HandleResult, h
    <2>2. /\ Throw(h, "error") \in ConnType /\ SameCore(h, Throw(h, "error"))
          /\ SameRun(h, Throw(h, "error")) /\ SameLog(h, Throw(h, "error"))
          /\ Throw(h, "error").exc = "error"
      BY <1>1, ThrowFrame
    <2>3. /\ Executions(Throw(h, "error")) = Executions(h)
          /\ Refused(Throw(h, "error")) <=> Refused(h)
      BY <2>2 DEF SameLog, Executions, Refused
    <2> QED BY <1>1, <1>2, <1>3, <1>8, <2>1, <2>2, <2>3 DEF SameCore, SameRun, SameLog, One
  <1>9. CASE c.handled = FALSE /\ o.error \notin Fault /\ o.error # "error" /\ o.result # "bad"
    <2>1. HandleResult(c, o) = SendResult(h, "result", 200)
      BY <1>9 DEF HandleResult, h
    <2>2. /\ SendResult(h, "result", 200) \in ConnType
          /\ OneReply(h, SendResult(h, "result", 200))
      BY <1>1, SendResultFrame
    <2> QED BY <1>5, <1>9, <2>1, <2>2
  <1>10. c.handled \in BOOLEAN
    BY DEF ConnType
  <1> QED BY <1>4, <1>6, <1>7, <1>8, <1>9, <1>10

\* A throw out of user code is a debt that the counter of throws covers.
LEMMA UserThrow ==
    ASSUME NEW c \in ConnType, NEW e \in {"error"} \cup Fault
    PROVE  LET d == [Throw(c, e) EXCEPT !.throws = @ + 1] IN
           /\ d \in ConnType /\ SameCore(c, d) /\ SameLog(c, d)
           /\ d.methWait = c.methWait /\ d.handled = c.handled
           /\ d.throws = c.throws + 1 /\ d.exc # "none"
           /\ Executions(d) = Executions(c) /\ (Refused(d) <=> Refused(c))
  <1> DEFINE d == [Throw(c, e) EXCEPT !.throws = @ + 1]
  <1>1. /\ Throw(c, e) \in ConnType /\ SameCore(c, Throw(c, e)) /\ SameRun(c, Throw(c, e))
        /\ SameLog(c, Throw(c, e)) /\ Throw(c, e).exc = e
    BY ThrowFrame
  <1>2. e # "none"
    BY FaultAssumption
  <1>3. /\ d \in ConnType /\ SameCore(c, d) /\ SameLog(c, d)
        /\ d.methWait = c.methWait /\ d.handled = c.handled
        /\ d.throws = c.throws + 1 /\ d.exc # "none"
    BY <1>1, <1>2 DEF ConnType, SameCore, SameRun, SameLog
  <1>4. Executions(d) = Executions(c) /\ (Refused(d) <=> Refused(c))
    BY <1>3 DEF SameLog, Executions, Refused
  <1> QED BY <1>3, <1>4

\* Taking a result turns the response owed for it into one sent or an exception.
LEMMA TakeResult ==
    ASSUME NEW c \in ConnType, NEW d \in ConnType, RunBalance(c), c.exc = "none",
           d.throws = c.throws, d.handled = TRUE,
           c.handled = TRUE => d = c,
           c.handled = FALSE => Len(d.replies) + One(d.exc # "none") = Len(c.replies) + 1
    PROVE  RunBalance(d)
  <1>1. /\ Len(c.replies) \in Nat /\ Len(d.replies) \in Nat
        /\ c.throws \in Nat
    BY LengthType
  <1>4. c.handled \in BOOLEAN
    BY DEF ConnType
  <1>2. CASE c.handled = TRUE
    BY <1>2
  <1>3. CASE c.handled = FALSE
    <2>1. Len(c.replies) + 1 <= 1 + c.throws
      <3>1. One(c.handled = FALSE) = 1
        BY <1>3 DEF One
      <3>2. One(c.exc # "none") = 0
        BY DEF One
      <3> QED BY <1>1, <3>1, <3>2 DEF RunBalance
    <2>2. One(d.handled = FALSE) = 0
      BY DEF One
    <2>3. One(d.exc # "none") \in Nat
      BY DEF One
    <2> QED BY <1>1, <1>3, <2>1, <2>2, <2>3 DEF RunBalance
  <1> QED BY <1>2, <1>3, <1>4

\* A call that throws adds one debt and one to the counter.
LEMMA ThrowBalance ==
    ASSUME NEW c \in ConnType, NEW d \in ConnType, RunBalance(c), c.exc = "none",
           d.throws = c.throws + 1, d.handled = c.handled, d.replies = c.replies
    PROVE  RunBalance(d)
  <1>1. Len(c.replies) \in Nat /\ c.throws \in Nat /\ One(c.handled = FALSE) \in Nat
    BY LengthType DEF One
  <1>2. One(c.exc # "none") = 0 /\ One(d.exc # "none") <= 1 /\ One(d.exc # "none") \in Nat
    BY DEF One
  <1>3. Len(d.replies) = Len(c.replies) /\ One(d.handled = FALSE) = One(c.handled = FALSE)
    OBVIOUS
  <1>4. Len(c.replies) + One(c.handled = FALSE) + One(c.exc # "none") <= 1 + c.throws
    BY DEF RunBalance
  <1>5. Len(d.replies) + One(d.handled = FALSE) + One(d.exc # "none") <= 1 + d.throws
    BY <1>1, <1>2, <1>3, <1>4
  <1> QED BY <1>5 DEF RunBalance

AtMostOneExecution(c) == \A i, j \in Executions(c) : i = j

\* An exception that stays with the user's code is a response that is never sent.
LEMMA HandleUncaughtRun ==
    ASSUME FaultStatusOK, NEW c \in ConnType, c.exc = "none", RunBalance(c), NEW o
    PROVE  LET d == HandleUncaught(c, o) IN
           /\ d \in ConnType /\ SameCore(c, d)
           /\ Executions(d) = Executions(c) /\ (Refused(d) <=> Refused(c))
           /\ RunBalance(d)
  <1> DEFINE h == HandleResult(c, o)
             t == Throw(h, "none")
             u == [t EXCEPT !.uncaught = TRUE]
  <1>1. /\ h \in ConnType /\ SameCore(c, h) /\ h.throws = c.throws /\ h.handled = TRUE
        /\ Executions(h) = Executions(c) /\ (Refused(h) <=> Refused(c))
        /\ c.handled = TRUE => h = c
        /\ c.handled = FALSE => Len(h.replies) + One(h.exc # "none") = Len(c.replies) + 1
    BY HandleResultFrame
  <1>2. PICK g : g = h
    OBVIOUS
  <1>3. RunBalance(h)
    BY <1>1, <1>2, TakeResult
  <1> HIDE DEF h
  <1>4. /\ t \in ConnType /\ SameCore(h, t) /\ SameRun(h, t) /\ SameLog(h, t)
        /\ t.exc = "none"
    BY <1>1, ThrowFrame
  <1> HIDE DEF t
  <1>5. /\ u \in ConnType /\ SameCore(h, u) /\ u.handled = h.handled
        /\ u.throws = h.throws /\ SameLog(h, u) /\ u.exc = "none"
    BY <1>4 DEF ConnType, SameCore, SameRun, SameLog
  <1> HIDE DEF u
  <1>6. Executions(u) = Executions(h) /\ (Refused(u) <=> Refused(h))
    BY <1>5 DEF SameLog, Executions, Refused
  <1>7. RunBalance(u)
    <2>1. Len(h.replies) \in Nat /\ h.throws \in Nat /\ One(h.handled = FALSE) \in Nat
      BY <1>1, LengthType DEF One
    <2>2. One(h.exc # "none") \in Nat /\ One(u.exc # "none") = 0
      BY <1>5 DEF One
    <2>3. Len(h.replies) + One(h.handled = FALSE) + One(h.exc # "none") <= 1 + h.throws
      BY <1>3 DEF RunBalance
    <2>4. Len(u.replies) = Len(h.replies) /\ One(u.handled = FALSE) = One(h.handled = FALSE)
      BY <1>5 DEF SameLog
    <2>5. Len(u.replies) + One(u.handled = FALSE) + One(u.exc # "none") <= 1 + u.throws
      BY <1>5, <2>1, <2>2, <2>3, <2>4
    <2> QED BY <2>5 DEF RunBalance
  <1>8. HandleUncaught(c, o) \in {h, u}
    BY DEF HandleUncaught, h, t, u
  <1> QED BY <1>1, <1>3, <1>5, <1>6, <1>7, <1>8 DEF SameCore

LEMMA CallMethodFrame ==
    ASSUME FaultStatusOK, NEW c \in ConnType, c.exc = "none", Executions(c) = {},
           RunBalance(c), NEW beh \in MethodBehaviourType
    PROVE  LET d == CallMethod(c, beh) IN
           /\ d \in ConnType /\ SameCore(c, d)
           /\ AtMostOneExecution(d)
           /\ Refused(d) <=> Refused(c)
           /\ RunBalance(d)
  <1> DEFINE called == Emit(c, "method")
             told   == IF beh.calls = NoCall THEN called
                       ELSE IF beh.catches
                       THEN HandleUncaught(called, CallbackArguments(beh.calls))
                       ELSE HandleResult(called, CallbackArguments(beh.calls))
             wait   == (IF beh.keeps THEN {"callback"} ELSE {})
                         \cup (IF beh.how = "promise" THEN {"promise"} ELSE {})
             kept   == [told EXCEPT !.methWait = wait]
  <1>1. /\ called \in ConnType /\ SameCore(c, called) /\ SameRun(c, called)
        /\ called.replies = c.replies /\ called.exc = "none"
        /\ AtMostOneExecution(called)
    BY EmitFrame DEF Event, AtMostOneExecution
  <1>2. (Refused(called) <=> Refused(c)) /\ RunBalance(called)
    BY <1>1 DEF Refused, RunBalance, SameRun
  <1> HIDE DEF called
  <1>4. /\ told \in ConnType /\ SameCore(c, told) /\ AtMostOneExecution(told)
        /\ Refused(told) <=> Refused(c)
        /\ RunBalance(told)
    <2>1. CASE beh.calls = NoCall
      BY <1>1, <1>2, <2>1
    <2>2. CASE beh.calls # NoCall /\ beh.catches
      <3> DEFINE o == CallbackArguments(beh.calls)
                 d == HandleUncaught(called, o)
      <3> HIDE DEF o
      <3>1. /\ d \in ConnType /\ SameCore(called, d)
            /\ Executions(d) = Executions(called) /\ (Refused(d) <=> Refused(called))
            /\ RunBalance(d)
        BY <1>1, <1>2, HandleUncaughtRun
      <3>2. told = d
        BY <2>2 DEF o
      <3> HIDE DEF told, d
      <3> QED BY <1>1, <1>2, <3>1, <3>2 DEF SameCore, AtMostOneExecution
    <2>3. CASE beh.calls # NoCall /\ ~beh.catches
      <3> DEFINE o == CallbackArguments(beh.calls)
      <3> HIDE DEF o
      <3>1. /\ HandleResult(called, o) \in ConnType /\ SameCore(called, HandleResult(called, o))
            /\ HandleResult(called, o).throws = called.throws
            /\ HandleResult(called, o).handled = TRUE
            /\ Executions(HandleResult(called, o)) = Executions(called)
            /\ Refused(HandleResult(called, o)) <=> Refused(called)
            /\ called.handled = TRUE => HandleResult(called, o) = called
            /\ called.handled = FALSE => Len(HandleResult(called, o).replies)
                    + One(HandleResult(called, o).exc # "none") = Len(called.replies) + 1
        BY <1>1, HandleResultFrame
      <3>2. told = HandleResult(called, o)
        BY <2>3 DEF o
      <3> HIDE DEF told
      <3>4. RunBalance(told)
        BY <1>1, <1>2, <3>1, <3>2, TakeResult DEF SameRun
      <3> QED BY <1>1, <1>2, <3>1, <3>2, <3>4 DEF SameCore, AtMostOneExecution
    <2> QED BY <2>1, <2>2, <2>3
  <1> HIDE DEF told
  <1>5. wait \in SUBSET Source
    BY DEF Source
  <1> HIDE DEF wait
  <1>6. /\ kept \in ConnType /\ SameCore(c, kept) /\ kept.exc = told.exc
        /\ kept.handled = told.handled /\ kept.throws = told.throws
        /\ SameLog(told, kept)
    BY <1>4, <1>5 DEF ConnType, SameCore, SameLog
  <1>7. /\ AtMostOneExecution(kept) /\ (Refused(kept) <=> Refused(c)) /\ RunBalance(kept)
    BY <1>4, <1>6 DEF SameLog, AtMostOneExecution, Executions, Refused, RunBalance
  <1> HIDE DEF kept
  <1>9. CASE told.exc # "none"
    <2>1. CallMethod(c, beh) = told
      BY <1>9 DEF CallMethod, told, called
    <2> QED BY <1>4, <2>1
  <1>10. CASE told.exc = "none" /\ beh.how = "throw"
    <2> DEFINE e == IF beh.what \in Fault THEN beh.what ELSE "error"
    <2>1. e \in {"error"} \cup Fault
      OBVIOUS
    <2> HIDE DEF e
    <2> DEFINE d == [Throw(kept, e) EXCEPT !.throws = @ + 1]
    <2>2. CallMethod(c, beh) = d
      BY <1>10 DEF CallMethod, told, called, kept, wait, e
    <2>3. /\ d \in ConnType /\ SameCore(kept, d) /\ SameLog(kept, d)
          /\ d.handled = kept.handled
          /\ d.throws = kept.throws + 1
          /\ Executions(d) = Executions(kept) /\ (Refused(d) <=> Refused(kept))
      BY <1>6, <2>1, UserThrow
    <2> HIDE DEF d
    <2>4. RunBalance(d)
      BY <1>6, <1>7, <1>10, <2>3, ThrowBalance DEF SameLog
    <2> QED BY <1>6, <1>7, <2>2, <2>3, <2>4 DEF SameCore, AtMostOneExecution
  <1>11. CASE told.exc = "none" /\ beh.how = "return" /\ beh.what # "undefined"
    <2> DEFINE o == [error |-> "null", result |-> beh.what]
    <2>1. CallMethod(c, beh) = HandleResult(kept, o)
      BY <1>11 DEF CallMethod, told, called, kept, wait
    <2> HIDE DEF o
    <2>2. kept \in ConnType /\ kept.exc = "none"
      BY <1>6, <1>11
    <2>3. /\ HandleResult(kept, o) \in ConnType /\ SameCore(kept, HandleResult(kept, o))
          /\ HandleResult(kept, o).throws = kept.throws /\ HandleResult(kept, o).handled = TRUE
          /\ Executions(HandleResult(kept, o)) = Executions(kept)
          /\ Refused(HandleResult(kept, o)) <=> Refused(kept)
          /\ kept.handled = TRUE => HandleResult(kept, o) = kept
          /\ kept.handled = FALSE => Len(HandleResult(kept, o).replies)
                  + One(HandleResult(kept, o).exc # "none") = Len(kept.replies) + 1
      BY <2>2, HandleResultFrame
    <2>4. PICK d : d = HandleResult(kept, o)
      OBVIOUS
    <2>5. RunBalance(d)
      BY <1>6, <1>7, <1>11, <2>3, <2>4, TakeResult
    <2> QED BY <1>6, <1>7, <2>1, <2>3, <2>4, <2>5 DEF SameCore, AtMostOneExecution
  <1>12. CASE told.exc = "none" /\ beh.how # "throw" /\ ~(beh.how = "return" /\ beh.what # "undefined")
    <2>1. CallMethod(c, beh) = kept
      BY <1>12 DEF CallMethod, told, called, kept, wait
    <2> QED BY <1>6, <1>7, <2>1
  <1> QED BY <1>9, <1>10, <1>11, <1>12

-----------------------------------------------------------------------------
(* Choosing the operation. *)

LEMMA MinOfNats ==
    ASSUME NEW S \in SUBSET Nat, S # {}
    PROVE  Min(S) \in S
  <1>1. \E x \in S : \A y \in S : ~(<<y, x>> \in OpToRel(<, Nat))
    BY NatLessThanWellFounded, WFMin
  <1>2. PICK x \in S : \A y \in S : ~(<<y, x>> \in OpToRel(<, Nat))
    BY <1>1
  <1>3. \A y \in S : ~(y < x)
    BY <1>2, Zenon DEF OpToRel
  <1>4. \A y \in S : x <= y
    BY <1>3
  <1> QED BY <1>4 DEF Min

LEMMA FindBindingType ==
    ASSUME NEW path, Ports # <<>>
    PROVE  LET f == FindBinding(path) IN
           f.service \in STRING /\ f.port \in STRING /\ f.binding \in DOMAIN Bindings
  <1> DEFINE hits == {i \in DOMAIN Ports : Ports[i].path = path}
             PT == [service : STRING, name : STRING, path : STRING, binding : DOMAIN Bindings]
             ST == [name : STRING, ports : Seq([name : STRING, path : STRING,
                                                binding : DOMAIN Bindings])]
  <1>1. Ports \in Seq(PT) /\ Services \in Seq(ST) /\ Services # <<>>
    BY WsdlAssumption
  <1> HIDE DEF PT, ST
  <1>2. /\ Len(Ports) \in 1..Len(Ports) /\ 1 \in 1..Len(Ports)
        /\ Len(Services) \in 1..Len(Services)
    BY <1>1
  <1>3. \A i \in 1..Len(Ports) : Ports[i] \in PT
    BY <1>1, ElementOfSeq
  <1>4. Services[Len(Services)] \in ST
    BY <1>1, <1>2, ElementOfSeq
  <1>5. hits \in SUBSET Nat /\ hits \subseteq 1..Len(Ports)
    BY <1>1
  <1>6. hits # {} => Min(hits) \in 1..Len(Ports)
    BY <1>5, MinOfNats
  <1> HIDE DEF hits
  <1>7. CASE hits # {}
    <2>1. Ports[Min(hits)] \in PT
      BY <1>3, <1>6, <1>7
    <2> QED BY <1>7, <2>1 DEF FindBinding, hits, PT
  <1>8. CASE hits = {}
    <2>1. Ports[1] \in PT /\ Ports[Len(Ports)] \in PT
      BY <1>2, <1>3
    <2> QED BY <1>4, <1>8, <2>1 DEF FindBinding, hits, PT, ST
  <1> QED BY <1>7, <1>8

LEMMA MethodNameType ==
    ASSUME NEW b \in DOMAIN Bindings, NEW m, HasMethod(b, m)
    PROVE  m \in STRING
  <1>1. Bindings[b].methods \in Seq(MethodEntry)
    BY WsdlAssumption
  <1>2. PICK i \in DOMAIN Bindings[b].methods : Bindings[b].methods[i].name = m
    BY DEF HasMethod
  <1>3. i \in 1..Len(Bindings[b].methods)
    BY <1>1, <1>2
  <1>4. Bindings[b].methods[i] \in MethodEntry
    BY <1>1, <1>3, ElementOfSeq
  <1> QED BY <1>2, <1>4 DEF MethodEntry

-----------------------------------------------------------------------------
(* From the decision to execute a request to the end of that callback. *)

\* A request whose auth result has just been taken.
Unstarted(c) ==
    /\ c \in ConnType
    /\ c.exc = "none" /\ c.op = NoOperation /\ c.handled = FALSE
    /\ c.methWait = {} /\ Executions(c) = {}
    /\ Len(c.replies) <= c.throws
    /\ ~Refused(c)

\* What executing c leaves: at most one execution, and its balance.
Executed(c, d) ==
    /\ d \in ConnType
    /\ d.stage = c.stage /\ d.authWait = c.authWait /\ d.verdict = c.verdict
    /\ AtMostOneExecution(d)
    /\ d.op = NoOperation => Executions(d) = {} /\ d.methWait = {} /\ d.handled = FALSE
    /\ ~Refused(d)
    /\ d.op = NoOperation => Len(d.replies) + One(d.exc # "none") <= 1 + d.throws
    /\ d.op # NoOperation => RunBalance(d)

LEMMA AnswerOneWayFrame ==
    ASSUME NEW c \in ConnType
    PROVE  LET d == AnswerOneWay(c) IN
           /\ d \in ConnType /\ SameCore(c, d) /\ d.exc = c.exc
           /\ d.methWait = c.methWait /\ d.throws = c.throws /\ d.handled = TRUE
           /\ Executions(d) = Executions(c)
           /\ Refused(d) <=> Refused(c)
           /\ Len(d.replies) = Len(c.replies) + 1
  <1> DEFINE h == [c EXCEPT !.handled = TRUE]
             rep == [kind |-> "oneway", status |-> HttpStatus(OneWayCode, 200),
                     fault |-> NoFault,
                     headers |-> IF OneWayEnvelope THEN c.headers ELSE <<>>]
  <1>1. /\ h \in ConnType /\ SameCore(c, h) /\ SameLog(c, h) /\ h.exc = c.exc
        /\ h.methWait = c.methWait /\ h.throws = c.throws /\ h.handled = TRUE
    BY DEF ConnType, SameCore, SameLog
  <1>2. Executions(h) = Executions(c) /\ (Refused(h) <=> Refused(c))
    BY <1>1 DEF SameLog, Executions, Refused
  <1>3. HttpStatus(OneWayCode, 200) \in Nat
    BY OptionAssumption DEF HttpStatus
  <1>4. c.headers \in Seq(Header) /\ <<>> \in Seq(Header)
    BY DEF ConnType
  <1>5. rep \in ReplyType /\ rep.kind # "refused"
    BY <1>3, <1>4 DEF ReplyType
  <1> HIDE DEF h, rep
  <1>6. AnswerOneWay(c) = Reply(h, rep)
    BY DEF AnswerOneWay, h, rep
  <1>7. Reply(h, rep) \in ConnType /\ OneReply(h, Reply(h, rep))
    BY <1>1, <1>5, ReplyFrame
  <1> DEFINE d == Reply(h, rep)
  <1> HIDE DEF d
  <1>8. d \in ConnType /\ OneReply(h, d) /\ AnswerOneWay(c) = d
    BY <1>6, <1>7 DEF d
  <1>9. SameCore(c, d)
    BY <1>1, <1>8 DEF OneReply, SameCore
  <1>10. /\ d.exc = c.exc /\ d.methWait = c.methWait /\ d.throws = c.throws
         /\ d.handled = TRUE
    BY <1>1, <1>8 DEF OneReply, SameRun
  <1>11. Executions(d) = Executions(c) /\ (Refused(d) <=> Refused(c))
    BY <1>2, <1>8 DEF OneReply
  <1>12. Len(d.replies) = Len(c.replies) + 1
    BY <1>1, <1>8 DEF OneReply, SameLog
  <1> QED BY <1>8, <1>9, <1>10, <1>11, <1>12

\* Throwing or replying once, with no operation started, executes the request.
LEMMA EndUnstarted ==
    ASSUME NEW c, Unstarted(c), NEW d \in ConnType,
           SameCore(c, d), SameRun(c, d), Executions(d) = {}, ~Refused(d),
           Len(d.replies) + One(d.exc # "none") <= Len(c.replies) + 1
    PROVE  Executed(c, d)
  <1>1. d.op = NoOperation /\ d.methWait = {} /\ d.handled = FALSE
    BY DEF Unstarted, SameCore, SameRun
  <1>2. Len(c.replies) \in Nat /\ c.throws \in Nat /\ Len(d.replies) \in Nat
    BY LengthType DEF Unstarted
  <1>3. One(d.exc # "none") \in Nat /\ d.throws = c.throws /\ Len(c.replies) <= c.throws
    BY DEF One, SameRun, Unstarted
  <1>4. Len(d.replies) + One(d.exc # "none") <= 1 + d.throws
    BY <1>2, <1>3
  <1>5. AtMostOneExecution(d)
    BY DEF AtMostOneExecution
  <1>6. d.stage = c.stage /\ d.authWait = c.authWait /\ d.verdict = c.verdict
    BY DEF SameCore
  <1> QED BY <1>1, <1>4, <1>5, <1>6 DEF Executed

LEMMA ExecuteMethodFrame ==
    ASSUME FaultStatusOK, soapHeaders \in Seq(Header), NEW c, Unstarted(c),
           NEW f, f.service \in STRING, f.port \in STRING, f.binding \in DOMAIN Bindings,
           NEW m \in STRING, NEW beh \in MethodBehaviourType
    PROVE  Executed(c, ExecuteMethod(c, f, m, beh))
  <1> DEFINE opened == [c EXCEPT !.headers = soapHeaders]
             op == [service |-> f.service, port |-> f.port, method |-> m,
                    binding |-> f.binding]
             started == [opened EXCEPT !.op = op]
             ready == IF MethodOf(BindingAt(f.service, f.port), m).output THEN started
                      ELSE AnswerOneWay(started)
  <1>1. c \in ConnType
    BY DEF Unstarted
  <1>2. /\ opened \in ConnType /\ SameCore(c, opened) /\ SameRun(c, opened)
        /\ SameLog(c, opened) /\ opened.exc = c.exc
    BY <1>1 DEF ConnType, SameCore, SameRun, SameLog
  <1>3. Executions(opened) = Executions(c) /\ (Refused(opened) <=> Refused(c))
    BY <1>2 DEF SameLog, Executions, Refused
  <1>4. Unstarted(opened)
    BY <1>2, <1>3 DEF Unstarted, SameCore, SameRun, SameLog
  <1>5. op \in Operation /\ op # NoOperation
    BY NullAssumption DEF Operation
  <1> HIDE DEF op, opened
  <1>6. /\ started \in ConnType /\ started.op = op /\ SameRun(opened, started)
        /\ started.stage = opened.stage /\ started.authWait = opened.authWait
        /\ started.verdict = opened.verdict /\ SameLog(opened, started)
        /\ started.exc = opened.exc
    BY <1>2, <1>5 DEF ConnType, SameRun, SameLog
  <1>7. /\ Executions(started) = {} /\ ~Refused(started)
        /\ Len(started.replies) = Len(opened.replies)
    BY <1>4, <1>6 DEF SameLog, Executions, Refused, Unstarted
  <1> HIDE DEF started
  <1>8. /\ Len(started.replies) \in Nat /\ started.throws \in Nat
        /\ Len(started.replies) <= started.throws
        /\ started.handled = FALSE /\ started.exc = "none"
    BY <1>4, <1>6, <1>7, LengthType DEF SameRun, Unstarted
  <1>9. RunBalance(started)
    <2>1. One(started.handled = FALSE) = 1 /\ One(started.exc # "none") = 0
      BY <1>8 DEF One
    <2> QED BY <1>8, <2>1 DEF RunBalance
  <1>10. /\ ready \in ConnType /\ SameCore(started, ready) /\ ready.exc = "none"
         /\ Executions(ready) = {} /\ ~Refused(ready) /\ RunBalance(ready)
    <2> DEFINE a == AnswerOneWay(started)
    <2>1. /\ a \in ConnType /\ SameCore(started, a) /\ a.exc = started.exc
          /\ a.throws = started.throws /\ a.handled = TRUE
          /\ Executions(a) = Executions(started)
          /\ Refused(a) <=> Refused(started)
          /\ Len(a.replies) = Len(started.replies) + 1
      BY <1>6, AnswerOneWayFrame
    <2> HIDE DEF a
    <2>2. RunBalance(a)
      <3>1. One(a.handled = FALSE) = 0 /\ One(a.exc # "none") = 0
        BY <1>8, <2>1 DEF One
      <3> QED BY <1>8, <2>1, <3>1 DEF RunBalance
    <2>3. ready = started \/ ready = a
      BY DEF a
    <2>4. SameCore(started, started)
      BY DEF SameCore
    <2> HIDE DEF ready
    <2> QED BY <1>6, <1>7, <1>8, <1>9, <2>1, <2>2, <2>3, <2>4
  <1> HIDE DEF ready
  <1>11. ASSUME NEW d \in ConnType, SameCore(ready, d), AtMostOneExecution(d),
                ~Refused(d), RunBalance(d)
         PROVE  Executed(c, d)
    <2>1. d.op = op
      BY <1>6, <1>10, <1>11 DEF SameCore
    <2>2. d.stage = c.stage /\ d.authWait = c.authWait /\ d.verdict = c.verdict
      BY <1>2, <1>6, <1>10, <1>11 DEF SameCore
    <2> QED BY <1>5, <1>11, <2>1, <2>2 DEF Executed
  <1>12. ASSUME NEW d, Executed(opened, d)
         PROVE  Executed(c, d)
    BY <1>2, <1>12 DEF Executed, SameCore
  <1>13. CASE ~HasPort(f.service, f.port)
    <2> DEFINE d == Throw(c, "error")
    <2>1. ExecuteMethod(c, f, m, beh) = d
      BY <1>13 DEF ExecuteMethod
    <2>2. /\ d \in ConnType /\ SameCore(c, d) /\ SameRun(c, d) /\ SameLog(c, d)
      BY <1>1, ThrowFrame
    <2> HIDE DEF d
    <2>3. /\ Executions(d) = {} /\ ~Refused(d)
          /\ Len(d.replies) + One(d.exc # "none") <= Len(c.replies) + 1
      BY <1>1, <2>2, LengthType DEF SameLog, Executions, Refused, Unstarted, One
    <2> QED BY <2>1, <2>2, <2>3, EndUnstarted
  <1>14. CASE HasPort(f.service, f.port) /\ <<f.service, f.port>> \notin Implemented
    <2> DEFINE d == SendResult(opened, "empty", 200)
    <2>1. ExecuteMethod(c, f, m, beh) = d
      BY <1>14 DEF ExecuteMethod, opened
    <2>2. d \in ConnType /\ OneReply(opened, d)
      BY <1>2, SendResultFrame
    <2> HIDE DEF d
    <2>3. /\ SameCore(opened, d) /\ SameRun(opened, d) /\ d.exc = "none"
          /\ Executions(d) = {} /\ ~Refused(d)
          /\ Len(d.replies) = Len(opened.replies) + 1
      BY <1>4, <2>2 DEF OneReply, Unstarted
    <2>4. Len(d.replies) + One(d.exc # "none") <= Len(opened.replies) + 1
      BY <1>2, <2>3, LengthType DEF One
    <2> QED BY <1>4, <1>12, <2>1, <2>2, <2>3, <2>4, EndUnstarted
  <1>15. CASE /\ HasPort(f.service, f.port) /\ <<f.service, f.port>> \in Implemented
              /\ ~HasMethod(BindingAt(f.service, f.port), m)
    <2> DEFINE d == Throw(opened, "error")
    <2>1. ExecuteMethod(c, f, m, beh) = d
      BY <1>15 DEF ExecuteMethod, opened
    <2>2. /\ d \in ConnType /\ SameCore(opened, d) /\ SameRun(opened, d) /\ SameLog(opened, d)
      BY <1>2, ThrowFrame
    <2> HIDE DEF d
    <2>3. /\ Executions(d) = {} /\ ~Refused(d)
          /\ Len(d.replies) + One(d.exc # "none") <= Len(opened.replies) + 1
      BY <1>2, <1>4, <2>2, LengthType DEF SameLog, Executions, Refused, Unstarted, One
    <2> QED BY <1>4, <1>12, <2>1, <2>2, <2>3, EndUnstarted
  <1>16. CASE /\ HasPort(f.service, f.port) /\ <<f.service, f.port>> \in Implemented
              /\ HasMethod(BindingAt(f.service, f.port), m)
              /\ <<f.service, f.port, m>> \notin Handlers
    <2> DEFINE d == CallMissingMethod(ready)
    <2>1. ExecuteMethod(c, f, m, beh) = d
      BY <1>16 DEF ExecuteMethod, ready, started, opened, op
    <2>2. /\ d \in ConnType /\ SameCore(ready, d) /\ SameLog(ready, d)
          /\ d.handled = ready.handled /\ d.throws = ready.throws + 1
          /\ Executions(d) = Executions(ready) /\ (Refused(d) <=> Refused(ready))
      BY <1>10, UserThrow DEF CallMissingMethod
    <2> HIDE DEF d
    <2>3. RunBalance(d)
      BY <1>10, <2>2, ThrowBalance DEF SameLog
    <2>4. AtMostOneExecution(d)
      BY <1>10, <2>2 DEF AtMostOneExecution
    <2> QED BY <1>10, <1>11, <2>1, <2>2, <2>3, <2>4
  <1>17. CASE /\ HasPort(f.service, f.port) /\ <<f.service, f.port>> \in Implemented
              /\ HasMethod(BindingAt(f.service, f.port), m)
              /\ <<f.service, f.port, m>> \in Handlers
    <2> DEFINE d == CallMethod(ready, beh)
    <2>1. ExecuteMethod(c, f, m, beh) = d
      BY <1>17 DEF ExecuteMethod, ready, started, opened, op
    <2>2. /\ d \in ConnType /\ SameCore(ready, d) /\ AtMostOneExecution(d)
          /\ (Refused(d) <=> Refused(ready)) /\ RunBalance(d)
      BY <1>10, CallMethodFrame
    <2> HIDE DEF d
    <2> QED BY <1>10, <1>11, <2>1, <2>2
  <1> QED BY <1>13, <1>14, <1>15, <1>16, <1>17

LEMMA AnnounceFrame ==
    ASSUME NEW c, Unstarted(c)
    PROVE  LET d == Announce(c) IN
           Unstarted(d) /\ SameCore(c, d) /\ SameRun(c, d) /\ d.replies = c.replies
  <1> DEFINE e == Emit(c, "request")
             g == Emit(e, "headers")
  <1>1. /\ e \in ConnType /\ SameCore(c, e) /\ SameRun(c, e)
        /\ e.replies = c.replies /\ e.exc = c.exc /\ Executions(e) = Executions(c)
    BY EmitFrame DEF Unstarted, Event
  <1>2. /\ g \in ConnType /\ SameCore(e, g) /\ SameRun(e, g)
        /\ g.replies = e.replies /\ g.exc = e.exc /\ Executions(g) = Executions(e)
    BY <1>1, EmitFrame DEF Event
  <1>3. Announce(c) = g \/ Announce(c) = e
    BY DEF Announce
  <1> HIDE DEF e, g
  <1>4. Unstarted(e)
    BY <1>1 DEF Unstarted, SameCore, SameRun, Refused
  <1>5. Unstarted(g) /\ SameCore(c, g) /\ SameRun(c, g) /\ g.replies = c.replies
    BY <1>1, <1>2, <1>4 DEF Unstarted, SameCore, SameRun, Refused
  <1> QED BY <1>1, <1>3, <1>4, <1>5

LEMMA ThrowUnstarted ==
    ASSUME NEW c, Unstarted(c)
    PROVE  Executed(c, Throw(c, "error"))
  <1> DEFINE d == Throw(c, "error")
  <1>1. c \in ConnType
    BY DEF Unstarted
  <1>2. /\ d \in ConnType /\ SameCore(c, d) /\ SameRun(c, d) /\ SameLog(c, d)
    BY <1>1, ThrowFrame
  <1> HIDE DEF d
  <1>3. /\ Executions(d) = {} /\ ~Refused(d)
        /\ Len(d.replies) + One(d.exc # "none") <= Len(c.replies) + 1
    BY <1>1, <1>2, LengthType DEF SameLog, Executions, Refused, Unstarted, One
  <1>4. Executed(c, d)
    BY <1>2, <1>3, EndUnstarted
  <1> QED BY <1>4 DEF d

LEMMA ProcessFrame ==
    ASSUME FaultStatusOK, soapHeaders \in Seq(Header), NEW c, Unstarted(c),
           NEW beh \in MethodBehaviourType
    PROVE  Executed(c, Process(c, beh))
  <1> DEFINE f == FindBinding(c.msg.path)
             m == TargetMethod(f.binding, c.msg)
             a == Announce(c)
  <1>1. Unstarted(a) /\ SameCore(c, a)
    BY AnnounceFrame
  <1> HIDE DEF a
  <1>2. ASSUME NEW d, Executed(a, d)
        PROVE  Executed(c, d)
    BY <1>1, <1>2 DEF Executed, SameCore
  <1>3. CASE Ports = <<>> \/ ~HasMethod(f.binding, m)
    <2>1. Process(c, beh) = Throw(c, "error")
      BY <1>3 DEF Process
    <2> QED BY <2>1, ThrowUnstarted
  <1>4. CASE /\ Ports # <<>> /\ HasMethod(f.binding, m)
             /\ StyleOf(f.binding, m) # "rpc" /\ ~HasPair(f.binding, c.msg)
    <2>1. Process(c, beh) = Throw(a, "error")
      BY <1>4 DEF Process, a
    <2> QED BY <1>1, <1>2, <2>1, ThrowUnstarted
  <1>5. CASE /\ Ports # <<>> /\ HasMethod(f.binding, m)
             /\ ~(StyleOf(f.binding, m) # "rpc" /\ ~HasPair(f.binding, c.msg))
    <2>1. Process(c, beh) = ExecuteMethod(a, f, m, beh)
      BY <1>5 DEF Process, a
    <2>2. f.service \in STRING /\ f.port \in STRING /\ f.binding \in DOMAIN Bindings
      BY <1>5, FindBindingType
    <2>3. m \in STRING
      BY <1>5, <2>2, MethodNameType
    <2> HIDE DEF f, m
    <2>4. Executed(a, ExecuteMethod(a, f, m, beh))
      BY <1>1, <2>2, <2>3, ExecuteMethodFrame
    <2> QED BY <1>2, <2>1, <2>4
  <1> QED BY <1>3, <1>4, <1>5

-----------------------------------------------------------------------------
(* The inductive invariant of one request. *)

Owed(c) ==
    IF c.verdict = "none" THEN One(c.stage # "closed")
    ELSE One(c.op # NoOperation /\ c.handled = FALSE)

Balance(c) == Len(c.replies) + Owed(c) + One(c.exc # "none") <= 1 + c.throws

Shape(c) ==
    /\ AtMostOneExecution(c)
    /\ c.op = NoOperation => Executions(c) = {} /\ c.methWait = {} /\ c.handled = FALSE
    /\ c.op # NoOperation => c.verdict = "yes"
    /\ Refused(c) => c.verdict = "no"
    /\ c.stage \in {"new", "reading"} => c.verdict = "none" /\ c.authWait = {}
    /\ c.stage = "closed" => c.authWait = {} /\ c.verdict = "none"

Sound(c) == c \in ConnType /\ Shape(c) /\ Balance(c)

LEMMA ProcessAuthResultFrame ==
    ASSUME FaultStatusOK, soapHeaders \in Seq(Header),
           NEW c, Sound(c), c.exc = "none", c.stage = "open",
           NEW v \in Verdict, NEW beh \in MethodBehaviourType
    PROVE  LET d == ProcessAuthResult(c, v, beh) IN
           /\ Sound(d) /\ d.exc = "none" /\ d.verdict # "none"
           /\ d.stage = c.stage /\ d.authWait = c.authWait
  <1> DEFINE h == [c EXCEPT !.verdict = v]
  <1>1. c \in ConnType /\ v # "none"
    BY DEF Sound, Verdict
  <1>2. /\ h \in ConnType /\ h.verdict = v /\ SameRun(c, h) /\ SameLog(c, h)
        /\ h.stage = c.stage /\ h.authWait = c.authWait /\ h.op = c.op
        /\ h.exc = "none"
    BY <1>1 DEF ConnType, SameRun, SameLog
  <1> HIDE DEF h
  <1>3. CASE c.verdict # "none"
    <2>1. ProcessAuthResult(c, v, beh) = c
      BY <1>3 DEF ProcessAuthResult
    <2> QED BY <1>3, <2>1
  <1>4. CASE c.verdict = "none"
    <2>1. c.op = NoOperation
      BY <1>4 DEF Sound, Shape
    <2>2. /\ Executions(c) = {} /\ c.methWait = {} /\ c.handled = FALSE
      BY <2>1 DEF Sound, Shape
    <2>3. ~Refused(c)
      BY <1>4 DEF Sound, Shape
    <2>4. Len(c.replies) \in Nat /\ c.throws \in Nat
      BY <1>1, LengthType
    <2>5. Len(c.replies) <= c.throws
      <3>1. Owed(c) = 1 /\ One(c.exc # "none") = 0
        BY <1>4 DEF Owed, One
      <3>2. Len(c.replies) + Owed(c) + One(c.exc # "none") <= 1 + c.throws
        BY DEF Sound, Balance
      <3> QED BY <2>4, <3>1, <3>2
    <2>6. Unstarted(h)
      BY <1>2, <2>1, <2>2, <2>3, <2>5
         DEF Unstarted, SameRun, SameLog, Executions, Refused
    <2>7. ASSUME NEW d \in ConnType, SameCore(h, d), SameRun(h, d), d.exc = "none",
                 Executions(d) = Executions(h), Refused(d) => v = "no",
                 Len(d.replies) <= Len(h.replies) + 1
          PROVE  /\ Sound(d) /\ d.exc = "none" /\ d.verdict # "none"
                 /\ d.stage = c.stage /\ d.authWait = c.authWait
      <3>1. /\ d.stage = "open" /\ d.verdict = v /\ d.op = NoOperation
            /\ d.authWait = c.authWait
        BY <1>2, <2>1, <2>7 DEF SameCore
      <3>2. d.methWait = {} /\ d.handled = FALSE /\ d.throws = c.throws
        BY <1>2, <2>2, <2>7 DEF SameRun
      <3>3. Executions(d) = {}
        BY <2>6, <2>7 DEF Unstarted
      <3>4. Shape(d)
        BY <2>7, <3>1, <3>2, <3>3 DEF Shape, AtMostOneExecution
      <3>5. Owed(d) = 0 /\ One(d.exc # "none") = 0
        BY <1>1, <2>7, <3>1 DEF Owed, One
      <3>6. Len(d.replies) \in Nat /\ Len(d.replies) <= Len(c.replies) + 1
        BY <1>2, <2>7, LengthType DEF SameLog
      <3>7. Balance(d)
        BY <2>4, <2>5, <3>2, <3>5, <3>6 DEF Balance
      <3> QED BY <1>1, <2>7, <3>1, <3>4, <3>7 DEF Sound
    <2>8. Len(h.replies) \in Nat
      BY <1>2, LengthType
    <2>9. CASE v = "error"
      <3> DEFINE d == ServerFault(h, 500)
      <3>1. ProcessAuthResult(c, v, beh) = d
        BY <1>4, <2>9 DEF ProcessAuthResult, h
      <3>2. d \in ConnType /\ OneReply(h, d)
        BY <1>2, ServerFaultFrame
      <3> HIDE DEF d
      <3>3. /\ SameCore(h, d) /\ SameRun(h, d) /\ d.exc = "none"
            /\ Executions(d) = Executions(h) /\ ~Refused(d)
            /\ Len(d.replies) <= Len(h.replies) + 1
        BY <1>2, <2>6, <2>8, <3>2 DEF OneReply, Unstarted
      <3> QED BY <2>7, <3>1, <3>2, <3>3
    <2>10. CASE v = "no"
      <3> DEFINE d == ServerFault(h, 401)
      <3>1. ProcessAuthResult(c, v, beh) = d
        BY <1>4, <2>10 DEF ProcessAuthResult, h
      <3>2. /\ d \in ConnType /\ SameCore(h, d) /\ SameRun(h, d) /\ d.exc = "none"
            /\ Executions(d) = Executions(h) /\ Len(d.replies) = Len(h.replies) + 1
        BY <1>2, ServerFaultFrame
      <3> HIDE DEF d
      <3> QED BY <2>7, <2>8, <2>10, <3>1, <3>2
    <2>11. CASE v = "other"
      <3>1. ProcessAuthResult(c, v, beh) = h
        BY <1>4, <2>11 DEF ProcessAuthResult, h
      <3>2. SameCore(h, h) /\ SameRun(h, h)
        BY DEF SameCore, SameRun
      <3> QED BY <1>2, <2>6, <2>7, <2>8, <3>1, <3>2 DEF Unstarted
    <2>12. CASE v = "yes"
      <3> DEFINE p == Process(h, beh)
                 d == CatchInAuth(p)
      <3>1. ProcessAuthResult(c, v, beh) = d
        BY <1>4, <2>12 DEF ProcessAuthResult, h
      <3>2. Executed(h, p)
        BY <2>6, ProcessFrame
      <3> HIDE DEF p
      <3>3. p \in ConnType
        BY <3>2 DEF Executed
      <3>4. /\ d \in ConnType /\ d.exc = "none" /\ SameCore(p, d) /\ SameRun(p, d)
            /\ Executions(d) = Executions(p) /\ (Refused(d) <=> Refused(p))
            /\ Len(d.replies) = Len(p.replies) + One(p.exc # "none")
        BY <3>3, CatchInAuthFrame
      <3> HIDE DEF d
      <3>5. /\ d.stage = "open" /\ d.authWait = c.authWait /\ d.verdict = "yes"
            /\ d.op = p.op
        BY <1>2, <2>12, <3>2, <3>4 DEF Executed, SameCore
      <3>6. Shape(d)
        BY <3>2, <3>4, <3>5 DEF Executed, Shape, SameRun, AtMostOneExecution
      <3>7. /\ Len(d.replies) \in Nat /\ Len(p.replies) \in Nat
            /\ One(p.exc # "none") \in Nat /\ p.throws \in Nat
        BY <3>3, <3>4, LengthType DEF One
      <3>8. d.throws = p.throws /\ d.handled = p.handled /\ One(d.exc # "none") = 0
        BY <3>4 DEF SameRun, One
      <3>9. Balance(d)
        <4>1. CASE p.op = NoOperation
          <5>1. Len(p.replies) + One(p.exc # "none") <= 1 + p.throws
            BY <3>2, <4>1 DEF Executed
          <5>2. Owed(d) = 0
            BY <3>5, <4>1 DEF Owed, One
          <5> QED BY <3>4, <3>7, <3>8, <5>1, <5>2 DEF Balance
        <4>2. CASE p.op # NoOperation
          <5>1. Len(p.replies) + One(p.handled = FALSE) + One(p.exc # "none") <= 1 + p.throws
            BY <3>2, <4>2 DEF Executed, RunBalance
          <5>2. Owed(d) = One(p.handled = FALSE) /\ One(p.handled = FALSE) \in Nat
            BY <3>5, <3>8, <4>2 DEF Owed, One
          <5> QED BY <3>4, <3>7, <3>8, <5>1, <5>2 DEF Balance
        <4> QED BY <4>1, <4>2
      <3> QED BY <1>2, <3>1, <3>4, <3>5, <3>6, <3>9 DEF Sound
    <2> QED BY <2>9, <2>10, <2>11, <2>12 DEF Verdict
  <1> QED BY <1>3, <1>4

\* Changing which sources are outstanding disturbs nothing.
LEMMA AuthWaitFrame ==
    ASSUME NEW c, Sound(c), c.stage = "open", NEW w \in SUBSET Source
    PROVE  LET d == [c EXCEPT !.authWait = w] IN
           /\ Sound(d) /\ d.exc = c.exc /\ d.stage = "open" /\ d.verdict = c.verdict
           /\ d.op = c.op /\ SameRun(c, d) /\ SameLog(c, d)
  <1> DEFINE d == [c EXCEPT !.authWait = w]
  <1>1. c \in ConnType
    BY DEF Sound
  <1>2. /\ d \in ConnType /\ d.exc = c.exc /\ d.stage = "open" /\ d.verdict = c.verdict
        /\ d.op = c.op /\ SameRun(c, d) /\ SameLog(c, d)
    BY <1>1 DEF ConnType, SameRun, SameLog
  <1> HIDE DEF d
  <1>3. Executions(d) = Executions(c) /\ (Refused(d) <=> Refused(c))
    BY <1>2 DEF SameLog, Executions, Refused
  <1>4. Shape(d)
    BY <1>2, <1>3 DEF Sound, Shape, SameRun, AtMostOneExecution
  <1>5. Balance(d)
    BY <1>2 DEF Sound, Balance, Owed, SameRun, SameLog
  <1> QED BY <1>2, <1>4, <1>5 DEF Sound, d

LEMMA MethWaitFrame ==
    ASSUME NEW c, Sound(c), c.op # NoOperation, NEW w \in SUBSET Source
    PROVE  LET d == [c EXCEPT !.methWait = w] IN
           Sound(d) /\ d.exc = c.exc /\ d.op = c.op
  <1> DEFINE d == [c EXCEPT !.methWait = w]
  <1>1. c \in ConnType
    BY DEF Sound
  <1>2. /\ d \in ConnType /\ d.exc = c.exc /\ SameCore(c, d) /\ SameLog(c, d)
        /\ d.throws = c.throws /\ d.handled = c.handled
    BY <1>1 DEF ConnType, SameCore, SameLog
  <1> HIDE DEF d
  <1>3. Executions(d) = Executions(c) /\ (Refused(d) <=> Refused(c))
    BY <1>2 DEF SameLog, Executions, Refused
  <1>4. Shape(d)
    BY <1>2, <1>3 DEF Sound, Shape, SameCore, AtMostOneExecution
  <1>5. Balance(d)
    BY <1>2 DEF Sound, Balance, Owed, SameCore, SameLog
  <1> QED BY <1>2, <1>4, <1>5 DEF Sound, SameCore, d

LEMMA AuthenticateFrame ==
    ASSUME FaultStatusOK, soapHeaders \in Seq(Header),
           NEW c, Sound(c), c.exc = "none", c.stage = "open",
           NEW auth \in AuthBehaviourType, NEW beh \in MethodBehaviourType
    PROVE  LET d == Authenticate(c, auth, beh) IN Sound(d) /\ d.stage = "open"
  <1> DEFINE told == IF auth.calls = "none" THEN c ELSE ProcessAuthResult(c, auth.calls, beh)
             wait == (IF auth.keeps THEN {"callback"} ELSE {})
                       \cup (IF auth.how = "promise" THEN {"promise"} ELSE {})
             kept == [told EXCEPT !.authWait = wait]
  <1>1. Sound(told) /\ told.exc = "none" /\ told.stage = "open"
    <2>1. CASE auth.calls = "none"
      BY <2>1
    <2>2. CASE auth.calls # "none"
      <3>1. auth.calls \in Verdict
        BY <2>2 DEF AuthBehaviourType
      <3>2. told = ProcessAuthResult(c, auth.calls, beh)
        BY <2>2
      <3> HIDE DEF told
      <3> QED BY <3>1, <3>2, ProcessAuthResultFrame
    <2> QED BY <2>1, <2>2
  <1> HIDE DEF told
  <1>2. wait \in SUBSET Source
    BY DEF Source
  <1> HIDE DEF wait
  <1>3. Sound(kept) /\ kept.exc = "none" /\ kept.stage = "open"
    BY <1>1, <1>2, AuthWaitFrame
  <1> HIDE DEF kept
  <1>4. CASE auth.how = "throw"
    <2> DEFINE e == IF auth.what \in Fault THEN auth.what ELSE "error"
               d == [Throw(kept, e) EXCEPT !.throws = @ + 1]
    <2>1. Authenticate(c, auth, beh) = d
      BY <1>4 DEF Authenticate, told, wait, kept
    <2>2. e \in {"error"} \cup Fault
      OBVIOUS
    <2> HIDE DEF e
    <2>3. kept \in ConnType
      BY <1>3 DEF Sound
    <2>4. /\ d \in ConnType /\ SameCore(kept, d) /\ SameLog(kept, d)
          /\ d.methWait = kept.methWait /\ d.handled = kept.handled
          /\ d.throws = kept.throws + 1
          /\ Executions(d) = Executions(kept) /\ (Refused(d) <=> Refused(kept))
      BY <2>2, <2>3, UserThrow
    <2> HIDE DEF d
    <2>5. Shape(d)
      BY <1>3, <2>4 DEF Sound, Shape, SameCore, AtMostOneExecution
    <2>6. Balance(d)
      <3>1. /\ Len(kept.replies) \in Nat /\ kept.throws \in Nat
            /\ Len(d.replies) = Len(kept.replies)
        BY <2>3, <2>4, LengthType DEF SameLog
      <3>2. Owed(d) = Owed(kept) /\ Owed(kept) \in Nat
        BY <2>4 DEF Owed, One, SameCore
      <3>3. One(kept.exc # "none") = 0 /\ One(d.exc # "none") \in 0..1
        BY <1>3 DEF One
      <3>4. Len(kept.replies) + Owed(kept) + One(kept.exc # "none") <= 1 + kept.throws
        BY <1>3 DEF Sound, Balance
      <3> QED BY <2>4, <3>1, <3>2, <3>3, <3>4 DEF Balance
    <2> QED BY <1>3, <2>1, <2>4, <2>5, <2>6 DEF Sound, SameCore
  <1>5. CASE auth.how = "return" /\ auth.what \in {"yes", "no"}
    <2>1. Authenticate(c, auth, beh) = ProcessAuthResult(kept, auth.what, beh)
      BY <1>5 DEF Authenticate, told, wait, kept
    <2>2. auth.what \in Verdict
      BY <1>5 DEF Verdict
    <2> QED BY <1>3, <2>1, <2>2, ProcessAuthResultFrame
  <1>6. CASE auth.how # "throw" /\ ~(auth.how = "return" /\ auth.what \in {"yes", "no"})
    <2>1. Authenticate(c, auth, beh) = kept
      BY <1>6 DEF Authenticate, told, wait, kept
    <2> QED BY <1>3, <2>1
  <1> QED BY <1>4, <1>5, <1>6

\* A request is processed once its body is there, before anything is sent or decided.
Arrived(c) ==
    /\ c \in ConnType /\ c.verdict = "none" /\ c.op = NoOperation /\ c.authWait = {}
    /\ c.methWait = {} /\ c.handled = FALSE /\ c.exc = "none"
    /\ c.events = <<>> /\ c.replies = <<>>

LEMMA CatchInRequestSound ==
    ASSUME FaultStatusOK, NEW c, Sound(c)
    PROVE  LET d == CatchInRequest(c) IN
           Sound(d) /\ d.exc = "none" /\ d.stage = c.stage
  <1> DEFINE d == CatchInRequest(c)
  <1>1. c \in ConnType
    BY DEF Sound
  <1>2. /\ d \in ConnType /\ d.exc = "none" /\ SameCore(c, d) /\ SameRun(c, d)
        /\ Executions(d) = Executions(c) /\ (Refused(d) <=> Refused(c))
        /\ Len(d.replies) = Len(c.replies) + One(c.exc # "none")
    BY <1>1, CatchInRequestFrame
  <1> HIDE DEF d
  <1>3. Shape(d)
    BY <1>2 DEF Sound, Shape, SameCore, SameRun, AtMostOneExecution
  <1>4. Balance(d)
    <2>1. Len(c.replies) \in Nat /\ One(c.exc # "none") \in Nat /\ d.throws = c.throws
      BY <1>1, <1>2, LengthType DEF One, SameRun
    <2>2. Owed(d) = Owed(c) /\ Owed(c) \in Nat /\ One(d.exc # "none") = 0
      BY <1>2 DEF Owed, One, SameCore, SameRun
    <2>3. Len(c.replies) + Owed(c) + One(c.exc # "none") <= 1 + c.throws
      BY DEF Sound, Balance
    <2>4. c.throws \in Nat
      BY <1>1, LengthType
    <2> QED BY <1>2, <2>1, <2>2, <2>3, <2>4 DEF Balance
  <1> QED BY <1>2, <1>3, <1>4 DEF Sound, SameCore, d

LEMMA ProcessRequestXmlFrame ==
    ASSUME FaultStatusOK, soapHeaders \in Seq(Header), NEW c, Arrived(c),
           NEW auth \in AuthBehaviourType, NEW beh \in MethodBehaviourType
    PROVE  LET d == ProcessRequestXml(c, auth, beh) IN
           Sound(d) /\ d.exc = "none" /\ d.stage \in {"open", "closed"}
  <1> DEFINE open    == [c EXCEPT !.stage = "open"]
             closed  == [c EXCEPT !.stage = "closed"]
             invalid == [kind |-> "fault", status |-> 500, fault |-> NoFault,
                         headers |-> <<>>]
  <1>1. c \in ConnType /\ c.throws \in Nat
    BY LengthType DEF Arrived
  <1>2. /\ open \in ConnType /\ open.stage = "open"
        /\ open.events = <<>> /\ open.replies = <<>> /\ open.throws = c.throws
        /\ open.verdict = "none" /\ open.op = NoOperation /\ open.authWait = {}
        /\ open.methWait = {} /\ open.handled = FALSE /\ open.exc = "none"
    BY <1>1 DEF Arrived, ConnType
  <1>3. /\ closed \in ConnType /\ closed.stage = "closed"
        /\ closed.events = <<>> /\ closed.replies = <<>> /\ closed.throws = c.throws
        /\ closed.verdict = "none" /\ closed.op = NoOperation /\ closed.authWait = {}
        /\ closed.methWait = {} /\ closed.handled = FALSE /\ closed.exc = "none"
    BY <1>1 DEF Arrived, ConnType
  <1> HIDE DEF open, closed
  <1>4. Sound(open)
    BY <1>1, <1>2 DEF Sound, Shape, AtMostOneExecution, Executions, Refused, Balance, Owed, One
  <1>5. CASE c.msg.parse = "invalid"
    <2> DEFINE d == [closed EXCEPT !.replies = Append(@, invalid)]
    <2>1. ProcessRequestXml(c, auth, beh) = d
      BY <1>1, <1>5 DEF ProcessRequestXml, closed, ConnType
    <2>2. invalid \in ReplyType
      <3>1. <<>> \in Seq(Header)
        OBVIOUS
      <3> QED BY <3>1 DEF ReplyType
    <2>3. invalid.kind = "fault"
      OBVIOUS
    <2> HIDE DEF invalid
    <2>4. Append(closed.replies, invalid) = <<invalid>> /\ <<invalid>> \in Seq(ReplyType)
      BY <1>3, <2>2
    <2>5. \A s \in Seq(ReplyType) : [closed EXCEPT !.replies = s] \in ConnType
      BY <1>3 DEF ConnType
    <2>6. /\ d \in ConnType /\ d.stage = "closed" /\ d.events = <<>>
          /\ d.replies = <<invalid>> /\ d.throws = c.throws
          /\ d.verdict = "none" /\ d.op = NoOperation /\ d.authWait = {}
          /\ d.methWait = {} /\ d.handled = FALSE /\ d.exc = "none"
      BY <1>3, <2>4, <2>5 DEF ConnType
    <2> HIDE DEF d
    <2>7. Executions(d) = {} /\ ~Refused(d) /\ Len(d.replies) = 1
      BY <2>3, <2>6 DEF Executions, Refused
    <2>8. Shape(d)
      BY <2>6, <2>7 DEF Shape, AtMostOneExecution
    <2>9. Balance(d)
      BY <1>1, <2>6, <2>7 DEF Balance, Owed, One
    <2> QED BY <2>1, <2>6, <2>8, <2>9 DEF Sound
  <1>6. CASE c.msg.parse # "invalid" /\ (c.msg.parse = "fault" \/ AuthMode = "invalid")
    <2> DEFINE t == Throw(closed, "error")
    <2>1. ProcessRequestXml(c, auth, beh) = CatchInRequest(t)
      BY <1>6 DEF ProcessRequestXml, closed
    <2>2. /\ t \in ConnType /\ SameCore(closed, t) /\ SameRun(closed, t)
          /\ SameLog(closed, t) /\ t.exc = "error"
      BY <1>3, ThrowFrame
    <2> HIDE DEF t
    <2>3. Executions(t) = {} /\ ~Refused(t) /\ Len(t.replies) = 0
      BY <1>3, <2>2 DEF SameLog, Executions, Refused
    <2>4. Shape(t)
      BY <1>3, <2>2, <2>3 DEF Shape, SameCore, SameRun, AtMostOneExecution
    <2>5. Balance(t)
      BY <1>1, <1>3, <2>2, <2>3 DEF Balance, Owed, One, SameCore, SameRun
    <2>6. t.stage = "closed"
      BY <1>3, <2>2 DEF SameCore
    <2> QED BY <2>1, <2>2, <2>4, <2>5, <2>6, CatchInRequestSound DEF Sound
  <1>7. CASE c.msg.parse \notin {"invalid", "fault"} /\ AuthMode = "none"
    <2> DEFINE d == ProcessAuthResult(open, "yes", beh)
    <2>1. ProcessRequestXml(c, auth, beh) = CatchInRequest(d)
      BY <1>7 DEF ProcessRequestXml, open
    <2>2. "yes" \in Verdict
      BY DEF Verdict
    <2>3. Sound(d) /\ d.stage = "open"
      BY <1>2, <1>4, <2>2, ProcessAuthResultFrame
    <2> HIDE DEF d
    <2> QED BY <2>1, <2>3, CatchInRequestSound
  <1>8. CASE c.msg.parse \notin {"invalid", "fault"} /\ AuthMode \notin {"none", "invalid"}
    <2> DEFINE d == Authenticate(open, auth, beh)
    <2>1. ProcessRequestXml(c, auth, beh) = CatchInRequest(d)
      BY <1>8 DEF ProcessRequestXml, open
    <2>2. Sound(d) /\ d.stage = "open"
      BY <1>2, <1>4, AuthenticateFrame
    <2> HIDE DEF d
    <2> QED BY <2>1, <2>2, CatchInRequestSound
  <1> QED BY <1>5, <1>6, <1>7, <1>8

LEMMA HandleUncaughtFrame ==
    ASSUME FaultStatusOK, NEW c, Sound(c), c.exc = "none", c.op # NoOperation, NEW o
    PROVE  LET d == HandleUncaught(c, o) IN Sound(d) /\ d.exc = "none" /\ d.stage = c.stage
  <1> DEFINE h == HandleResult(c, o)
             u == [Throw(h, "none") EXCEPT !.uncaught = TRUE]
  <1>1. c \in ConnType
    BY DEF Sound
  <1>2. /\ h \in ConnType /\ SameCore(c, h)
        /\ h.methWait = c.methWait /\ h.throws = c.throws /\ h.handled = TRUE
        /\ Executions(h) = Executions(c) /\ (Refused(h) <=> Refused(c))
        /\ c.handled = TRUE => h = c
        /\ c.handled = FALSE => Len(h.replies) + One(h.exc # "none") = Len(c.replies) + 1
    BY <1>1, HandleResultFrame
  <1> HIDE DEF h
  <1>3. c.verdict = "yes"
    BY DEF Sound, Shape
  <1>4. Shape(h)
    BY <1>2 DEF Sound, Shape, SameCore, AtMostOneExecution
  <1>5. /\ Len(c.replies) \in Nat /\ c.throws \in Nat /\ Len(h.replies) \in Nat
        /\ One(h.exc # "none") \in Nat
    BY <1>1, <1>2, LengthType DEF One
  <1>6. Len(h.replies) + One(h.exc # "none") <= 1 + h.throws
    <2>1. Len(c.replies) + Owed(c) + One(c.exc # "none") <= 1 + c.throws
      BY DEF Sound, Balance
    <2>2. One(c.exc # "none") = 0
      BY DEF One
    <2>3. CASE c.handled = TRUE
      <3>1. Owed(c) = 0 /\ h = c
        BY <1>2, <1>3, <2>3 DEF Owed, One
      <3> QED BY <1>5, <2>1, <2>2, <3>1
    <2>4. CASE c.handled = FALSE
      <3>1. Owed(c) = 1
        BY <1>3, <2>4 DEF Owed, One
      <3> QED BY <1>2, <1>5, <2>1, <2>2, <2>4, <3>1
    <2>5. c.handled \in BOOLEAN
      BY <1>1 DEF ConnType
    <2> QED BY <2>3, <2>4, <2>5
  <1>7. Owed(h) = 0
    BY <1>2, <1>3 DEF Owed, One, SameCore
  <1>8. CASE h.exc = "none"
    <2>1. HandleUncaught(c, o) = h
      BY <1>8 DEF HandleUncaught, h
    <2>2. Balance(h)
      BY <1>5, <1>6, <1>7 DEF Balance
    <2> QED BY <1>2, <1>4, <1>8, <2>1, <2>2 DEF Sound, SameCore
  <1>9. CASE h.exc # "none"
    <2>1. HandleUncaught(c, o) = u
      BY <1>9 DEF HandleUncaught, h
    <2>2. /\ Throw(h, "none") \in ConnType /\ SameCore(h, Throw(h, "none"))
          /\ SameRun(h, Throw(h, "none")) /\ SameLog(h, Throw(h, "none"))
          /\ Throw(h, "none").exc = "none"
      BY <1>2, ThrowFrame
    <2>3. /\ u \in ConnType /\ SameCore(h, u) /\ SameRun(h, u) /\ SameLog(h, u)
          /\ u.exc = "none"
      BY <2>2 DEF ConnType, SameCore, SameRun, SameLog
    <2> HIDE DEF u
    <2>4. Executions(u) = Executions(h) /\ (Refused(u) <=> Refused(h))
      BY <2>3 DEF SameLog, Executions, Refused
    <2>5. Shape(u)
      BY <1>4, <2>3, <2>4 DEF Shape, SameCore, SameRun, AtMostOneExecution
    <2>6. Balance(u)
      <3>1. Owed(u) = 0 /\ One(u.exc # "none") = 0
        BY <1>7, <2>3 DEF Owed, One, SameCore, SameRun
      <3>2. Len(u.replies) = Len(h.replies) /\ u.throws = h.throws
        BY <2>3 DEF SameLog, SameRun
      <3>3. h.throws \in Nat
        BY <1>2, LengthType
      <3> QED BY <1>5, <1>6, <3>1, <3>2, <3>3 DEF Balance
    <2> QED BY <1>2, <2>1, <2>3, <2>5, <2>6 DEF Sound, SameCore
  <1> QED BY <1>8, <1>9

-----------------------------------------------------------------------------
(* The inductive invariant. *)

\* No callback of the event loop is running: nothing is in flight, and a request whose
\* body is not there yet has been given no answer.
Quiet(c) ==
    /\ Sound(c) /\ c.exc = "none"
    /\ c.stage \in {"new", "reading"} => Arrived(c)

IInv ==
    /\ FaultStatusOK
    /\ soapHeaders \in Seq(Header)
    /\ conn \in [Req -> ConnType]
    /\ \A r \in Req : Quiet(conn[r])

LEMMA ArrivedSound == ASSUME NEW c, Arrived(c) PROVE Sound(c)
  <1>1. c \in ConnType /\ c.throws \in Nat
    BY LengthType DEF Arrived
  <1>2. Executions(c) = {} /\ ~Refused(c) /\ Len(c.replies) = 0
    BY DEF Arrived, Executions, Refused
  <1>3. Shape(c)
    BY <1>2 DEF Arrived, Shape, AtMostOneExecution
  <1>4. Owed(c) \in 0..1 /\ One(c.exc # "none") = 0
    BY DEF Arrived, Owed, One
  <1>5. Balance(c)
    BY <1>1, <1>2, <1>4 DEF Balance
  <1> QED BY <1>1, <1>3, <1>5 DEF Sound

LEMMA InitIInv == Init => IInv
  <1> SUFFICES ASSUME Init PROVE IInv
    OBVIOUS
  <1>1. FaultStatusOK
    BY FaultAssumption DEF Init, FaultStatusOK
  <1>2. soapHeaders \in Seq(Header)
    BY DEF Init
  <1>3. <<>> \in Seq(Header) /\ <<>> \in Seq(Event) /\ <<>> \in Seq(ReplyType)
    OBVIOUS
  <1>4. NewConn \in ConnType
    BY <1>3 DEF NewConn, ConnType
  <1>5. Arrived(NewConn)
    BY <1>4 DEF NewConn, Arrived
  <1>6. NewConn.exc = "none"
    BY DEF NewConn
  <1>7. Quiet(NewConn)
    BY <1>5, <1>6, ArrivedSound DEF Quiet
  <1>8. conn = [r \in Req |-> NewConn]
    BY DEF Init
  <1> HIDE DEF NewConn
  <1> QED BY <1>1, <1>2, <1>4, <1>7, <1>8 DEF IInv

\* A step of request r that leaves it quiet preserves the invariant.
LEMMA StepIInv ==
    ASSUME IInv, NEW r \in Req, NEW c, Quiet(c), Step(r, c)
    PROVE  IInv'
  <1>1. conn' = [conn EXCEPT ![r] = c] /\ soapHeaders' = soapHeaders
    BY DEF Step
  <1>2. faultStatus' = [f \in Fault |-> IF f \in FaultsIn(c) THEN 0 ELSE faultStatus[f]]
    BY DEF Step
  <1>3. FaultStatusOK'
    BY <1>2 DEF IInv, FaultStatusOK
  <1>4. c \in ConnType
    BY DEF Quiet, Sound
  <1>5. conn' \in [Req -> ConnType]
    BY <1>1, <1>4 DEF IInv
  <1>6. \A q \in Req : conn'[q] = IF q = r THEN c ELSE conn[q]
    BY <1>1 DEF IInv
  <1>7. \A q \in Req : Quiet(conn'[q])
    BY <1>6 DEF IInv
  <1>8. (\A q \in Req : Quiet(conn[q]))'
    BY <1>7 DEF Quiet, Sound, Shape, Balance, Arrived, AtMostOneExecution, Executions,
                Refused, Owed, One
  <1> QED BY <1>1, <1>3, <1>5, <1>8 DEF IInv

LEMMA ChangeHeadersIInv ==
    ASSUME IInv, UNCHANGED <<conn, faultStatus>>, soapHeaders' \in Seq(Header)
    PROVE  IInv'
  <1>1. conn' = conn /\ faultStatus' = faultStatus
    OBVIOUS
  <1>2. FaultStatusOK' /\ conn' \in [Req -> ConnType]
    BY <1>1 DEF IInv, FaultStatusOK
  <1>3. \A q \in Req : Quiet(conn'[q])
    BY <1>1 DEF IInv
  <1>4. (\A q \in Req : Quiet(conn[q]))'
    BY <1>3 DEF Quiet, Sound, Shape, Balance, Arrived, AtMostOneExecution, Executions,
                Refused, Owed, One
  <1> QED BY <1>2, <1>4 DEF IInv

\* Only a request that is open waits for authenticate, only one that runs for a method.
LEMMA WaitShape ==
    ASSUME NEW c, Quiet(c)
    PROVE  /\ c.authWait # {} => c.stage = "open"
           /\ c.methWait # {} => c.op # NoOperation /\ c.stage = "open"
  <1>1. c.stage \in {"new", "reading", "open", "closed"}
    BY DEF Quiet, Sound, ConnType
  <1> QED BY <1>1 DEF Quiet, Sound, Shape

LEMMA MaxOfTwo ==
    ASSUME NEW i \in Nat, NEW j \in Nat
    PROVE  Max({i, j}) \in {i, j} /\ Max({i, j}) >= i /\ Max({i, j}) >= j
  <1>1. \E x \in {i, j} : \A y \in {i, j} : x >= y
    <2>1. CASE i >= j
      BY <2>1
    <2>2. CASE j >= i
      BY <2>2
    <2> QED BY <2>1, <2>2
  <1> QED BY <1>1 DEF Max

LEMMA NextIInv == ASSUME IInv, [Next]_vars PROVE IInv'
  <1> USE BehaviourAssumption
  <1>1. FaultStatusOK /\ soapHeaders \in Seq(Header) /\ conn \in [Req -> ConnType]
    BY DEF IInv
  <1>2. \A r \in Req : Quiet(conn[r]) /\ conn[r] \in ConnType
    BY DEF IInv, Quiet, Sound
  <1>3. ASSUME NEW r \in Req, EndWithoutBody(r) PROVE IInv'
    <2> DEFINE c == [conn[r] EXCEPT !.stage = "closed"]
    <2>1. Arrived(conn[r]) /\ Step(r, c)
      BY <1>2, <1>3 DEF EndWithoutBody, Quiet
    <2>2. Arrived(c) /\ c.stage = "closed"
      BY <2>1 DEF Arrived, ConnType
    <2> HIDE DEF c
    <2>3. Quiet(c)
      BY <2>2, ArrivedSound DEF Quiet, Arrived
    <2> QED BY <2>1, <2>3, StepIInv
  <1>4. ASSUME NEW r \in Req, NEW m \in Message, BeginBody(r, m) PROVE IInv'
    <2> DEFINE c == [conn[r] EXCEPT !.stage = "reading", !.msg = m]
    <2>1. Arrived(conn[r]) /\ Step(r, c)
      BY <1>2, <1>4 DEF BeginBody, Quiet
    <2>2. Arrived(c)
      BY <2>1 DEF Arrived, ConnType
    <2> HIDE DEF c
    <2>3. Quiet(c)
      BY <2>2, ArrivedSound DEF Quiet, Arrived
    <2> QED BY <2>1, <2>3, StepIInv
  <1>5. ASSUME NEW r \in Req, LoseBody(r) PROVE IInv'
    <2> DEFINE c == [conn[r] EXCEPT !.stage = "closed"]
    <2>1. Arrived(conn[r]) /\ Step(r, c)
      BY <1>2, <1>5 DEF LoseBody, Quiet
    <2>2. Arrived(c)
      BY <2>1 DEF Arrived, ConnType
    <2> HIDE DEF c
    <2>3. Quiet(c)
      BY <2>2, ArrivedSound DEF Quiet, Arrived
    <2> QED BY <2>1, <2>3, StepIInv
  <1>6. ASSUME NEW c, Arrived(c), NEW auth \in AuthBehaviour, NEW beh \in MethodBehaviour
        PROVE  Quiet(ProcessRequestXml(c, auth, beh))
    <2> DEFINE d == ProcessRequestXml(c, auth, beh)
    <2>1. auth \in AuthBehaviourType /\ beh \in MethodBehaviourType
      BY <1>6
    <2>2. Sound(d) /\ d.exc = "none"
      BY <1>1, <1>6, <2>1, ProcessRequestXmlFrame
    <2>3. d.stage \notin {"new", "reading"}
      BY <1>1, <1>6, <2>1, ProcessRequestXmlFrame
    <2> QED BY <2>2, <2>3 DEF Quiet
  <1>7. ASSUME NEW r \in Req, NEW auth \in AuthBehaviour, NEW beh \in MethodBehaviour,
               EndBody(r, auth, beh)
        PROVE  IInv'
    <2>1. Arrived(conn[r]) /\ Step(r, ProcessRequestXml(conn[r], auth, beh))
      BY <1>2, <1>7 DEF EndBody, Quiet
    <2>2. Quiet(ProcessRequestXml(conn[r], auth, beh))
      BY <1>6, <2>1
    <2> QED BY <2>1, <2>2, StepIInv
  <1>8. ASSUME NEW r \in Req, NEW m \in Message, NEW auth \in AuthBehaviour,
               NEW beh \in MethodBehaviour, ReceiveWhole(r, m, auth, beh)
        PROVE  IInv'
    <2> DEFINE c == [conn[r] EXCEPT !.msg = m]
    <2>1. Arrived(conn[r]) /\ Step(r, ProcessRequestXml(c, auth, beh))
      BY <1>2, <1>8 DEF ReceiveWhole, Quiet
    <2>2. Arrived(c)
      BY <2>1 DEF Arrived, ConnType
    <2> HIDE DEF c
    <2>3. Quiet(ProcessRequestXml(c, auth, beh))
      BY <1>6, <2>2
    <2> QED BY <2>1, <2>3, StepIInv
  <1>9. ASSUME NEW c, Quiet(c), c.stage = "open", NEW v \in Verdict, NEW beh \in MethodBehaviour
        PROVE  Quiet(ProcessAuthResult(c, v, beh))
    <2>1. beh \in MethodBehaviourType
      BY <1>9
    <2> QED BY <1>1, <1>9, <2>1, ProcessAuthResultFrame DEF Quiet
  <1>10. ASSUME NEW c, Quiet(c), c.stage = "open", NEW w \in SUBSET Source
         PROVE  /\ Quiet([c EXCEPT !.authWait = w])
                /\ [c EXCEPT !.authWait = w].stage = "open"
    BY <1>10, AuthWaitFrame DEF Quiet
  <1>11. ASSUME NEW r \in Req, AuthSettles(r) PROVE IInv'
    <2>1. PICK v \in Verdict, beh \in MethodBehaviour :
            AuthCallback(r, v, beh) \/ AuthPromise(r, v, beh)
      BY <1>11 DEF AuthSettles
    <2>2. conn[r].authWait \in SUBSET Source
      BY <1>2 DEF ConnType
    <2>3. Quiet(conn[r]) /\ conn[r].stage = "open"
      BY <1>2, <2>1, WaitShape DEF AuthCallback, AuthPromise
    <2>4. PICK c : /\ Step(r, ProcessAuthResult(c, v, beh))
                   /\ \/ c = conn[r]
                      \/ \E w \in SUBSET Source : c = [conn[r] EXCEPT !.authWait = w]
      <3>1. CASE AuthCallback(r, v, beh)
        <4>1. PICK again \in BOOLEAN :
                Step(r, ProcessAuthResult(
                          IF again THEN conn[r]
                          ELSE [conn[r] EXCEPT !.authWait = @ \ {"callback"}], v, beh))
          BY <3>1 DEF AuthCallback
        <4>2. conn[r].authWait \ {"callback"} \in SUBSET Source
          BY <2>2
        <4>3. CASE again = TRUE
          BY <4>1, <4>3
        <4>4. CASE again = FALSE
          BY <4>1, <4>2, <4>4
        <4> QED BY <4>3, <4>4
      <3>2. CASE AuthPromise(r, v, beh)
        BY <2>2, <3>2 DEF AuthPromise
      <3> QED BY <2>1, <3>1, <3>2
    <2>5. Quiet(c) /\ c.stage = "open"
      <3>1. CASE c = conn[r]
        BY <2>3, <3>1
      <3>2. ASSUME NEW w \in SUBSET Source, c = [conn[r] EXCEPT !.authWait = w]
            PROVE  Quiet(c) /\ c.stage = "open"
        <4> DEFINE k == conn[r]
        <4> HIDE DEF k
        <4>1. Quiet(k) /\ k.stage = "open" /\ c = [k EXCEPT !.authWait = w]
          BY <2>3, <3>2 DEF k
        <4> QED BY <1>10, <4>1
      <3> QED BY <2>4, <3>1, <3>2
    <2> QED BY <1>9, <2>4, <2>5, StepIInv
  <1>12. ASSUME NEW c, Quiet(c), c.op # NoOperation, c.stage = "open", NEW o
         PROVE  Quiet(HandleUncaught(c, o))
    <2> DEFINE d == HandleUncaught(c, o)
    <2>1. Sound(d) /\ d.exc = "none" /\ d.stage = c.stage
      BY <1>1, <1>12, HandleUncaughtFrame DEF Quiet
    <2> QED BY <1>12, <2>1 DEF Quiet
  <1>13. ASSUME NEW c, Quiet(c), c.op # NoOperation, c.stage = "open", NEW w \in SUBSET Source
         PROVE  /\ Quiet([c EXCEPT !.methWait = w])
                /\ [c EXCEPT !.methWait = w].op # NoOperation
                /\ [c EXCEPT !.methWait = w].stage = "open"
    <2>1. c \in ConnType
      BY <1>13 DEF Quiet, Sound
    <2>2. [c EXCEPT !.methWait = w].stage = "open"
      BY <1>13, <2>1 DEF ConnType
    <2> QED BY <1>13, <2>2, MethWaitFrame DEF Quiet
  <1>14. ASSUME NEW r \in Req, MethodSettles(r) PROVE IInv'
    <2>1. PICK o \in Outcome : MethodCallback(r, o) \/ MethodPromise(r, o)
      BY <1>14 DEF MethodSettles
    <2>2. conn[r].methWait \in SUBSET Source
      BY <1>2 DEF ConnType
    <2>3. Quiet(conn[r]) /\ conn[r].op # NoOperation /\ conn[r].stage = "open"
      BY <1>2, <2>1, WaitShape DEF MethodCallback, MethodPromise
    <2>4. PICK c, p : /\ Step(r, HandleUncaught(c, p))
                      /\ \/ c = conn[r]
                         \/ \E w \in SUBSET Source : c = [conn[r] EXCEPT !.methWait = w]
      <3>1. CASE MethodCallback(r, o)
        <4>1. PICK again \in BOOLEAN :
                Step(r, HandleUncaught(
                          IF again THEN conn[r]
                          ELSE [conn[r] EXCEPT !.methWait = @ \ {"callback"}],
                          CallbackArguments(o)))
          BY <3>1 DEF MethodCallback
        <4>2. conn[r].methWait \ {"callback"} \in SUBSET Source
          BY <2>2
        <4>3. CASE again = TRUE
          BY <4>1, <4>3
        <4>4. CASE again = FALSE
          BY <4>1, <4>2, <4>4
        <4> QED BY <4>3, <4>4
      <3>2. CASE MethodPromise(r, o)
        BY <2>2, <3>2 DEF MethodPromise
      <3> QED BY <2>1, <3>1, <3>2
    <2>5. Quiet(c) /\ c.op # NoOperation /\ c.stage = "open"
      <3>1. CASE c = conn[r]
        BY <2>3, <3>1
      <3>2. ASSUME NEW w \in SUBSET Source, c = [conn[r] EXCEPT !.methWait = w]
            PROVE  Quiet(c) /\ c.op # NoOperation /\ c.stage = "open"
        <4> DEFINE k == conn[r]
        <4> HIDE DEF k
        <4>1. Quiet(k) /\ k.stage = "open" /\ k.op # NoOperation /\ c = [k EXCEPT !.methWait = w]
          BY <2>3, <3>2 DEF k
        <4> QED BY <1>13, <4>1
      <3> QED BY <2>4, <3>1, <3>2
    <2> QED BY <1>12, <2>4, <2>5, StepIInv
  <1>15. ASSUME NEW h \in Header, AddSoapHeader(h) PROVE IInv'
    BY <1>1, <1>15, ChangeHeadersIInv DEF AddSoapHeader
  <1>16. ASSUME NEW h \in Header, NEW i \in 1..(Len(soapHeaders) + 1), ChangeSoapHeader(i, h)
         PROVE  IInv'
    <2> DEFINE n == Max({i, Len(soapHeaders)})
               s == [j \in 1..n |-> IF j = i THEN h ELSE soapHeaders[j]]
    <2>1. soapHeaders' = s /\ UNCHANGED <<conn, faultStatus>>
      BY <1>16 DEF ChangeSoapHeader
    <2>2. Len(soapHeaders) \in Nat /\ i \in Nat
      BY <1>1
    <2>3. n \in {i, Len(soapHeaders)} /\ n >= i /\ n >= Len(soapHeaders)
      BY <2>2, MaxOfTwo
    <2> HIDE DEF n
    <2>4. n \in Nat /\ (n > Len(soapHeaders) => n = i)
      BY <2>2, <2>3
    <2>5. \A j \in 1..n : s[j] \in Header
      <3> SUFFICES ASSUME NEW j \in 1..n, j # i PROVE soapHeaders[j] \in Header
        OBVIOUS
      <3>1. j \in 1..Len(soapHeaders)
        BY <2>2, <2>3, <2>4
      <3> QED BY <1>1, <3>1
    <2>6. s \in Seq(Header)
      BY <2>4, <2>5, SeqDef
    <2> QED BY <2>1, <2>6, ChangeHeadersIInv
  <1>17. CASE ClearSoapHeaders
    <2>1. soapHeaders' \in Seq(Header) /\ UNCHANGED <<conn, faultStatus>>
      BY <1>17 DEF ClearSoapHeaders
    <2> QED BY <2>1, ChangeHeadersIInv
  <1>18. CASE UNCHANGED vars
    BY <1>1, <1>18, ChangeHeadersIInv DEF vars
  <1> QED BY <1>3, <1>4, <1>5, <1>7, <1>8, <1>11, <1>14, <1>15, <1>16, <1>17, <1>18 DEF Next

LEMMA SpecIInv == Spec => []IInv
  BY InitIInv, NextIInv, PTL DEF Spec

-----------------------------------------------------------------------------
(* The theorems. *)

\* Every request record keeps its type, and every callback of the event loop ends with no
\* exception in flight.
THEOREM TypeCorrect == Spec => []TypeOK
  <1>1. IInv => TypeOK
    BY DEF IInv, TypeOK, Quiet, FaultStatusOK
  <1> QED BY <1>1, SpecIInv, PTL

\* However the results of authenticate and of the method race, a second response to a
\* request is paid for by a call of a user function that threw.
THEOREM RepliesArePaid == Spec => []RepliesPaidByThrows
  <1>1. IInv => RepliesPaidByThrows
    <2> SUFFICES ASSUME IInv, NEW r \in Req
                 PROVE  Len(conn[r].replies) <= 1 + conn[r].throws
      BY DEF RepliesPaidByThrows
    <2> DEFINE c == conn[r]
    <2>1. Sound(c) /\ c \in ConnType
      BY DEF IInv, Quiet, Sound
    <2> HIDE DEF c
    <2>2. Len(c.replies) \in Nat /\ c.throws \in Nat
      BY <2>1, LengthType
    <2>3. Owed(c) \in Nat /\ One(c.exc # "none") \in Nat
      BY DEF Owed, One
    <2>4. Len(c.replies) + Owed(c) + One(c.exc # "none") <= 1 + c.throws
      BY <2>1 DEF Sound, Balance
    <2>5. Len(c.replies) <= 1 + c.throws
      BY <2>2, <2>3, <2>4
    <2> QED BY <2>5 DEF c
  <1> QED BY <1>1, SpecIInv, PTL

\* A service method runs at most once for a request, and only for one that authenticate
\* accepted and the server did not refuse.
THEOREM ExecutionIsAuthorised == Spec => []ExecutionAuthorised
  <1>1. IInv => ExecutionAuthorised
    <2> SUFFICES ASSUME IInv, NEW r \in Req
                 PROVE  LET c == conn[r] IN
                        /\ \A i, j \in Executions(c) : i = j
                        /\ Executions(c) # {} =>
                             /\ c.verdict = "yes"
                             /\ \A i \in DOMAIN c.replies : c.replies[i].kind # "refused"
      BY DEF ExecutionAuthorised
    <2>1. Shape(conn[r])
      BY DEF IInv, Quiet, Sound
    <2> QED BY <2>1 DEF Shape, AtMostOneExecution, Refused
  <1> QED BY <1>1, SpecIInv, PTL

-----------------------------------------------------------------------------
(* The exchange. *)

Served(c) == \E i \in DOMAIN c.replies : c.replies[i].kind = "result"

Backed(c) == Served(c) \/ c.methWait # {} => Executions(c) # {}

Extends(s, t) == \A i \in DOMAIN s : i \in DOMAIN t /\ t[i] = s[i]

Grows(c, d) ==
    /\ d \in ConnType
    /\ Extends(c.replies, d.replies)
    /\ Executions(c) # {} => Executions(d) # {}
    /\ Backed(c) => Backed(d)

LEMMA GrowsOn ==
    ASSUME NEW c, NEW d, NEW e, Grows(c, d), Grows(d, e)
    PROVE  Grows(c, e)
  BY DEF Grows, Extends

\* What touches neither the history nor what is waited for.
LEMMA SameLogGrows ==
    ASSUME NEW c, NEW d \in ConnType, SameLog(c, d), d.methWait = c.methWait
    PROVE  Grows(c, d)
  BY DEF Grows, Extends, SameLog, Backed, Served, Executions

-----------------------------------------------------------------------------
(* Replying. *)

LEMMA AppendGrows ==
    ASSUME NEW c \in ConnType, NEW d \in ConnType, NEW rep \in ReplyType,
           rep.kind = "result" => Executions(c) # {},
           d.replies = Append(c.replies, rep), d.methWait = c.methWait,
           Executions(d) = Executions(c)
    PROVE  Grows(c, d)
  <1>1. c.replies \in Seq(ReplyType)
    BY DEF ConnType
  <1>2. Extends(c.replies, d.replies)
    BY <1>1 DEF Extends
  <1>3. Served(d) => Served(c) \/ rep.kind = "result"
    BY <1>1 DEF Served
  <1> QED BY <1>2, <1>3 DEF Grows, Backed

LEMMA EmitGrows ==
    ASSUME NEW c \in ConnType, NEW e \in Event
    PROVE  /\ Grows(c, Emit(c, e))
           /\ e = "method" => Executions(Emit(c, e)) # {}
  <1> DEFINE d == Emit(c, e)
  <1>1. /\ d \in ConnType /\ d.replies = c.replies /\ d.methWait = c.methWait
        /\ d.events = Append(c.events, e)
    BY EmitFrame DEF SameRun
  <1> HIDE DEF d
  <1>2. c.events \in Seq(Event)
    BY DEF ConnType
  <1>3. Len(c.events) \in Nat /\ Len(d.events) = Len(c.events) + 1
    BY <1>1, <1>2
  <1>4. Executions(c) # {} => Executions(d) # {}
    <2> SUFFICES ASSUME NEW i \in Executions(c) PROVE i \in Executions(d)
      OBVIOUS
    <2>1. i \in 1..Len(c.events) /\ c.events[i] = "method"
      BY <1>2 DEF Executions
    <2>2. i \in DOMAIN d.events /\ d.events[i] = c.events[i]
      BY <1>1, <1>2, <1>3, <2>1
    <2> QED BY <2>1, <2>2 DEF Executions
  <1>5. e = "method" => Executions(d) # {}
    <2> SUFFICES ASSUME e = "method" PROVE Len(d.events) \in Executions(d)
      OBVIOUS
    <2> QED BY <1>1, <1>2, <1>3 DEF Executions
  <1> QED BY <1>1, <1>4, <1>5 DEF Grows, Extends, Backed, Served, d

LEMMA ReplyGrows ==
    ASSUME NEW c \in ConnType, NEW rep \in ReplyType,
           rep.kind = "result" => Executions(c) # {}
    PROVE  Grows(c, Reply(c, rep))
  <1> DEFINE e == Emit(c, "response")
  <1>1. e \in ConnType /\ e.replies = c.replies
    BY EmitFrame DEF Event
  <1> HIDE DEF e
  <1>2. Reply(c, rep) = [e EXCEPT !.replies = Append(@, rep)]
    BY DEF Reply, e
  <1>3. Reply(c, rep).replies = Append(c.replies, rep)
    BY <1>1, <1>2 DEF ConnType
  <1>4. /\ Reply(c, rep) \in ConnType /\ Reply(c, rep).methWait = c.methWait
        /\ Executions(Reply(c, rep)) = Executions(c)
    BY ReplyFrame DEF SameRun
  <1> HIDE DEF Reply
  <1> QED BY <1>3, <1>4, AppendGrows

LEMMA SendFaultGrows ==
    ASSUME FaultStatusOK, NEW c \in ConnType, NEW f \in Fault
    PROVE  Grows(c, SendFault(c, f))
  <1>1. 200 \in Nat
    OBVIOUS
  <1>2. FaultReply(c, f, 200) \in ReplyType /\ FaultReply(c, f, 200).kind # "result"
    BY <1>1, FaultReplyType
  <1>3. SendFault(c, f) = Reply(c, FaultReply(c, f, 200))
    BY DEF SendFault
  <1> HIDE DEF FaultReply
  <1> QED BY <1>2, <1>3, ReplyGrows

LEMMA ServerFaultGrows ==
    ASSUME NEW c \in ConnType, NEW status \in {401, 500}
    PROVE  Grows(c, ServerFault(c, status))
  <1> DEFINE rep == [kind |-> IF status = 401 THEN "refused" ELSE "fault",
                     status |-> status, fault |-> NoFault, headers |-> <<>>]
  <1>1. <<>> \in Seq(Header)
    OBVIOUS
  <1>2. rep \in ReplyType /\ rep.kind # "result"
    BY <1>1 DEF ReplyType
  <1> HIDE DEF rep
  <1>3. ServerFault(c, status) = Reply(c, rep)
    BY DEF ServerFault, rep
  <1> QED BY <1>2, <1>3, ReplyGrows

LEMMA SendResultGrows ==
    ASSUME NEW c \in ConnType, NEW kind \in {"result", "empty"},
           kind = "result" => Executions(c) # {}
    PROVE  Grows(c, SendResult(c, kind, 200))
  <1> DEFINE rep == [kind |-> kind, status |-> 200, fault |-> NoFault, headers |-> c.headers]
  <1>1. c.headers \in Seq(Header)
    BY DEF ConnType
  <1>2. rep \in ReplyType /\ rep.kind = kind
    BY <1>1 DEF ReplyType
  <1> HIDE DEF rep
  <1>3. SendResult(c, kind, 200) = Reply(c, rep)
    BY DEF SendResult, rep
  <1> QED BY <1>2, <1>3, ReplyGrows

LEMMA ThrowGrows ==
    ASSUME NEW c \in ConnType, NEW e \in {"none", "error"} \cup Fault
    PROVE  Grows(c, Throw(c, e))
  BY ThrowFrame, SameLogGrows DEF SameRun

LEMMA CatchInAuthGrows ==
    ASSUME FaultStatusOK, NEW c \in ConnType
    PROVE  Grows(c, CatchInAuth(c))
  <1> DEFINE t == Throw(c, "none")
  <1>1. t \in ConnType /\ Grows(c, t)
    BY ThrowFrame, ThrowGrows
  <1>2. c.exc \in {"none", "error"} \cup Fault
    BY DEF ConnType
  <1> HIDE DEF t
  <1>3. CASE c.exc = "none"
    BY <1>3, SameLogGrows DEF CatchInAuth, SameLog
  <1>4. CASE c.exc = "error"
    <2>1. CatchInAuth(c) = ServerFault(t, 500)
      BY <1>4 DEF CatchInAuth, t
    <2> QED BY <1>1, <2>1, ServerFaultGrows, GrowsOn
  <1>5. CASE c.exc \notin {"none", "error"}
    <2>1. CatchInAuth(c) = SendFault(t, c.exc) /\ c.exc \in Fault
      BY <1>2, <1>5 DEF CatchInAuth, t
    <2> QED BY <1>1, <2>1, SendFaultGrows, GrowsOn
  <1> QED BY <1>3, <1>4, <1>5

LEMMA CatchInRequestGrows ==
    ASSUME FaultStatusOK, NEW c \in ConnType
    PROVE  Grows(c, CatchInRequest(c))
  <1> DEFINE t == Throw(c, "none")
             text == [kind |-> "text", status |-> 500, fault |-> NoFault, headers |-> <<>>]
  <1>1. t \in ConnType /\ Grows(c, t)
    BY ThrowFrame, ThrowGrows
  <1>2. c.exc \in {"none", "error"} \cup Fault
    BY DEF ConnType
  <1>3. <<>> \in Seq(Header)
    OBVIOUS
  <1>4. text \in ReplyType /\ text.kind # "result"
    BY <1>3 DEF ReplyType
  <1> HIDE DEF t, text
  <1>5. ASSUME NEW rep \in ReplyType, rep.kind # "result"
        PROVE  Grows(c, [t EXCEPT !.replies = Append(@, rep)])
    <2> DEFINE d == [t EXCEPT !.replies = Append(@, rep)]
    <2>1. t.replies \in Seq(ReplyType)
      BY <1>1 DEF ConnType
    <2>2. Append(t.replies, rep) \in Seq(ReplyType)
      BY <2>1
    <2>3. \A s \in Seq(ReplyType) : [t EXCEPT !.replies = s] \in ConnType
      BY <1>1 DEF ConnType
    <2>4. d \in ConnType
      BY <2>2, <2>3
    <2>5. /\ d.replies = Append(t.replies, rep) /\ d.methWait = t.methWait
          /\ d.events = t.events
      BY <1>1 DEF ConnType
    <2> HIDE DEF d
    <2>6. Executions(d) = Executions(t)
      BY <2>5 DEF Executions
    <2>7. Grows(t, d)
      BY <1>1, <1>5, <2>4, <2>5, <2>6, AppendGrows
    <2> QED BY <1>1, <2>7, GrowsOn DEF d
  <1>6. CASE c.exc = "none"
    BY <1>6, SameLogGrows DEF CatchInRequest, SameLog
  <1>7. CASE c.exc = "error"
    <2>1. CatchInRequest(c) = [t EXCEPT !.replies = Append(@, text)]
      BY <1>7 DEF CatchInRequest, t, text
    <2> QED BY <1>4, <1>5, <2>1
  <1>8. CASE c.exc \notin {"none", "error"}
    <2> DEFINE rep == FaultReply(t, c.exc, 500)
    <2>1. CatchInRequest(c) = [t EXCEPT !.replies = Append(@, rep)] /\ c.exc \in Fault
      BY <1>2, <1>8 DEF CatchInRequest, t
    <2>2. rep \in ReplyType /\ rep.kind # "result"
      BY <1>1, <2>1, FaultReplyType
    <2> HIDE DEF rep
    <2> QED BY <1>5, <2>1, <2>2
  <1> QED BY <1>6, <1>7, <1>8

-----------------------------------------------------------------------------
(* Executing the operation. *)

LEMMA HandleResultGrows ==
    ASSUME FaultStatusOK, NEW c \in ConnType, Executions(c) # {}, NEW o
    PROVE  Grows(c, HandleResult(c, o))
  <1> DEFINE h == [c EXCEPT !.handled = TRUE]
  <1>1. h \in ConnType /\ SameLog(c, h) /\ h.methWait = c.methWait
    BY DEF ConnType, SameLog
  <1> HIDE DEF h
  <1>2. Grows(c, h) /\ Executions(h) # {}
    BY <1>1, SameLogGrows DEF SameLog, Executions
  <1>3. CASE c.handled
    BY <1>3, SameLogGrows DEF HandleResult, SameLog
  <1>4. CASE ~c.handled /\ o.error \in Fault
    <2>1. HandleResult(c, o) = SendFault(h, o.error)
      BY <1>4 DEF HandleResult, h
    <2> QED BY <1>1, <1>2, <1>4, <2>1, SendFaultGrows, GrowsOn
  <1>5. CASE ~c.handled /\ o.error \notin Fault /\ o.error = "error"
    <2>1. HandleResult(c, o) = ServerFault(h, 500)
      BY <1>5 DEF HandleResult, h
    <2> QED BY <1>1, <1>2, <2>1, ServerFaultGrows, GrowsOn
  <1>6. CASE ~c.handled /\ o.error \notin Fault /\ o.error # "error" /\ o.result = "bad"
    <2>1. HandleResult(c, o) = Throw(h, "error")
      BY <1>6 DEF HandleResult, h
    <2> QED BY <1>1, <1>2, <2>1, ThrowGrows, GrowsOn
  <1>7. CASE ~c.handled /\ o.error \notin Fault /\ o.error # "error" /\ o.result # "bad"
    <2>1. HandleResult(c, o) = SendResult(h, "result", 200)
      BY <1>7 DEF HandleResult, h
    <2> QED BY <1>1, <1>2, <2>1, SendResultGrows, GrowsOn
  <1> QED BY <1>3, <1>4, <1>5, <1>6, <1>7

LEMMA HandleUncaughtGrows ==
    ASSUME FaultStatusOK, NEW c \in ConnType, Executions(c) # {}, NEW o
    PROVE  Grows(c, HandleUncaught(c, o))
  <1> DEFINE h == HandleResult(c, o)
             u == [Throw(h, "none") EXCEPT !.uncaught = TRUE]
  <1>1. Grows(c, h) /\ h \in ConnType
    BY HandleResultGrows DEF Grows
  <1> HIDE DEF h
  <1>2. Throw(h, "none") \in ConnType /\ Grows(c, Throw(h, "none"))
    BY <1>1, ThrowGrows, ThrowFrame, GrowsOn
  <1>3. /\ u \in ConnType /\ SameLog(Throw(h, "none"), u)
        /\ u.methWait = Throw(h, "none").methWait
    BY <1>2 DEF ConnType, SameLog
  <1> HIDE DEF u
  <1>4. Grows(c, u)
    BY <1>2, <1>3, SameLogGrows, GrowsOn
  <1> QED BY <1>1, <1>4 DEF HandleUncaught, h, u

LEMMA CallMethodGrows ==
    ASSUME FaultStatusOK, NEW c \in ConnType, NEW beh \in MethodBehaviourType
    PROVE  Grows(c, CallMethod(c, beh))
  <1> DEFINE called == Emit(c, "method")
             told   == IF beh.calls = NoCall THEN called
                       ELSE IF beh.catches
                       THEN HandleUncaught(called, CallbackArguments(beh.calls))
                       ELSE HandleResult(called, CallbackArguments(beh.calls))
             wait   == (IF beh.keeps THEN {"callback"} ELSE {})
                         \cup (IF beh.how = "promise" THEN {"promise"} ELSE {})
             kept   == [told EXCEPT !.methWait = wait]
  <1>1. called \in ConnType /\ Grows(c, called) /\ Executions(called) # {}
    BY EmitGrows, EmitFrame DEF Event
  <1> HIDE DEF called
  <1>2. Grows(called, told)
    <2>1. Grows(called, called)
      BY <1>1, SameLogGrows DEF SameLog
    <2>2. Grows(called, HandleResult(called, CallbackArguments(beh.calls)))
      BY <1>1, HandleResultGrows
    <2>3. Grows(called, HandleUncaught(called, CallbackArguments(beh.calls)))
      BY <1>1, HandleUncaughtGrows
    <2> QED BY <2>1, <2>2, <2>3
  <1> HIDE DEF told
  <1>3. Grows(c, told) /\ told \in ConnType /\ Executions(told) # {}
    BY <1>1, <1>2, GrowsOn DEF Grows
  <1>4. wait \in SUBSET Source
    BY DEF Source
  <1> HIDE DEF wait
  <1>5. kept \in ConnType /\ SameLog(told, kept)
    BY <1>3, <1>4 DEF ConnType, SameLog
  <1> HIDE DEF kept
  <1>6. Executions(kept) # {} /\ Grows(told, kept)
    BY <1>3, <1>5 DEF SameLog, Grows, Extends, Backed, Executions
  <1>7. Grows(c, kept)
    BY <1>3, <1>6, GrowsOn
  <1>8. CASE told.exc # "none"
    <2>1. CallMethod(c, beh) = told
      BY <1>8 DEF CallMethod, told, called
    <2> QED BY <1>3, <2>1
  <1>9. CASE told.exc = "none" /\ beh.how = "throw"
    <2> DEFINE e == IF beh.what \in Fault THEN beh.what ELSE "error"
               d == [Throw(kept, e) EXCEPT !.throws = @ + 1]
    <2>1. CallMethod(c, beh) = d
      BY <1>9 DEF CallMethod, told, called, kept, wait
    <2>2. e \in {"error"} \cup Fault
      OBVIOUS
    <2> HIDE DEF e
    <2>3. d \in ConnType /\ SameLog(kept, d) /\ d.methWait = kept.methWait
      BY <1>5, <2>2, UserThrow
    <2> HIDE DEF d
    <2> QED BY <1>7, <2>1, <2>3, SameLogGrows, GrowsOn
  <1>10. CASE told.exc = "none" /\ beh.how = "return" /\ beh.what # "undefined"
    <2> DEFINE o == [error |-> "null", result |-> beh.what]
    <2>1. CallMethod(c, beh) = HandleResult(kept, o)
      BY <1>10 DEF CallMethod, told, called, kept, wait
    <2> HIDE DEF o
    <2> QED BY <1>5, <1>6, <1>7, <2>1, HandleResultGrows, GrowsOn
  <1>11. CASE told.exc = "none" /\ beh.how # "throw"
              /\ ~(beh.how = "return" /\ beh.what # "undefined")
    <2>1. CallMethod(c, beh) = kept
      BY <1>11 DEF CallMethod, told, called, kept, wait
    <2> QED BY <1>7, <2>1
  <1> QED BY <1>8, <1>9, <1>10, <1>11

LEMMA AnswerOneWayGrows ==
    ASSUME NEW c \in ConnType
    PROVE  Grows(c, AnswerOneWay(c))
  <1> DEFINE h == [c EXCEPT !.handled = TRUE]
             rep == [kind |-> "oneway", status |-> HttpStatus(OneWayCode, 200),
                     fault |-> NoFault,
                     headers |-> IF OneWayEnvelope THEN c.headers ELSE <<>>]
  <1>1. h \in ConnType /\ SameLog(c, h) /\ h.methWait = c.methWait
    BY DEF ConnType, SameLog
  <1>2. HttpStatus(OneWayCode, 200) \in Nat
    BY OptionAssumption DEF HttpStatus
  <1>3. c.headers \in Seq(Header) /\ <<>> \in Seq(Header)
    BY DEF ConnType
  <1>4. rep \in ReplyType /\ rep.kind # "result"
    BY <1>2, <1>3 DEF ReplyType
  <1> HIDE DEF h, rep
  <1>5. AnswerOneWay(c) = Reply(h, rep)
    BY DEF AnswerOneWay, h, rep
  <1> QED BY <1>1, <1>4, <1>5, SameLogGrows, ReplyGrows, GrowsOn

LEMMA ExecuteMethodGrows ==
    ASSUME FaultStatusOK, soapHeaders \in Seq(Header), NEW c \in ConnType,
           NEW f, f.service \in STRING, f.port \in STRING, f.binding \in DOMAIN Bindings,
           NEW m \in STRING, NEW beh \in MethodBehaviourType
    PROVE  Grows(c, ExecuteMethod(c, f, m, beh))
  <1> DEFINE opened == [c EXCEPT !.headers = soapHeaders]
             op == [service |-> f.service, port |-> f.port, method |-> m,
                    binding |-> f.binding]
             started == [opened EXCEPT !.op = op]
             ready == IF MethodOf(BindingAt(f.service, f.port), m).output THEN started
                      ELSE AnswerOneWay(started)
  <1>1. opened \in ConnType /\ SameLog(c, opened) /\ opened.methWait = c.methWait
    BY DEF ConnType, SameLog
  <1>2. op \in Operation
    BY DEF Operation
  <1> HIDE DEF op, opened
  <1>3. started \in ConnType /\ SameLog(opened, started) /\ started.methWait = opened.methWait
    BY <1>1, <1>2 DEF ConnType, SameLog
  <1> HIDE DEF started
  <1>4. Grows(c, opened) /\ Grows(c, started)
    BY <1>1, <1>3, SameLogGrows, GrowsOn
  <1>5. Grows(started, AnswerOneWay(started))
    BY <1>3, AnswerOneWayGrows
  <1>6. Grows(c, ready) /\ ready \in ConnType
    BY <1>3, <1>4, <1>5, GrowsOn DEF Grows
  <1> HIDE DEF ready
  <1>7. CASE ~HasPort(f.service, f.port)
    <2>1. ExecuteMethod(c, f, m, beh) = Throw(c, "error")
      BY <1>7 DEF ExecuteMethod
    <2> QED BY <2>1, ThrowGrows
  <1>8. CASE HasPort(f.service, f.port) /\ <<f.service, f.port>> \notin Implemented
    <2>1. ExecuteMethod(c, f, m, beh) = SendResult(opened, "empty", 200)
      BY <1>8 DEF ExecuteMethod, opened
    <2>2. Grows(opened, SendResult(opened, "empty", 200))
      BY <1>1, SendResultGrows
    <2> QED BY <1>4, <2>1, <2>2, GrowsOn
  <1>9. CASE /\ HasPort(f.service, f.port) /\ <<f.service, f.port>> \in Implemented
             /\ ~HasMethod(BindingAt(f.service, f.port), m)
    <2>1. ExecuteMethod(c, f, m, beh) = Throw(opened, "error")
      BY <1>9 DEF ExecuteMethod, opened
    <2> QED BY <1>1, <1>4, <2>1, ThrowGrows, GrowsOn
  <1>10. CASE /\ HasPort(f.service, f.port) /\ <<f.service, f.port>> \in Implemented
              /\ HasMethod(BindingAt(f.service, f.port), m)
              /\ <<f.service, f.port, m>> \notin Handlers
    <2> DEFINE d == CallMissingMethod(ready)
    <2>1. ExecuteMethod(c, f, m, beh) = d
      BY <1>10 DEF ExecuteMethod, ready, started, opened, op
    <2>2. d \in ConnType /\ SameLog(ready, d) /\ d.methWait = ready.methWait
      BY <1>6, UserThrow DEF CallMissingMethod
    <2> HIDE DEF d
    <2> QED BY <1>6, <2>1, <2>2, SameLogGrows, GrowsOn
  <1>11. CASE /\ HasPort(f.service, f.port) /\ <<f.service, f.port>> \in Implemented
              /\ HasMethod(BindingAt(f.service, f.port), m)
              /\ <<f.service, f.port, m>> \in Handlers
    <2>1. ExecuteMethod(c, f, m, beh) = CallMethod(ready, beh)
      BY <1>11 DEF ExecuteMethod, ready, started, opened, op
    <2> QED BY <1>6, <2>1, CallMethodGrows, GrowsOn
  <1> QED BY <1>7, <1>8, <1>9, <1>10, <1>11

LEMMA AnnounceGrows ==
    ASSUME NEW c \in ConnType
    PROVE  Grows(c, Announce(c))
  <1> DEFINE e == Emit(c, "request")
             g == Emit(e, "headers")
  <1>1. e \in ConnType /\ Grows(c, e)
    BY EmitFrame, EmitGrows DEF Event
  <1> HIDE DEF e
  <1>2. Grows(c, g)
    BY <1>1, EmitGrows, GrowsOn DEF Event
  <1> HIDE DEF g
  <1> QED BY <1>1, <1>2 DEF Announce, e, g

LEMMA ProcessGrows ==
    ASSUME FaultStatusOK, soapHeaders \in Seq(Header), NEW c \in ConnType,
           NEW beh \in MethodBehaviourType
    PROVE  Grows(c, Process(c, beh))
  <1> DEFINE f == FindBinding(c.msg.path)
             m == TargetMethod(f.binding, c.msg)
             a == Announce(c)
  <1>1. Grows(c, a) /\ a \in ConnType
    BY AnnounceGrows DEF Grows
  <1> HIDE DEF a
  <1>2. CASE Ports = <<>> \/ ~HasMethod(f.binding, m)
    <2>1. Process(c, beh) = Throw(c, "error")
      BY <1>2 DEF Process
    <2> QED BY <2>1, ThrowGrows
  <1>3. CASE /\ Ports # <<>> /\ HasMethod(f.binding, m)
             /\ StyleOf(f.binding, m) # "rpc" /\ ~HasPair(f.binding, c.msg)
    <2>1. Process(c, beh) = Throw(a, "error")
      BY <1>3 DEF Process, a
    <2> QED BY <1>1, <2>1, ThrowGrows, GrowsOn
  <1>4. CASE /\ Ports # <<>> /\ HasMethod(f.binding, m)
             /\ ~(StyleOf(f.binding, m) # "rpc" /\ ~HasPair(f.binding, c.msg))
    <2>1. Process(c, beh) = ExecuteMethod(a, f, m, beh)
      BY <1>4 DEF Process, a
    <2>2. f.service \in STRING /\ f.port \in STRING /\ f.binding \in DOMAIN Bindings
      BY <1>4, FindBindingType
    <2>3. m \in STRING
      BY <1>4, <2>2, MethodNameType
    <2> HIDE DEF f, m
    <2> QED BY <1>1, <2>1, <2>2, <2>3, ExecuteMethodGrows, GrowsOn
  <1> QED BY <1>2, <1>3, <1>4

-----------------------------------------------------------------------------
(* Authentication and the entry of a request. *)

LEMMA ProcessAuthResultGrows ==
    ASSUME FaultStatusOK, soapHeaders \in Seq(Header), NEW c \in ConnType,
           NEW v \in Verdict, NEW beh \in MethodBehaviourType
    PROVE  Grows(c, ProcessAuthResult(c, v, beh))
  <1> DEFINE h == [c EXCEPT !.verdict = v]
  <1>1. h \in ConnType /\ SameLog(c, h) /\ h.methWait = c.methWait
    BY DEF ConnType, SameLog
  <1> HIDE DEF h
  <1>2. Grows(c, h)
    BY <1>1, SameLogGrows
  <1>3. CASE c.verdict # "none"
    BY <1>3, SameLogGrows DEF ProcessAuthResult, SameLog
  <1>4. CASE c.verdict = "none" /\ v = "error"
    <2>1. ProcessAuthResult(c, v, beh) = ServerFault(h, 500)
      BY <1>4 DEF ProcessAuthResult, h
    <2> QED BY <1>1, <1>2, <2>1, ServerFaultGrows, GrowsOn
  <1>5. CASE c.verdict = "none" /\ v = "no"
    <2>1. ProcessAuthResult(c, v, beh) = ServerFault(h, 401)
      BY <1>5 DEF ProcessAuthResult, h
    <2> QED BY <1>1, <1>2, <2>1, ServerFaultGrows, GrowsOn
  <1>6. CASE c.verdict = "none" /\ v = "yes"
    <2> DEFINE p == Process(h, beh)
    <2>1. ProcessAuthResult(c, v, beh) = CatchInAuth(p)
      BY <1>6 DEF ProcessAuthResult, h
    <2>2. Grows(c, p) /\ p \in ConnType
      BY <1>1, <1>2, ProcessGrows, GrowsOn DEF Grows
    <2> HIDE DEF p
    <2> QED BY <2>1, <2>2, CatchInAuthGrows, GrowsOn
  <1>7. CASE c.verdict = "none" /\ v = "other"
    <2>1. ProcessAuthResult(c, v, beh) = h
      BY <1>7 DEF ProcessAuthResult, h
    <2> QED BY <1>2, <2>1
  <1> QED BY <1>3, <1>4, <1>5, <1>6, <1>7 DEF Verdict

LEMMA AuthenticateGrows ==
    ASSUME FaultStatusOK, soapHeaders \in Seq(Header), NEW c \in ConnType,
           NEW auth \in AuthBehaviourType, NEW beh \in MethodBehaviourType
    PROVE  Grows(c, Authenticate(c, auth, beh))
  <1> DEFINE told == IF auth.calls = "none" THEN c ELSE ProcessAuthResult(c, auth.calls, beh)
             wait == (IF auth.keeps THEN {"callback"} ELSE {})
                       \cup (IF auth.how = "promise" THEN {"promise"} ELSE {})
             kept == [told EXCEPT !.authWait = wait]
  <1>1. Grows(c, told) /\ told \in ConnType
    <2>1. Grows(c, c)
      BY SameLogGrows DEF SameLog
    <2>2. auth.calls # "none" => Grows(c, ProcessAuthResult(c, auth.calls, beh))
      BY ProcessAuthResultGrows DEF AuthBehaviourType
    <2> QED BY <2>1, <2>2 DEF Grows
  <1> HIDE DEF told
  <1>2. wait \in SUBSET Source
    BY DEF Source
  <1> HIDE DEF wait
  <1>3. kept \in ConnType /\ SameLog(told, kept) /\ kept.methWait = told.methWait
    BY <1>1, <1>2 DEF ConnType, SameLog
  <1> HIDE DEF kept
  <1>4. Grows(c, kept)
    BY <1>1, <1>3, SameLogGrows, GrowsOn
  <1>5. CASE auth.how = "throw"
    <2> DEFINE e == IF auth.what \in Fault THEN auth.what ELSE "error"
               d == [Throw(kept, e) EXCEPT !.throws = @ + 1]
    <2>1. Authenticate(c, auth, beh) = d
      BY <1>5 DEF Authenticate, told, wait, kept
    <2>2. e \in {"error"} \cup Fault
      OBVIOUS
    <2> HIDE DEF e
    <2>3. d \in ConnType /\ SameLog(kept, d) /\ d.methWait = kept.methWait
      BY <1>3, <2>2, UserThrow
    <2> HIDE DEF d
    <2> QED BY <1>4, <2>1, <2>3, SameLogGrows, GrowsOn
  <1>6. CASE auth.how = "return" /\ auth.what \in {"yes", "no"}
    <2>1. Authenticate(c, auth, beh) = ProcessAuthResult(kept, auth.what, beh)
      BY <1>6 DEF Authenticate, told, wait, kept
    <2>2. auth.what \in Verdict
      BY <1>6 DEF Verdict
    <2> QED BY <1>3, <1>4, <2>1, <2>2, ProcessAuthResultGrows, GrowsOn
  <1>7. CASE auth.how # "throw" /\ ~(auth.how = "return" /\ auth.what \in {"yes", "no"})
    <2>1. Authenticate(c, auth, beh) = kept
      BY <1>7 DEF Authenticate, told, wait, kept
    <2> QED BY <1>4, <2>1
  <1> QED BY <1>5, <1>6, <1>7

\* A late outcome decides nothing but the result, and that only once.
LEMMA HandleUncaughtKeeps ==
    ASSUME FaultStatusOK, NEW c \in ConnType, c.exc = "none", NEW o
    PROVE  LET d == HandleUncaught(c, o) IN
           SameCore(c, d) /\ (c.handled => d.replies = c.replies)
  <1> DEFINE h == HandleResult(c, o)
             t == Throw(h, "none")
             u == [t EXCEPT !.uncaught = TRUE]
  <1>1. h \in ConnType /\ SameCore(c, h) /\ (c.handled = TRUE => h = c)
    BY HandleResultFrame
  <1> HIDE DEF h
  <1>2. t \in ConnType /\ SameCore(h, t) /\ SameLog(h, t)
    BY <1>1, ThrowFrame
  <1> HIDE DEF t
  <1>3. SameCore(t, u) /\ SameLog(t, u)
    BY <1>2 DEF ConnType, SameCore, SameLog
  <1> HIDE DEF u
  <1>4. SameCore(c, u) /\ (c.handled => u.replies = c.replies)
    BY <1>1, <1>2, <1>3 DEF SameCore, SameLog
  <1>5. HandleUncaught(c, o) \in {h, u}
    BY DEF HandleUncaught, h, t, u
  <1> QED BY <1>1, <1>4, <1>5

LEMMA OpenedSound ==
    ASSUME NEW c, Arrived(c)
    PROVE  LET open == [c EXCEPT !.stage = "open"] IN
           Sound(open) /\ open.exc = "none" /\ open.stage = "open"
  <1> DEFINE open == [c EXCEPT !.stage = "open"]
  <1>1. c \in ConnType /\ c.exc = "none" /\ c.verdict = "none"
    BY DEF Arrived
  <1>2. /\ open \in ConnType /\ open.stage = "open"
        /\ open.exc = "none" /\ open.verdict = "none" /\ open.throws = c.throws
        /\ open.op = NoOperation /\ open.methWait = {} /\ open.handled = FALSE
        /\ open.replies = <<>> /\ open.events = <<>>
    BY <1>1 DEF ConnType, Arrived
  <1> HIDE DEF open
  <1>3. Executions(open) = {} /\ ~Refused(open) /\ Len(open.replies) = 0
    BY <1>2 DEF Executions, Refused
  <1>4. open.throws \in Nat
    BY <1>2, LengthType
  <1>5. Shape(open)
    BY <1>2, <1>3 DEF Shape, AtMostOneExecution
  <1>6. Balance(open)
    BY <1>2, <1>3, <1>4 DEF Balance, Owed, One
  <1> QED BY <1>2, <1>5, <1>6 DEF Sound, open

\* A message that is refused unread has at most the failure as its answer.
Rejected(d) ==
    d.stage = "closed" /\ Executions(d) = {} /\ AnswerOf(d) = "failed" /\ ~Served(d)

LEMMA ProcessRequestXmlGrows ==
    ASSUME FaultStatusOK, soapHeaders \in Seq(Header), NEW c, Arrived(c),
           NEW auth \in AuthBehaviourType, NEW beh \in MethodBehaviourType
    PROVE  LET d == ProcessRequestXml(c, auth, beh) IN
           (d.stage = "open" /\ Grows(c, d)) \/ Rejected(d)
  <1> DEFINE open    == [c EXCEPT !.stage = "open"]
             closed  == [c EXCEPT !.stage = "closed"]
             invalid == [kind |-> "fault", status |-> 500, fault |-> NoFault,
                         headers |-> <<>>]
             text    == [kind |-> "text", status |-> 500, fault |-> NoFault,
                         headers |-> <<>>]
  <1>1. c \in ConnType /\ c.replies = <<>> /\ c.events = <<>>
    BY DEF Arrived
  <1>2. /\ open \in ConnType /\ open.stage = "open" /\ SameLog(c, open)
        /\ open.methWait = c.methWait
    BY <1>1 DEF ConnType, SameLog
  <1>3. /\ closed \in ConnType /\ closed.stage = "closed"
        /\ closed.replies = <<>> /\ closed.events = <<>>
    BY <1>1 DEF ConnType
  <1> HIDE DEF open, closed
  <1>4. Grows(c, open)
    BY <1>1, <1>2, SameLogGrows
  <1>5. ASSUME NEW d, d.stage = "closed", d.events = <<>>,
               NEW rep, rep.kind \in {"fault", "text"}, d.replies = <<rep>>
        PROVE  Rejected(d)
    <2>1. d.replies # <<>> /\ Head(d.replies) = rep
      BY <1>5
    <2>2. AnswerOf(d) = "failed"
      BY <1>5, <2>1 DEF AnswerOf
    <2>3. Executions(d) = {}
      BY <1>5 DEF Executions
    <2>4. ~Served(d)
      BY <1>5 DEF Served
    <2> QED BY <1>5, <2>2, <2>3, <2>4 DEF Rejected
  <1>6. CASE c.msg.parse = "invalid"
    <2> DEFINE d == [closed EXCEPT !.replies = Append(@, invalid)]
    <2>1. ProcessRequestXml(c, auth, beh) = d
      BY <1>1, <1>6 DEF ProcessRequestXml, closed, ConnType
    <2>2. invalid.kind = "fault"
      OBVIOUS
    <2> HIDE DEF invalid
    <2>3. d.stage = "closed" /\ d.events = <<>> /\ d.replies = <<invalid>>
      BY <1>3 DEF ConnType
    <2> HIDE DEF d
    <2> QED BY <1>5, <2>1, <2>2, <2>3
  <1>7. CASE c.msg.parse # "invalid" /\ (c.msg.parse = "fault" \/ AuthMode = "invalid")
    <2> DEFINE d == CatchInRequest(Throw(closed, "error"))
    <2>1. ProcessRequestXml(c, auth, beh) = d
      BY <1>7 DEF ProcessRequestXml, closed
    <2>2. text.kind = "text"
      OBVIOUS
    <2> DEFINE t == Throw(Throw(closed, "error"), "none")
    <2>3. d = [t EXCEPT !.replies = Append(@, text)]
      BY <1>3 DEF CatchInRequest, Throw, ConnType
    <2>4. t \in ConnType /\ t.stage = "closed" /\ t.events = <<>> /\ t.replies = <<>>
      BY <1>3, ThrowFrame DEF SameCore, SameLog
    <2> HIDE DEF text, t
    <2>5. d.stage = "closed" /\ d.events = <<>> /\ d.replies = Append(<<>>, text)
      BY <2>3, <2>4 DEF ConnType
    <2>6. d.replies = <<text>>
      BY <2>5
    <2> HIDE DEF d
    <2> QED BY <1>5, <2>1, <2>2, <2>5, <2>6
  <1>8. ASSUME NEW d, Grows(open, d), d.stage = "open",
               ProcessRequestXml(c, auth, beh) = CatchInRequest(d)
        PROVE  /\ ProcessRequestXml(c, auth, beh).stage = "open"
               /\ Grows(c, ProcessRequestXml(c, auth, beh))
    <2>1. d \in ConnType
      BY <1>8 DEF Grows
    <2>2. Grows(c, CatchInRequest(d))
      BY <1>4, <1>8, <2>1, CatchInRequestGrows, GrowsOn
    <2>3. CatchInRequest(d).stage = "open"
      BY <1>8, <2>1, CatchInRequestFrame DEF SameCore
    <2> QED BY <1>8, <2>2, <2>3
  <1>9. Sound(open) /\ open.exc = "none"
    BY OpenedSound DEF open
  <1>10. CASE c.msg.parse \notin {"invalid", "fault"} /\ AuthMode = "none"
    <2> DEFINE d == ProcessAuthResult(open, "yes", beh)
    <2>1. ProcessRequestXml(c, auth, beh) = CatchInRequest(d)
      BY <1>10 DEF ProcessRequestXml, open
    <2>2. "yes" \in Verdict
      BY DEF Verdict
    <2>3. Grows(open, d) /\ d.stage = "open"
      BY <1>2, <1>9, <2>2, ProcessAuthResultGrows, ProcessAuthResultFrame
    <2> HIDE DEF d
    <2> QED BY <1>8, <2>1, <2>3
  <1>11. CASE c.msg.parse \notin {"invalid", "fault"} /\ AuthMode \notin {"none", "invalid"}
    <2> DEFINE d == Authenticate(open, auth, beh)
    <2>1. ProcessRequestXml(c, auth, beh) = CatchInRequest(d)
      BY <1>11 DEF ProcessRequestXml, open
    <2>2. Grows(open, d) /\ d.stage = "open"
      BY <1>2, <1>9, AuthenticateGrows, AuthenticateFrame
    <2> HIDE DEF d
    <2> QED BY <1>8, <2>1, <2>2
  <1> QED BY <1>6, <1>7, <1>10, <1>11

-----------------------------------------------------------------------------
(* The steps of the exchange. *)

\* What SoapExchange lets a step do to the record of a request.
Moves(x, y) ==
    \/ y = x
    \/ /\ x.status = "idle"
       /\ \E answer \in {"none", "failed"} :
            y = [status |-> "ended", ran |-> FALSE, answer |-> answer]
    \/ /\ x.status # "ended"
       /\ \E ran \in BOOLEAN, answer \in Exchange!Answer \cup {"none"} :
            /\ x.ran => ran
            /\ x.answer \in {"none", answer}
            /\ answer = "refused" => ~ran
            /\ answer = "served" => ran
            /\ y = [status |-> "waiting", ran |-> ran, answer |-> answer]

LEMMA AnswerType ==
    ASSUME NEW c \in ConnType
    PROVE  /\ AnswerOf(c) \in Exchange!Answer \cup {"none"}
           /\ AnswerOf(c) = "none" <=> c.replies = <<>>
           /\ AnswerOf(c) = "refused" => Refused(c)
           /\ AnswerOf(c) = "served" => Served(c)
  <1>1. c.replies \in Seq(ReplyType)
    BY DEF ConnType
  <1>2. c.replies # <<>> => 1 \in DOMAIN c.replies /\ Head(c.replies) = c.replies[1]
    BY <1>1
  <1> QED BY <1>2 DEF AnswerOf, Exchange!Answer, Refused, Served

LEMMA WorkMoves ==
    ASSUME NEW k \in ConnType, k.stage # "closed",
           NEW d, Sound(d), d.stage = "open", Grows(k, d), Backed(d)
    PROVE  Moves(ExchangeOf(k), ExchangeOf(d))
  <1> DEFINE x == ExchangeOf(k)
             ran == Executions(d) # {}
             answer == AnswerOf(d)
  <1>1. d \in ConnType
    BY DEF Sound
  <1>2. x.status # "ended" /\ x.ran = (Executions(k) # {}) /\ x.answer = AnswerOf(k)
    BY DEF ExchangeOf, ConnType
  <1>3. ExchangeOf(d) = [status |-> "waiting", ran |-> ran, answer |-> answer]
    BY DEF ExchangeOf
  <1>4. ran \in BOOLEAN /\ answer \in Exchange!Answer \cup {"none"}
    BY <1>1, AnswerType
  <1>5. x.ran => ran
    BY <1>2 DEF Grows
  <1>6. x.answer \in {"none", answer}
    <2>1. CASE k.replies = <<>>
      BY <1>2, <2>1, AnswerType
    <2>2. CASE k.replies # <<>>
      <3>1. k.replies \in Seq(ReplyType) /\ d.replies \in Seq(ReplyType)
        BY <1>1 DEF ConnType
      <3>2. 1 \in DOMAIN k.replies
        BY <2>2, <3>1
      <3>3. 1 \in DOMAIN d.replies /\ d.replies[1] = k.replies[1]
        BY <3>2 DEF Grows, Extends
      <3>4. d.replies # <<>> /\ Head(k.replies) = Head(d.replies)
        BY <2>2, <3>1, <3>3
      <3> QED BY <1>2, <2>2, <3>4 DEF AnswerOf
    <2> QED BY <2>1, <2>2
  <1>7. answer = "refused" => ~ran
    <2>1. Refused(d) => d.verdict = "no"
      BY DEF Sound, Shape
    <2>2. d.verdict = "no" => Executions(d) = {}
      BY DEF Sound, Shape
    <2> QED BY <1>1, <2>1, <2>2, AnswerType
  <1>8. answer = "served" => ran
    BY <1>1, AnswerType DEF Backed
  <1> HIDE DEF ran, answer, x
  <1>9. Moves(x, ExchangeOf(d))
    BY <1>2, <1>3, <1>4, <1>5, <1>6, <1>7, <1>8 DEF Moves
  <1> QED BY <1>9 DEF x

\* What IInv says, and that results are backed.
JInv == IInv /\ \A r \in Req : Backed(conn[r])

LEMMA InitJInv == Init => JInv
  <1> SUFFICES ASSUME Init PROVE \A r \in Req : Backed(conn[r])
    BY InitIInv DEF JInv
  <1> SUFFICES ASSUME NEW r \in Req PROVE Backed(conn[r])
    OBVIOUS
  <1>1. conn[r].replies = <<>> /\ conn[r].methWait = {}
    BY DEF Init, NewConn
  <1> QED BY <1>1 DEF Backed, Served

\* A step of the server on a request that moves its record is a step of the exchange.
StepOfExchange ==
    [Exchange!Next]_([r \in Req |-> ExchangeOf(conn[r])])

\* What a step may not take back from the record k of a request, which it leaves as d.
Stands(k, d) ==
    /\ k.verdict # "none" => d.verdict = k.verdict
    /\ k.op # NoOperation => d.op = k.op
    /\ IsPrefix(k.replies, d.replies)
    /\ k.handled => d.replies = k.replies

ResultsStand == \A r \in Req : Stands(conn[r], conn'[r])

LEMMA ExtendsPrefix ==
    ASSUME NEW k \in ConnType, NEW d \in ConnType, Extends(k.replies, d.replies)
    PROVE  IsPrefix(k.replies, d.replies)
  <1> DEFINE s == k.replies
             t == d.replies
  <1>1. s \in Seq(ReplyType) /\ t \in Seq(ReplyType) /\ Extends(s, t)
    BY DEF ConnType
  <1> HIDE DEF s, t
  <1>2. Len(s) \in Nat /\ DOMAIN s = 1..Len(s) /\ Len(t) \in Nat /\ DOMAIN t = 1..Len(t)
    BY <1>1
  <1>3. Len(s) <= Len(t)
    <2>1. CASE Len(s) = 0
      BY <1>2, <2>1
    <2>2. CASE Len(s) # 0
      <3>1. Len(s) \in DOMAIN s
        BY <1>2, <2>2
      <3>2. Len(s) \in DOMAIN t
        BY <1>1, <3>1 DEF Extends
      <3> QED BY <1>2, <3>2
    <2> QED BY <2>1, <2>2
  <1>4. \A i \in 1..Len(s) : t[i] = s[i]
    BY <1>1, <1>2 DEF Extends
  <1>5. SubSeq(s, 1, Len(s)) = SubSeq(t, 1, Len(s))
    <2>1. SubSeq(s, 1, Len(s)) = [i \in 1..Len(s) |-> s[i]]
      BY <1>1, <1>2
    <2>2. SubSeq(t, 1, Len(s)) = [i \in 1..Len(s) |-> t[i]]
      BY <1>1, <1>2, <1>3
    <2> QED BY <1>4, <2>1, <2>2
  <1> QED BY <1>3, <1>5 DEF IsPrefix, s, t

LEMMA StaysStands ==
    ASSUME NEW k \in ConnType
    PROVE  Stands(k, k)
  <1>1. Extends(k.replies, k.replies)
    BY DEF Extends
  <1> QED BY <1>1, ExtendsPrefix DEF Stands

\* Nothing has been decided for a request that has just arrived.
LEMMA ArrivedStands ==
    ASSUME NEW k, Arrived(k), NEW d \in ConnType
    PROVE  Stands(k, d)
  <1>1. /\ k \in ConnType /\ k.verdict = "none" /\ k.op = NoOperation
        /\ k.handled = FALSE /\ k.replies = <<>>
    BY DEF Arrived
  <1>2. Extends(k.replies, d.replies)
    BY <1>1 DEF Extends
  <1> QED BY <1>1, <1>2, ExtendsPrefix DEF Stands

LEMMA ExchangePrime ==
    \A q \in Req : (ExchangeOf(conn[q]))' = ExchangeOf(conn'[q])
  BY DEF ExchangeOf, AnswerOf, Executions

LEMMA BackedPrime ==
    \A q \in Req : (Backed(conn[q]))' <=> Backed(conn'[q])
  BY DEF Backed, Served, Executions

LEMMA UnchangedJInv ==
    ASSUME JInv, JInv => IInv', conn' = conn
    PROVE  JInv' /\ StepOfExchange /\ ResultsStand
  <1>1. \A q \in Req : ExchangeOf(conn'[q]) = ExchangeOf(conn[q])
    BY DEF JInv
  <1>2. \A q \in Req : (ExchangeOf(conn[q]))' = ExchangeOf(conn[q])
    BY <1>1, ExchangePrime
  <1>3. StepOfExchange
    BY <1>2 DEF StepOfExchange
  <1>4. \A q \in Req : Backed(conn'[q])
    BY DEF JInv
  <1>5. ResultsStand
    BY StaysStands DEF JInv, IInv, ResultsStand
  <1> QED BY <1>3, <1>4, <1>5, BackedPrime DEF JInv

LEMMA StepJInv ==
    ASSUME JInv, IInv', NEW r \in Req, NEW c, Step(r, c), Backed(c),
           Moves(ExchangeOf(conn[r]), ExchangeOf(c)), Stands(conn[r], c)
    PROVE  JInv' /\ StepOfExchange /\ ResultsStand
  <1> DEFINE x == [q \in Req |-> ExchangeOf(conn[q])]
             y == ExchangeOf(c)
  <1>1. conn \in [Req -> ConnType] /\ conn' = [conn EXCEPT ![r] = c]
    BY DEF JInv, IInv, Step
  <1>2. \A q \in Req : conn'[q] = IF q = r THEN c ELSE conn[q]
    BY <1>1
  <1>3. \A q \in Req : Backed(conn'[q])
    BY <1>2 DEF JInv
  <1>4. JInv'
    BY <1>3, BackedPrime DEF JInv
  <1>5. \A q \in Req : (ExchangeOf(conn[q]))' = IF q = r THEN y ELSE ExchangeOf(conn[q])
    BY <1>2, ExchangePrime
  <1>6. x' = [x EXCEPT ![r] = y]
    BY <1>5
  <1>7. x[r] = ExchangeOf(conn[r])
    OBVIOUS
  <1> HIDE DEF y
  <1>8. Moves(x[r], y)
    BY <1>7 DEF y
  <1>9. ResultsStand
    BY <1>1, <1>2, StaysStands DEF ResultsStand
  <1>10. CASE y = x[r]
    <2>1. x' = x
      BY <1>6, <1>10
    <2> QED BY <1>4, <1>9, <2>1 DEF StepOfExchange
  <1>11. ASSUME x[r].status = "idle",
                NEW answer \in {"none", "failed"},
                y = [status |-> "ended", ran |-> FALSE, answer |-> answer]
         PROVE  Exchange!Next
    <2>1. x' = [x EXCEPT ![r] = [status |-> "ended", ran |-> FALSE, answer |-> answer]]
      BY <1>6, <1>11
    <2>2. Exchange!Drop(r) \/ Exchange!Reject(r)
      BY <1>11, <2>1 DEF Exchange!Drop, Exchange!Reject, Exchange!Become
    <2> QED BY <2>2 DEF Exchange!Next
  <1>12. ASSUME x[r].status # "ended",
                NEW ran \in BOOLEAN, NEW answer \in Exchange!Answer \cup {"none"},
                x[r].ran => ran, x[r].answer \in {"none", answer},
                answer = "refused" => ~ran, answer = "served" => ran,
                y = [status |-> "waiting", ran |-> ran, answer |-> answer]
         PROVE  Exchange!Next
    <2>1. x' = [x EXCEPT ![r] = [status |-> "waiting", ran |-> ran, answer |-> answer]]
      BY <1>6, <1>12
    <2>2. Exchange!Work(r, ran, answer)
      BY <1>12, <2>1 DEF Exchange!Work, Exchange!Become
    <2> QED BY <2>2 DEF Exchange!Next
  <1>13. y = x[r] \/ Exchange!Next
    BY <1>8, <1>11, <1>12 DEF Moves
  <1> QED BY <1>4, <1>9, <1>10, <1>13 DEF StepOfExchange

\* Before the body is there the request is idle, and ends or goes on without a trace.
LEMMA ArrivedExchange ==
    ASSUME NEW c, Arrived(c)
    PROVE  /\ Backed(c)
           /\ c.stage \in {"new", "reading"} =>
                ExchangeOf(c) = [status |-> "idle", ran |-> FALSE, answer |-> "none"]
           /\ c.stage = "closed" =>
                ExchangeOf(c) = [status |-> "ended", ran |-> FALSE, answer |-> "none"]
  <1>1. Executions(c) = {} /\ c.replies = <<>> /\ c.methWait = {}
    BY DEF Arrived, Executions
  <1>2. AnswerOf(c) = "none" /\ (Executions(c) # {}) = FALSE
    BY <1>1 DEF AnswerOf
  <1>3. ExchangeOf(c) =
            [status |-> IF c.stage \in {"new", "reading"} THEN "idle"
                        ELSE IF c.stage = "open" THEN "waiting" ELSE "ended",
             ran |-> FALSE, answer |-> "none"]
    BY <1>2, Zenon DEF ExchangeOf
  <1>4. Backed(c)
    BY <1>1 DEF Backed, Served
  <1> QED BY <1>3, <1>4

LEMMA ReceiveMoves ==
    ASSUME FaultStatusOK, soapHeaders \in Seq(Header),
           NEW k, Arrived(k), k.stage \in {"new", "reading"},
           NEW c, Arrived(c), c.stage \in {"new", "reading"},
           NEW auth \in AuthBehaviourType, NEW beh \in MethodBehaviourType
    PROVE  LET d == ProcessRequestXml(c, auth, beh) IN
           Backed(d) /\ Moves(ExchangeOf(k), ExchangeOf(d))
  <1> DEFINE d == ProcessRequestXml(c, auth, beh)
  <1>1. (d.stage = "open" /\ Grows(c, d)) \/ Rejected(d)
    BY ProcessRequestXmlGrows
  <1>2. Sound(d)
    BY ProcessRequestXmlFrame
  <1> HIDE DEF d
  <1> DEFINE idle == [status |-> "idle", ran |-> FALSE, answer |-> "none"]
  <1>3. /\ ExchangeOf(k) = idle /\ ExchangeOf(c) = idle /\ idle.status = "idle"
        /\ c \in ConnType /\ c.stage # "closed"
    BY ArrivedExchange DEF Arrived
  <1> HIDE DEF idle
  <1>4. CASE d.stage = "open" /\ Grows(c, d)
    <2>1. Backed(d)
      BY <1>4, ArrivedExchange DEF Grows
    <2> QED BY <1>2, <1>3, <1>4, <2>1, WorkMoves DEF d
  <1>5. CASE Rejected(d)
    <2>1. ExchangeOf(d) = [status |-> "ended", ran |-> FALSE, answer |-> "failed"]
      BY <1>5 DEF Rejected, ExchangeOf
    <2>2. d.op = NoOperation => d.methWait = {}
      BY <1>2 DEF Sound, Shape
    <2>3. d.op # NoOperation => d.stage # "closed"
      BY <1>2 DEF Sound, Shape
    <2> QED BY <1>3, <1>5, <2>1, <2>2, <2>3 DEF Moves, Backed, Rejected, d
  <1> QED BY <1>1, <1>4, <1>5

\* A callback or promise of authenticate may be taken off the list of those awaited.
LEMMA AuthResultStep ==
    ASSUME NEW r \in Req, conn[r] \in ConnType, NEW v, NEW beh,
           AuthCallback(r, v, beh) \/ AuthPromise(r, v, beh)
    PROVE  \E w \in SUBSET Source :
              Step(r, ProcessAuthResult([conn[r] EXCEPT !.authWait = w], v, beh))
  <1> DEFINE k == conn[r]
  <1>1. k.authWait \in SUBSET Source
    BY DEF ConnType
  <1>2. CASE AuthCallback(r, v, beh)
    <2>1. PICK again \in BOOLEAN :
            Step(r, ProcessAuthResult(
                      IF again THEN k ELSE [k EXCEPT !.authWait = @ \ {"callback"}], v, beh))
      BY <1>2 DEF AuthCallback
    <2>2. k.authWait \ {"callback"} \in SUBSET Source
      BY <1>1
    <2>3. k = [k EXCEPT !.authWait = k.authWait]
      BY DEF ConnType
    <2>4. CASE again = TRUE
      BY <1>1, <2>1, <2>3, <2>4
    <2>5. CASE again = FALSE
      BY <2>1, <2>2, <2>5
    <2> QED BY <2>4, <2>5
  <1>3. CASE AuthPromise(r, v, beh)
    BY <1>1, <1>3 DEF AuthPromise
  <1> QED BY <1>2, <1>3

\* The same for the outcomes of a method.
LEMMA OutcomeStep ==
    ASSUME NEW r \in Req, conn[r] \in ConnType, NEW o,
           MethodCallback(r, o) \/ MethodPromise(r, o)
    PROVE  \E w \in SUBSET Source, p \in {o, CallbackArguments(o)} :
              Step(r, HandleUncaught([conn[r] EXCEPT !.methWait = w], p))
  <1> DEFINE k == conn[r]
             q == CallbackArguments(o)
  <1>1. k.methWait \in SUBSET Source
    BY DEF ConnType
  <1>2. CASE MethodCallback(r, o)
    <2>1. PICK again \in BOOLEAN :
            Step(r, HandleUncaught(
                      IF again THEN k ELSE [k EXCEPT !.methWait = @ \ {"callback"}], q))
      BY <1>2 DEF MethodCallback
    <2> HIDE DEF q
    <2>2. k.methWait \ {"callback"} \in SUBSET Source
      BY <1>1
    <2>3. k = [k EXCEPT !.methWait = k.methWait]
      BY DEF ConnType
    <2>4. CASE again = TRUE
      BY <1>1, <2>1, <2>3, <2>4 DEF q
    <2>5. CASE again = FALSE
      BY <2>1, <2>2, <2>5 DEF q
    <2> QED BY <2>4, <2>5
  <1>3. CASE MethodPromise(r, o)
    BY <1>1, <1>3 DEF MethodPromise
  <1> QED BY <1>2, <1>3

LEMMA NextJInv == ASSUME JInv, [Next]_vars PROVE JInv' /\ StepOfExchange /\ ResultsStand
  <1> USE BehaviourAssumption
  <1>1. /\ FaultStatusOK /\ soapHeaders \in Seq(Header)
        /\ IInv /\ IInv'
    BY NextIInv DEF JInv, IInv
  <1>2. \A r \in Req : Quiet(conn[r]) /\ conn[r] \in ConnType /\ Backed(conn[r])
    BY DEF JInv, IInv, Quiet, Sound
  <1>3. ASSUME NEW r \in Req, conn[r].stage \in {"new", "reading"},
               NEW c, Arrived(c), Step(r, c), c.stage \in {"new", "reading", "closed"}
        PROVE  JInv' /\ StepOfExchange /\ ResultsStand
    <2>1. Arrived(conn[r])
      BY <1>2, <1>3 DEF Quiet
    <2> DEFINE x == ExchangeOf(conn[r])
               y == ExchangeOf(c)
               idle == [status |-> "idle", ran |-> FALSE, answer |-> "none"]
               ended == [status |-> "ended", ran |-> FALSE, answer |-> "none"]
    <2>2. Backed(c) /\ x = idle /\ y \in {idle, ended}
      BY <1>3, <2>1, ArrivedExchange
    <2>3. Moves(idle, idle) /\ Moves(idle, ended)
      BY DEF Moves
    <2> HIDE DEF x, y, idle, ended
    <2>4. Moves(x, y)
      BY <2>2, <2>3
    <2>5. Stands(conn[r], c)
      BY <1>3, <2>1, ArrivedStands DEF Arrived
    <2> QED BY <1>1, <1>3, <2>2, <2>4, <2>5, StepJInv DEF x, y
  <1>4. ASSUME NEW r \in Req, EndWithoutBody(r) PROVE JInv' /\ StepOfExchange /\ ResultsStand
    <2> DEFINE c == [conn[r] EXCEPT !.stage = "closed"]
    <2>1. Arrived(conn[r]) /\ conn[r].stage = "new" /\ Step(r, c)
      BY <1>2, <1>4 DEF EndWithoutBody, Quiet
    <2>2. Arrived(c) /\ c.stage = "closed"
      BY <2>1 DEF Arrived, ConnType
    <2> HIDE DEF c
    <2> QED BY <1>3, <2>1, <2>2
  <1>5. ASSUME NEW r \in Req, NEW m \in Message, BeginBody(r, m)
        PROVE  JInv' /\ StepOfExchange /\ ResultsStand
    <2> DEFINE c == [conn[r] EXCEPT !.stage = "reading", !.msg = m]
    <2>1. Arrived(conn[r]) /\ conn[r].stage = "new" /\ Step(r, c)
      BY <1>2, <1>5 DEF BeginBody, Quiet
    <2>2. Arrived(c) /\ c.stage = "reading"
      BY <2>1 DEF Arrived, ConnType
    <2> HIDE DEF c
    <2> QED BY <1>3, <2>1, <2>2
  <1>6. ASSUME NEW r \in Req, LoseBody(r) PROVE JInv' /\ StepOfExchange /\ ResultsStand
    <2> DEFINE c == [conn[r] EXCEPT !.stage = "closed"]
    <2>1. Arrived(conn[r]) /\ conn[r].stage = "reading" /\ Step(r, c)
      BY <1>2, <1>6 DEF LoseBody, Quiet
    <2>2. Arrived(c) /\ c.stage = "closed"
      BY <2>1 DEF Arrived, ConnType
    <2> HIDE DEF c
    <2> QED BY <1>3, <2>1, <2>2
  <1>7. ASSUME NEW r \in Req, conn[r].stage \in {"new", "reading"},
               NEW c, Arrived(c), c.stage \in {"new", "reading"},
               NEW auth \in AuthBehaviour, NEW beh \in MethodBehaviour,
               Step(r, ProcessRequestXml(c, auth, beh))
        PROVE  JInv' /\ StepOfExchange /\ ResultsStand
    <2> DEFINE d == ProcessRequestXml(c, auth, beh)
    <2>1. Arrived(conn[r]) /\ auth \in AuthBehaviourType /\ beh \in MethodBehaviourType
      BY <1>2, <1>7 DEF Quiet
    <2>2. Backed(d) /\ Moves(ExchangeOf(conn[r]), ExchangeOf(d))
      BY <1>1, <1>7, <2>1, ReceiveMoves
    <2>3. d \in ConnType
      BY <1>1, <1>7, <2>1, ProcessRequestXmlFrame DEF Sound
    <2> HIDE DEF d
    <2>4. Stands(conn[r], d)
      BY <2>1, <2>3, ArrivedStands
    <2> QED BY <1>1, <1>7, <2>2, <2>4, StepJInv DEF d
  <1>8. ASSUME NEW r \in Req, NEW auth \in AuthBehaviour, NEW beh \in MethodBehaviour,
               EndBody(r, auth, beh)
        PROVE  JInv' /\ StepOfExchange /\ ResultsStand
    <2>1. /\ Arrived(conn[r]) /\ conn[r].stage = "reading"
          /\ Step(r, ProcessRequestXml(conn[r], auth, beh))
      BY <1>2, <1>8 DEF EndBody, Quiet
    <2> QED BY <1>7, <2>1
  <1>9. ASSUME NEW r \in Req, NEW m \in Message, NEW auth \in AuthBehaviour,
               NEW beh \in MethodBehaviour, ReceiveWhole(r, m, auth, beh)
        PROVE  JInv' /\ StepOfExchange /\ ResultsStand
    <2> DEFINE c == [conn[r] EXCEPT !.msg = m]
    <2>1. /\ Arrived(conn[r]) /\ conn[r].stage = "new"
          /\ Step(r, ProcessRequestXml(c, auth, beh))
      BY <1>2, <1>9 DEF ReceiveWhole, Quiet
    <2>2. Arrived(c) /\ c.stage = "new"
      BY <2>1 DEF Arrived, ConnType
    <2> HIDE DEF c
    <2> QED BY <1>7, <2>1, <2>2
  <1>10. ASSUME NEW r \in Req, conn[r].stage = "open",
                NEW c \in ConnType, SameLog(conn[r], c), Backed(c),
                NEW d, Sound(d), d.stage = "open", Grows(c, d), Step(r, d),
                Stands(conn[r], d)
         PROVE  JInv' /\ StepOfExchange /\ ResultsStand
    <2>1. Backed(d)
      BY <1>10 DEF Grows
    <2>2. Grows(conn[r], d)
      <3>1. Executions(c) = Executions(conn[r])
        BY <1>10 DEF SameLog, Executions
      <3> QED BY <1>10, <2>1, <3>1 DEF Grows, SameLog
    <2>3. Moves(ExchangeOf(conn[r]), ExchangeOf(d))
      BY <1>2, <1>10, <2>1, <2>2, WorkMoves
    <2> QED BY <1>1, <1>10, <2>1, <2>3, StepJInv
  <1>11. ASSUME NEW r \in Req, AuthSettles(r) PROVE JInv' /\ StepOfExchange /\ ResultsStand
    <2>1. PICK v \in Verdict, beh \in MethodBehaviour :
            AuthCallback(r, v, beh) \/ AuthPromise(r, v, beh)
      BY <1>11 DEF AuthSettles
    <2> DEFINE k == conn[r]
    <2>2. k.authWait \in SUBSET Source
      BY <1>2 DEF ConnType
    <2>3. Quiet(k) /\ k.stage = "open" /\ Backed(k) /\ k \in ConnType
      BY <1>2, <2>1, WaitShape DEF AuthCallback, AuthPromise
    <2>4. PICK w \in SUBSET Source :
            Step(r, ProcessAuthResult([k EXCEPT !.authWait = w], v, beh))
      BY <2>1, <2>3, AuthResultStep
    <2> HIDE DEF k
    <2> DEFINE c == [k EXCEPT !.authWait = w]
               d == ProcessAuthResult(c, v, beh)
    <2>5. /\ Sound(c) /\ c.exc = "none" /\ c.stage = "open"
          /\ c.methWait = k.methWait /\ SameLog(k, c)
      BY <2>3, AuthWaitFrame DEF Quiet, SameRun
    <2>6. c \in ConnType
      BY <2>5 DEF Sound
    <2>7. Step(r, d)
      BY <2>4
    <2> HIDE DEF c
    <2>8. beh \in MethodBehaviourType
      OBVIOUS
    <2>9. Grows(c, d) /\ Sound(d) /\ d.stage = "open"
      BY <1>1, <2>5, <2>6, <2>8, ProcessAuthResultGrows, ProcessAuthResultFrame
    <2>10. Backed(c)
      BY <2>3, <2>5 DEF SameLog, Backed, Served, Executions
    <2>11. c.verdict # "none" => d = c
      BY DEF ProcessAuthResult
    <2> HIDE DEF d
    <2>12. k.verdict = c.verdict /\ k.op = c.op /\ k.handled = c.handled
      BY <2>3, AuthWaitFrame DEF Quiet, SameRun, c
    <2>13. Extends(k.replies, d.replies) /\ d \in ConnType
      BY <2>5, <2>9 DEF Grows, SameLog
    <2>14. Stands(k, d)
      <3>1. c.verdict = "none" => c.op = NoOperation /\ c.handled = FALSE
        BY <2>5 DEF Sound, Shape
      <3> QED BY <2>3, <2>5, <2>11, <2>12, <2>13, <3>1, ExtendsPrefix DEF Stands, SameLog
    <2> QED BY <1>10, <2>3, <2>5, <2>6, <2>7, <2>9, <2>10, <2>14 DEF k
  <1>12. ASSUME NEW r \in Req, MethodSettles(r) PROVE JInv' /\ StepOfExchange /\ ResultsStand
    <2>1. PICK o \in Outcome : MethodCallback(r, o) \/ MethodPromise(r, o)
      BY <1>12 DEF MethodSettles
    <2> DEFINE k == conn[r]
    <2>2. k.methWait \in SUBSET Source /\ k.methWait # {}
      BY <1>2, <2>1 DEF ConnType, MethodCallback, MethodPromise
    <2>3. /\ Quiet(k) /\ k.stage = "open" /\ k.op # NoOperation /\ k \in ConnType
          /\ Executions(k) # {}
      BY <1>2, <2>2, WaitShape DEF Backed
    <2>4. PICK w \in SUBSET Source, p \in {o, CallbackArguments(o)} :
            Step(r, HandleUncaught([k EXCEPT !.methWait = w], p))
      BY <2>1, <2>3, OutcomeStep
    <2> HIDE DEF k
    <2> DEFINE c == [k EXCEPT !.methWait = w]
               d == HandleUncaught(c, p)
    <2>5. Sound(c) /\ c.exc = "none" /\ c.op # NoOperation
      BY <2>3, <2>4, MethWaitFrame DEF Quiet
    <2>6. c \in ConnType /\ c.stage = "open" /\ SameLog(k, c)
      BY <2>3, <2>5 DEF Sound, ConnType, SameLog
    <2>7. Step(r, d)
      BY <2>4
    <2> HIDE DEF c
    <2>8. Executions(c) # {}
      BY <2>3, <2>6 DEF SameLog, Executions
    <2>9. Grows(c, d) /\ Sound(d) /\ d.stage = "open"
      BY <1>1, <2>5, <2>6, <2>8, HandleUncaughtGrows, HandleUncaughtFrame
    <2>10. Backed(c)
      BY <2>8 DEF Backed
    <2>11. SameCore(c, d) /\ (c.handled => d.replies = c.replies)
      BY <1>1, <2>5, <2>6, HandleUncaughtKeeps
    <2> HIDE DEF d
    <2>12. k.verdict = c.verdict /\ k.op = c.op /\ k.handled = c.handled
      BY <2>3 DEF ConnType, c
    <2>13. Extends(k.replies, d.replies) /\ d \in ConnType
      BY <2>6, <2>9 DEF Grows, SameLog
    <2>14. Stands(k, d)
      BY <2>3, <2>6, <2>11, <2>12, <2>13, ExtendsPrefix DEF Stands, SameCore, SameLog
    <2> QED BY <1>10, <2>3, <2>6, <2>7, <2>9, <2>10, <2>14 DEF k
  <1>13. ASSUME conn' = conn PROVE JInv' /\ StepOfExchange /\ ResultsStand
    BY <1>1, <1>13, UnchangedJInv
  <1>14. ASSUME NEW h \in Header,
                \/ AddSoapHeader(h)
                \/ \E i \in 1..(Len(soapHeaders) + 1) : ChangeSoapHeader(i, h)
         PROVE  conn' = conn
    BY <1>14 DEF AddSoapHeader, ChangeSoapHeader
  <1>15. ASSUME ClearSoapHeaders \/ UNCHANGED vars PROVE conn' = conn
    BY <1>15 DEF ClearSoapHeaders, vars
  <1> QED BY <1>4, <1>5, <1>6, <1>8, <1>9, <1>11, <1>12, <1>13, <1>14, <1>15 DEF Next

-----------------------------------------------------------------------------
(* The theorem. *)

LEMMA InitExchange == Init => Exchange!Init
  <1> SUFFICES ASSUME Init PROVE Exchange!Init
    OBVIOUS
  <1>1. \A r \in Req : Quiet(conn[r]) /\ conn[r].stage = "new"
    BY InitIInv DEF IInv, Init, NewConn
  <1>2. \A r \in Req :
            ExchangeOf(conn[r]) = [status |-> "idle", ran |-> FALSE, answer |-> "none"]
    BY <1>1, ArrivedExchange DEF Quiet
  <1> QED BY <1>2 DEF Exchange!Init

\* The first response decides an exchange whatever is delivered later, a refused request
\* never reaches a service method, and a result is only sent for a method that was called:
\* the server implements the exchange it promises.
THEOREM ServerImplementsExchange == Spec => ImplementsExchange
  <1>1. Init => JInv /\ Exchange!Init
    BY InitJInv, InitExchange
  <1>2. JInv /\ [Next]_vars => JInv' /\ StepOfExchange
    BY NextJInv
  <1> QED BY <1>1, <1>2, PTL DEF Spec, ImplementsExchange, Exchange!Spec, StepOfExchange

\* What was decided for a request stays decided: the first auth result, the operation that
\* is executed and every response already sent, whatever late callbacks and promises
\* deliver; once a callback has closed the one-shot guard, later ones send nothing more.
THEOREM DecisionsStand == Spec => FirstResultStands
  <1>1. Init => JInv
    BY InitJInv
  <1>2. JInv /\ [Next]_vars => JInv'
    BY NextJInv
  <1>3. JInv /\ [Next]_vars =>
          [\A r \in Req :
              /\ conn[r].verdict # "none" => conn'[r].verdict = conn[r].verdict
              /\ conn[r].op # NoOperation => conn'[r].op = conn[r].op
              /\ IsPrefix(conn[r].replies, conn'[r].replies)
              /\ conn[r].handled => conn'[r].replies = conn[r].replies]_vars
    BY NextJInv DEF ResultsStand, Stands
  <1> QED BY <1>1, <1>2, <1>3, PTL DEF Spec, FirstResultStands

-----------------------------------------------------------------------------
(* Headers of results, and one-way operations. *)

\* An operation without output has been answered, and its result taken.
Accepted(c) ==
    /\ c.handled /\ ~Served(c) /\ ~c.uncaught
    /\ \E i \in DOMAIN c.replies :
         c.replies[i].kind = "oneway" /\ c.replies[i].status = HttpStatus(OneWayCode, 200)

\* A result is only there for an operation, and has the headers of its invocation.
Faithful(c) ==
    /\ c.op = NoOperation => ~Served(c) /\ ~c.uncaught
    /\ \A i \in DOMAIN c.replies :
         c.replies[i].kind = "result" => c.replies[i].headers = c.headers
    /\ c.op # NoOperation /\ IsOneWay(c.op) => Accepted(c)

\* What a step makes of a record: the operation and its headers stay, and an operation
\* begins with the headers registered at that time.
Follows(c, d) ==
    /\ d \in ConnType
    /\ Faithful(c) => Faithful(d)
    /\ c.op # NoOperation => d.op = c.op /\ d.headers = c.headers
    /\ c.op = NoOperation /\ d.op # NoOperation => d.headers = soapHeaders

LEMMA FollowsOn ==
    ASSUME NEW c, NEW d, NEW e, Follows(c, d), Follows(d, e)
    PROVE  Follows(c, e)
  BY DEF Follows

SameCall(c, d) ==
    d.op = c.op /\ d.headers = c.headers /\ d.uncaught = c.uncaught

LEMMA SameCallFollows ==
    ASSUME NEW c, NEW d \in ConnType, SameCall(c, d), d.replies = c.replies,
           c.handled => d.handled
    PROVE  Follows(c, d)
  <1>1. Faithful(c) => Faithful(d)
    BY DEF Faithful, Accepted, Served, SameCall
  <1> QED BY <1>1 DEF Follows, SameCall

LEMMA AppendFollows ==
    ASSUME NEW c \in ConnType, NEW d \in ConnType, SameCall(c, d), c.handled => d.handled,
           NEW rep \in ReplyType, d.replies = Append(c.replies, rep),
           rep.kind = "result" =>
                /\ c.op # NoOperation /\ ~IsOneWay(c.op)
                /\ rep.headers = c.headers
    PROVE  Follows(c, d)
  <1>1. c.replies \in Seq(ReplyType)
    BY DEF ConnType
  <1>2. \A i \in DOMAIN c.replies : i \in DOMAIN d.replies /\ d.replies[i] = c.replies[i]
    BY <1>1
  <1>3. \A i \in DOMAIN d.replies : i \in DOMAIN c.replies \/ d.replies[i] = rep
    BY <1>1
  <1>4. Served(d) => Served(c) \/ rep.kind = "result"
    BY <1>2, <1>3 DEF Served
  <1>5. ASSUME Faithful(c) PROVE Faithful(d)
    <2>1. d.op = NoOperation => ~Served(d) /\ ~d.uncaught
      BY <1>4, <1>5 DEF Faithful, SameCall
    <2>2. \A i \in DOMAIN d.replies :
            d.replies[i].kind = "result" => d.replies[i].headers = d.headers
      BY <1>2, <1>3, <1>5 DEF Faithful, SameCall
    <2>3. ASSUME d.op # NoOperation, IsOneWay(d.op) PROVE Accepted(d)
      <3>1. c.op # NoOperation /\ IsOneWay(c.op) /\ rep.kind # "result"
        BY <2>3 DEF SameCall
      <3>2. Accepted(c)
        BY <1>5, <3>1 DEF Faithful
      <3>3. ~Served(d) /\ d.handled /\ ~d.uncaught
        BY <1>4, <3>1, <3>2 DEF Accepted, SameCall
      <3>4. \E i \in DOMAIN d.replies :
                d.replies[i].kind = "oneway"
                  /\ d.replies[i].status = HttpStatus(OneWayCode, 200)
        BY <1>2, <3>2 DEF Accepted
      <3> QED BY <3>3, <3>4 DEF Accepted
    <2> QED BY <2>1, <2>2, <2>3 DEF Faithful
  <1> QED BY <1>5 DEF Follows, SameCall

LEMMA EmitFollows ==
    ASSUME NEW c \in ConnType, NEW e \in Event
    PROVE  SameCall(c, Emit(c, e)) /\ Follows(c, Emit(c, e))
  <1> DEFINE d == Emit(c, e)
  <1>1. d \in ConnType /\ d.replies = c.replies /\ d.handled = c.handled
    BY EmitFrame DEF SameRun
  <1>2. SameCall(c, d)
    BY DEF Emit, ConnType, SameCall
  <1> HIDE DEF d
  <1>3. Follows(c, d)
    BY <1>1, <1>2, SameCallFollows
  <1> QED BY <1>2, <1>3 DEF d

LEMMA ReplyKeeps ==
    ASSUME NEW c \in ConnType, NEW rep \in ReplyType
    PROVE  /\ SameCall(c, Reply(c, rep))
           /\ Reply(c, rep).replies = Append(c.replies, rep)
  <1> DEFINE e == Emit(c, "response")
             d == Reply(c, rep)
  <1>1. e \in ConnType /\ e.replies = c.replies /\ SameCall(c, e)
    BY EmitFrame, EmitFollows DEF Event
  <1>2. d = [e EXCEPT !.replies = Append(@, rep)]
    BY DEF Reply
  <1> HIDE DEF e, d
  <1>3. SameCall(c, d) /\ d.replies = Append(c.replies, rep)
    BY <1>1, <1>2 DEF ConnType, SameCall
  <1> QED BY <1>3 DEF d

LEMMA ReplyFollows ==
    ASSUME NEW c \in ConnType, NEW rep \in ReplyType,
           rep.kind = "result" =>
                /\ c.op # NoOperation /\ ~IsOneWay(c.op)
                /\ rep.headers = c.headers
    PROVE  Follows(c, Reply(c, rep))
  <1> DEFINE d == Reply(c, rep)
  <1>1. d \in ConnType /\ d.handled = c.handled
    BY ReplyFrame DEF SameRun
  <1>2. SameCall(c, d) /\ d.replies = Append(c.replies, rep)
    BY ReplyKeeps
  <1> HIDE DEF d
  <1>3. Follows(c, d)
    BY <1>1, <1>2, AppendFollows
  <1> QED BY <1>3 DEF d

LEMMA ThrowFollows ==
    ASSUME NEW c \in ConnType, NEW e \in {"none", "error"} \cup Fault
    PROVE  SameCall(c, Throw(c, e)) /\ Follows(c, Throw(c, e))
  <1> DEFINE d == Throw(c, e)
  <1>1. d \in ConnType /\ d.replies = c.replies /\ d.handled = c.handled
    BY ThrowFrame DEF SameRun, SameLog
  <1>2. SameCall(c, d)
    BY DEF Throw, ConnType, SameCall
  <1> HIDE DEF d
  <1> QED BY <1>1, <1>2, SameCallFollows DEF d

\* A user function that throws.
LEMMA UserThrowFollows ==
    ASSUME NEW c \in ConnType, NEW e \in {"error"} \cup Fault
    PROVE  Follows(c, [Throw(c, e) EXCEPT !.throws = @ + 1])
  <1> DEFINE t == Throw(c, e)
             d == [t EXCEPT !.throws = @ + 1]
  <1>1. d \in ConnType
    BY UserThrow
  <1>2. t \in ConnType /\ t.replies = c.replies /\ t.handled = c.handled
    BY ThrowFrame DEF SameRun, SameLog
  <1>3. SameCall(c, t)
    BY ThrowFollows
  <1> HIDE DEF t
  <1>4. SameCall(c, d) /\ d.replies = c.replies /\ d.handled = c.handled
    BY <1>2, <1>3 DEF ConnType, SameCall
  <1> HIDE DEF d
  <1>5. Follows(c, d)
    BY <1>1, <1>4, SameCallFollows
  <1> QED BY <1>5 DEF d, t

LEMMA SendFaultFollows ==
    ASSUME FaultStatusOK, NEW c \in ConnType, NEW f \in Fault
    PROVE  Follows(c, SendFault(c, f))
  <1>1. 200 \in Nat
    OBVIOUS
  <1>2. FaultReply(c, f, 200) \in ReplyType /\ FaultReply(c, f, 200).kind # "result"
    BY <1>1, FaultReplyType
  <1>3. SendFault(c, f) = Reply(c, FaultReply(c, f, 200))
    BY DEF SendFault
  <1> HIDE DEF FaultReply
  <1> QED BY <1>2, <1>3, ReplyFollows

LEMMA ServerFaultFollows ==
    ASSUME NEW c \in ConnType, NEW status \in {401, 500}
    PROVE  Follows(c, ServerFault(c, status))
  <1> DEFINE rep == [kind |-> IF status = 401 THEN "refused" ELSE "fault",
                     status |-> status, fault |-> NoFault, headers |-> <<>>]
  <1>1. <<>> \in Seq(Header)
    OBVIOUS
  <1>2. rep \in ReplyType /\ rep.kind # "result"
    BY <1>1 DEF ReplyType
  <1> HIDE DEF rep
  <1>3. ServerFault(c, status) = Reply(c, rep)
    BY DEF ServerFault, rep
  <1> QED BY <1>2, <1>3, ReplyFollows

LEMMA SendResultFollows ==
    ASSUME NEW c \in ConnType, NEW kind \in {"result", "empty"}
    PROVE  /\ SameCall(c, SendResult(c, kind, 200))
           /\ kind = "empty" => Follows(c, SendResult(c, kind, 200))
           /\ c.op # NoOperation /\ ~IsOneWay(c.op) => Follows(c, SendResult(c, kind, 200))
  <1> DEFINE rep == [kind |-> kind, status |-> 200, fault |-> NoFault, headers |-> c.headers]
  <1>1. c.headers \in Seq(Header)
    BY DEF ConnType
  <1>2. rep \in ReplyType /\ rep.kind = kind /\ rep.headers = c.headers
    BY <1>1 DEF ReplyType
  <1> HIDE DEF rep
  <1>3. SendResult(c, kind, 200) = Reply(c, rep)
    BY DEF SendResult, rep
  <1> QED BY <1>2, <1>3, ReplyKeeps, ReplyFollows

LEMMA CatchInAuthFollows ==
    ASSUME FaultStatusOK, NEW c \in ConnType
    PROVE  Follows(c, CatchInAuth(c))
  <1> DEFINE t == Throw(c, "none")
  <1>1. t \in ConnType /\ Follows(c, t)
    BY ThrowFrame, ThrowFollows
  <1>2. c.exc \in {"none", "error"} \cup Fault
    BY DEF ConnType
  <1> HIDE DEF t
  <1>3. CASE c.exc = "none"
    BY <1>3, SameCallFollows DEF CatchInAuth, SameCall
  <1>4. CASE c.exc = "error"
    <2>1. CatchInAuth(c) = ServerFault(t, 500)
      BY <1>4 DEF CatchInAuth, t
    <2> QED BY <1>1, <2>1, ServerFaultFollows, FollowsOn
  <1>5. CASE c.exc \notin {"none", "error"}
    <2>1. CatchInAuth(c) = SendFault(t, c.exc) /\ c.exc \in Fault
      BY <1>2, <1>5 DEF CatchInAuth, t
    <2> QED BY <1>1, <2>1, SendFaultFollows, FollowsOn
  <1> QED BY <1>3, <1>4, <1>5

\* A response that is sent without the 'response' event.
LEMMA RepliesFollows ==
    ASSUME NEW c \in ConnType, NEW rep \in ReplyType, rep.kind # "result"
    PROVE  Follows(c, [c EXCEPT !.replies = Append(@, rep)])
  <1> DEFINE d == [c EXCEPT !.replies = Append(@, rep)]
  <1>1. Append(c.replies, rep) \in Seq(ReplyType)
    BY DEF ConnType
  <1>2. \A s \in Seq(ReplyType) : [c EXCEPT !.replies = s] \in ConnType
    BY DEF ConnType
  <1>3. d \in ConnType
    BY <1>1, <1>2
  <1>4. SameCall(c, d) /\ d.replies = Append(c.replies, rep) /\ d.handled = c.handled
    BY DEF ConnType, SameCall
  <1> HIDE DEF d
  <1>5. Follows(c, d)
    BY <1>3, <1>4, AppendFollows
  <1> QED BY <1>5 DEF d

LEMMA CatchInRequestFollows ==
    ASSUME FaultStatusOK, NEW c \in ConnType
    PROVE  Follows(c, CatchInRequest(c))
  <1> DEFINE t == Throw(c, "none")
             text == [kind |-> "text", status |-> 500, fault |-> NoFault, headers |-> <<>>]
  <1>1. t \in ConnType /\ Follows(c, t)
    BY ThrowFrame, ThrowFollows
  <1>2. c.exc \in {"none", "error"} \cup Fault
    BY DEF ConnType
  <1>3. <<>> \in Seq(Header)
    OBVIOUS
  <1>4. text \in ReplyType /\ text.kind # "result"
    BY <1>3 DEF ReplyType
  <1> HIDE DEF t, text
  <1>5. CASE c.exc = "none"
    BY <1>5, SameCallFollows DEF CatchInRequest, SameCall
  <1>6. CASE c.exc = "error"
    <2>1. CatchInRequest(c) = [t EXCEPT !.replies = Append(@, text)]
      BY <1>6 DEF CatchInRequest, t, text
    <2> QED BY <1>1, <1>4, <2>1, RepliesFollows, FollowsOn
  <1>7. CASE c.exc \notin {"none", "error"}
    <2> DEFINE rep == FaultReply(t, c.exc, 500)
    <2>1. CatchInRequest(c) = [t EXCEPT !.replies = Append(@, rep)] /\ c.exc \in Fault
      BY <1>2, <1>7 DEF CatchInRequest, t
    <2>2. rep \in ReplyType /\ rep.kind # "result"
      BY <1>1, <2>1, FaultReplyType
    <2> HIDE DEF rep
    <2> QED BY <1>1, <2>1, <2>2, RepliesFollows, FollowsOn
  <1> QED BY <1>5, <1>6, <1>7

LEMMA HandleResultFollows ==
    ASSUME FaultStatusOK, NEW c \in ConnType, c.op # NoOperation, NEW o
    PROVE  Follows(c, HandleResult(c, o))
  <1> DEFINE h == [c EXCEPT !.handled = TRUE]
  <1>1. /\ h \in ConnType /\ SameCall(c, h) /\ h.replies = c.replies
        /\ h.handled = TRUE
    BY DEF ConnType, SameCall
  <1> HIDE DEF h
  <1>2. Follows(c, h)
    BY <1>1, SameCallFollows
  <1>3. CASE c.handled
    BY <1>3, SameCallFollows DEF HandleResult, SameCall
  <1>4. CASE ~c.handled /\ o.error \in Fault
    <2>1. HandleResult(c, o) = SendFault(h, o.error)
      BY <1>4 DEF HandleResult, h
    <2> QED BY <1>1, <1>2, <1>4, <2>1, SendFaultFollows, FollowsOn
  <1>5. CASE ~c.handled /\ o.error \notin Fault /\ o.error = "error"
    <2>1. HandleResult(c, o) = ServerFault(h, 500)
      BY <1>5 DEF HandleResult, h
    <2> QED BY <1>1, <1>2, <2>1, ServerFaultFollows, FollowsOn
  <1>6. CASE ~c.handled /\ o.error \notin Fault /\ o.error # "error" /\ o.result = "bad"
    <2>1. HandleResult(c, o) = Throw(h, "error")
      BY <1>6 DEF HandleResult, h
    <2> QED BY <1>1, <1>2, <2>1, ThrowFollows, FollowsOn
  <1>7. CASE ~c.handled /\ o.error \notin Fault /\ o.error # "error" /\ o.result # "bad"
    <2> DEFINE d == SendResult(h, "result", 200)
    <2>1. HandleResult(c, o) = d
      BY <1>7 DEF HandleResult, h
    <2>2. d \in ConnType /\ SameCall(h, d)
      BY <1>1, SendResultFrame, SendResultFollows
    <2>3. ~IsOneWay(h.op) /\ h.op # NoOperation => Follows(h, d)
      BY <1>1, SendResultFollows
    <2> HIDE DEF d
    <2>4. CASE ~IsOneWay(c.op)
      BY <1>1, <1>2, <2>1, <2>3, <2>4, FollowsOn DEF SameCall
    <2>5. CASE IsOneWay(c.op)
      <3>1. ~Faithful(c)
        BY <1>7, <2>5 DEF Faithful, Accepted
      <3> QED BY <1>1, <2>1, <2>2, <3>1 DEF Follows, SameCall
    <2> QED BY <2>4, <2>5
  <1> QED BY <1>3, <1>4, <1>5, <1>6, <1>7

\* The exception of a result may stay with the user's code, but an operation without output has none.
LEMMA HandleUncaughtFollows ==
    ASSUME FaultStatusOK, NEW c \in ConnType, c.exc = "none", c.op # NoOperation, NEW o
    PROVE  Follows(c, HandleUncaught(c, o))
  <1> DEFINE h == HandleResult(c, o)
             t == Throw(h, "none")
             u == [t EXCEPT !.uncaught = TRUE]
  <1>1. Follows(c, h) /\ h \in ConnType /\ (c.handled = TRUE => h = c)
    <2>1. Follows(c, h)
      BY HandleResultFollows
    <2>2. c.handled = TRUE => h = c
      BY DEF HandleResult
    <2> QED BY <2>1, <2>2 DEF Follows
  <1> HIDE DEF h
  <1>2. Follows(c, t) /\ t \in ConnType
    BY <1>1, ThrowFollows, ThrowFrame, FollowsOn
  <1> HIDE DEF t
  <1>3. /\ u \in ConnType /\ u.op = t.op /\ u.headers = t.headers
        /\ u.replies = t.replies
    BY <1>2 DEF ConnType
  <1> HIDE DEF u
  <1>4. CASE h.exc = "none"
    BY <1>1, <1>4 DEF HandleUncaught, h
  <1>5. CASE h.exc # "none"
    <2>1. HandleUncaught(c, o) = u
      BY <1>5 DEF HandleUncaught, h, t, u
    <2>2. c.handled \in BOOLEAN /\ c.handled # TRUE
      BY <1>1, <1>5 DEF ConnType
    <2>3. Faithful(c) => ~IsOneWay(c.op)
      BY <2>2 DEF Faithful, Accepted
    <2>4. Faithful(c) => Faithful(u)
      BY <1>2, <1>3, <2>3 DEF Follows, Faithful
    <2> QED BY <1>2, <1>3, <2>1, <2>4 DEF Follows
  <1> QED BY <1>4, <1>5

LEMMA CallMethodFollows ==
    ASSUME FaultStatusOK, NEW c \in ConnType, c.exc = "none", c.op # NoOperation,
           NEW beh \in MethodBehaviourType
    PROVE  Follows(c, CallMethod(c, beh))
  <1> DEFINE called == Emit(c, "method")
             told   == IF beh.calls = NoCall THEN called
                       ELSE IF beh.catches
                       THEN HandleUncaught(called, CallbackArguments(beh.calls))
                       ELSE HandleResult(called, CallbackArguments(beh.calls))
             wait   == (IF beh.keeps THEN {"callback"} ELSE {})
                         \cup (IF beh.how = "promise" THEN {"promise"} ELSE {})
             kept   == [told EXCEPT !.methWait = wait]
  <1>1. /\ called \in ConnType /\ called.exc = "none"
        /\ Follows(c, called) /\ called.op # NoOperation
    BY EmitFollows, EmitFrame DEF Event, SameCall
  <1> HIDE DEF called
  <1>2. Follows(called, told)
    <2>1. Follows(called, called)
      BY <1>1, SameCallFollows DEF SameCall
    <2>2. Follows(called, HandleResult(called, CallbackArguments(beh.calls)))
      BY <1>1, HandleResultFollows
    <2>3. Follows(called, HandleUncaught(called, CallbackArguments(beh.calls)))
      BY <1>1, HandleUncaughtFollows
    <2> QED BY <2>1, <2>2, <2>3
  <1> HIDE DEF told
  <1>3. told \in ConnType /\ Follows(c, told) /\ told.op # NoOperation
    BY <1>1, <1>2, FollowsOn DEF Follows
  <1>4. wait \in SUBSET Source
    BY DEF Source
  <1> HIDE DEF wait
  <1>5. /\ kept \in ConnType /\ SameCall(told, kept) /\ kept.replies = told.replies
        /\ kept.handled = told.handled
    BY <1>3, <1>4 DEF ConnType, SameCall
  <1> HIDE DEF kept
  <1>6. Follows(c, kept) /\ kept.op # NoOperation
    BY <1>3, <1>5, SameCallFollows, FollowsOn DEF SameCall
  <1>7. CASE told.exc # "none"
    <2>1. CallMethod(c, beh) = told
      BY <1>7 DEF CallMethod, told, called
    <2> QED BY <1>3, <2>1
  <1>8. CASE told.exc = "none" /\ beh.how = "throw"
    <2> DEFINE e == IF beh.what \in Fault THEN beh.what ELSE "error"
               d == [Throw(kept, e) EXCEPT !.throws = @ + 1]
    <2>1. CallMethod(c, beh) = d
      BY <1>8 DEF CallMethod, told, called, kept, wait
    <2>2. e \in {"error"} \cup Fault
      OBVIOUS
    <2> HIDE DEF e
    <2>3. Follows(kept, d)
      BY <1>5, <2>2, UserThrowFollows
    <2> HIDE DEF d
    <2> QED BY <1>6, <2>1, <2>3, FollowsOn
  <1>9. CASE told.exc = "none" /\ beh.how = "return" /\ beh.what # "undefined"
    <2> DEFINE o == [error |-> "null", result |-> beh.what]
    <2>1. CallMethod(c, beh) = HandleResult(kept, o)
      BY <1>9 DEF CallMethod, told, called, kept, wait
    <2> HIDE DEF o
    <2> QED BY <1>5, <1>6, <2>1, HandleResultFollows, FollowsOn
  <1>10. CASE told.exc = "none" /\ beh.how # "throw"
              /\ ~(beh.how = "return" /\ beh.what # "undefined")
    <2>1. CallMethod(c, beh) = kept
      BY <1>10 DEF CallMethod, told, called, kept, wait
    <2> QED BY <1>6, <2>1
  <1> QED BY <1>7, <1>8, <1>9, <1>10

\* An operation that begins: one without output is answered at once.
LEMMA BeginFollows ==
    ASSUME soapHeaders \in Seq(Header), NEW c \in ConnType, c.op = NoOperation,
           NEW op \in Operation
    PROVE  LET started == [c EXCEPT !.headers = soapHeaders, !.op = op] IN
           /\ ~IsOneWay(op) => Follows(c, started)
           /\ IsOneWay(op) => Follows(c, AnswerOneWay(started))
           /\ started.op = op /\ AnswerOneWay(started).op = op
           /\ started.exc = c.exc /\ AnswerOneWay(started).exc = c.exc
  <1> DEFINE d == [c EXCEPT !.headers = soapHeaders, !.op = op]
             h == [d EXCEPT !.handled = TRUE]
             rep == [kind |-> "oneway", status |-> HttpStatus(OneWayCode, 200),
                     fault |-> NoFault,
                     headers |-> IF OneWayEnvelope THEN d.headers ELSE <<>>]
             a == Reply(h, rep)
  <1>1. op # NoOperation
    BY NullAssumption
  <1>2. /\ d \in ConnType /\ d.op = op /\ d.headers = soapHeaders /\ d.exc = c.exc
        /\ d.replies = c.replies /\ d.uncaught = c.uncaught
    BY DEF ConnType
  <1> HIDE DEF d
  <1>3. /\ h \in ConnType /\ h.op = op /\ h.headers = soapHeaders
        /\ h.replies = c.replies /\ h.uncaught = c.uncaught /\ h.handled = TRUE
    BY <1>2 DEF ConnType
  <1>4. HttpStatus(OneWayCode, 200) \in Nat /\ <<>> \in Seq(Header)
    BY OptionAssumption DEF HttpStatus
  <1>5. /\ rep \in ReplyType /\ rep.kind = "oneway"
        /\ rep.status = HttpStatus(OneWayCode, 200)
    BY <1>2, <1>4 DEF ReplyType
  <1>6. AnswerOneWay(d) = a /\ AnswerOneWay(d).exc = c.exc
    <2>1. AnswerOneWay(d) = a
      BY DEF AnswerOneWay
    <2>2. AnswerOneWay(d).exc = c.exc
      BY <1>2, AnswerOneWayFrame
    <2> QED BY <2>1, <2>2
  <1> HIDE DEF h, rep
  <1>7. /\ a \in ConnType /\ SameCall(h, a) /\ a.handled = TRUE
        /\ a.replies = Append(c.replies, rep)
    BY <1>3, <1>5, ReplyFrame, ReplyKeeps DEF SameRun
  <1> HIDE DEF a
  <1>8. c.replies \in Seq(ReplyType)
    BY DEF ConnType
  <1>9. ASSUME Faithful(c) PROVE ~Served(c) /\ ~c.uncaught
    BY <1>9 DEF Faithful
  <1>10. ~IsOneWay(op) => Follows(c, d)
    BY <1>1, <1>2, <1>9 DEF Follows, Faithful, Served
  <1>11. IsOneWay(op) => Follows(c, a)
    <2>1. ASSUME Faithful(c) PROVE ~Served(a) /\ ~a.uncaught
      BY <1>3, <1>5, <1>7, <1>8, <1>9, <2>1 DEF Served, SameCall
    <2>2. \E i \in DOMAIN a.replies : a.replies[i] = rep
      BY <1>7, <1>8
    <2>3. Faithful(c) => Accepted(a)
      BY <1>5, <1>7, <2>1, <2>2 DEF Accepted
    <2>4. Faithful(c) => Faithful(a)
      BY <1>1, <1>3, <1>7, <2>1, <2>3 DEF Faithful, SameCall, Served
    <2> QED BY <1>1, <1>3, <1>7, <2>4 DEF Follows, SameCall
  <1> QED BY <1>2, <1>3, <1>6, <1>7, <1>10, <1>11 DEF d, SameCall

LEMMA ExecuteMethodFollows ==
    ASSUME FaultStatusOK, soapHeaders \in Seq(Header),
           NEW c \in ConnType, c.exc = "none", c.op = NoOperation,
           NEW f, f.service \in STRING, f.port \in STRING, f.binding \in DOMAIN Bindings,
           NEW m \in STRING, NEW beh \in MethodBehaviourType
    PROVE  Follows(c, ExecuteMethod(c, f, m, beh))
  <1> DEFINE opened == [c EXCEPT !.headers = soapHeaders]
             op == [service |-> f.service, port |-> f.port, method |-> m,
                    binding |-> f.binding]
             started == [opened EXCEPT !.op = op]
             ready == IF MethodOf(BindingAt(f.service, f.port), m).output THEN started
                      ELSE AnswerOneWay(started)
  <1>1. op \in Operation /\ (IsOneWay(op) <=> ~MethodOf(BindingAt(f.service, f.port), m).output)
    BY DEF Operation, IsOneWay
  <1>2. /\ opened \in ConnType /\ opened.op = c.op /\ opened.replies = c.replies
        /\ opened.uncaught = c.uncaught
    BY DEF ConnType
  <1>3. Follows(c, opened)
    BY <1>2 DEF Follows, Faithful, Served
  <1> DEFINE begun == [c EXCEPT !.headers = soapHeaders, !.op = op]
  <1>4. started = begun
    BY DEF ConnType
  <1> HIDE DEF op, opened, started
  <1>5. Follows(c, ready) /\ ready.op = op /\ ready.exc = "none"
    <2>1. /\ ~IsOneWay(op) => Follows(c, begun)
          /\ IsOneWay(op) => Follows(c, AnswerOneWay(begun))
          /\ begun.op = op /\ AnswerOneWay(begun).op = op
          /\ begun.exc = c.exc /\ AnswerOneWay(begun).exc = c.exc
      BY <1>1, BeginFollows
    <2> HIDE DEF begun
    <2>2. CASE IsOneWay(op)
      BY <1>1, <1>4, <2>1, <2>2
    <2>3. CASE ~IsOneWay(op)
      BY <1>1, <1>4, <2>1, <2>3
    <2> QED BY <2>2, <2>3
  <1>6. ready \in ConnType /\ ready.op # NoOperation
    BY <1>1, <1>5, NullAssumption DEF Follows
  <1> HIDE DEF ready
  <1>7. CASE ~HasPort(f.service, f.port)
    <2>1. ExecuteMethod(c, f, m, beh) = Throw(c, "error")
      BY <1>7 DEF ExecuteMethod
    <2> QED BY <2>1, ThrowFollows
  <1>8. CASE HasPort(f.service, f.port) /\ <<f.service, f.port>> \notin Implemented
    <2>1. ExecuteMethod(c, f, m, beh) = SendResult(opened, "empty", 200)
      BY <1>8 DEF ExecuteMethod, opened
    <2>2. Follows(opened, SendResult(opened, "empty", 200))
      BY <1>2, SendResultFollows
    <2> QED BY <1>3, <2>1, <2>2, FollowsOn
  <1>9. CASE /\ HasPort(f.service, f.port) /\ <<f.service, f.port>> \in Implemented
             /\ ~HasMethod(BindingAt(f.service, f.port), m)
    <2>1. ExecuteMethod(c, f, m, beh) = Throw(opened, "error")
      BY <1>9 DEF ExecuteMethod, opened
    <2> QED BY <1>2, <1>3, <2>1, ThrowFollows, FollowsOn
  <1>10. CASE /\ HasPort(f.service, f.port) /\ <<f.service, f.port>> \in Implemented
              /\ HasMethod(BindingAt(f.service, f.port), m)
              /\ <<f.service, f.port, m>> \notin Handlers
    <2>1. ExecuteMethod(c, f, m, beh) = CallMissingMethod(ready)
      BY <1>10 DEF ExecuteMethod, ready, started, opened, op
    <2>2. Follows(ready, CallMissingMethod(ready))
      BY <1>6, UserThrowFollows DEF CallMissingMethod
    <2> QED BY <1>5, <2>1, <2>2, FollowsOn
  <1>11. CASE /\ HasPort(f.service, f.port) /\ <<f.service, f.port>> \in Implemented
              /\ HasMethod(BindingAt(f.service, f.port), m)
              /\ <<f.service, f.port, m>> \in Handlers
    <2>1. ExecuteMethod(c, f, m, beh) = CallMethod(ready, beh)
      BY <1>11 DEF ExecuteMethod, ready, started, opened, op
    <2> QED BY <1>5, <1>6, <2>1, CallMethodFollows, FollowsOn
  <1> QED BY <1>7, <1>8, <1>9, <1>10, <1>11

LEMMA AnnounceFollows ==
    ASSUME NEW c \in ConnType
    PROVE  /\ SameCall(c, Announce(c)) /\ Follows(c, Announce(c))
           /\ Announce(c).exc = c.exc
  <1> DEFINE e == Emit(c, "request")
             g == Emit(e, "headers")
  <1>1. e \in ConnType /\ Follows(c, e) /\ SameCall(c, e) /\ e.exc = c.exc
    BY EmitFrame, EmitFollows DEF Event
  <1> HIDE DEF e
  <1>2. Follows(c, g) /\ SameCall(c, g) /\ g.exc = c.exc
    BY <1>1, EmitFrame, EmitFollows, FollowsOn DEF Event, SameCall
  <1> HIDE DEF g
  <1> QED BY <1>1, <1>2 DEF Announce, e, g

LEMMA ProcessFollows ==
    ASSUME FaultStatusOK, soapHeaders \in Seq(Header),
           NEW c \in ConnType, c.exc = "none", c.op = NoOperation,
           NEW beh \in MethodBehaviourType
    PROVE  Follows(c, Process(c, beh))
  <1> DEFINE f == FindBinding(c.msg.path)
             m == TargetMethod(f.binding, c.msg)
             a == Announce(c)
  <1>1. Follows(c, a) /\ a \in ConnType /\ a.op = NoOperation /\ a.exc = "none"
    BY AnnounceFollows DEF Follows, SameCall
  <1> HIDE DEF a
  <1>2. CASE Ports = <<>> \/ ~HasMethod(f.binding, m)
    <2>1. Process(c, beh) = Throw(c, "error")
      BY <1>2 DEF Process
    <2> QED BY <2>1, ThrowFollows
  <1>3. CASE /\ Ports # <<>> /\ HasMethod(f.binding, m)
             /\ StyleOf(f.binding, m) # "rpc" /\ ~HasPair(f.binding, c.msg)
    <2>1. Process(c, beh) = Throw(a, "error")
      BY <1>3 DEF Process, a
    <2> QED BY <1>1, <2>1, ThrowFollows, FollowsOn
  <1>4. CASE /\ Ports # <<>> /\ HasMethod(f.binding, m)
             /\ ~(StyleOf(f.binding, m) # "rpc" /\ ~HasPair(f.binding, c.msg))
    <2>1. Process(c, beh) = ExecuteMethod(a, f, m, beh)
      BY <1>4 DEF Process, a
    <2>2. f.service \in STRING /\ f.port \in STRING /\ f.binding \in DOMAIN Bindings
      BY <1>4, FindBindingType
    <2>3. m \in STRING
      BY <1>4, <2>2, MethodNameType
    <2> HIDE DEF f, m
    <2> QED BY <1>1, <2>1, <2>2, <2>3, ExecuteMethodFollows, FollowsOn
  <1> QED BY <1>2, <1>3, <1>4

LEMMA ProcessAuthResultFollows ==
    ASSUME FaultStatusOK, soapHeaders \in Seq(Header), NEW c, Sound(c), c.exc = "none",
           NEW v \in Verdict, NEW beh \in MethodBehaviourType
    PROVE  Follows(c, ProcessAuthResult(c, v, beh))
  <1> DEFINE h == [c EXCEPT !.verdict = v]
  <1>1. c \in ConnType /\ (c.verdict = "none" => c.op = NoOperation)
    BY DEF Sound, Shape
  <1>2. /\ h \in ConnType /\ SameCall(c, h) /\ h.replies = c.replies
        /\ h.handled = c.handled /\ h.exc = "none"
    BY <1>1 DEF ConnType, SameCall
  <1> HIDE DEF h
  <1>3. Follows(c, h)
    BY <1>2, SameCallFollows
  <1>4. CASE c.verdict # "none"
    BY <1>1, <1>4, SameCallFollows DEF ProcessAuthResult, SameCall
  <1>5. CASE c.verdict = "none" /\ v = "error"
    <2>1. ProcessAuthResult(c, v, beh) = ServerFault(h, 500)
      BY <1>5 DEF ProcessAuthResult, h
    <2> QED BY <1>2, <1>3, <2>1, ServerFaultFollows, FollowsOn
  <1>6. CASE c.verdict = "none" /\ v = "no"
    <2>1. ProcessAuthResult(c, v, beh) = ServerFault(h, 401)
      BY <1>6 DEF ProcessAuthResult, h
    <2> QED BY <1>2, <1>3, <2>1, ServerFaultFollows, FollowsOn
  <1>7. CASE c.verdict = "none" /\ v = "yes"
    <2> DEFINE p == Process(h, beh)
    <2>1. ProcessAuthResult(c, v, beh) = CatchInAuth(p)
      BY <1>7 DEF ProcessAuthResult, h
    <2>2. h.op = NoOperation
      BY <1>1, <1>2, <1>7 DEF SameCall
    <2>3. Follows(c, p) /\ p \in ConnType
      BY <1>2, <1>3, <2>2, ProcessFollows, FollowsOn DEF Follows
    <2> HIDE DEF p
    <2> QED BY <2>1, <2>3, CatchInAuthFollows, FollowsOn
  <1>8. CASE c.verdict = "none" /\ v = "other"
    <2>1. ProcessAuthResult(c, v, beh) = h
      BY <1>8 DEF ProcessAuthResult, h
    <2> QED BY <1>3, <2>1
  <1> QED BY <1>4, <1>5, <1>6, <1>7, <1>8 DEF Verdict

LEMMA AuthenticateFollows ==
    ASSUME FaultStatusOK, soapHeaders \in Seq(Header),
           NEW c, Sound(c), c.exc = "none", c.stage = "open",
           NEW auth \in AuthBehaviourType, NEW beh \in MethodBehaviourType
    PROVE  Follows(c, Authenticate(c, auth, beh))
  <1> DEFINE told == IF auth.calls = "none" THEN c ELSE ProcessAuthResult(c, auth.calls, beh)
             wait == (IF auth.keeps THEN {"callback"} ELSE {})
                       \cup (IF auth.how = "promise" THEN {"promise"} ELSE {})
             kept == [told EXCEPT !.authWait = wait]
  <1>1. Follows(c, told) /\ Sound(told) /\ told.stage = "open" /\ told.exc = "none"
    <2>1. CASE auth.calls = "none"
      BY <2>1, SameCallFollows DEF SameCall, Sound
    <2>2. CASE auth.calls # "none"
      <3>1. auth.calls \in Verdict
        BY <2>2 DEF AuthBehaviourType
      <3>2. told = ProcessAuthResult(c, auth.calls, beh)
        BY <2>2
      <3> QED BY <3>1, <3>2, ProcessAuthResultFollows, ProcessAuthResultFrame
    <2> QED BY <2>1, <2>2
  <1> HIDE DEF told
  <1>2. wait \in SUBSET Source
    BY DEF Source
  <1> HIDE DEF wait
  <1>3. /\ Sound(kept) /\ kept.exc = "none"
        /\ kept.replies = told.replies /\ kept.handled = told.handled
    BY <1>1, <1>2, AuthWaitFrame DEF SameRun, SameLog
  <1>4. kept \in ConnType /\ SameCall(told, kept)
    BY <1>1, <1>3 DEF Sound, ConnType, SameCall
  <1> HIDE DEF kept
  <1>5. Follows(c, kept)
    BY <1>1, <1>3, <1>4, SameCallFollows, FollowsOn
  <1>6. CASE auth.how = "throw"
    <2> DEFINE e == IF auth.what \in Fault THEN auth.what ELSE "error"
               d == [Throw(kept, e) EXCEPT !.throws = @ + 1]
    <2>1. Authenticate(c, auth, beh) = d
      BY <1>6 DEF Authenticate, told, wait, kept
    <2>2. e \in {"error"} \cup Fault
      OBVIOUS
    <2> HIDE DEF e
    <2>3. Follows(kept, d)
      BY <1>4, <2>2, UserThrowFollows
    <2> HIDE DEF d
    <2> QED BY <1>5, <2>1, <2>3, FollowsOn
  <1>7. CASE auth.how = "return" /\ auth.what \in {"yes", "no"}
    <2>1. Authenticate(c, auth, beh) = ProcessAuthResult(kept, auth.what, beh)
      BY <1>7 DEF Authenticate, told, wait, kept
    <2>2. auth.what \in Verdict
      BY <1>7 DEF Verdict
    <2> QED BY <1>3, <1>5, <2>1, <2>2, ProcessAuthResultFollows, FollowsOn
  <1>8. CASE auth.how # "throw" /\ ~(auth.how = "return" /\ auth.what \in {"yes", "no"})
    <2>1. Authenticate(c, auth, beh) = kept
      BY <1>8 DEF Authenticate, told, wait, kept
    <2> QED BY <1>5, <2>1
  <1> QED BY <1>6, <1>7, <1>8

LEMMA ProcessRequestXmlFollows ==
    ASSUME FaultStatusOK, soapHeaders \in Seq(Header), NEW c, Arrived(c),
           NEW auth \in AuthBehaviourType, NEW beh \in MethodBehaviourType
    PROVE  Follows(c, ProcessRequestXml(c, auth, beh))
  <1> DEFINE open    == [c EXCEPT !.stage = "open"]
             closed  == [c EXCEPT !.stage = "closed"]
             invalid == [kind |-> "fault", status |-> 500, fault |-> NoFault,
                         headers |-> <<>>]
  <1>1. c \in ConnType
    BY DEF Arrived
  <1>2. Follows(c, open) /\ Follows(c, closed)
    <2>1. ASSUME NEW s \in {"open", "closed"} PROVE Follows(c, [c EXCEPT !.stage = s])
      <3> DEFINE d == [c EXCEPT !.stage = s]
      <3>1. /\ d \in ConnType /\ SameCall(c, d) /\ d.replies = c.replies
            /\ d.handled = c.handled
        BY <1>1 DEF ConnType, SameCall
      <3> HIDE DEF d
      <3>2. Follows(c, d)
        BY <3>1, SameCallFollows
      <3> QED BY <3>2 DEF d
    <2> QED BY <2>1
  <1>3. open \in ConnType /\ closed \in ConnType
    BY <1>2 DEF Follows
  <1>4. Sound(open) /\ open.exc = "none" /\ open.stage = "open"
    BY OpenedSound
  <1>5. <<>> \in Seq(Header)
    OBVIOUS
  <1>6. invalid \in ReplyType /\ invalid.kind # "result"
    BY <1>5 DEF ReplyType
  <1>7. [closed EXCEPT !.replies = Append(@, invalid)]
          = [c EXCEPT !.stage = "closed", !.replies = Append(@, invalid)]
    BY <1>1 DEF ConnType
  <1> HIDE DEF open, closed, invalid
  <1>8. CASE c.msg.parse = "invalid"
    <2>1. ProcessRequestXml(c, auth, beh) = [closed EXCEPT !.replies = Append(@, invalid)]
      BY <1>7, <1>8 DEF ProcessRequestXml, invalid
    <2> QED BY <1>2, <1>3, <1>6, <2>1, RepliesFollows, FollowsOn
  <1>9. ASSUME NEW d, Follows(c, d), ProcessRequestXml(c, auth, beh) = CatchInRequest(d)
        PROVE  Follows(c, ProcessRequestXml(c, auth, beh))
    BY <1>9, CatchInRequestFollows, FollowsOn DEF Follows
  <1>10. CASE c.msg.parse # "invalid" /\ (c.msg.parse = "fault" \/ AuthMode = "invalid")
    <2>1. ProcessRequestXml(c, auth, beh) = CatchInRequest(Throw(closed, "error"))
      BY <1>10 DEF ProcessRequestXml, closed
    <2>2. Follows(c, Throw(closed, "error"))
      BY <1>2, <1>3, ThrowFollows, FollowsOn
    <2> QED BY <1>9, <2>1, <2>2
  <1>11. CASE c.msg.parse \notin {"invalid", "fault"} /\ AuthMode = "none"
    <2>1. ProcessRequestXml(c, auth, beh) = CatchInRequest(ProcessAuthResult(open, "yes", beh))
      BY <1>11 DEF ProcessRequestXml, open
    <2>2. "yes" \in Verdict
      BY DEF Verdict
    <2>3. Follows(c, ProcessAuthResult(open, "yes", beh))
      BY <1>2, <1>4, <2>2, ProcessAuthResultFollows, FollowsOn
    <2> QED BY <1>9, <2>1, <2>3
  <1>12. CASE c.msg.parse \notin {"invalid", "fault"} /\ AuthMode \notin {"none", "invalid"}
    <2>1. ProcessRequestXml(c, auth, beh) = CatchInRequest(Authenticate(open, auth, beh))
      BY <1>12 DEF ProcessRequestXml, open
    <2>2. Follows(c, Authenticate(open, auth, beh))
      BY <1>2, <1>4, AuthenticateFollows, FollowsOn
    <2> QED BY <1>9, <2>1, <2>2
  <1> QED BY <1>8, <1>10, <1>11, <1>12

-----------------------------------------------------------------------------
(* The steps that headers and one-way operations see. *)

KInv == IInv /\ \A r \in Req : Faithful(conn[r])

LEMMA FaithfulPrime ==
    \A q \in Req : (Faithful(conn[q]))' <=> Faithful(conn'[q])
  BY DEF Faithful, Accepted, Served, IsOneWay

LEMMA InitKInv == Init => KInv
  <1> SUFFICES ASSUME Init PROVE \A r \in Req : Faithful(conn[r])
    BY InitIInv DEF KInv
  <1> SUFFICES ASSUME NEW r \in Req PROVE Faithful(conn[r])
    OBVIOUS
  <1>1. conn[r].op = NoOperation /\ conn[r].replies = <<>> /\ conn[r].uncaught = FALSE
    BY DEF Init, NewConn
  <1> QED BY <1>1 DEF Faithful, Served

LEMMA StepFollows ==
    ASSUME IInv, NEW r \in Req, NEW c, Step(r, c), Follows(conn[r], c)
    PROVE  \A q \in Req : Follows(conn[q], conn'[q])
  <1>1. conn \in [Req -> ConnType] /\ conn' = [conn EXCEPT ![r] = c]
    BY DEF IInv, Step
  <1>2. \A q \in Req : Follows(conn[q], conn[q])
    BY <1>1, SameCallFollows DEF SameCall
  <1> QED BY <1>1, <1>2

LEMMA NextFollows ==
    ASSUME IInv, [Next]_vars
    PROVE  \A q \in Req : Follows(conn[q], conn'[q])
  <1> USE BehaviourAssumption
  <1> DEFINE Goal == \A q \in Req : Follows(conn[q], conn'[q])
  <1>1. FaultStatusOK /\ soapHeaders \in Seq(Header)
    BY DEF IInv
  <1>2. \A r \in Req : Quiet(conn[r]) /\ Sound(conn[r]) /\ conn[r] \in ConnType
    BY DEF IInv, Quiet
  <1>3. ASSUME NEW r \in Req, NEW c \in ConnType, SameCall(conn[r], c),
               c.replies = conn[r].replies, c.handled = conn[r].handled
        PROVE  Follows(conn[r], c)
    BY <1>3, SameCallFollows
  <1>4. ASSUME NEW r \in Req, EndWithoutBody(r) \/ LoseBody(r) PROVE Goal
    <2> DEFINE c == [conn[r] EXCEPT !.stage = "closed"]
    <2>1. Step(r, c)
      BY <1>4 DEF EndWithoutBody, LoseBody
    <2>2. /\ c \in ConnType /\ SameCall(conn[r], c) /\ c.replies = conn[r].replies
          /\ c.handled = conn[r].handled
      BY <1>2 DEF ConnType, SameCall
    <2> HIDE DEF c
    <2> QED BY <1>3, <2>1, <2>2, StepFollows
  <1>5. ASSUME NEW r \in Req, NEW m \in Message, BeginBody(r, m) PROVE Goal
    <2> DEFINE c == [conn[r] EXCEPT !.stage = "reading", !.msg = m]
    <2>1. Step(r, c)
      BY <1>5 DEF BeginBody
    <2>2. /\ c \in ConnType /\ SameCall(conn[r], c) /\ c.replies = conn[r].replies
          /\ c.handled = conn[r].handled
      BY <1>2 DEF ConnType, SameCall
    <2> HIDE DEF c
    <2> QED BY <1>3, <2>1, <2>2, StepFollows
  <1>6. ASSUME NEW r \in Req, NEW auth \in AuthBehaviour, NEW beh \in MethodBehaviour,
               EndBody(r, auth, beh)
        PROVE  Goal
    <2> DEFINE d == ProcessRequestXml(conn[r], auth, beh)
    <2>1. Arrived(conn[r]) /\ Step(r, d)
      BY <1>2, <1>6 DEF EndBody, Quiet
    <2>2. Follows(conn[r], d)
      BY <1>1, <2>1, ProcessRequestXmlFollows
    <2> HIDE DEF d
    <2> QED BY <2>1, <2>2, StepFollows
  <1>7. ASSUME NEW r \in Req, NEW m \in Message, NEW auth \in AuthBehaviour,
               NEW beh \in MethodBehaviour, ReceiveWhole(r, m, auth, beh)
        PROVE  Goal
    <2> DEFINE c == [conn[r] EXCEPT !.msg = m]
               d == ProcessRequestXml(c, auth, beh)
    <2>1. Arrived(conn[r]) /\ Step(r, d)
      BY <1>2, <1>7 DEF ReceiveWhole, Quiet
    <2>2. /\ c \in ConnType /\ SameCall(conn[r], c) /\ c.replies = conn[r].replies
          /\ c.handled = conn[r].handled /\ Arrived(c)
      BY <1>2, <2>1 DEF ConnType, SameCall, Arrived
    <2> HIDE DEF c
    <2>3. Follows(conn[r], c) /\ Follows(c, d)
      BY <1>1, <1>3, <2>2, ProcessRequestXmlFollows
    <2> HIDE DEF d
    <2> QED BY <2>1, <2>3, StepFollows, FollowsOn
  <1>8. ASSUME NEW r \in Req, AuthSettles(r) PROVE Goal
    <2>1. PICK v \in Verdict, beh \in MethodBehaviour :
            AuthCallback(r, v, beh) \/ AuthPromise(r, v, beh)
      BY <1>8 DEF AuthSettles
    <2> DEFINE k == conn[r]
    <2>2. /\ Sound(k) /\ k \in ConnType /\ k.exc = "none"
          /\ k.stage = "open" /\ k.authWait \in SUBSET Source
      BY <1>2, <2>1, WaitShape DEF ConnType, Quiet, AuthCallback, AuthPromise
    <2>3. PICK w \in SUBSET Source :
            Step(r, ProcessAuthResult([k EXCEPT !.authWait = w], v, beh))
      BY <2>1, <2>2, AuthResultStep
    <2> DEFINE c == [k EXCEPT !.authWait = w]
               d == ProcessAuthResult(c, v, beh)
    <2>4. Sound(c) /\ c.exc = "none" /\ c.replies = k.replies /\ c.handled = k.handled
      BY <2>2, AuthWaitFrame DEF SameRun, SameLog
    <2>5. c \in ConnType /\ SameCall(k, c)
      BY <2>2, <2>4 DEF Sound, ConnType, SameCall
    <2>6. Step(r, d)
      BY <2>3
    <2> HIDE DEF c
    <2>7. Follows(k, c) /\ Follows(c, d)
      BY <1>1, <1>3, <2>4, <2>5, ProcessAuthResultFollows
    <2> HIDE DEF d
    <2> QED BY <2>6, <2>7, StepFollows, FollowsOn
  <1>9. ASSUME NEW r \in Req, MethodSettles(r) PROVE Goal
    <2>1. PICK o \in Outcome : MethodCallback(r, o) \/ MethodPromise(r, o)
      BY <1>9 DEF MethodSettles
    <2> DEFINE k == conn[r]
    <2>2. /\ k \in ConnType /\ k.op # NoOperation /\ k.exc = "none"
          /\ k.methWait \in SUBSET Source
      BY <1>2, <2>1, WaitShape DEF ConnType, Quiet, MethodCallback, MethodPromise
    <2>3. PICK w \in SUBSET Source, p \in {o, CallbackArguments(o)} :
            Step(r, HandleUncaught([k EXCEPT !.methWait = w], p))
      BY <2>1, <2>2, OutcomeStep
    <2> DEFINE c == [k EXCEPT !.methWait = w]
               d == HandleUncaught(c, p)
    <2>4. /\ c \in ConnType /\ SameCall(k, c) /\ c.replies = k.replies
          /\ c.handled = k.handled /\ c.exc = k.exc
      BY <2>2, <2>3 DEF ConnType, SameCall
    <2>5. Step(r, d)
      BY <2>3
    <2> HIDE DEF c
    <2>6. c.op # NoOperation /\ c.exc = "none"
      BY <2>2, <2>4 DEF SameCall
    <2>7. Follows(k, c) /\ Follows(c, d)
      BY <1>1, <1>3, <2>4, <2>6, HandleUncaughtFollows
    <2> HIDE DEF d
    <2> QED BY <2>5, <2>7, StepFollows, FollowsOn
  <1>10. ASSUME conn' = conn PROVE Goal
    BY <1>2, <1>10, <1>3 DEF SameCall
  <1>11. ASSUME NEW h \in Header,
                \/ AddSoapHeader(h)
                \/ \E i \in 1..(Len(soapHeaders) + 1) : ChangeSoapHeader(i, h)
         PROVE  conn' = conn
    BY <1>11 DEF AddSoapHeader, ChangeSoapHeader
  <1>12. ASSUME ClearSoapHeaders \/ UNCHANGED vars PROVE conn' = conn
    BY <1>12 DEF ClearSoapHeaders, vars
  <1> QED BY <1>4, <1>5, <1>6, <1>7, <1>8, <1>9, <1>10, <1>11, <1>12 DEF Next

LEMMA NextKInv == ASSUME KInv, [Next]_vars PROVE KInv'
  <1>1. IInv'
    BY NextIInv DEF KInv
  <1>2. \A q \in Req : Faithful(conn'[q])
    BY NextFollows DEF KInv, Follows
  <1> QED BY <1>1, <1>2, FaithfulPrime DEF KInv

\* An operation without output is answered with the configured status before its method
\* runs: nothing the method returns, resolves to or passes to its callback is ever sent
\* as a result, and no exception of it is uncaught.
THEOREM OneWayResultsAreDropped == Spec => []OneWayDisregardsResult
  <1>1. Init => KInv
    BY InitKInv
  <1>2. KInv /\ [Next]_vars => KInv'
    BY NextKInv
  <1>3. KInv => OneWayDisregardsResult
    <2> SUFFICES ASSUME KInv, NEW r \in Req, conn[r].op # NoOperation, IsOneWay(conn[r].op)
                 PROVE  Accepted(conn[r])
      BY DEF OneWayDisregardsResult, Accepted, Served
    <2> QED BY DEF KInv, Faithful
  <1> QED BY <1>1, <1>2, <1>3, PTL DEF Spec

\* A result is sent with the SOAP headers registered when its method was called, though
\* they are changed or cleared while the method's answer is outstanding.
THEOREM HeadersStand == Spec => HeadersOfInvocation
  <1>1. Init => KInv
    BY InitKInv
  <1>2. KInv /\ [Next]_vars => KInv'
    BY NextKInv
  <1>3. KInv /\ [Next]_vars =>
          [\A r \in Req : LET c == conn[r] IN
              /\ c.op # NoOperation =>
                    \A i \in DOMAIN conn'[r].replies :
                        conn'[r].replies[i].kind = "result" =>
                            conn'[r].replies[i].headers = c.headers
              /\ c.op = NoOperation /\ conn'[r].op # NoOperation =>
                    conn'[r].headers = soapHeaders]_vars
    <2> SUFFICES ASSUME KInv, [Next]_vars, NEW r \in Req
                 PROVE  /\ conn[r].op # NoOperation =>
                              \A i \in DOMAIN conn'[r].replies :
                                  conn'[r].replies[i].kind = "result" =>
                                      conn'[r].replies[i].headers = conn[r].headers
                        /\ conn[r].op = NoOperation /\ conn'[r].op # NoOperation =>
                              conn'[r].headers = soapHeaders
      OBVIOUS
    <2>1. Follows(conn[r], conn'[r]) /\ Faithful(conn[r])
      BY NextFollows DEF KInv
    <2> QED BY <2>1 DEF Follows, Faithful
  <1> QED BY <1>1, <1>2, <1>3, PTL DEF Spec, HeadersOfInvocation
=============================================================================
