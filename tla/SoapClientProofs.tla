--------------------------- MODULE SoapClientProofs ---------------------------
(***************************************************************************)
(* Theorems about SoapClient, for any number of exchanges, every set of     *)
(* responses and of ways to call a method, and each kind of client.         *)
(*                                                                          *)
(* That a callback is called once is a balance for clients without streams: *)
(* an exchange that is not done owes one call, and what was called and owed *)
(* never exceeds one, plus the exceptions of the callback that a promise    *)
(* chain of multipart responses caught.  For clients with streams it is     *)
(* once() that keeps it.                                                    *)
(*                                                                          *)
(* That it follows the events is a second invariant, Tells, on the history  *)
(* of one exchange: there are as many events of a response as calls of the  *)
(* callback, an event and the callback are one step, and what comes after   *)
(* a soapError is an error.                                                 *)
(***************************************************************************)
EXTENDS SoapClient, SequenceTheorems, FiniteSetTheorems, TLAPS

Total(k) == Cardinality(Answers(k))

\* d is k with the callback called as once() allows.
AnswersOnce(k, d, throws) ==
    /\ d \in CallType /\ d.stage = k.stage /\ d.throws >= k.throws
    /\ Streams => (Total(k) <= 1 => Total(d) <= 1)
    /\ ~Streams => /\ Total(d) <= Total(k) + 1
                   /\ d.throws = k.throws + (IF throws THEN 1 ELSE 0)

\* d is k as far as the callback goes.
SameAnswers(k, d) ==
    d \in CallType /\ d.throws = k.throws /\ Answers(d) = Answers(k)

Balanced(k) ==
    /\ k.stage = "new" => Answers(k) = {}
    /\ Streams => Total(k) <= 1
    /\ ~Streams =>
          /\ k.stage # "streaming" /\ (k.stage = "parts" => mode = "mtom")
          /\ Total(k) + (IF k.stage = "done" THEN 0 ELSE 1)
                <= 1 + (IF mode = "mtom" THEN k.throws ELSE 0)

IInv == TypeOK /\ \A c \in Call : Balanced(call[c])

-----------------------------------------------------------------------------
(* What one statement does. *)

LEMMA AnswersFinite ==
    ASSUME NEW k \in CallType
    PROVE  IsFiniteSet(Answers(k)) /\ Total(k) \in Nat /\ Len(k.history) \in Nat
  <1>1. k.history \in Seq(Seen)
    BY DEF CallType
  <1>2. DOMAIN k.history = 1..Len(k.history) /\ Len(k.history) \in Nat
    BY <1>1, LenProperties
  <1>3. IsFiniteSet(1..Len(k.history))
    BY <1>2, FS_Interval
  <1>4. Answers(k) \subseteq 1..Len(k.history)
    BY <1>2 DEF Answers
  <1>5. IsFiniteSet(Answers(k))
    BY <1>3, <1>4, FS_Subset
  <1> QED BY <1>2, <1>5, FS_CardinalityType DEF Total

LEMMA SeeType ==
    ASSUME NEW k \in CallType, NEW what \in Seen
    PROVE  /\ See(k, what) \in CallType
           /\ See(k, what).stage = k.stage /\ See(k, what).throws = k.throws
           /\ See(k, what).response = k.response /\ See(k, what).output = k.output
           /\ See(k, what).uncaught = k.uncaught
           /\ See(k, what).history = Append(k.history, what)
  <1>1. k.history \in Seq(Seen)
    BY DEF CallType
  <1>2. Append(k.history, what) \in Seq(Seen)
    BY <1>1, AppendProperties
  <1> QED BY <1>1, <1>2 DEF See, CallType

LEMMA SeeAnswers ==
    ASSUME NEW k \in CallType, NEW what \in Seen
    PROVE  Answers(See(k, what)) =
             Answers(k) \cup (IF what \in {"error", "result"} THEN {Len(k.history) + 1} ELSE {})
  <1> DEFINE h == k.history
             n == Len(h)
  <1>1. h \in Seq(Seen)
    BY DEF CallType
  <1>2. See(k, what).history = Append(h, what)
    BY SeeType
  <1> HIDE DEF h
  <1>3. /\ Append(h, what) \in Seq(Seen) /\ Len(Append(h, what)) = n + 1
        /\ \A i \in 1..n : Append(h, what)[i] = h[i]
        /\ Append(h, what)[n + 1] = what
    BY <1>1, AppendProperties
  <1>4. DOMAIN Append(h, what) = 1..(n + 1) /\ DOMAIN h = 1..n /\ n \in Nat
    BY <1>1, <1>3, LenProperties
  <1>5. Answers(See(k, what)) =
          {i \in 1..(n + 1) : Append(h, what)[i] \in {"error", "result"}}
    BY <1>2, <1>4 DEF Answers
  <1>6. Answers(k) = {i \in 1..n : h[i] \in {"error", "result"}}
    BY <1>4 DEF Answers, h
  <1>7. 1..(n + 1) = 1..n \cup {n + 1}
    BY <1>4
  <1> QED BY <1>3, <1>5, <1>6, <1>7 DEF h

\* An event.
LEMMA EventKeeps ==
    ASSUME NEW k \in CallType, NEW what \in Seen, what \notin {"error", "result"}
    PROVE  SameAnswers(k, See(k, what)) /\ See(k, what).stage = k.stage
  BY SeeType, SeeAnswers DEF SameAnswers

LEMMA AnswerOnce ==
    ASSUME NEW k \in CallType, NEW what \in {"error", "result"}, NEW throws \in BOOLEAN
    PROVE  AnswersOnce(k, Answer(k, what, throws), throws)
  <1> DEFINE s == See(k, what)
             d == [s EXCEPT !.throws = IF throws THEN @ + 1 ELSE @, !.uncaught = @ \/ throws]
  <1>1. Total(k) \in Nat /\ IsFiniteSet(Answers(k)) /\ k.throws \in Nat
    BY AnswersFinite DEF CallType
  <1>2. what \in Seen
    BY DEF Seen
  <1>3. s \in CallType /\ s.stage = k.stage /\ s.throws = k.throws
    BY <1>2, SeeType
  <1>4. Answers(s) = Answers(k) \cup {Len(k.history) + 1}
    BY <1>2, SeeAnswers
  <1>5. Len(k.history) + 1 \notin Answers(k)
    <2>1. k.history \in Seq(Seen)
      BY DEF CallType
    <2>2. DOMAIN k.history = 1..Len(k.history) /\ Len(k.history) \in Nat
      BY <2>1, LenProperties
    <2> QED BY <2>2 DEF Answers
  <1>6. Total(s) = Total(k) + 1
    BY <1>1, <1>4, <1>5, FS_AddElement DEF Total
  <1> HIDE DEF s
  <1>7. /\ d \in CallType /\ d.stage = s.stage /\ d.history = s.history
        /\ d.throws = s.throws + (IF throws THEN 1 ELSE 0)
    <2> DEFINE t == IF throws THEN s.throws + 1 ELSE s.throws
               u == s.uncaught \/ throws
    <2>1. s.throws \in Nat /\ s.uncaught \in BOOLEAN
      BY <1>3 DEF CallType
    <2>2. t \in Nat /\ t = s.throws + (IF throws THEN 1 ELSE 0)
      BY <2>1
    <2>3. u \in BOOLEAN
      OBVIOUS
    <2>4. d = [s EXCEPT !.throws = t, !.uncaught = u]
      OBVIOUS
    <2> HIDE DEF t, u, d
    <2> QED BY <1>3, <2>2, <2>3, <2>4 DEF CallType
  <1>8. Total(d) = Total(k) + 1
    BY <1>6, <1>7 DEF Total, Answers
  <1> HIDE DEF d
  <1>9. CASE Streams /\ Answers(k) # {}
    <2>1. Answer(k, what, throws) = k
      BY <1>9 DEF Answer
    <2> QED BY <1>1, <1>9, <2>1 DEF AnswersOnce
  <1>10. CASE Streams /\ Answers(k) = {}
    <2>1. Total(k) = 0
      BY <1>10, FS_EmptySet DEF Total
    <2>2. Answer(k, what, throws) = d
      BY <1>10 DEF Answer, d, s
    <2> QED BY <1>1, <1>3, <1>7, <1>8, <1>10, <2>1, <2>2 DEF AnswersOnce
  <1>11. CASE ~Streams
    <2>1. Answer(k, what, throws) = d
      BY <1>11 DEF Answer, d, s
    <2> QED BY <1>1, <1>3, <1>7, <1>8, <1>11, <2>1 DEF AnswersOnce
  <1> QED BY <1>9, <1>10, <1>11

\* An event before the callback.
LEMMA EventThenAnswer ==
    ASSUME NEW k \in CallType, NEW what \in Seen, what \notin {"error", "result"},
           NEW throws, NEW d, AnswersOnce(See(k, what), d, throws)
    PROVE  AnswersOnce(k, d, throws)
  <1>1. Answers(See(k, what)) = Answers(k)
    BY SeeAnswers
  <1>2. See(k, what).stage = k.stage /\ See(k, what).throws = k.throws
    BY SeeType
  <1> QED BY <1>1, <1>2 DEF AnswersOnce, Total

LEMMA FailOnce ==
    ASSUME NEW k \in CallType, NEW throws \in BOOLEAN
    PROVE  AnswersOnce(k, Fail(k, throws), throws)
  <1>1. See(k, "soapError") \in CallType /\ "soapError" \in Seen
    BY SeeType DEF Seen
  <1>2. AnswersOnce(See(k, "soapError"), Fail(k, throws), throws)
    BY <1>1, AnswerOnce DEF Fail
  <1> QED BY <1>1, <1>2, EventThenAnswer

LEMMA HttpErrorOnce ==
    ASSUME NEW k \in CallType, NEW throws \in BOOLEAN
    PROVE  AnswersOnce(k, HttpError(k, throws), throws)
  <1>1. See(k, "noResponse") \in CallType /\ "noResponse" \in Seen
    BY SeeType DEF Seen
  <1>2. AnswersOnce(See(k, "noResponse"), HttpError(k, throws), throws)
    BY <1>1, AnswerOnce DEF HttpError
  <1> QED BY <1>1, <1>2, EventThenAnswer

LEMMA FinishOnce ==
    ASSUME NEW k \in CallType, NEW throws \in BOOLEAN
    PROVE  AnswersOnce(k, Finish(k, throws), throws)
  BY AnswerOnce, FailOnce DEF Finish

LEMMA ParseSyncOnce ==
    ASSUME NEW k \in CallType, NEW throws \in BOOLEAN
    PROVE  AnswersOnce(k, ParseSync(k, throws), throws)
  BY AnswerOnce, FailOnce, FinishOnce DEF ParseSync

LEMMA ReceivedOnce ==
    ASSUME NEW k \in CallType, NEW throws \in BOOLEAN
    PROVE  AnswersOnce(k, Received(k, throws), throws)
  <1>1. See(k, "response") \in CallType /\ "response" \in Seen
    BY SeeType DEF Seen
  <1>2. AnswersOnce(See(k, "response"), Received(k, throws), throws)
    BY <1>1, ParseSyncOnce DEF Received
  <1> QED BY <1>1, <1>2, EventThenAnswer

LEMMA SentKeeps ==
    ASSUME NEW k \in CallType
    PROVE  /\ SameAnswers(k, Sent(k)) /\ Sent(k).stage = k.stage
           /\ Sent(k).output = k.output
  BY DEF Sent, CallType, SameAnswers, Answers

LEMMA EndedKeeps ==
    ASSUME NEW k \in CallType
    PROVE  /\ SameAnswers(k, Ended(k)) /\ Ended(k).stage = "done"
           /\ Ended(k).history = k.history
  <1> DEFINE s == Sent(k)
  <1>1. s \in CallType /\ s.throws = k.throws /\ s.history = k.history
    BY DEF Sent, CallType
  <1>2. NoResponse \in ResponseType
    BY DEF NoResponse, ResponseType, Status, Body, Multipart
  <1> HIDE DEF s
  <1>3. [s EXCEPT !.stage = "done", !.output = "none", !.response = NoResponse] \in CallType
    BY <1>1, <1>2 DEF CallType, Stage, Output
  <1>4. Ended(k) = [s EXCEPT !.stage = "done", !.output = "none", !.response = NoResponse]
    BY DEF Ended, s
  <1>5. /\ Ended(k).stage = "done" /\ Ended(k).throws = s.throws
        /\ Ended(k).history = s.history
    BY <1>1, <1>4 DEF CallType
  <1> QED BY <1>1, <1>3, <1>4, <1>5 DEF SameAnswers, Answers

\* Writing the fields that do not count.
LEMMA FieldsKeep ==
    ASSUME NEW k \in CallType
    PROVE  /\ \A s \in Stage : /\ SameAnswers(k, [k EXCEPT !.stage = s])
                               /\ [k EXCEPT !.stage = s].stage = s
           /\ \A b \in BOOLEAN : /\ SameAnswers(k, [k EXCEPT !.uncaught = b])
                                 /\ [k EXCEPT !.uncaught = b].stage = k.stage
           /\ \A m \in ResponseType : /\ SameAnswers(k, [k EXCEPT !.response = m])
                                      /\ [k EXCEPT !.response = m].stage = k.stage
  BY DEF CallType, SameAnswers, Answers

LEMMA SameTransitive ==
    ASSUME NEW k, NEW d, NEW e, SameAnswers(k, d), SameAnswers(d, e)
    PROVE  SameAnswers(k, e)
  BY DEF SameAnswers

-----------------------------------------------------------------------------
(* The exchanges. *)

\* A step of exchange c that keeps the balance, and calls back only with its lastResponse.
Sound(c, d) ==
    /\ d \in CallType /\ Balanced(d) /\ Run(c, d)
    /\ mode' = mode /\ httpHeaders' = httpHeaders
    /\ lastResponse' \in {c, lastResponse}
    /\ \/ lastResponse' = c \/ Answers(d) = Answers(call[c])
       \/ mode = "sax" \/ call[c].stage = "closing"

\* A callback of an exchange that is over with it.
LEMMA LastAnswer ==
    ASSUME NEW k \in CallType, Balanced(k), k.stage # "done",
           NEW j, SameAnswers(k, j), NEW throws, NEW d, AnswersOnce(j, d, throws),
           NEW e, SameAnswers(d, e), e.stage = "done"
    PROVE  Balanced(e)
  <1>1. /\ Total(j) = Total(k) /\ j.throws = k.throws
        /\ Total(e) = Total(d) /\ e.throws = d.throws
    BY DEF SameAnswers, Total
  <1>2. /\ Total(k) \in Nat /\ Total(d) \in Nat /\ k.throws \in Nat /\ d.throws \in Nat
    BY AnswersFinite DEF AnswersOnce, CallType
  <1> QED BY <1>1, <1>2 DEF Balanced, AnswersOnce

\* An exchange that ends without a callback, or goes on.
LEMMA NoAnswer ==
    ASSUME NEW k \in CallType, Balanced(k), k.stage # "done",
           NEW d, SameAnswers(k, d), d.stage # "new",
           Streams \/ (d.stage # "streaming" /\ (d.stage = "parts" => mode = "mtom"))
    PROVE  Balanced(d)
  <1>1. Total(d) = Total(k) /\ d.throws = k.throws
    BY DEF SameAnswers, Total
  <1>2. Total(k) \in Nat /\ k.throws \in Nat
    BY AnswersFinite DEF CallType
  <1> QED BY <1>1, <1>2 DEF Balanced

\* With streams, a callback that leaves the exchange going.
LEMMA StreamAnswer ==
    ASSUME NEW k \in CallType, Balanced(k), Streams,
           NEW j, SameAnswers(k, j), NEW throws, NEW d, AnswersOnce(j, d, throws),
           NEW e, SameAnswers(d, e), e.stage # "new"
    PROVE  Balanced(e)
  BY DEF Balanced, AnswersOnce, SameAnswers, Total

LEMMA SelfSame == \A k \in CallType : SameAnswers(k, k)
  BY DEF SameAnswers

\* The callback is called for the last time by the exchange c, with d.
LEMMA Ends ==
    ASSUME IInv, NEW c \in Call, call[c].stage # "done",
           NEW j, SameAnswers(call[c], j), NEW throws, NEW d, AnswersOnce(j, d, throws)
    PROVE  Ended(d) \in CallType /\ Balanced(Ended(d))
  <1>1. call[c] \in CallType /\ Balanced(call[c]) /\ d \in CallType
    BY DEF IInv, TypeOK, AnswersOnce
  <1>2. SameAnswers(d, Ended(d)) /\ Ended(d).stage = "done"
    BY <1>1, EndedKeeps
  <1> QED BY <1>1, <1>2, LastAnswer DEF SameAnswers

LEMMA RequestFailsSound ==
    ASSUME IInv, NEW c \in Call, NEW data \in BOOLEAN, NEW throws \in BOOLEAN,
           RequestFails(c, data, throws)
    PROVE  \E d : Sound(c, d)
  <1> DEFINE k == call[c]
             s == See(Sent(k), "noResponse")
  <1>1. k \in CallType /\ Balanced(k) /\ k.stage = "requested" /\ "noResponse" \in Seen
    BY DEF RequestFails, IInv, TypeOK, Seen
  <1>2. /\ lastResponse' = c /\ mode' = mode /\ httpHeaders' = httpHeaders
        /\ Run(c, IF mode = "stream" /\ data THEN [s EXCEPT !.stage = "closing"]
                  ELSE Ended(HttpError(k, throws)))
    BY DEF RequestFails, Write
  <1> HIDE DEF k
  <1>3. CASE mode = "stream" /\ data
    <2>1. SameAnswers(k, Sent(k)) /\ Sent(k) \in CallType
      BY <1>1, SentKeeps DEF SameAnswers
    <2>2. SameAnswers(Sent(k), s) /\ s \in CallType
      BY <1>1, <2>1, EventKeeps DEF SameAnswers
    <2> HIDE DEF s
    <2>3. /\ SameAnswers(s, [s EXCEPT !.stage = "closing"])
          /\ [s EXCEPT !.stage = "closing"].stage = "closing"
      BY <2>2, FieldsKeep DEF Stage
    <2>4. SameAnswers(k, [s EXCEPT !.stage = "closing"])
      BY <2>1, <2>2, <2>3, SameTransitive
    <2>5. Streams
      BY <1>3 DEF Streams
    <2>6. Balanced([s EXCEPT !.stage = "closing"])
      BY <1>1, <2>3, <2>4, <2>5, NoAnswer
    <2>7. [s EXCEPT !.stage = "closing"] \in CallType
      BY <2>4 DEF SameAnswers
    <2> QED BY <1>2, <1>3, <2>6, <2>7 DEF Sound
  <1>4. CASE ~(mode = "stream" /\ data)
    <2>1. Ended(HttpError(k, throws)) \in CallType /\ Balanced(Ended(HttpError(k, throws)))
      BY <1>1, Ends, HttpErrorOnce, SelfSame DEF k
    <2> QED BY <1>2, <1>4, <2>1 DEF Sound
  <1> QED BY <1>3, <1>4

LEMMA ErrorBodyClosesSound ==
    ASSUME IInv, NEW c \in Call, NEW throws \in BOOLEAN, ErrorBodyCloses(c, throws)
    PROVE  \E d : Sound(c, d)
  <1>1. call[c] \in CallType /\ call[c].stage = "closing"
    BY DEF ErrorBodyCloses, IInv, TypeOK
  <1> DEFINE d == Ended(Answer(call[c], "error", throws))
  <1>2. d \in CallType /\ Balanced(d)
    BY <1>1, Ends, AnswerOnce, SelfSame
  <1>3. Run(c, d) /\ UNCHANGED <<mode, httpHeaders, lastResponse>>
    BY DEF ErrorBodyCloses, Keep
  <1> HIDE DEF d
  <1> QED BY <1>1, <1>2, <1>3 DEF Sound

LEMMA RespondSound ==
    ASSUME IInv, NEW c \in Call, NEW m \in Response, NEW throws \in BOOLEAN,
           Respond(c, m, throws)
    PROVE  \E d : Sound(c, d)
  <1> DEFINE j == [call[c] EXCEPT !.response = m]
             d == Ended(Received(j, throws))
  <1>1. call[c] \in CallType /\ call[c].stage = "requested" /\ m \in ResponseType
    BY ClientAssumption DEF Respond, IInv, TypeOK
  <1>2. SameAnswers(call[c], j) /\ j \in CallType
    BY <1>1, FieldsKeep DEF SameAnswers
  <1>3. lastResponse' = c /\ mode' = mode /\ httpHeaders' = httpHeaders /\ Run(c, d)
    BY DEF Respond, Write
  <1> HIDE DEF j
  <1>4. d \in CallType /\ Balanced(d)
    BY <1>1, <1>2, Ends, ReceivedOnce
  <1> HIDE DEF d
  <1> QED BY <1>3, <1>4 DEF Sound

LEMMA RespondMultipartSound ==
    ASSUME IInv, NEW c \in Call, NEW m \in Response, NEW throws \in BOOLEAN,
           RespondMultipart(c, m, throws)
    PROVE  \E d : Sound(c, d)
  <1> DEFINE k == call[c]
             s == Sent(k)
             r == [s EXCEPT !.response = m]
             p == [s EXCEPT !.response = m, !.stage = "parts"]
             u == [Ended(k) EXCEPT !.uncaught = TRUE]
  <1>1. /\ k \in CallType /\ Balanced(k) /\ k.stage = "requested" /\ m \in ResponseType
        /\ mode = "mtom"
    BY ClientAssumption DEF RespondMultipart, IInv, TypeOK
  <1>2. \/ Keep(c, p) \/ Write(c, Ended(HttpError(k, throws))) \/ Keep(c, u)
    BY DEF RespondMultipart
  <1>3. CASE Keep(c, p)
    <2>1. SameAnswers(k, s) /\ s \in CallType
      BY <1>1, SentKeeps DEF SameAnswers
    <2>2. SameAnswers(s, r) /\ r \in CallType
      <3> HIDE DEF s
      <3> QED BY <1>1, <2>1, FieldsKeep DEF SameAnswers
    <2>3. p = [r EXCEPT !.stage = "parts"]
      OBVIOUS
    <2>4. SameAnswers(r, p) /\ p.stage = "parts"
      <3> HIDE DEF r, p
      <3> QED BY <2>2, <2>3, FieldsKeep DEF Stage
    <2> HIDE DEF k, s, r, p
    <2>5. SameAnswers(k, p)
      BY <2>1, <2>2, <2>4, SameTransitive
    <2>6. Balanced(p)
      BY <1>1, <2>4, <2>5, NoAnswer
    <2> QED BY <1>3, <2>5, <2>6 DEF Sound, SameAnswers, Keep, k
  <1>4. CASE Write(c, Ended(HttpError(k, throws)))
    <2>1. Ended(HttpError(k, throws)) \in CallType /\ Balanced(Ended(HttpError(k, throws)))
      BY <1>1, Ends, HttpErrorOnce, SelfSame
    <2> QED BY <1>4, <2>1 DEF Sound, Write
  <1>5. CASE Keep(c, u)
    <2>1. SameAnswers(k, Ended(k)) /\ Ended(k) \in CallType /\ Ended(k).stage = "done"
      BY <1>1, EndedKeeps DEF SameAnswers
    <2>2. SameAnswers(Ended(k), u) /\ u.stage = "done"
      BY <2>1, FieldsKeep
    <2> HIDE DEF k, u
    <2>3. SameAnswers(k, u)
      BY <2>1, <2>2, SameTransitive
    <2>4. Balanced(u)
      BY <1>1, <2>2, <2>3, NoAnswer
    <2> QED BY <1>5, <2>3, <2>4 DEF Sound, SameAnswers, Keep, k
  <1> QED BY <1>2, <1>3, <1>4, <1>5

\* The one step where a callback that throws is called again.
LEMMA PartsParsedSound ==
    ASSUME IInv, NEW c \in Call, NEW throws \in BOOLEAN, PartsParsed(c, throws)
    PROVE  \E d : Sound(c, d)
  <1> DEFINE k == call[c]
             a == IF k.response.multipart = "parts" THEN Received(k, throws)
                  ELSE HttpError(k, throws)
             s == [a EXCEPT !.stage = "rejected"]
             r == [a EXCEPT !.stage = "rejected", !.uncaught = FALSE]
  <1>1. /\ k \in CallType /\ Balanced(k) /\ k.stage = "parts"
    BY DEF PartsParsed, IInv, TypeOK
  <1>2. AnswersOnce(k, a, throws)
    BY <1>1, ReceivedOnce, HttpErrorOnce
  <1>3. Write(c, IF throws THEN r ELSE Ended(a))
    BY DEF PartsParsed
  <1> HIDE DEF a
  <1>4. CASE throws
    <2>1. a \in CallType
      BY <1>2 DEF AnswersOnce
    <2>2. SameAnswers(a, s) /\ s \in CallType /\ s.stage = "rejected"
      BY <2>1, FieldsKeep DEF Stage, SameAnswers
    <2>3. r = [s EXCEPT !.uncaught = FALSE]
      OBVIOUS
    <2>4. SameAnswers(s, r) /\ r.stage = "rejected"
      <3> HIDE DEF s, r
      <3> QED BY <2>2, <2>3, FieldsKeep
    <2> HIDE DEF k, s, r
    <2>5. SameAnswers(a, r)
      BY <2>2, <2>4, SameTransitive
    <2>6. Balanced(r)
      <3>1. Total(r) = Total(a) /\ r.throws = a.throws
        BY <2>5 DEF SameAnswers, Total
      <3>2. /\ Total(k) \in Nat /\ Total(a) \in Nat /\ k.throws \in Nat
            /\ a.throws \in Nat
        BY <1>1, <2>1, AnswersFinite DEF CallType
      <3>3. CASE Streams
        BY <1>1, <1>2, <2>4, <3>1, <3>3 DEF Balanced, AnswersOnce
      <3>4. CASE ~Streams
        <4>1. mode = "mtom" /\ Total(k) + 1 <= 1 + k.throws
          BY <1>1, <3>4 DEF Balanced
        <4>2. Total(a) <= Total(k) + 1 /\ a.throws = k.throws + 1
          BY <1>2, <1>4, <3>4 DEF AnswersOnce
        <4>3. Total(r) + 1 <= 1 + r.throws
          BY <3>1, <3>2, <4>1, <4>2
        <4> QED BY <2>4, <3>4, <4>1, <4>3 DEF Balanced
      <3> QED BY <3>3, <3>4
    <2> QED BY <1>3, <1>4, <2>5, <2>6 DEF Sound, SameAnswers, Write
  <1>5. CASE ~throws
    <2>1. Ended(a) \in CallType /\ Balanced(Ended(a))
      BY <1>1, <1>2, Ends, SelfSame
    <2> QED BY <1>3, <1>5, <2>1 DEF Sound, Write
  <1> QED BY <1>4, <1>5

LEMMA PartsUnreadableSound ==
    ASSUME IInv, NEW c \in Call, PartsUnreadable(c)
    PROVE  \E d : Sound(c, d)
  <1> DEFINE k == call[c]
             d == [k EXCEPT !.stage = "rejected"]
  <1>1. /\ k \in CallType /\ Balanced(k) /\ k.stage = "parts" /\ Keep(c, d)
    BY DEF PartsUnreadable, IInv, TypeOK
  <1>2. SameAnswers(k, d) /\ d.stage = "rejected"
    BY <1>1, FieldsKeep DEF Stage
  <1> HIDE DEF k, d
  <1>3. Balanced(d)
    BY <1>1, <1>2, NoAnswer
  <1> QED BY <1>1, <1>2, <1>3 DEF Sound, SameAnswers, Keep, k

LEMMA PartsRejectedSound ==
    ASSUME IInv, NEW c \in Call, NEW throws \in BOOLEAN, PartsRejected(c, throws)
    PROVE  \E d : Sound(c, d)
  <1>1. /\ call[c] \in CallType /\ call[c].stage = "rejected"
        /\ Write(c, Ended(HttpError(call[c], throws)))
    BY DEF PartsRejected, IInv, TypeOK
  <1>2. /\ Ended(HttpError(call[c], throws)) \in CallType
        /\ Balanced(Ended(HttpError(call[c], throws)))
    BY <1>1, Ends, HttpErrorOnce, SelfSame
  <1> QED BY <1>1, <1>2 DEF Sound, Write

LEMMA StreamBeginsSound ==
    ASSUME IInv, NEW c \in Call, NEW m \in Response, NEW throws \in BOOLEAN,
           StreamBegins(c, m, throws)
    PROVE  \E d : Sound(c, d)
  <1> DEFINE k == call[c]
             s == Sent(k)
             j == [s EXCEPT !.response = m]
             a == Answer(j, "result", throws)
  <1>1. /\ k \in CallType /\ Balanced(k) /\ k.stage = "requested" /\ m \in ResponseType
        /\ Streams
    BY ClientAssumption DEF StreamBegins, IInv, TypeOK
  <1>2. SameAnswers(k, s) /\ s \in CallType
    BY <1>1, SentKeeps DEF SameAnswers
  <1>3. SameAnswers(s, j) /\ j \in CallType
    <2> HIDE DEF s
    <2> QED BY <1>1, <1>2, FieldsKeep DEF SameAnswers
  <1>4. \/ Keep(c, [j EXCEPT !.stage = "collecting"])
        \/ Keep(c, [j EXCEPT !.stage = "streaming"])
        \/ mode = "sax" /\ Keep(c, [a EXCEPT !.stage = "handed"])
    BY DEF StreamBegins, Streams
  <1> HIDE DEF j
  <1>5. AnswersOnce(j, a, throws) /\ a \in CallType
    BY <1>3, AnswerOnce DEF AnswersOnce
  <1> HIDE DEF k, s, a
  <1>6. SameAnswers(k, j)
    BY <1>2, <1>3, SameTransitive
  <1>7. ASSUME NEW stage \in {"collecting", "streaming"}, Keep(c, [j EXCEPT !.stage = stage])
        PROVE  \E d : Sound(c, d)
    <2>1. SameAnswers(j, [j EXCEPT !.stage = stage]) /\ [j EXCEPT !.stage = stage].stage = stage
      <3>1. stage \in Stage
        BY DEF Stage
      <3> QED BY <1>3, <3>1, FieldsKeep
    <2>2. SameAnswers(k, [j EXCEPT !.stage = stage])
      BY <1>6, <2>1, SameTransitive
    <2>3. Balanced([j EXCEPT !.stage = stage])
      BY <1>1, <2>1, <2>2, NoAnswer
    <2> QED BY <1>7, <2>2, <2>3 DEF Sound, SameAnswers, Keep, k
  <1>8. CASE mode = "sax" /\ Keep(c, [a EXCEPT !.stage = "handed"])
    <2>1. /\ SameAnswers(a, [a EXCEPT !.stage = "handed"])
          /\ [a EXCEPT !.stage = "handed"].stage = "handed"
      BY <1>5, FieldsKeep DEF Stage
    <2>2. Balanced([a EXCEPT !.stage = "handed"])
      BY <1>1, <1>5, <1>6, <2>1, StreamAnswer
    <2> QED BY <1>8, <2>1, <2>2 DEF Sound, SameAnswers, Keep
  <1> QED BY <1>4, <1>7, <1>8

LEMMA CollectedSound ==
    ASSUME IInv, NEW c \in Call, NEW throws \in BOOLEAN, Collected(c, throws)
    PROVE  \E d : Sound(c, d)
  <1>1. /\ call[c] \in CallType /\ call[c].stage = "collecting"
        /\ Write(c, Ended(Received(call[c], throws)))
    BY DEF Collected, IInv, TypeOK
  <1>2. /\ Ended(Received(call[c], throws)) \in CallType
        /\ Balanced(Ended(Received(call[c], throws)))
    BY <1>1, Ends, ReceivedOnce, SelfSame
  <1> QED BY <1>1, <1>2 DEF Sound, Write

LEMMA BodyLostSound ==
    ASSUME IInv, NEW c \in Call, NEW throws \in BOOLEAN, BodyLost(c, throws)
    PROVE  \E d : Sound(c, d)
  <1> DEFINE k == call[c]
             e == Ended(HttpError(k, throws))
             u == e.uncaught \/ k.stage = "collecting"
             d == [e EXCEPT !.uncaught = u]
  <1>1. k \in CallType /\ Balanced(k) /\ k.stage # "done" /\ Write(c, d)
    BY DEF BodyLost, IInv, TypeOK
  <1>2. AnswersOnce(k, HttpError(k, throws), throws) /\ HttpError(k, throws) \in CallType
    BY <1>1, HttpErrorOnce DEF AnswersOnce
  <1>3. SameAnswers(HttpError(k, throws), e) /\ e.stage = "done" /\ e \in CallType
    BY <1>2, EndedKeeps DEF SameAnswers
  <1>4. u \in BOOLEAN
    <2>1. e.uncaught \in BOOLEAN
      <3> HIDE DEF e
      <3> QED BY <1>3 DEF CallType
    <2> QED BY <2>1
  <1> HIDE DEF e, u, k
  <1>5. SameAnswers(e, d) /\ d.stage = "done"
    BY <1>3, <1>4, FieldsKeep
  <1> HIDE DEF d
  <1>6. SameAnswers(HttpError(k, throws), d)
    BY <1>3, <1>5, SameTransitive
  <1>7. Balanced(d)
    BY <1>1, <1>2, <1>5, <1>6, LastAnswer, SelfSame
  <1> QED BY <1>1, <1>6, <1>7 DEF Sound, SameAnswers, Write

LEMMA StreamErrorSound ==
    ASSUME IInv, NEW c \in Call, NEW throws \in BOOLEAN, StreamError(c, throws)
    PROVE  \E d : Sound(c, d)
  <1> DEFINE k == call[c]
             j == See(k, "response")
             a == Fail(j, throws)
             d == IF a.uncaught THEN Ended(a) ELSE a
  <1>1. k \in CallType /\ Balanced(k) /\ k.stage = "streaming" /\ Write(c, d)
    BY DEF StreamError, IInv, TypeOK
  <1>2. Streams
    BY <1>1 DEF Balanced
  <1>3. SameAnswers(k, j) /\ j \in CallType /\ j.stage = "streaming"
    BY <1>1, EventKeeps DEF Seen, SameAnswers
  <1> HIDE DEF k, j
  <1>4. AnswersOnce(j, a, throws) /\ a \in CallType /\ a.stage = "streaming"
    BY <1>3, FailOnce DEF AnswersOnce
  <1> HIDE DEF a
  <1>5. SameAnswers(a, d) /\ d.stage # "new"
    BY <1>4, EndedKeeps, SelfSame
  <1>6. Balanced(d)
    BY <1>1, <1>2, <1>3, <1>4, <1>5, StreamAnswer
  <1> HIDE DEF d
  <1> QED BY <1>1, <1>5, <1>6 DEF Sound, SameAnswers, Write

LEMMA StreamEndsSound ==
    ASSUME IInv, NEW c \in Call, NEW throws \in BOOLEAN, StreamEnds(c, throws)
    PROVE  \E d : Sound(c, d)
  <1> DEFINE j == See(call[c], "response")
             a == IF j.response.body = "fault" THEN Fail(j, throws) ELSE Finish(j, throws)
  <1>1. call[c] \in CallType /\ call[c].stage = "streaming" /\ Write(c, Ended(a))
    BY DEF StreamEnds, IInv, TypeOK
  <1>2. SameAnswers(call[c], j) /\ j \in CallType
    BY <1>1, EventKeeps DEF Seen, SameAnswers
  <1> HIDE DEF j
  <1>3. AnswersOnce(j, a, throws)
    BY <1>2, FailOnce, FinishOnce
  <1> HIDE DEF a
  <1>4. Ended(a) \in CallType /\ Balanced(Ended(a))
    BY <1>1, <1>2, <1>3, Ends
  <1> QED BY <1>1, <1>4 DEF Sound, Write

LEMMA StreamHandlerThrowsSound ==
    ASSUME IInv, NEW c \in Call, StreamHandlerThrows(c)
    PROVE  \E d : Sound(c, d)
  <1> DEFINE k == call[c]
             u == [Ended(k) EXCEPT !.uncaught = TRUE]
  <1>1. k \in CallType /\ Balanced(k) /\ k.stage = "streaming" /\ Keep(c, u)
    BY DEF StreamHandlerThrows, IInv, TypeOK
  <1>2. SameAnswers(k, Ended(k)) /\ Ended(k) \in CallType /\ Ended(k).stage = "done"
    BY <1>1, EndedKeeps DEF SameAnswers
  <1>3. SameAnswers(Ended(k), u) /\ u.stage = "done"
    BY <1>2, FieldsKeep
  <1> HIDE DEF k, u
  <1>4. SameAnswers(k, u)
    BY <1>2, <1>3, SameTransitive
  <1>5. Balanced(u)
    BY <1>1, <1>3, <1>4, NoAnswer
  <1> QED BY <1>1, <1>4, <1>5 DEF Sound, SameAnswers, Keep, k

LEMMA InvokeSound ==
    ASSUME IInv, NEW c \in Call, NEW i \in Invocation, Invoke(c, i)
    PROVE  \E d : Sound(c, d)
  <1> DEFINE headers == HeadersOf(i.extra)
             broken == i.attachments /\ headers = {}
             k == [call[c] EXCEPT !.output = i.output, !.extra = i.extra, !.headers = headers,
                                  !.history = <<"message", "request">>, !.uncaught = broken]
             r == [k EXCEPT !.stage = "requested"]
             d == IF broken THEN Ended(k) ELSE r
  <1>1. /\ call[c] \in CallType /\ Balanced(call[c]) /\ call[c].stage = "new"
        /\ Run(c, d) /\ UNCHANGED <<mode, httpHeaders, lastResponse>>
    BY DEF Invoke, IInv, TypeOK
  <1>2. i.output \in Output /\ i.extra \in BOOLEAN /\ i.attachments \in BOOLEAN
    BY ClientAssumption DEF InvocationType
  <1>3. headers \in SUBSET HeaderSource
    BY DEF HeadersOf, HeaderSource
  <1>4. broken \in BOOLEAN
    BY <1>2
  <1> HIDE DEF headers, broken
  <1>5. <<"message", "request">> \in Seq(Seen)
    BY DEF Seen
  <1>6. k \in CallType /\ k.history = <<"message", "request">>
    BY <1>1, <1>2, <1>3, <1>4, <1>5 DEF CallType
  <1>7. Answers(k) = {}
    BY <1>6 DEF Answers
  <1> HIDE DEF k
  <1>8. SameAnswers(k, r) /\ r.stage = "requested"
    BY <1>6, FieldsKeep DEF Stage
  <1>9. SameAnswers(k, Ended(k)) /\ Ended(k).stage = "done"
    BY <1>6, EndedKeeps
  <1>10. SameAnswers(k, d) /\ d.stage \in {"requested", "done"}
    BY <1>8, <1>9
  <1> HIDE DEF d
  <1>11. d \in CallType /\ Answers(d) = {} /\ Total(d) = 0 /\ d.throws \in Nat
    BY <1>7, <1>10, FS_EmptySet DEF SameAnswers, Total, CallType
  <1>12. Balanced(d)
    BY <1>10, <1>11 DEF Balanced
  <1>13. Answers(call[c]) = {}
    BY <1>1 DEF Balanced
  <1> QED BY <1>1, <1>11, <1>12, <1>13 DEF Sound

LEMMA ProgressSound ==
    ASSUME IInv, NEW c \in Call, Progress(c)
    PROVE  \E d : Sound(c, d)
  <1>1. ASSUME NEW throws \in BOOLEAN, NEW data \in BOOLEAN, RequestFails(c, data, throws)
        PROVE  \E d : Sound(c, d)
    BY <1>1, RequestFailsSound
  <1>2. ASSUME NEW throws \in BOOLEAN, ErrorBodyCloses(c, throws) PROVE \E d : Sound(c, d)
    BY <1>2, ErrorBodyClosesSound
  <1>3. ASSUME NEW throws \in BOOLEAN, NEW m \in Response, Respond(c, m, throws)
        PROVE  \E d : Sound(c, d)
    BY <1>3, RespondSound
  <1>4. ASSUME NEW throws \in BOOLEAN, NEW m \in Response, RespondMultipart(c, m, throws)
        PROVE  \E d : Sound(c, d)
    BY <1>4, RespondMultipartSound
  <1>5. ASSUME NEW throws \in BOOLEAN, NEW m \in Response, StreamBegins(c, m, throws)
        PROVE  \E d : Sound(c, d)
    BY <1>5, StreamBeginsSound
  <1>6. ASSUME NEW throws \in BOOLEAN, PartsParsed(c, throws) PROVE \E d : Sound(c, d)
    BY <1>6, PartsParsedSound
  <1>7. ASSUME NEW throws \in BOOLEAN, PartsRejected(c, throws) PROVE \E d : Sound(c, d)
    BY <1>7, PartsRejectedSound
  <1>8. ASSUME NEW throws \in BOOLEAN, Collected(c, throws) PROVE \E d : Sound(c, d)
    BY <1>8, CollectedSound
  <1>9. ASSUME NEW throws \in BOOLEAN, BodyLost(c, throws) PROVE \E d : Sound(c, d)
    BY <1>9, BodyLostSound
  <1>10. ASSUME NEW throws \in BOOLEAN, StreamError(c, throws) PROVE \E d : Sound(c, d)
    BY <1>10, StreamErrorSound
  <1>11. ASSUME NEW throws \in BOOLEAN, StreamEnds(c, throws) PROVE \E d : Sound(c, d)
    BY <1>11, StreamEndsSound
  <1>12. ASSUME PartsUnreadable(c) PROVE \E d : Sound(c, d)
    BY <1>12, PartsUnreadableSound
  <1>13. ASSUME StreamHandlerThrows(c) PROVE \E d : Sound(c, d)
    BY <1>13, StreamHandlerThrowsSound
  <1> QED
    BY <1>1, <1>2, <1>3, <1>4, <1>5, <1>6, <1>7, <1>8, <1>9, <1>10, <1>11, <1>12, <1>13
    DEF Progress

-----------------------------------------------------------------------------
(* The client. *)

\* What the step may do to lastResponse.
OwnResponse ==
    \A c \in Call :
        (/\ Answers(call'[c]) # Answers(call[c])
         /\ mode # "sax"
         /\ call[c].stage # "closing") => lastResponse' = c

LEMMA SoundKeeps ==
    ASSUME IInv, NEW c \in Call, NEW d, Sound(c, d)
    PROVE  IInv' /\ OwnResponse
  <1>1. /\ call \in [Call -> CallType] /\ d \in CallType
        /\ call' = [call EXCEPT ![c] = d]
    BY DEF Sound, Run, IInv, TypeOK
  <1>2. /\ call' \in [Call -> CallType] /\ call'[c] = d
        /\ \A x \in Call : x # c => call'[x] = call[x]
    BY <1>1
  <1>3. mode' = mode /\ httpHeaders' = httpHeaders /\ lastResponse' \in {c, lastResponse}
    BY DEF Sound
  <1>4. TypeOK'
    BY <1>2, <1>3 DEF IInv, TypeOK
  <1>5. ASSUME NEW x \in Call PROVE Balanced(call[x])'
    <2>1. Balanced(call'[x])
      BY <1>2 DEF Sound, IInv
    <2> QED BY <1>3, <2>1 DEF Balanced, Streams, Total, Answers
  <1>6. OwnResponse
    BY <1>2 DEF Sound, OwnResponse
  <1> QED BY <1>4, <1>5, <1>6 DEF IInv

LEMMA InitInv == Init => IInv
  <1> SUFFICES ASSUME Init PROVE IInv
    OBVIOUS
  <1>1. NoResponse \in ResponseType
    BY DEF NoResponse, ResponseType, Status, Body, Multipart
  <1>2. <<>> \in Seq(Seen)
    BY EmptySeq
  <1>3. /\ NewCall \in CallType /\ NewCall.history = <<>> /\ NewCall.stage = "new"
        /\ NewCall.throws = 0
    BY <1>1, <1>2 DEF NewCall, CallType, Stage, Output, HeaderSource
  <1>4. TypeOK
    BY <1>3, ClientAssumption DEF Init, TypeOK
  <1>5. Answers(NewCall) = {}
    BY <1>3 DEF Answers
  <1>6. Balanced(NewCall)
    BY <1>3, <1>5, FS_EmptySet DEF Balanced, Total
  <1> QED BY <1>4, <1>6 DEF Init, IInv

LEMMA HeadersKeep ==
    ASSUME IInv, UNCHANGED <<mode, call, lastResponse>>,
           httpHeaders' \in {"undefined", "some", "null"}
    PROVE  IInv' /\ OwnResponse
  BY DEF IInv, TypeOK, Balanced, Streams, Total, Answers, OwnResponse

LEMMA NextInv == IInv /\ [Next]_vars => IInv' /\ OwnResponse
  <1> SUFFICES ASSUME IInv, [Next]_vars PROVE IInv' /\ OwnResponse
    OBVIOUS
  <1>1. CASE AddHttpHeader
    BY <1>1, HeadersKeep DEF AddHttpHeader
  <1>2. CASE ClearHttpHeaders
    BY <1>2, HeadersKeep DEF ClearHttpHeaders
  <1>3. ASSUME NEW c \in Call, NEW i \in Invocation, Invoke(c, i) PROVE IInv' /\ OwnResponse
    BY <1>3, InvokeSound, SoundKeeps
  <1>4. ASSUME NEW c \in Call, Progress(c) PROVE IInv' /\ OwnResponse
    BY <1>4, ProgressSound, SoundKeeps
  <1>5. CASE UNCHANGED vars
    <2>1. httpHeaders' \in {"undefined", "some", "null"}
      BY <1>5 DEF vars, IInv, TypeOK
    <2> QED BY <1>5, <2>1, HeadersKeep DEF vars
  <1> QED BY <1>1, <1>2, <1>3, <1>4, <1>5 DEF Next

LEMMA Invariance == Spec => []IInv
  <1>1. IInv /\ [Next]_vars => IInv'
    BY NextInv
  <1> QED BY <1>1, InitInv, PTL DEF Spec

-----------------------------------------------------------------------------
(* The theorems. *)

\* The records of the exchanges have their types, and headers come from where _invoke takes
\* them.
THEOREM TypeCorrect == Spec => []TypeOK
  <1>1. IInv => TypeOK
    BY DEF IInv
  <1> QED BY <1>1, Invariance, PTL

\* A method calls back once (src/client.ts:510, once() and the single callbacks of the other
\* paths), except for the promise chain that calls again a callback that throws.
THEOREM CallsBackOnce == Spec => []CallbackOnce
  <1>1. IInv => CallbackOnce
    <2> SUFFICES ASSUME IInv, NEW c \in Call
                 PROVE  Total(call[c]) <= 1 + (IF mode = "mtom" THEN call[c].throws ELSE 0)
      BY DEF CallbackOnce, Total
    <2>1. call[c] \in CallType /\ Balanced(call[c])
      BY DEF IInv, TypeOK
    <2>2. Total(call[c]) \in Nat /\ call[c].throws \in Nat
      BY <2>1, AnswersFinite DEF CallType
    <2> QED BY <2>1, <2>2 DEF Balanced
  <1> QED BY <1>1, Invariance, PTL

\* What the callback finds in client.lastResponse belongs to its own exchange, but for
\* streams that are handed over and errors whose body is awaited.
THEOREM OwnLastResponse == Spec => LastResponseIsOwn
  <1>1. IInv /\ [Next]_vars => [OwnResponse]_vars
    BY NextInv
  <1>2. Spec => [][OwnResponse]_vars
    BY <1>1, Invariance, PTL DEF Spec
  <1>3. [][OwnResponse]_vars <=> LastResponseIsOwn
    BY DEF OwnResponse, LastResponseIsOwn
  <1> QED BY <1>2, <1>3

-----------------------------------------------------------------------------
(* What the user hears, and in which order. *)

\* Where in its history the user sees one of the events in W.
Where(k, W) == {i \in DOMAIN k.history : k.history[i] \in W}

Hears(k) == Where(k, {"response", "noResponse"})
SoapErrors(k) == Where(k, {"soapError"})

FirstIsError(k) == \E j \in Where(k, {"error"}) : \A i \in Answers(k) : j <= i

\* No result has been delivered first.
Open(k) == Answers(k) = {} \/ FirstIsError(k)

Consistent(k) ==
    /\ mode # "sax" => \A i \in Answers(k) : \E j \in Hears(k) : j <= i
    /\ SoapErrors(k) # {} => FirstIsError(k)

Even(k) == ~Streams => Cardinality(Hears(k)) = Total(k)

\* The invariant of one exchange: its history is consistent, and where it waits for what
\* comes next, a callback has not been called, or only with an error.
Tells(k) ==
    /\ Consistent(k) /\ Even(k)
    /\ k.stage \in {"new", "requested", "parts", "collecting", "closing"} => Answers(k) = {}
    /\ k.stage = "streaming" => Open(k)
    /\ k.stage = "handed" => mode = "sax"
    /\ k.stage = "closing" => Hears(k) # {}
    /\ ~Streams => k.stage \notin {"streaming", "collecting", "handed", "closing"}

LEMMA AnswersWhere == \A k : Answers(k) = Where(k, {"error", "result"})
  BY DEF Answers, Where

LEMMA WhereType ==
    ASSUME NEW k \in CallType, NEW W
    PROVE  /\ Len(k.history) \in Nat /\ Where(k, W) \subseteq 1..Len(k.history)
           /\ IsFiniteSet(Where(k, W)) /\ Cardinality(Where(k, W)) \in Nat
  <1>1. k.history \in Seq(Seen)
    BY DEF CallType
  <1>2. DOMAIN k.history = 1..Len(k.history) /\ Len(k.history) \in Nat
    BY <1>1, LenProperties
  <1>3. Where(k, W) \subseteq 1..Len(k.history)
    BY <1>2 DEF Where
  <1>4. IsFiniteSet(1..Len(k.history))
    BY <1>2, FS_Interval
  <1>5. IsFiniteSet(Where(k, W))
    BY <1>3, <1>4, FS_Subset
  <1> QED BY <1>2, <1>3, <1>5, FS_CardinalityType

LEMMA SeeWhere ==
    ASSUME NEW k \in CallType, NEW what \in Seen, NEW W
    PROVE  Where(See(k, what), W) =
             Where(k, W) \cup (IF what \in W THEN {Len(k.history) + 1} ELSE {})
  <1> DEFINE h == k.history
             n == Len(h)
  <1>1. h \in Seq(Seen)
    BY DEF CallType
  <1>2. See(k, what).history = Append(h, what)
    BY SeeType
  <1> HIDE DEF h
  <1>3. /\ Append(h, what) \in Seq(Seen) /\ Len(Append(h, what)) = n + 1
        /\ \A i \in 1..n : Append(h, what)[i] = h[i]
        /\ Append(h, what)[n + 1] = what
    BY <1>1, AppendProperties
  <1>4. DOMAIN Append(h, what) = 1..(n + 1) /\ DOMAIN h = 1..n /\ n \in Nat
    BY <1>1, <1>3, LenProperties
  <1>5. Where(See(k, what), W) = {i \in 1..(n + 1) : Append(h, what)[i] \in W}
    BY <1>2, <1>4 DEF Where
  <1>6. Where(k, W) = {i \in 1..n : h[i] \in W}
    BY <1>4 DEF Where, h
  <1>7. 1..(n + 1) = 1..n \cup {n + 1}
    BY <1>4
  <1> QED BY <1>3, <1>5, <1>6, <1>7 DEF h

\* Only the history counts.
LEMMA HistoryDecides ==
    ASSUME NEW k, NEW d, d.history = k.history
    PROVE  /\ Answers(d) = Answers(k) /\ Hears(d) = Hears(k) /\ Total(d) = Total(k)
           /\ Consistent(d) <=> Consistent(k)
           /\ Open(d) <=> Open(k)
           /\ FirstIsError(d) <=> FirstIsError(k)
           /\ Even(d) <=> Even(k)
  BY DEF Answers, Hears, SoapErrors, Where, Total, Consistent, Open, FirstIsError, Even

\* The callback has something to follow.
Ready(k) ==
    /\ mode # "sax" => /\ Hears(k) # {}
                       /\ \A i \in Answers(k) : \E j \in Hears(k) : j <= i
    /\ SoapErrors(k) # {} => FirstIsError(k)

Told(k, d) ==
    /\ d \in CallType /\ d.stage = k.stage
    /\ Consistent(d) /\ Hears(d) = Hears(k)
    /\ ~Streams => Total(d) = Total(k) + 1

LEMMA AnswerHistory ==
    ASSUME NEW k \in CallType, NEW what \in {"error", "result"}, NEW throws \in BOOLEAN
    PROVE  LET d == Answer(k, what, throws) IN
           /\ d \in CallType /\ d.stage = k.stage
           /\ \/ Streams /\ Answers(k) # {} /\ d = k
              \/ (~Streams \/ Answers(k) = {}) /\ d.history = See(k, what).history
  <1> DEFINE s == See(k, what)
             t == IF throws THEN s.throws + 1 ELSE s.throws
             u == s.uncaught \/ throws
             e == [s EXCEPT !.throws = t, !.uncaught = u]
  <1>1. Answer(k, what, throws) \in CallType /\ Answer(k, what, throws).stage = k.stage
    BY AnswerOnce DEF AnswersOnce
  <1>2. s \in CallType
    BY SeeType DEF Seen
  <1>3. Answer(k, what, throws) = IF Streams /\ Answers(k) # {} THEN k ELSE e
    BY DEF Answer
  <1> HIDE DEF s, t, u
  <1>4. e.history = s.history
    BY <1>2 DEF CallType
  <1> QED BY <1>1, <1>3, <1>4 DEF s

LEMMA AnswerTells ==
    ASSUME NEW k \in CallType, NEW what \in {"error", "result"}, NEW throws \in BOOLEAN,
           mode # "sax" => /\ Hears(k) # {}
                           /\ \A i \in Answers(k) : \E j \in Hears(k) : j <= i,
           \/ SoapErrors(k) = {} \/ FirstIsError(k)
           \/ Answers(k) = {} /\ what = "error"
    PROVE  /\ Told(k, Answer(k, what, throws))
           /\ Open(k) /\ what = "error" => FirstIsError(Answer(k, what, throws))
  <1> DEFINE d == Answer(k, what, throws)
             n == Len(k.history) + 1
             Rest(W) == IF what \in W THEN {n} ELSE {}
  <1>1. /\ d \in CallType /\ d.stage = k.stage
        /\ \/ Streams /\ Answers(k) # {} /\ d = k
           \/ (~Streams \/ Answers(k) = {}) /\ d.history = See(k, what).history
    BY AnswerHistory
  <1> HIDE DEF d
  <1>2. CASE Streams /\ Answers(k) # {} /\ d = k
    BY <1>1, <1>2 DEF Told, Consistent, Open, d
  <1>3. CASE (~Streams \/ Answers(k) = {}) /\ d.history = See(k, what).history
    <2>1. /\ n \in Nat /\ \A i \in Answers(k) \cup Hears(k) : i \in Nat /\ i < n
          /\ Answers(k) \subseteq Nat /\ Where(k, {"error"}) \subseteq Nat
      BY WhereType, AnswersWhere DEF Hears
    <2>2. ASSUME NEW W
          PROVE  Where(d, W) = Where(k, W) \cup Rest(W)
      <3>1. Where(d, W) = Where(See(k, what), W)
        BY <1>3 DEF Where
      <3>2. what \in Seen
        BY DEF Seen
      <3> QED BY <3>1, <3>2, SeeWhere
    <2>3. Hears(d) = Hears(k) /\ SoapErrors(d) = SoapErrors(k)
      BY <2>2 DEF Hears, SoapErrors
    <2>4. Answers(d) = Answers(k) \cup {n}
      BY <2>2, AnswersWhere
    <2>5. /\ Where(k, {"error"}) \subseteq Where(d, {"error"})
          /\ what = "error" => n \in Where(d, {"error"})
      BY <2>2
    <2> HIDE DEF n
    <2>6. n \notin Answers(k)
      BY <2>1
    <2>7. Total(d) = Total(k) + 1
      BY <2>4, <2>6, AnswersFinite, FS_AddElement DEF Total
    <2>8. FirstIsError(k) => FirstIsError(d)
      <3> SUFFICES ASSUME NEW j \in Where(k, {"error"}), \A i \in Answers(k) : j <= i
                   PROVE  FirstIsError(d)
        BY DEF FirstIsError
      <3>1. j \in Answers(k)
        BY DEF Where, Answers
      <3>2. j <= n
        BY <2>1, <3>1
      <3> QED BY <2>4, <2>5, <3>2 DEF FirstIsError
    <2>9. Answers(k) = {} /\ what = "error" => FirstIsError(d)
      BY <2>1, <2>4, <2>5 DEF FirstIsError
    <2>10. mode # "sax" => \A i \in Answers(d) : \E j \in Hears(d) : j <= i
      BY <2>1, <2>3, <2>4
    <2>11. Consistent(d)
      BY <2>3, <2>8, <2>9, <2>10 DEF Consistent
    <2> QED BY <1>1, <2>3, <2>7, <2>8, <2>9, <2>11 DEF Told, Open, d
  <1> QED BY <1>1, <1>2, <1>3

\* An event: the response, or an error, at the end of the history.
LEMMA HearReady ==
    ASSUME NEW k \in CallType, Consistent(k), NEW what \in {"response", "noResponse"}
    PROVE  LET j == See(k, what) IN
           /\ j \in CallType /\ Ready(j) /\ Answers(j) = Answers(k)
           /\ Open(k) => Open(j)
           /\ Consistent(j) /\ Hears(j) # {}
           /\ Cardinality(Hears(j)) = Cardinality(Hears(k)) + 1
  <1> DEFINE j == See(k, what)
             n == Len(k.history) + 1
  <1>1. what \in Seen
    BY DEF Seen
  <1>2. j \in CallType
    BY <1>1, SeeType
  <1>3. \A W : Where(j, W) = Where(k, W) \cup (IF what \in W THEN {n} ELSE {})
    BY <1>1, SeeWhere
  <1>4. n \in Nat /\ n \notin Hears(k) /\ IsFiniteSet(Hears(k))
    BY WhereType DEF Hears
  <1> HIDE DEF j, n
  <1>5. /\ Hears(j) = Hears(k) \cup {n} /\ SoapErrors(j) = SoapErrors(k)
        /\ Answers(j) = Answers(k) /\ Where(j, {"error"}) = Where(k, {"error"})
    BY <1>3, AnswersWhere DEF Hears, SoapErrors
  <1>6. Cardinality(Hears(j)) = Cardinality(Hears(k)) + 1
    BY <1>4, <1>5, FS_AddElement
  <1>7. FirstIsError(j) <=> FirstIsError(k)
    BY <1>5 DEF FirstIsError
  <1>8. mode # "sax" => \A i \in Answers(j) : \E m \in Hears(j) : m <= i
    BY <1>5 DEF Consistent
  <1> QED BY <1>2, <1>5, <1>6, <1>7, <1>8 DEF Ready, Open, Consistent, j

LEMMA FailTells ==
    ASSUME NEW k \in CallType, Ready(k), Open(k), NEW throws \in BOOLEAN
    PROVE  Told(k, Fail(k, throws)) /\ FirstIsError(Fail(k, throws))
  <1> DEFINE s == See(k, "soapError")
             d == Answer(s, "error", throws)
  <1>1. "soapError" \in Seen
    BY DEF Seen
  <1>2. s \in CallType /\ s.stage = k.stage
    BY <1>1, SeeType
  <1>3. \A W : "soapError" \notin W => Where(s, W) = Where(k, W)
    <2>1. ASSUME NEW W, "soapError" \notin W
          PROVE  Where(s, W) = Where(k, W)
      <3>1. Where(s, W) = Where(k, W) \cup
              (IF "soapError" \in W THEN {Len(k.history) + 1} ELSE {})
        BY <1>1, SeeWhere
      <3> QED BY <2>1, <3>1
    <2> QED BY <2>1
  <1> HIDE DEF s
  <1>4. /\ Hears(s) = Hears(k) /\ Answers(s) = Answers(k)
        /\ Where(s, {"error"}) = Where(k, {"error"})
    BY <1>3, AnswersWhere DEF Hears
  <1>5. Open(s) /\ Total(s) = Total(k)
    BY <1>4 DEF Open, FirstIsError, Total
  <1>6. Told(s, d) /\ FirstIsError(d)
    BY <1>2, <1>4, <1>5, AnswerTells DEF Ready, Open
  <1>7. d = Fail(k, throws)
    BY DEF Fail, s
  <1> HIDE DEF d
  <1> QED BY <1>2, <1>4, <1>5, <1>6, <1>7 DEF Told

LEMMA FinishTells ==
    ASSUME NEW k \in CallType, Ready(k), Open(k), NEW throws \in BOOLEAN
    PROVE  Told(k, Finish(k, throws))
  <1>1. \A what \in {"error", "result"} : Told(k, Answer(k, what, throws))
    BY AnswerTells DEF Ready
  <1> QED BY <1>1, FailTells DEF Finish

LEMMA ParseSyncTells ==
    ASSUME NEW k \in CallType, Ready(k), Open(k), NEW throws \in BOOLEAN
    PROVE  Told(k, ParseSync(k, throws))
  <1>1. Told(k, Answer(k, "result", throws))
    BY AnswerTells DEF Ready
  <1> QED BY <1>1, FailTells, FinishTells DEF ParseSync

\* One event, and one call of the callback.
Reported(k, d) ==
    d \in CallType /\ d.stage = k.stage /\ Consistent(d) /\ (Even(k) => Even(d))

LEMMA ToldReports ==
    ASSUME NEW k \in CallType, Consistent(k), NEW what \in {"response", "noResponse"},
           NEW d, Told(See(k, what), d)
    PROVE  Reported(k, d)
  <1> DEFINE j == See(k, what)
  <1>1. /\ Answers(j) = Answers(k)
        /\ Cardinality(Hears(j)) = Cardinality(Hears(k)) + 1
    BY HearReady
  <1>2. j.stage = k.stage
    BY SeeType DEF Seen
  <1> QED BY <1>1, <1>2 DEF Told, Reported, Even, Total

LEMMA ReceivedTells ==
    ASSUME NEW k \in CallType, Consistent(k), Open(k), NEW throws \in BOOLEAN
    PROVE  Reported(k, Received(k, throws))
  <1>1. /\ See(k, "response") \in CallType /\ Ready(See(k, "response"))
        /\ Open(See(k, "response"))
    BY HearReady
  <1>2. Told(See(k, "response"), Received(k, throws))
    BY <1>1, ParseSyncTells DEF Received
  <1> QED BY <1>2, ToldReports

LEMMA HttpErrorTells ==
    ASSUME NEW k \in CallType, Consistent(k), NEW throws \in BOOLEAN
    PROVE  Reported(k, HttpError(k, throws))
  <1>1. See(k, "noResponse") \in CallType /\ Ready(See(k, "noResponse"))
    BY HearReady
  <1>2. Told(See(k, "noResponse"), HttpError(k, throws))
    BY <1>1, AnswerTells DEF HttpError, Ready
  <1> QED BY <1>2, ToldReports

\* An exchange that is over, or that a promise chain has rejected, expects nothing.
LEMMA OverTells ==
    ASSUME NEW d, Consistent(d), Even(d), NEW e, e.history = d.history,
           e.stage \in {"done", "rejected"}
    PROVE  Tells(e)
  <1>1. Consistent(e) /\ Even(e)
    BY HistoryDecides
  <1> QED BY <1>1 DEF Tells

LEMMA EndTells ==
    ASSUME NEW d \in CallType, Consistent(d), Even(d)
    PROVE  Tells(Ended(d))
  BY EndedKeeps, OverTells

-----------------------------------------------------------------------------
(* The exchanges once more. *)

KInv == IInv /\ \A c \in Call : Tells(call[c])

\* Before the callback has been called.
LEMMA WaitingOpen ==
    ASSUME KInv, NEW c \in Call
    PROVE  /\ call[c] \in CallType /\ Consistent(call[c]) /\ Even(call[c])
           /\ call[c].stage \in {"requested", "parts", "collecting", "streaming"} =>
                Open(call[c])
  BY DEF KInv, IInv, TypeOK, Tells, Open

LEMMA ReceivedEnds ==
    ASSUME KInv, NEW c \in Call, call[c].stage \in {"requested", "parts", "collecting"},
           NEW j \in CallType, j.history = call[c].history, NEW throws \in BOOLEAN
    PROVE  Reported(j, Received(j, throws)) /\ Tells(Ended(Received(j, throws)))
  <1>1. Consistent(j) /\ Even(j) /\ Open(j)
    BY WaitingOpen, HistoryDecides
  <1>2. Reported(j, Received(j, throws))
    BY <1>1, ReceivedTells
  <1> QED BY <1>1, <1>2, EndTells DEF Reported

LEMMA HttpErrorEnds ==
    ASSUME KInv, NEW c \in Call, NEW throws \in BOOLEAN
    PROVE  /\ Reported(call[c], HttpError(call[c], throws))
           /\ Tells(Ended(HttpError(call[c], throws)))
  <1>1. call[c] \in CallType /\ Consistent(call[c]) /\ Even(call[c])
    BY WaitingOpen
  <1>2. Reported(call[c], HttpError(call[c], throws))
    BY <1>1, HttpErrorTells
  <1> QED BY <1>1, <1>2, EndTells DEF Reported

LEMMA SentHistory ==
    ASSUME NEW k \in CallType
    PROVE  Sent(k) \in CallType /\ Sent(k).history = k.history /\ Sent(k).output = k.output
  BY DEF Sent, CallType

LEMMA RequestFailsTells ==
    ASSUME KInv, NEW c \in Call, NEW data \in BOOLEAN, NEW throws \in BOOLEAN,
           RequestFails(c, data, throws)
    PROVE  \E d : Run(c, d) /\ Tells(d)
  <1> DEFINE k == call[c]
             s == See(Sent(k), "noResponse")
             d == [s EXCEPT !.stage = "closing"]
  <1>1. k \in CallType /\ Consistent(k) /\ k.stage = "requested"
    BY WaitingOpen DEF RequestFails
  <1>2. Run(c, IF mode = "stream" /\ data THEN d ELSE Ended(HttpError(k, throws)))
    BY DEF RequestFails, Write
  <1>3. CASE mode = "stream" /\ data
    <2>1. Sent(k) \in CallType /\ Sent(k).history = k.history
      BY <1>1, SentHistory
    <2>2. Consistent(Sent(k)) /\ Answers(Sent(k)) = {}
      <3>1. Answers(k) = {}
        BY <1>1 DEF KInv, Tells
      <3> QED BY <1>1, <2>1, <3>1, HistoryDecides
    <2>3. s \in CallType /\ Consistent(s) /\ Answers(s) = {} /\ Hears(s) # {}
      BY <2>1, <2>2, HearReady
    <2> HIDE DEF s
    <2>4. d.history = s.history /\ d.stage = "closing"
      BY <2>3 DEF CallType
    <2>5. Streams
      BY <1>3 DEF Streams
    <2>6. Consistent(d) /\ Answers(d) = {} /\ Hears(d) # {}
      BY <2>3, <2>4, HistoryDecides
    <2>7. Tells(d)
      BY <2>4, <2>5, <2>6 DEF Tells, Even
    <2> QED BY <1>2, <1>3, <2>7
  <1>4. CASE ~(mode = "stream" /\ data)
    BY <1>2, <1>4, HttpErrorEnds
  <1> QED BY <1>3, <1>4

LEMMA ErrorBodyClosesTells ==
    ASSUME KInv, NEW c \in Call, NEW throws \in BOOLEAN, ErrorBodyCloses(c, throws)
    PROVE  \E d : Run(c, d) /\ Tells(d)
  <1> DEFINE k == call[c]
             a == Answer(k, "error", throws)
  <1>1. k \in CallType /\ Consistent(k) /\ Run(c, Ended(a)) /\ k.stage = "closing"
    BY WaitingOpen DEF ErrorBodyCloses, Keep
  <1>2. Answers(k) = {} /\ Hears(k) # {} /\ Streams
    BY <1>1 DEF KInv, Tells
  <1>3. Told(k, a)
    BY <1>1, <1>2, AnswerTells
  <1> HIDE DEF a
  <1>4. Tells(Ended(a))
    BY <1>2, <1>3, EndTells DEF Told, Even
  <1> QED BY <1>1, <1>4

LEMMA RespondTells ==
    ASSUME KInv, NEW c \in Call, NEW m \in Response, NEW throws \in BOOLEAN,
           Respond(c, m, throws)
    PROVE  \E d : Run(c, d) /\ Tells(d)
  <1> DEFINE j == [call[c] EXCEPT !.response = m]
  <1>1. call[c].stage = "requested" /\ Run(c, Ended(Received(j, throws)))
    BY DEF Respond, Write
  <1>2. j \in CallType /\ j.history = call[c].history
    BY WaitingOpen, ClientAssumption DEF CallType
  <1> HIDE DEF j
  <1> QED BY <1>1, <1>2, ReceivedEnds

LEMMA RespondMultipartTells ==
    ASSUME KInv, NEW c \in Call, NEW m \in Response, NEW throws \in BOOLEAN,
           RespondMultipart(c, m, throws)
    PROVE  \E d : Run(c, d) /\ Tells(d)
  <1> DEFINE k == call[c]
             s == Sent(k)
             p == [s EXCEPT !.response = m, !.stage = "parts"]
             e == Ended(k)
             u == [e EXCEPT !.uncaught = TRUE]
  <1>1. /\ k \in CallType /\ Consistent(k) /\ Even(k) /\ k.stage = "requested"
        /\ Answers(k) = {}
    BY WaitingOpen DEF RespondMultipart, KInv, Tells
  <1>2. \/ Run(c, p) \/ Run(c, Ended(HttpError(k, throws))) \/ Run(c, u)
    BY DEF RespondMultipart, Keep, Write
  <1>3. Tells(p)
    <2>1. s \in CallType /\ s.history = k.history
      BY <1>1, SentHistory
    <2> HIDE DEF s
    <2>2. p.history = k.history /\ p.stage = "parts"
      BY <2>1 DEF CallType
    <2> HIDE DEF p
    <2>3. Consistent(p) /\ Even(p) /\ Answers(p) = {}
      BY <1>1, <2>2, HistoryDecides
    <2> QED BY <2>2, <2>3 DEF Tells
  <1>4. Tells(u)
    <2>1. e \in CallType /\ e.history = k.history /\ e.stage = "done"
      BY <1>1, EndedKeeps DEF SameAnswers
    <2> HIDE DEF e, k
    <2>2. u.history = k.history /\ u.stage = "done"
      BY <2>1 DEF CallType
    <2> HIDE DEF u
    <2> QED BY <1>1, <2>2, OverTells
  <1> QED BY <1>2, <1>3, <1>4, HttpErrorEnds

LEMMA PartsParsedTells ==
    ASSUME KInv, NEW c \in Call, NEW throws \in BOOLEAN, PartsParsed(c, throws)
    PROVE  \E d : Run(c, d) /\ Tells(d)
  <1> DEFINE k == call[c]
             a == IF k.response.multipart = "parts" THEN Received(k, throws)
                  ELSE HttpError(k, throws)
             r == [a EXCEPT !.stage = "rejected", !.uncaught = FALSE]
  <1>1. k \in CallType /\ Even(k) /\ k.stage = "parts"
    BY WaitingOpen DEF PartsParsed
  <1>2. Run(c, IF throws THEN r ELSE Ended(a))
    BY DEF PartsParsed, Write
  <1>3. Reported(k, a)
    BY <1>1, ReceivedEnds, HttpErrorEnds
  <1> HIDE DEF a, k
  <1>4. a \in CallType /\ Consistent(a) /\ Even(a)
    BY <1>1, <1>3 DEF Reported
  <1>5. r.history = a.history /\ r.stage = "rejected"
    BY <1>4 DEF CallType
  <1> HIDE DEF r
  <1>6. Tells(r)
    BY <1>4, <1>5, OverTells
  <1> QED BY <1>2, <1>4, <1>6, EndTells

LEMMA PartsRejectTells ==
    ASSUME KInv, NEW c \in Call, NEW throws \in BOOLEAN,
           PartsUnreadable(c) \/ PartsRejected(c, throws)
    PROVE  \E d : Run(c, d) /\ Tells(d)
  <1> DEFINE k == call[c]
             d == [k EXCEPT !.stage = "rejected"]
  <1>1. Run(c, d) \/ Run(c, Ended(HttpError(k, throws)))
    BY DEF PartsUnreadable, PartsRejected, Keep, Write
  <1>2. k \in CallType /\ Consistent(k) /\ Even(k)
    BY WaitingOpen
  <1>3. d.history = k.history /\ d.stage = "rejected"
    BY <1>2 DEF CallType
  <1> HIDE DEF d
  <1> QED BY <1>1, <1>2, <1>3, OverTells, HttpErrorEnds

LEMMA StreamBeginsTells ==
    ASSUME KInv, NEW c \in Call, NEW m \in Response, NEW throws \in BOOLEAN,
           StreamBegins(c, m, throws)
    PROVE  \E d : Run(c, d) /\ Tells(d)
  <1> DEFINE k == call[c]
             s == Sent(k)
             j == [s EXCEPT !.response = m]
             a == Answer(j, "result", throws)
             h == [a EXCEPT !.stage = "handed"]
  <1>1. k \in CallType /\ Consistent(k) /\ Answers(k) = {} /\ Streams
    BY WaitingOpen DEF StreamBegins, KInv, Tells
  <1>2. \/ Run(c, [j EXCEPT !.stage = "collecting"])
        \/ Run(c, [j EXCEPT !.stage = "streaming"])
        \/ mode = "sax" /\ Run(c, h)
    BY DEF StreamBegins, Keep, Streams
  <1>3. s \in CallType /\ s.history = k.history
    BY <1>1, SentHistory
  <1> HIDE DEF s
  <1>4. j \in CallType /\ j.history = k.history
    BY <1>3, ClientAssumption DEF CallType
  <1> HIDE DEF j
  <1>5. Consistent(j) /\ Answers(j) = {}
    BY <1>1, <1>4, HistoryDecides
  <1>6. ASSUME NEW stage \in {"collecting", "streaming"}
        PROVE  Tells([j EXCEPT !.stage = stage])
    <2> DEFINE d == [j EXCEPT !.stage = stage]
    <2>1. d.history = j.history /\ d.stage = stage
      BY <1>4 DEF CallType
    <2> HIDE DEF d
    <2>2. Consistent(d) /\ Answers(d) = {}
      BY <1>5, <2>1, HistoryDecides
    <2>3. Tells(d)
      BY <1>1, <2>1, <2>2 DEF Tells, Even, Open
    <2> QED BY <2>3 DEF d
  <1>7. CASE mode = "sax" /\ Run(c, h)
    <2>1. SoapErrors(j) = {}
      BY <1>5 DEF Consistent, FirstIsError, Where, Answers
    <2>2. Told(j, a)
      BY <1>4, <1>7, <2>1, AnswerTells
    <2> HIDE DEF a
    <2>3. h.history = a.history /\ h.stage = "handed"
      BY <2>2 DEF Told, CallType
    <2> HIDE DEF h
    <2>4. Consistent(h)
      BY <2>2, <2>3, HistoryDecides DEF Told
    <2>5. Tells(h)
      BY <1>1, <1>7, <2>3, <2>4 DEF Tells, Even
    <2> QED BY <1>7, <2>5
  <1> QED BY <1>2, <1>6, <1>7

LEMMA CollectedTells ==
    ASSUME KInv, NEW c \in Call, NEW throws \in BOOLEAN, Collected(c, throws)
    PROVE  \E d : Run(c, d) /\ Tells(d)
  BY WaitingOpen, ReceivedEnds DEF Collected, Write

LEMMA BodyLostTells ==
    ASSUME KInv, NEW c \in Call, NEW throws \in BOOLEAN, BodyLost(c, throws)
    PROVE  \E d : Run(c, d) /\ Tells(d)
  <1> DEFINE k == call[c]
             a == HttpError(k, throws)
             e == Ended(a)
             u == e.uncaught \/ k.stage = "collecting"
             d == [e EXCEPT !.uncaught = u]
  <1>1. Run(c, d)
    BY DEF BodyLost, Write
  <1>2. a \in CallType /\ Consistent(a) /\ Even(a)
    BY WaitingOpen, HttpErrorEnds DEF Reported
  <1> HIDE DEF a
  <1>3. e \in CallType /\ e.history = a.history /\ e.stage = "done"
    BY <1>2, EndedKeeps DEF SameAnswers
  <1> HIDE DEF e, u
  <1>4. d.history = a.history /\ d.stage = "done"
    BY <1>3 DEF CallType
  <1> HIDE DEF d
  <1> QED BY <1>1, <1>2, <1>4, OverTells

\* After the first error of a stream the later ones are not told, and no result is.
LEMMA StreamErrorTells ==
    ASSUME KInv, NEW c \in Call, NEW throws \in BOOLEAN, StreamError(c, throws)
    PROVE  \E d : Run(c, d) /\ Tells(d)
  <1> DEFINE k == call[c]
             j == See(k, "response")
             a == Fail(j, throws)
  <1>1. /\ k \in CallType /\ Consistent(k) /\ Open(k) /\ k.stage = "streaming"
        /\ Run(c, IF a.uncaught THEN Ended(a) ELSE a)
    BY WaitingOpen DEF StreamError, Write
  <1>2. Streams
    BY <1>1 DEF KInv, Tells
  <1>3. j \in CallType /\ Ready(j) /\ Open(j) /\ j.stage = "streaming"
    BY <1>1, HearReady, SeeType DEF Seen
  <1> HIDE DEF j
  <1>4. Told(j, a) /\ FirstIsError(a)
    BY <1>3, FailTells
  <1> HIDE DEF a
  <1>5. Tells(a)
    BY <1>2, <1>3, <1>4 DEF Told, Tells, Even, Open
  <1>6. Tells(Ended(a))
    BY <1>2, <1>4, EndTells DEF Told, Even
  <1> QED BY <1>1, <1>5, <1>6

LEMMA StreamEndsTells ==
    ASSUME KInv, NEW c \in Call, NEW throws \in BOOLEAN, StreamEnds(c, throws)
    PROVE  \E d : Run(c, d) /\ Tells(d)
  <1> DEFINE k == call[c]
             j == See(k, "response")
             a == IF j.response.body = "fault" THEN Fail(j, throws) ELSE Finish(j, throws)
  <1>1. /\ k \in CallType /\ Consistent(k) /\ Open(k) /\ k.stage = "streaming"
        /\ Run(c, Ended(a))
    BY WaitingOpen DEF StreamEnds, Write
  <1>2. Streams
    BY <1>1 DEF KInv, Tells
  <1>3. j \in CallType /\ Ready(j) /\ Open(j)
    BY <1>1, HearReady
  <1> HIDE DEF j
  <1>4. Told(j, a)
    BY <1>3, FailTells, FinishTells
  <1> HIDE DEF a
  <1>5. Tells(Ended(a))
    BY <1>2, <1>4, EndTells DEF Told, Even
  <1> QED BY <1>1, <1>5

LEMMA StreamHandlerThrowsTells ==
    ASSUME KInv, NEW c \in Call, StreamHandlerThrows(c)
    PROVE  \E d : Run(c, d) /\ Tells(d)
  <1> DEFINE k == call[c]
             e == Ended(k)
             u == [e EXCEPT !.uncaught = TRUE]
  <1>1. k \in CallType /\ Consistent(k) /\ Even(k) /\ Run(c, u)
    BY WaitingOpen DEF StreamHandlerThrows, Keep
  <1>2. e \in CallType /\ e.history = k.history /\ e.stage = "done"
    BY <1>1, EndedKeeps DEF SameAnswers
  <1> HIDE DEF e, k
  <1>3. u.history = k.history /\ u.stage = "done"
    BY <1>2 DEF CallType
  <1> HIDE DEF u
  <1> QED BY <1>1, <1>3, OverTells

LEMMA InvokeTells ==
    ASSUME KInv, NEW c \in Call, NEW i \in Invocation, Invoke(c, i)
    PROVE  \E d : Run(c, d) /\ Tells(d)
  <1> DEFINE headers == HeadersOf(i.extra)
             broken == i.attachments /\ headers = {}
             k == [call[c] EXCEPT !.output = i.output, !.extra = i.extra, !.headers = headers,
                                  !.history = <<"message", "request">>, !.uncaught = broken]
             r == [k EXCEPT !.stage = "requested"]
  <1>1. call[c] \in CallType /\ Run(c, IF broken THEN Ended(k) ELSE r)
    BY WaitingOpen DEF Invoke
  <1>2. i.output \in Output /\ i.extra \in BOOLEAN /\ i.attachments \in BOOLEAN
    BY ClientAssumption DEF InvocationType
  <1>3. headers \in SUBSET HeaderSource /\ broken \in BOOLEAN
    BY <1>2 DEF HeadersOf, HeaderSource
  <1> HIDE DEF headers, broken
  <1>4. <<"message", "request">> \in Seq(Seen)
    BY DEF Seen
  <1>5. k \in CallType /\ k.history = <<"message", "request">>
    BY <1>1, <1>2, <1>3, <1>4 DEF CallType
  <1> HIDE DEF k
  <1>6. Answers(k) = {} /\ Hears(k) = {} /\ SoapErrors(k) = {}
    BY <1>5 DEF Answers, Hears, SoapErrors, Where
  <1>7. Consistent(k) /\ Even(k)
    BY <1>6 DEF Consistent, Even, Total
  <1>8. r.history = k.history /\ r.stage = "requested"
    BY <1>5 DEF CallType
  <1> HIDE DEF r
  <1>9. Consistent(r) /\ Even(r) /\ Answers(r) = {}
    BY <1>6, <1>7, <1>8, HistoryDecides
  <1>10. Tells(r)
    BY <1>8, <1>9 DEF Tells
  <1> QED BY <1>1, <1>5, <1>7, <1>10, EndTells

LEMMA ProgressTells ==
    ASSUME KInv, NEW c \in Call, Progress(c)
    PROVE  \E d : Run(c, d) /\ Tells(d)
  <1>1. ASSUME NEW throws \in BOOLEAN, NEW data \in BOOLEAN, RequestFails(c, data, throws)
        PROVE  \E d : Run(c, d) /\ Tells(d)
    BY <1>1, RequestFailsTells
  <1>2. ASSUME NEW throws \in BOOLEAN,
               \/ ErrorBodyCloses(c, throws) \/ PartsParsed(c, throws)
               \/ Collected(c, throws) \/ BodyLost(c, throws)
        PROVE  \E d : Run(c, d) /\ Tells(d)
    BY <1>2, ErrorBodyClosesTells, PartsParsedTells, CollectedTells, BodyLostTells
  <1>3. ASSUME NEW throws \in BOOLEAN, NEW m \in Response,
               \/ Respond(c, m, throws) \/ RespondMultipart(c, m, throws)
               \/ StreamBegins(c, m, throws)
        PROVE  \E d : Run(c, d) /\ Tells(d)
    BY <1>3, RespondTells, RespondMultipartTells, StreamBeginsTells
  <1>4. ASSUME NEW throws \in BOOLEAN, PartsUnreadable(c) \/ PartsRejected(c, throws)
        PROVE  \E d : Run(c, d) /\ Tells(d)
    BY <1>4, PartsRejectTells
  <1>5. ASSUME NEW throws \in BOOLEAN, StreamError(c, throws) \/ StreamEnds(c, throws)
        PROVE  \E d : Run(c, d) /\ Tells(d)
    BY <1>5, StreamErrorTells, StreamEndsTells
  <1>6. ASSUME StreamHandlerThrows(c) PROVE \E d : Run(c, d) /\ Tells(d)
    BY <1>6, StreamHandlerThrowsTells
  <1> QED BY <1>1, <1>2, <1>3, <1>4, <1>5, <1>6 DEF Progress

LEMMA InitKInv == Init => KInv
  <1> SUFFICES ASSUME Init PROVE \A c \in Call : Tells(call[c])
    BY InitInv DEF KInv
  <1> SUFFICES ASSUME NEW c \in Call PROVE Tells(call[c])
    OBVIOUS
  <1>1. call[c].history = <<>> /\ call[c].stage = "new"
    BY DEF Init, NewCall
  <1>2. Answers(call[c]) = {} /\ Hears(call[c]) = {} /\ SoapErrors(call[c]) = {}
    BY <1>1 DEF Answers, Hears, SoapErrors, Where
  <1> QED BY <1>1, <1>2 DEF Tells, Consistent, Even, Total

LEMMA TellsPrime ==
    ASSUME mode' = mode, NEW c \in Call, Tells(call'[c])
    PROVE  Tells(call[c])'
  BY DEF Tells, Consistent, Even, Open, FirstIsError, Answers, Hears, SoapErrors, Where,
         Total, Streams

LEMMA RunKeeps ==
    ASSUME KInv, mode' = mode, NEW c \in Call, NEW d, Run(c, d), Tells(d)
    PROVE  \A x \in Call : Tells(call[x])'
  <1> SUFFICES ASSUME NEW x \in Call PROVE Tells(call[x])'
    OBVIOUS
  <1>1. call \in [Call -> CallType]
    BY DEF KInv, IInv, TypeOK
  <1>2. call'[x] = IF x = c THEN d ELSE call[x]
    BY <1>1 DEF Run
  <1>3. Tells(call'[x])
    BY <1>2 DEF KInv
  <1> QED BY <1>3, TellsPrime

LEMMA NextKInv == KInv /\ [Next]_vars => KInv'
  <1> SUFFICES ASSUME KInv, [Next]_vars PROVE \A x \in Call : Tells(call[x])'
    BY NextInv DEF KInv
  <1>1. CASE AddHttpHeader \/ ClearHttpHeaders \/ UNCHANGED vars
    <2>1. mode' = mode /\ call' = call
      BY <1>1 DEF AddHttpHeader, ClearHttpHeaders, vars
    <2> QED BY <2>1, TellsPrime DEF KInv
  <1>2. ASSUME NEW c \in Call, NEW i \in Invocation, Invoke(c, i)
        PROVE  \A x \in Call : Tells(call[x])'
    BY <1>2, InvokeTells, RunKeeps DEF Invoke
  <1>3. ASSUME NEW c \in Call, Progress(c)
        PROVE  \A x \in Call : Tells(call[x])'
    <2>1. mode' = mode
      BY <1>3, ProgressSound DEF KInv, Sound
    <2> QED BY <1>3, <2>1, ProgressTells, RunKeeps
  <1> QED BY <1>1, <1>2, <1>3 DEF Next

LEMMA MinOfNats ==
    ASSUME NEW S \in SUBSET Nat, NEW x \in S, \A y \in S : x <= y
    PROVE  Min(S) = x
  <1>1. Min(S) \in S /\ \A y \in S : Min(S) <= y
    BY DEF Min
  <1>2. Min(S) \in Nat /\ x \in Nat /\ Min(S) <= x /\ x <= Min(S)
    BY <1>1
  <1> HIDE DEF Min
  <1> QED BY <1>2

\* What Tells says of one history, in the words of the property.
LEMMA HistoryTells ==
    ASSUME NEW k \in CallType, Tells(k)
    PROVE  /\ mode # "sax" =>
                \A i \in DOMAIN k.history : k.history[i] \in {"error", "result"} =>
                    {"response", "noResponse"} \cap ToSet(SubSeq(k.history, 1, i)) # {}
           /\ ~Streams =>
                Count(k, "response") + Count(k, "noResponse") = Cardinality(Answers(k))
           /\ "soapError" \in ToSet(k.history) =>
                Answers(k) # {} /\ k.history[Min(Answers(k))] = "error"
  <1> DEFINE h == k.history
  <1>1. h \in Seq(Seen)
    BY DEF CallType
  <1>2. DOMAIN h = 1..Len(h) /\ Len(h) \in Nat
    BY <1>1, LenProperties
  <1>3. ASSUME mode # "sax", NEW i \in DOMAIN h, h[i] \in {"error", "result"}
        PROVE  {"response", "noResponse"} \cap ToSet(SubSeq(h, 1, i)) # {}
    <2>1. i \in Answers(k)
      BY <1>3 DEF Answers
    <2>2. PICK j \in Hears(k) : j <= i
      BY <1>3, <2>1 DEF Tells, Consistent
    <2>3. j \in DOMAIN h /\ h[j] \in {"response", "noResponse"}
      BY DEF Hears, Where
    <2> HIDE DEF h
    <2>4. j \in 1..i /\ i \in 1..Len(h)
      BY <1>2, <2>2, <2>3
    <2>5. SubSeq(h, 1, i) = [x \in 1..i |-> h[x]]
      BY <1>1, <1>2, <2>4
    <2>6. h[j] \in ToSet(SubSeq(h, 1, i))
      BY <2>4, <2>5 DEF ToSet
    <2> QED BY <2>3, <2>6
  <1>4. ASSUME ~Streams
        PROVE  Count(k, "response") + Count(k, "noResponse") = Cardinality(Answers(k))
    <2> DEFINE S == Where(k, {"response"})
               T == Where(k, {"noResponse"})
    <2>1. Count(k, "response") = Cardinality(S) /\ Count(k, "noResponse") = Cardinality(T)
      <3>1. S = {i \in DOMAIN k.history : k.history[i] = "response"}
        BY DEF Where
      <3>2. T = {i \in DOMAIN k.history : k.history[i] = "noResponse"}
        BY DEF Where
      <3> HIDE DEF S, T
      <3> QED BY <3>1, <3>2 DEF Count
    <2>2. S \cup T = Hears(k) /\ S \cap T = {}
      BY DEF Where, Hears
    <2>3. /\ IsFiniteSet(S) /\ IsFiniteSet(T)
          /\ Cardinality(S) \in Nat /\ Cardinality(T) \in Nat
      BY WhereType
    <2> HIDE DEF S, T
    <2>4. Cardinality(Hears(k)) = Cardinality(S) + Cardinality(T) - Cardinality(S \cap T)
      BY <2>2, <2>3, FS_Union
    <2>5. Cardinality(S \cap T) = 0
      BY <2>2, FS_EmptySet
    <2>6. Cardinality(Hears(k)) = Cardinality(Answers(k))
      BY <1>4 DEF Tells, Even, Total
    <2> QED BY <2>1, <2>3, <2>4, <2>5, <2>6
  <1>5. ASSUME "soapError" \in ToSet(h)
        PROVE  Answers(k) # {} /\ h[Min(Answers(k))] = "error"
    <2>1. SoapErrors(k) # {}
      BY <1>5 DEF ToSet, SoapErrors, Where
    <2>2. PICK j \in Where(k, {"error"}) : \A i \in Answers(k) : j <= i
      BY <2>1 DEF Tells, Consistent, FirstIsError
    <2>3. j \in Answers(k) /\ h[j] = "error"
      BY DEF Where, Answers
    <2>4. Answers(k) \in SUBSET Nat
      BY <1>2 DEF Answers
    <2>5. Min(Answers(k)) = j
      BY <2>2, <2>3, <2>4, MinOfNats
    <2> QED BY <2>3, <2>5
  <1> QED BY <1>3, <1>4, <1>5

\* The callback follows the event of its response, once for each call of the callback, and
\* no result follows a soapError.
THEOREM CallbacksFollowEvents == Spec => []CallbackFollowsEvents
  <1>1. KInv => CallbackFollowsEvents
    BY HistoryTells DEF KInv, IInv, TypeOK, CallbackFollowsEvents
  <1> QED BY <1>1, InitKInv, NextKInv, PTL DEF Spec
=============================================================================
