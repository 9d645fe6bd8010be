------------------------------ MODULE SoapClient ------------------------------
(***************************************************************************)
(* A client and the exchanges its methods start (src/client.ts, _invoke),   *)
(* with the HTTP client that carries them (src/http.ts).                    *)
(*                                                                          *)
(* Each action is one callback of the event loop on one exchange: the       *)
(* fields last... of the client are shared by all exchanges, and what a     *)
(* callback writes there is still there when it calls the user's callback.  *)
(*                                                                          *)
(* history is what the user sees of an exchange: the events of the client   *)
(* and, as "error" and "result", the calls of the callback.  A callback     *)
(* that throws leaves the library, except inside the promise chain that     *)
(* reads a multipart response, whose catch clause calls it again.           *)
(***************************************************************************)
EXTENDS Integers, SequencesExt

CONSTANTS
    Call,       \* calls of methods of the client
    Mode,       \* the clients: a subset of Modes
    Response,   \* what servers answer with: a subset of ResponseType
    Invocation, \* how the methods are called: a subset of InvocationType
    MaxErrors,  \* bound: errors that sax reports of one response
    NoCall

\* options: none, parseReponseAttachments, stream, stream with returnSaxStream.
Modes == {"plain", "mtom", "stream", "sax"}

\* The output message of an operation: none (one-way), without a schema type that can be
\* looked up, or with one.
Output == {"none", "untyped", "typed"}

\* What arrives.  empty: an envelope without a body; unusable: no envelope, or one whose body
\* is text; poison: a customDeserializer throws on it; cut: well-formed so far, but cut off.
Body == {"result", "fault", "empty", "unusable", "malformed", "cut", "json", "poison"}
Status == {"ok", "other", "bad"}        \* 200, below 400, the rest
Multipart == {"no", "parts", "nobody", "noboundary", "badtype"}
ResponseType == [status : Status, body : Body, multipart : Multipart]
NoResponse == [status |-> "bad", body |-> "empty", multipart |-> "no"]

\* A method called with or without extraHeaders and options.attachments (or forceMTOM).
InvocationType == [output : Output, extra : BOOLEAN, attachments : BOOLEAN]

ASSUME ClientAssumption ==
    /\ Mode \subseteq Modes
    /\ Response \subseteq ResponseType
    /\ Invocation \subseteq InvocationType
    /\ NoCall \notin Call
    /\ MaxErrors \in Nat

Stage == {"new", "requested", "parts", "rejected", "collecting", "streaming", "handed",
          "closing", "done"}

\* noResponse is the event 'response' without a response.
Seen == {"message", "request", "response", "noResponse", "soapError", "error", "result"}
HeaderSource == {"soap", "security", "client", "extra"}

CallType ==
    [stage    : Stage,
     output   : Output,
     extra    : BOOLEAN,                \* extraHeaders are given
     headers  : SUBSET HeaderSource,    \* where the HTTP headers come from
     response : ResponseType,
     history  : Seq(Seen),
     throws   : Nat,                    \* exceptions of the user's callback
     uncaught : BOOLEAN]                \* an exception left the library

VARIABLES
    mode,           \* what the client was made with
    call,           \* [Call -> CallType]
    httpHeaders,    \* undefined, some headers, or null
    lastResponse    \* the exchange that wrote client.lastResponse

vars == <<mode, call, httpHeaders, lastResponse>>

NewCall ==
    [stage |-> "new", output |-> "typed", extra |-> FALSE, headers |-> {},
     response |-> NoResponse, history |-> <<>>, throws |-> 0, uncaught |-> FALSE]

Init ==
    /\ mode \in Mode
    /\ call = [c \in Call |-> NewCall]
    /\ httpHeaders = "undefined"
    /\ lastResponse = NoCall

Streams == mode \in {"stream", "sax"}

-----------------------------------------------------------------------------
(* What one statement does to the record k of a call; `throws`: the user's callback throws. *)

See(k, what) == [k EXCEPT !.history = Append(@, what)]

\* Where in its history the callback is called.
Answers(k) == {i \in DOMAIN k.history : k.history[i] \in {"error", "result"}}

\* Mutant: the callback of a streamed exchange is not wrapped by once().
AnswerAgain(k, what, throws) ==
    [See(k, what) EXCEPT !.throws = IF throws THEN @ + 1 ELSE @, !.uncaught = @ \/ throws]

\* callback(...): wrapped by once() when the client streams.
Answer(k, what, throws) ==
    IF Streams /\ Answers(k) # {} THEN k
    ELSE [See(k, what) EXCEPT !.throws = IF throws THEN @ + 1 ELSE @, !.uncaught = @ \/ throws]

Fail(k, throws) == Answer(See(k, "soapError"), "error", throws)

\* The response counts as a result, also without a body (and of one cut off nothing is left).
IsResult(k) ==
    \/ k.output = "none"
    \/ k.response.body = "result"
    \/ k.response.body \in {"empty", "cut"} /\ k.response.status # "bad"

\* Mutant: without `return`, an error status goes on to callback(null, ...).
FinishOn(k, throws) ==
    IF IsResult(k) THEN Answer(k, "result", throws)
    ELSE IF k.response.body = "unusable" THEN Answer(k, "error", throws)
    ELSE Answer(See(k, "soapError"), "result", throws)

\* finish: "Cannot parse response" is not emitted as soapError.
Finish(k, throws) ==
    IF IsResult(k) THEN Answer(k, "result", throws)
    ELSE IF k.response.body = "unusable" THEN Answer(k, "error", throws)
    ELSE Fail(k, throws)

\* parseSync: what xmlToObject throws on is passed on as it is if it is JSON and the output
\* has no type.
ParseSync(k, throws) ==
    IF k.response.body \notin {"fault", "malformed", "cut", "json", "poison"} THEN Finish(k, throws)
    ELSE IF k.response.body = "json" /\ k.output # "typed" THEN Answer(k, "result", throws)
    ELSE Fail(k, throws)

\* The callback of httpClient.request, with a response and with an error.
Received(k, throws) == ParseSync(See(k, "response"), throws)

HttpError(k, throws) == Answer(See(k, "noResponse"), "error", throws)

\* The request is gone: its headers are of no more interest.
Sent(k) == [k EXCEPT !.extra = FALSE, !.headers = {}]

\* With the last callback goes what only the closures of _invoke knew.
Ended(k) == [Sent(k) EXCEPT !.stage = "done", !.output = "none", !.response = NoResponse]

Run(c, k) == call' = [call EXCEPT ![c] = k]

-----------------------------------------------------------------------------
(* The client. *)

\* Mutant: null is not told apart.
HeadersOfNull(extra) ==
    {"soap", "security"} \cup {httpHeaders} \cup (IF extra THEN {"extra"} ELSE {})

\* Once cleared, httpHeaders is null, and null stands for no headers at all.
HeadersOf(extra) ==
    IF httpHeaders = "null" THEN {}
    ELSE {"soap", "security"} \cup (IF httpHeaders = "some" THEN {"client"} ELSE {})
                              \cup (IF extra THEN {"extra"} ELSE {})

AddHttpHeader ==
    /\ httpHeaders # "some"
    /\ httpHeaders' = "some"
    /\ UNCHANGED <<mode, call, lastResponse>>

ClearHttpHeaders ==
    /\ httpHeaders # "null"
    /\ httpHeaders' = "null"
    /\ UNCHANGED <<mode, call, lastResponse>>

\* A method of the client.  A request with attachments is built from a Content-Type: without
\* one, buildRequest throws, to the caller of the method.
Invoke(c, i) ==
    LET headers == HeadersOf(i.extra)
        broken == i.attachments /\ headers = {}
        k == [call[c] EXCEPT !.output = i.output, !.extra = i.extra, !.headers = headers,
                             !.history = <<"message", "request">>, !.uncaught = broken]
    IN  /\ call[c].stage = "new"
        /\ Run(c, IF broken THEN Ended(k) ELSE [k EXCEPT !.stage = "requested"])
        /\ UNCHANGED <<mode, httpHeaders, lastResponse>>

\* Of what a callback on exchange c leaves behind: its record, and lastResponse.
Write(c, k) ==
    /\ Run(c, k)
    /\ lastResponse' = c
    /\ UNCHANGED <<mode, httpHeaders>>

Keep(c, k) ==
    /\ Run(c, k)
    /\ UNCHANGED <<mode, httpHeaders, lastResponse>>

\* Mutant: an error of the request has no handler.
RequestFailsSilently(c, data, throws) ==
    /\ call[c].stage = "requested"
    /\ Keep(c, Ended(call[c]))

\* Mutant: lastResponse is only written when there is a response.
RequestFailsUnwritten(c, data, throws) ==
    /\ call[c].stage = "requested"
    /\ Keep(c, IF mode = "stream" /\ data
               THEN [See(Sent(call[c]), "noResponse") EXCEPT !.stage = "closing"]
               ELSE Ended(HttpError(call[c], throws)))

\* No response, or one the HTTP client takes for an error: then err.response.data is there,
\* and a streaming client waits for it to close before it calls back.
RequestFails(c, data, throws) ==
    /\ call[c].stage = "requested"
    /\ Write(c, IF mode = "stream" /\ data
                THEN [See(Sent(call[c]), "noResponse") EXCEPT !.stage = "closing"]
                ELSE Ended(HttpError(call[c], throws)))

ErrorBodyCloses(c, throws) ==
    /\ call[c].stage = "closing"
    /\ Keep(c, Ended(Answer(call[c], "error", throws)))

-----------------------------------------------------------------------------
(* Without streams. *)

Respond(c, m, throws) ==
    /\ ~Streams
    /\ call[c].stage = "requested"
    /\ m.multipart = "no"
    /\ Write(c, Ended(Received([call[c] EXCEPT !.response = m], throws)))

\* A multipart response: its parts are parsed in a promise chain of their own.  Without a
\* boundary it is an error, and if its type is malformed MIMEType throws and nobody is told.
RespondMultipart(c, m, throws) ==
    /\ mode = "mtom"
    /\ call[c].stage = "requested"
    /\ \/ /\ m.multipart \in {"parts", "nobody"}
          /\ Keep(c, [Sent(call[c]) EXCEPT !.response = m, !.stage = "parts"])
       \/ /\ m.multipart = "noboundary"
          /\ Write(c, Ended(HttpError(call[c], throws)))
       \/ /\ m.multipart = "badtype"
          /\ Keep(c, [Ended(call[c]) EXCEPT !.uncaught = TRUE])

\* parseMTOMResp calls back from inside the chain: an exception is not lost yet.
PartsParsed(c, throws) ==
    /\ call[c].stage = "parts"
    /\ LET k == IF call[c].response.multipart = "parts" THEN Received(call[c], throws)
                ELSE HttpError(call[c], throws)
       IN  Write(c, IF throws THEN [k EXCEPT !.stage = "rejected", !.uncaught = FALSE] ELSE Ended(k))

\* formidable cannot be imported.
PartsUnreadable(c) ==
    /\ call[c].stage = "parts"
    /\ Keep(c, [call[c] EXCEPT !.stage = "rejected"])

\* .catch(callback)
PartsRejected(c, throws) ==
    /\ call[c].stage = "rejected"
    /\ Write(c, Ended(HttpError(call[c], throws)))

-----------------------------------------------------------------------------
(* With streams. *)

\* The head of the response.  With returnSaxStream the user gets the stream, and neither an
\* event nor lastResponse says so.
StreamBegins(c, m, throws) ==
    LET k == [Sent(call[c]) EXCEPT !.response = m]
    IN  /\ Streams
        /\ call[c].stage = "requested"
        /\ m.multipart = "no"
        /\ Keep(c, IF m.status # "ok" \/ k.output # "typed" THEN [k EXCEPT !.stage = "collecting"]
                   ELSE IF mode = "stream" THEN [k EXCEPT !.stage = "streaming"]
                   ELSE [Answer(k, "result", throws) EXCEPT !.stage = "handed"])

\* streamToText
Collected(c, throws) ==
    /\ call[c].stage = "collecting"
    /\ Write(c, Ended(Received(call[c], throws)))

\* The body breaks off: res.data emits 'error'.  A promise of streamToText is rejected too, and
\* has no handler.
BodyLost(c, throws) ==
    /\ call[c].stage \in {"collecting", "streaming", "handed"}
    /\ Write(c, [Ended(HttpError(call[c], throws)) EXCEPT
                    !.uncaught = @ \/ call[c].stage = "collecting"])

Errors(k) == Len(SelectSeq(k.history, LAMBDA e : e = "soapError"))

\* sax reports an error and goes on to the end of the chunk, but reads no other: only when the
\* body is over is 'end' still to come.
StreamError(c, throws) ==
    /\ call[c].stage = "streaming"
    /\ call[c].response.body \in {"malformed", "json", "cut"}
    /\ Errors(call[c]) < MaxErrors
    /\ Write(c, LET k == Fail(See(call[c], "response"), throws)
                IN  IF k.uncaught THEN Ended(k) ELSE k)

\* 'end': finish() of xmlToObject throws for a fault.
StreamEnds(c, throws) ==
    /\ call[c].stage = "streaming"
    /\ \/ call[c].response.body \in {"result", "fault", "empty", "unusable"}
       \/ call[c].response.body = "cut" /\ Errors(call[c]) > 0
    /\ LET k == See(call[c], "response")
       IN  Write(c, Ended(IF k.response.body = "fault" THEN Fail(k, throws)
                          ELSE Finish(k, throws)))

\* An exception of a sax handler leaves through the pipe.
StreamHandlerThrows(c) ==
    /\ call[c].stage = "streaming"
    /\ call[c].response.body = "poison"
    /\ Keep(c, [Ended(call[c]) EXCEPT !.uncaught = TRUE])

-----------------------------------------------------------------------------
Progress(c) ==
    \/ \E throws \in BOOLEAN :
        \/ \E data \in BOOLEAN : RequestFails(c, data, throws)
        \/ ErrorBodyCloses(c, throws)
        \/ \E m \in Response :
            \/ Respond(c, m, throws)
            \/ RespondMultipart(c, m, throws)
            \/ StreamBegins(c, m, throws)
        \/ PartsParsed(c, throws)
        \/ PartsRejected(c, throws)
        \/ Collected(c, throws)
        \/ BodyLost(c, throws)
        \/ StreamError(c, throws)
        \/ StreamEnds(c, throws)
    \/ PartsUnreadable(c)
    \/ StreamHandlerThrows(c)

Next ==
    \/ AddHttpHeader
    \/ ClearHttpHeaders
    \/ \E c \in Call :
        \/ \E i \in Invocation : Invoke(c, i)
        \/ Progress(c)

Spec == Init /\ [][Next]_vars

\* A request is answered or fails, a body ends or breaks off, and promises settle.
FairSpec == Spec /\ \A c \in Call : WF_vars(Progress(c))

-----------------------------------------------------------------------------
(* Properties *)

TypeOK ==
    /\ mode \in Modes
    /\ call \in [Call -> CallType]
    /\ httpHeaders \in {"undefined", "some", "null"}
    /\ lastResponse \in Call \cup {NoCall}

\* A method calls back once, whatever errors its response has and when they come; only the
\* promise chain of a multipart response (utils.ts:257) calls again a callback that throws.
CallbackOnce ==
    \A c \in Call :
        Cardinality(Answers(call[c])) <= 1 + (IF mode = "mtom" THEN call[c].throws ELSE 0)

Count(k, what) == Cardinality({i \in DOMAIN k.history : k.history[i] = what})

\* The user hears of a response before the callback is called with it, once for each call of
\* the callback; a stream may say so again, and one that is handed over says nothing.  After a
\* soapError the callback is called with an error: no later part of the response, and no end
\* of a stream, turns it into a result.
CallbackFollowsEvents ==
    \A c \in Call :
        /\ mode # "sax" =>
              \A i \in DOMAIN call[c].history : call[c].history[i] \in {"error", "result"} =>
                  {"response", "noResponse"} \cap ToSet(SubSeq(call[c].history, 1, i)) # {}
        /\ ~Streams =>
              Count(call[c], "response") + Count(call[c], "noResponse")
                  = Cardinality(Answers(call[c]))
        /\ "soapError" \in ToSet(call[c].history) =>
              Answers(call[c]) # {} /\ call[c].history[Min(Answers(call[c]))] = "error"

\* What the callback finds in client.lastResponse is of its own exchange, however many are in
\* flight.  Two exceptions: a stream that is handed over, and an error whose body is awaited.
LastResponseIsOwn ==
    [][\A c \in Call :
        (/\ Answers(call'[c]) # Answers(call[c])
         /\ mode # "sax"
         /\ call[c].stage # "closing") => lastResponse' = c]_vars

\* A method that was called calls back, or an exception leaves the library.
Answered ==
    \A c \in Call : call[c].stage # "new" ~> (Answers(call[c]) # {} \/ call[c].uncaught)
=============================================================================
