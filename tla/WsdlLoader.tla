------------------------------ MODULE WsdlLoader ------------------------------
(***************************************************************************)
(* createClient up to its callback: the WSDL cache (src/soap.ts), the       *)
(* opening of a document and of the documents it includes, and the merging  *)
(* of their definitions (src/wsdl/index.ts, src/wsdl/elements.ts).          *)
(*                                                                          *)
(* Each call that misses the cache loads WSDL objects of its own, one after *)
(* the other; calls interleave where a load waits for a file, a response or *)
(* nextTick.  Everything between two such points is one callback of the     *)
(* event loop.  Its steps are actions of their own here, but `running`      *)
(* names the call they belong to until the JavaScript stack is empty, and   *)
(* no other action is enabled meanwhile.                                    *)
(*                                                                          *)
(* A WSDL object completes inside the try clause of its constructor, and    *)
(* what follows, up to the user's callback, is called from inside it: the   *)
(* field tries counts the clauses an exception would meet on its way out.   *)
(***************************************************************************)
EXTENDS Integers, SequencesExt

CONSTANTS
    Call,               \* the calls of createClient
    Url,                \* what they are called with
    File,               \* uris of WSDL and XSD documents
    Namespace,
    Document,           \* [File -> DocumentType]
    OverrideMayThrow,   \* overrideImportLocation is given and may throw
    MaxThrows,          \* bound: exceptions thrown by the callback of a call
    NoCall, NoFile

\* A document: whether its uri is the XML itself, whether it parses, whether post-processing
\* it succeeds, and its <types> and <import> children in order.  Each is a sequence of
\* schemas; an import is one schema with one include.  `own`: it has a targetNamespace.
SchemaType == [ns : Namespace, own : BOOLEAN, includes : Seq(File)]
DocumentType ==
    [inline : BOOLEAN, parses : BOOLEAN, completes : BOOLEAN, parts : Seq(Seq(SchemaType))]

ASSUME DocumentAssumption ==
    Url \subseteq File /\ Document \in [File -> DocumentType] /\ NoFile \notin File
ASSUME CallAssumption == NoCall \notin Call /\ MaxThrows \in Nat /\ OverrideMayThrow \in BOOLEAN

VARIABLES
    call,      \* [Call -> the state of the call and of its load]
    cache,     \* [File -> the call whose load made the cached WSDL, or NoCall]
    running    \* the call on the JavaScript stack, or NoCall

vars == <<call, cache, running>>

-----------------------------------------------------------------------------
(* Parsing: the schemas of a document by namespace, in insertion order. *)

Position(schemas, ns) == SelectInSeq(schemas, LAMBDA s : s.ns = ns)

\* A later schema takes the place of an earlier one of the same namespace.
PutSchema(schemas, s) ==
    LET i == Position(schemas, s.ns)
    IN  IF i = 0 THEN Append(schemas, s) ELSE [schemas EXCEPT ![i] = s]

\* TypesElement.addChild: unless its namespace is borrowed from an include.
AddSchema(schemas, s) ==
    IF Position(schemas, s.ns) # 0 /\ ~s.own THEN schemas ELSE PutSchema(schemas, s)

SchemasOfTypes(part) == FoldLeft(AddSchema, <<>>, part)

\* DefinitionsElement.addChild
SchemasOf == [f \in File |->
    FoldLeft(LAMBDA acc, part : FoldLeft(PutSchema, acc, SchemasOfTypes(part)),
             <<>>, Document[f].parts)]

NamespacesOf == [f \in File |-> {s.ns : s \in ToSet(SchemasOf[f])}]

\* processIncludes: the includes of the surviving schemas.
Includes == [f \in File |->
    FlattenSeq([i \in DOMAIN SchemasOf[f] |-> SchemasOf[f][i].includes])]

\* It follows from DocumentAssumption by the folds above, which proofs do not unfold.
ASSUME IncludesAssumption == Includes \in [File -> Seq(File)]

\* The documents f includes, directly or not, and f.
Reach == [f \in File |->
    {g \in File : \A S \in SUBSET File :
        f \in S /\ (\A h \in S : ToSet(Includes[h]) \subseteq S) => g \in S}]

-----------------------------------------------------------------------------
(* The state of a call. *)

Outcome == [ok : BOOLEAN, wsdl : Call \cup {NoCall}]
Failure == [ok |-> FALSE, wsdl |-> NoCall]
Success(c) == [ok |-> TRUE, wsdl |-> c]

Stage == {"new", "hit", "opening", "parsing", "including", "ready", "delivering", "done"}

CallType ==
    [stage    : Stage,
     url      : Url \cup {NoFile},
     cached   : BOOLEAN,                         \* not options.disableCache
     file     : File \cup {NoFile},              \* the document being opened or parsed
     stack    : Seq([file : File, todo : Seq(File)]),  \* the WSDLs including others
     known    : SUBSET File,                     \* keys of WSDL_CACHE
     parsed   : SUBSET File,                     \* those with definitions
     merged   : [File -> SUBSET File],           \* documents whose definitions f's hold
     schema   : [File -> [Namespace -> File \cup {NoFile}]],
     content  : [File -> [Namespace -> SUBSET File]],
     tries    : Nat,
     outcome  : Outcome,                         \* what the user's callback is called with
     calls    : Seq(Outcome),                    \* the calls of it
     throws   : Nat,                             \* exceptions of it or of new Client
     uncaught : BOOLEAN]

\* schema[f][ns] is the document whose parsing made the SchemaElement f's definitions refer
\* to, and content[g][ns] the documents whose schemas are merged into the one made for g.
NewCall ==
    [stage |-> "new", url |-> NoFile, cached |-> TRUE, file |-> NoFile, stack |-> <<>>,
     known |-> {}, parsed |-> {}, merged |-> [f \in File |-> {}],
     schema |-> [f \in File |-> [ns \in Namespace |-> NoFile]],
     content |-> [f \in File |-> [ns \in Namespace |-> {}]],
     tries |-> 0, outcome |-> Failure, calls |-> <<>>, throws |-> 0, uncaught |-> FALSE]

Init ==
    /\ call = [c \in Call |-> NewCall]
    /\ cache = [f \in File |-> NoCall]
    /\ running = NoCall

-----------------------------------------------------------------------------
(* What one statement does to the record of the call. *)

\* Mutant: entered in WSDL_CACHE by nobody before it is complete.
ConstructUnknown(k, f) == [k EXCEPT !.stage = "parsing", !.file = f]

\* new WSDL, entered in WSDL_CACHE before its definitions exist; parsed on nextTick.
Construct(k, f) == [k EXCEPT !.stage = "parsing", !.file = f, !.known = @ \cup {f}]

\* open_wsdl: the stack unwinds through the try clauses that called it.
OpenWsdl(k, f) ==
    LET d == [k EXCEPT !.tries = 0]
    IN  IF Document[f].inline THEN Construct(d, f)
        ELSE [d EXCEPT !.stage = "opening", !.file = f]

Deliver(k, o) == [k EXCEPT !.stage = "delivering", !.outcome = o]

\* Mutant: the catch clause runs for exceptions from outside of it.
RaiseAlways(k) == Deliver([k EXCEPT !.tries = @ - 1], Failure)

\* An exception: the innermost try clause passes it on as an error, which every callback of
\* the including WSDLs hands up to the callback of the call.
Raise(k) ==
    IF k.tries > 0 THEN Deliver([k EXCEPT !.tries = @ - 1], Failure)
    ELSE [k EXCEPT !.stage = "done", !.uncaught = TRUE]

\* _fromXML and processIncludes.
StartIncludes(k) ==
    LET f == k.file
    IN  [k EXCEPT !.stage = "including", !.parsed = @ \cup {f},
                  !.merged[f] = {f},
                  !.schema[f] = [ns \in Namespace |-> IF ns \in NamespacesOf[f] THEN f ELSE NoFile],
                  !.content[f] = [ns \in Namespace |-> IF ns \in NamespacesOf[f] THEN {f} ELSE {}],
                  !.stack = Append(@, [file |-> f, todo |-> Includes[f]])]

\* Mutant: without the customizer, the schemas of g replace those of f.
MergeIntoPlainly(k, f, g) ==
    [k EXCEPT
        !.merged[f] = @ \cup k.merged[g],
        !.schema[f] = [ns \in Namespace |-> IF k.schema[g][ns] = NoFile THEN @[ns] ELSE k.schema[g][ns]]]

\* mergeWith(definitions of f, definitions of g): a SchemaElement both have is merged into
\* f's, one only g has is shared by both.
MergeInto(k, f, g) ==
    LET both == {ns \in Namespace : k.schema[f][ns] # NoFile /\ k.schema[g][ns] # NoFile}
    IN  [k EXCEPT
            !.merged[f] = @ \cup k.merged[g],
            !.schema[f] = [ns \in Namespace |-> IF @[ns] = NoFile THEN k.schema[g][ns] ELSE @[ns]],
            !.content = [h \in File |-> [ns \in Namespace |->
                IF ns \in both /\ h = k.schema[f][ns]
                THEN @[h][ns] \cup @[k.schema[g][ns]][ns] ELSE @[h][ns]]]]

Top(k) == Last(k.stack)

DoneWithInclude(k) == [k EXCEPT !.stack[Len(k.stack)].todo = Tail(@)]

\* open_wsdl_recursive found the document in WSDL_CACHE.
IncludeKnown(k) ==
    LET g == Head(Top(k).todo)
    IN  IF g \in k.parsed THEN DoneWithInclude(MergeInto(k, Top(k).file, g))
        ELSE Deliver(k, Failure)

\* Mutant: what the include defines is forgotten.
ReturnWithoutMerge(k) ==
    DoneWithInclude([k EXCEPT !.stage = "including", !.stack = Front(@)])

\* The callback of open_wsdl_recursive: the WSDL on top is complete, its includer goes on.
ReturnToIncluder(k) ==
    LET g == Top(k).file
        d == [k EXCEPT !.stage = "including", !.stack = Front(@)]
    IN  DoneWithInclude(MergeInto(d, Top(d).file, g))

\* Mutant: options.disableCache only concerns reading.
StoredByAll(c) == [cache EXCEPT ![call[c].url] = c]

\* The callback of the WSDL asked for: it is stored unless options.disableCache.
StoredBy(c) == IF call[c].cached THEN [cache EXCEPT ![call[c].url] = c] ELSE cache

-----------------------------------------------------------------------------
(* The actions: k is the record of call c before, and Run gives it after. *)

Run(c, k) == call' = [call EXCEPT ![c] = k]

\* The stack is not empty until the call waits again or is over.
Waits(k) == k.stage \in {"opening", "parsing", "done"}
RunOn(c, k) == Run(c, k) /\ running' = IF Waits(k) THEN NoCall ELSE c

\* createClient, _requestWSDL and getFromCache.
CreateClient(c, url, cached) ==
    LET k == [call[c] EXCEPT !.url = url, !.cached = cached]
    IN  /\ running = NoCall
        /\ call[c].stage = "new"
        /\ Run(c, IF cached /\ cache[url] # NoCall THEN [k EXCEPT !.stage = "hit"]
                  ELSE OpenWsdl(k, url))
        /\ UNCHANGED <<cache, running>>

\* process.nextTick of getFromCache.
Hit(c) ==
    /\ running = NoCall
    /\ call[c].stage = "hit"
    /\ RunOn(c, Deliver(call[c], Success(cache[call[c].url])))
    /\ UNCHANGED cache

\* fs.readFile or the request of the document answers, or fails.
ReadOk(c) ==
    /\ running = NoCall
    /\ call[c].stage = "opening"
    /\ RunOn(c, Construct(call[c], call[c].file))
    /\ UNCHANGED cache

\* Mutant: the error of the read is dropped.
ReadFailsSilently(c) ==
    /\ running = NoCall
    /\ call[c].stage = "opening"
    /\ RunOn(c, [call[c] EXCEPT !.stage = "done"])
    /\ UNCHANGED cache

ReadFails(c) ==
    /\ running = NoCall
    /\ call[c].stage = "opening"
    /\ RunOn(c, Deliver(call[c], Failure))
    /\ UNCHANGED cache

\* process.nextTick of the constructor.
Parse(c) ==
    /\ running = NoCall
    /\ call[c].stage = "parsing"
    /\ RunOn(c, IF Document[call[c].file].parses THEN StartIncludes(call[c])
                ELSE Deliver(call[c], Failure))
    /\ UNCHANGED cache

\* _processNextInclude
Include(c) ==
    /\ running = c
    /\ call[c].stage = "including"
    /\ Top(call[c]).todo # <<>>
    /\ LET g == Head(Top(call[c]).todo)
       IN  RunOn(c, IF g \in call[c].known THEN IncludeKnown(call[c]) ELSE OpenWsdl(call[c], g))
    /\ UNCHANGED cache

\* overrideImportLocation throws.
IncludeRefused(c) ==
    /\ OverrideMayThrow
    /\ running = c
    /\ call[c].stage = "including"
    /\ Top(call[c]).todo # <<>>
    /\ RunOn(c, Deliver(call[c], Failure))
    /\ UNCHANGED cache

\* No include is left: post-processing, in a try clause that stays on the stack.
EndIncludes(c) ==
    LET k == [call[c] EXCEPT !.stage = "ready", !.tries = @ + 1]
    IN  /\ running = c
        /\ call[c].stage = "including"
        /\ Top(call[c]).todo = <<>>
        /\ RunOn(c, IF Document[Top(k).file].completes THEN k ELSE Raise(k))
        /\ UNCHANGED cache

\* this.callback of an included WSDL.
CompleteInclude(c) ==
    /\ running = c
    /\ call[c].stage = "ready"
    /\ Len(call[c].stack) > 1
    /\ RunOn(c, ReturnToIncluder(call[c]))
    /\ UNCHANGED cache

\* this.callback of the WSDL asked for.
Complete(c) ==
    /\ running = c
    /\ call[c].stage = "ready"
    /\ Len(call[c].stack) = 1
    /\ cache' = StoredBy(c)
    /\ RunOn(c, Deliver(call[c], Success(c)))

\* The callback of _requestWSDL: new Client, then the callback of the user.
ClientThrows(c) ==
    /\ running = c
    /\ call[c].stage = "delivering"
    /\ call[c].outcome.ok
    /\ call[c].throws < MaxThrows
    /\ RunOn(c, Raise([call[c] EXCEPT !.throws = @ + 1]))
    /\ UNCHANGED cache

Called(k) == [k EXCEPT !.calls = Append(@, k.outcome)]

\* Mutant: without `return` before callback(err), the includes go on after an error.
CallbackReturnsOn(c) ==
    /\ running = c
    /\ call[c].stage = "delivering"
    /\ LET k == Called(call[c])
       IN  RunOn(c, [k EXCEPT !.stage = IF k.outcome.ok \/ k.stack = <<>> THEN "done" ELSE "including"])
    /\ UNCHANGED cache

CallbackReturns(c) ==
    /\ running = c
    /\ call[c].stage = "delivering"
    /\ RunOn(c, [Called(call[c]) EXCEPT !.stage = "done"])
    /\ UNCHANGED cache

CallbackThrows(c) ==
    /\ running = c
    /\ call[c].stage = "delivering"
    /\ call[c].throws < MaxThrows
    /\ RunOn(c, Raise([Called(call[c]) EXCEPT !.throws = @ + 1]))
    /\ UNCHANGED cache

Continue(c) ==
    \/ Hit(c) \/ ReadOk(c) \/ ReadFails(c) \/ Parse(c)
    \/ Include(c) \/ IncludeRefused(c) \/ EndIncludes(c) \/ CompleteInclude(c) \/ Complete(c)
    \/ ClientThrows(c) \/ CallbackReturns(c) \/ CallbackThrows(c)

Next ==
    \E c \in Call :
        \/ \E url \in Url, cached \in BOOLEAN : CreateClient(c, url, cached)
        \/ Continue(c)

Spec == Init /\ [][Next]_vars

\* A document that is being read is answered or fails, nextTick runs, and a callback returns
\* or throws.  Whether createClient is called is up to the program.
FairSpec == Spec /\ \A c \in Call : WF_vars(Continue(c))

-----------------------------------------------------------------------------
(* Properties *)

TypeOK ==
    /\ call \in [Call -> CallType]
    /\ cache \in [File -> Call \cup {NoCall}]
    /\ running \in Call \cup {NoCall}

\* The user's callback is called at most once more than it (or new Client) throws: the try
\* clause of a WSDL that completes (index.ts:139) reports an exception of the caller by
\* calling the caller again.
CallbacksPaidByThrows == \A c \in Call : Len(call[c].calls) <= 1 + call[c].throws

\* The definitions made by load c lack nothing: those of every document within reach are
\* merged, and a schema holds those of its namespace, whatever circle the includes form.
Whole(c) ==
    LET url == call[c].url
    IN  /\ call[c].merged[url] = Reach[url]
        /\ \A f \in Reach[url], ns \in Namespace :
              ns \in NamespacesOf[f] => f \in call[c].content[call[c].schema[url][ns]][ns]

\* A call that succeeds is given the WSDL it asked for, whole, also when it is one that
\* another call has loaded, and no document within reach failed to parse or to complete.
SuccessIsWhole ==
    \A c \in Call : \A i \in DOMAIN call[c].calls :
        LET o == call[c].calls[i]
        IN  o.ok => /\ call[o.wsdl].url = call[c].url
                    /\ Whole(o.wsdl)
                    /\ \A f \in Reach[call[c].url] : Document[f].parses /\ Document[f].completes

\* What is cached is whole, under the url it was asked for; options.disableCache keeps a
\* call away from the cache, in both directions.
CacheIsSound ==
    /\ \A f \in File : cache[f] # NoCall =>
          call[cache[f]].cached /\ call[cache[f]].url = f /\ Whole(cache[f])
    /\ \A c \in Call : ~call[c].cached =>
          \A i \in DOMAIN call[c].calls : call[c].calls[i].wsdl \in {c, NoCall}

\* A document is entered once by a load: one that includes itself, directly or not, is not
\* entered again (the comment at index.ts:1416).  "By the time file A starts processing its
\* includes its definitions will be already loaded" (index.ts:1430): an include found in
\* WSDL_CACHE always has definitions.
IncludesEnteredOnce ==
    \A c \in Call :
        /\ \A i, j \in DOMAIN call[c].stack :
              call[c].stack[i].file = call[c].stack[j].file => i = j
        /\ call[c].stage = "including" => call[c].known = call[c].parsed

\* A call that was made reaches the user's callback, or an exception leaves the library.
Answered ==
    \A c \in Call : call[c].stage # "new" ~> (call[c].calls # <<>> \/ call[c].uncaught)

\* The loader implements what WsdlProvider promises.
AnswerOf(c) ==
    IF call[c].calls = <<>> THEN NoFile
    ELSE LET o == call[c].calls[1]
         IN  IF o.ok THEN call[o.wsdl].merged[call[c].url] ELSE {}

Provider == INSTANCE WsdlProvider WITH
    Everything <- Reach,
    None <- NoFile,
    asked <- [c \in Call |-> call[c].url],
    answer <- [c \in Call |-> AnswerOf(c)],
    stored <- {f \in File : cache[f] # NoCall}

ImplementsProvider == Provider!Spec
=============================================================================
