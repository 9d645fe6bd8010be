--------------------------- MODULE WsdlLoaderProofs ---------------------------
(***************************************************************************)
(* Theorems about WsdlLoader, for any number of calls, every set of         *)
(* documents and however they include each other.                           *)
(*                                                                          *)
(* First, how often createClient calls back.  The argument is a balance: a  *)
(* call that is not done owes one callback, and what was called and owed    *)
(* never exceeds one plus the exceptions that were thrown into a try clause *)
(* of the loader.  It says nothing of what is parsed and merged, so of the  *)
(* record of a call only the fields Kept names are needed.                  *)
(*                                                                          *)
(* Then, what it calls back with.  Loading says of one load how far its     *)
(* depth-first search has come, and LoadInv of all calls that what they     *)
(* were called with, and what is cached, are loads that ended with          *)
(* everything within reach.  Each statement has a lemma for what it leaves  *)
(* of a record (...Frame) and one that Loading survives it (...Loading),    *)
(* each action one that the step Advances its call.                         *)
(***************************************************************************)
EXTENDS WsdlLoader, SequenceTheorems, TLAPS

\* A record of a call, as far as the callback goes.
Typed(k) ==
    /\ {"stage", "url", "outcome", "calls", "throws"} \subseteq DOMAIN k
    /\ k.outcome \in Outcome /\ k.calls \in Seq(Outcome) /\ k.throws \in Nat
    /\ k.stage # "new" => k.url \in Url

\* What was called, and with what is owed.
Balanced(k) ==
    /\ Len(k.calls) <= 1 + k.throws
    /\ k.stage # "done" => Len(k.calls) <= k.throws

IInv ==
    /\ DOMAIN call = Call /\ cache \in [File -> Call \cup {NoCall}]
    /\ \A c \in Call : Typed(call[c]) /\ Balanced(call[c])

\* d is k after statements that do not touch the callback.
Kept(k, d) ==
    /\ DOMAIN d = DOMAIN k
    /\ d.url = k.url /\ d.outcome \in Outcome /\ d.calls = k.calls /\ d.throws = k.throws

\* d is k after a step that may owe or call the callback, and is fit to take its place.
Fit(d) == Typed(d) /\ Balanced(d)

-----------------------------------------------------------------------------
(* What statements keep. *)

LEMMA FailureType == Failure \in Outcome /\ \A c \in Call \cup {NoCall} : Success(c) \in Outcome
  BY DEF Failure, Success, Outcome

LEMMA ConstructKeeps ==
    ASSUME NEW k, Typed(k), NEW f
    PROVE  Kept(k, Construct(k, f)) /\ Construct(k, f).stage = "parsing"
  BY DEF Typed, Kept, Construct

LEMMA DeliverKeeps ==
    ASSUME NEW k, Typed(k), NEW o \in Outcome
    PROVE  Kept(k, Deliver(k, o)) /\ Deliver(k, o).stage = "delivering"
  BY DEF Typed, Kept, Deliver

LEMMA TriesKeep ==
    ASSUME NEW k, Typed(k), NEW n
    PROVE  Kept(k, [k EXCEPT !.tries = n]) /\ [k EXCEPT !.tries = n].stage = k.stage
  BY DEF Typed, Kept

LEMMA KeptTyped ==
    ASSUME NEW k, Typed(k), NEW d, Kept(k, d), k.url \in Url
    PROVE  Typed(d)
  BY DEF Typed, Kept

LEMMA KeptTransitive ==
    ASSUME NEW k, NEW d, NEW e, Kept(k, d), Kept(d, e)
    PROVE  Kept(k, e)
  BY DEF Kept

LEMMA OpenWsdlKeeps ==
    ASSUME NEW k, Typed(k), k.url \in Url, NEW f
    PROVE  Kept(k, OpenWsdl(k, f)) /\ OpenWsdl(k, f).stage # "new"
  <1> DEFINE d == [k EXCEPT !.tries = 0]
             o == [d EXCEPT !.stage = "opening", !.file = f]
  <1>1. Kept(k, d) /\ Typed(d)
    BY TriesKeep, KeptTyped
  <1> HIDE DEF d
  <1>2. Kept(d, o) /\ o.stage = "opening"
    BY <1>1 DEF Typed, Kept
  <1> HIDE DEF o
  <1>3. Kept(d, Construct(d, f)) /\ Construct(d, f).stage = "parsing"
    BY <1>1, ConstructKeeps
  <1>4. OpenWsdl(k, f) = IF Document[f].inline THEN Construct(d, f) ELSE o
    BY DEF OpenWsdl, d, o
  <1> QED BY <1>1, <1>2, <1>3, <1>4, KeptTransitive

LEMMA RaiseKeeps ==
    ASSUME NEW k, Typed(k), k.url \in Url
    PROVE  Kept(k, Raise(k)) /\ Raise(k).stage # "new"
  <1> DEFINE d == [k EXCEPT !.tries = k.tries - 1]
             u == [k EXCEPT !.stage = "done", !.uncaught = TRUE]
  <1>1. Kept(k, d) /\ Typed(d)
    BY TriesKeep, KeptTyped
  <1>2. Kept(k, u) /\ u.stage = "done"
    BY DEF Typed, Kept
  <1> HIDE DEF d, u
  <1>3. Kept(d, Deliver(d, Failure)) /\ Deliver(d, Failure).stage = "delivering"
    BY <1>1, DeliverKeeps, FailureType
  <1>4. Raise(k) = IF k.tries > 0 THEN Deliver(d, Failure) ELSE u
    BY DEF Raise, d, u
  <1> QED BY <1>1, <1>2, <1>3, <1>4, KeptTransitive

LEMMA StartIncludesKeeps ==
    ASSUME NEW k, Typed(k)
    PROVE  Kept(k, StartIncludes(k)) /\ StartIncludes(k).stage = "including"
  BY DEF Typed, Kept, StartIncludes

LEMMA MergeIntoKeeps ==
    ASSUME NEW k, Typed(k), NEW f, NEW g
    PROVE  Kept(k, MergeInto(k, f, g)) /\ MergeInto(k, f, g).stage = k.stage
  BY DEF Typed, Kept, MergeInto

LEMMA DoneWithIncludeKeeps ==
    ASSUME NEW k, Typed(k)
    PROVE  Kept(k, DoneWithInclude(k)) /\ DoneWithInclude(k).stage = k.stage
  BY DEF Typed, Kept, DoneWithInclude

\* A step that keeps the callback as it was: one may be owed still.
LEMMA KeptFit ==
    ASSUME NEW k, Typed(k), Balanced(k), k.stage # "done", k.url \in Url, NEW d, Kept(k, d)
    PROVE  Fit(d)
  <1>1. Typed(d)
    BY KeptTyped
  <1>2. Len(k.calls) \in Nat /\ k.throws \in Nat
    BY LenProperties DEF Typed
  <1>3. Balanced(d)
    <2>1. Len(k.calls) <= k.throws
      BY DEF Balanced
    <2>2. Len(d.calls) = Len(k.calls) /\ d.throws = k.throws
      BY DEF Kept
    <2> QED BY <1>2, <2>1, <2>2 DEF Balanced
  <1> QED BY <1>1, <1>3 DEF Fit

-----------------------------------------------------------------------------
(* The actions. *)

Sound(c, d) == Fit(d) /\ Run(c, d) /\ cache' \in [File -> Call \cup {NoCall}]

\* A call under way.
LEMMA Underway ==
    ASSUME IInv, NEW c \in Call, call[c].stage \notin {"new", "done"}
    PROVE  /\ Typed(call[c]) /\ Balanced(call[c]) /\ call[c].url \in Url
           /\ call[c].url \in File /\ cache[call[c].url] \in Call \cup {NoCall}
  BY DocumentAssumption DEF IInv, Typed

LEMMA KeptSound ==
    ASSUME IInv, NEW c \in Call, call[c].stage \notin {"new", "done"},
           NEW d, Kept(call[c], d), Run(c, d), cache' = cache
    PROVE  Sound(c, d)
  BY Underway, KeptFit DEF Sound, IInv

LEMMA CreateClientSound ==
    ASSUME IInv, NEW c \in Call, NEW url \in Url, NEW cached \in BOOLEAN,
           CreateClient(c, url, cached)
    PROVE  \E d : Sound(c, d)
  <1> DEFINE k == [call[c] EXCEPT !.url = url, !.cached = cached]
             h == [k EXCEPT !.stage = "hit"]
  <1>1. /\ call[c].stage = "new" /\ Typed(call[c]) /\ Balanced(call[c]) /\ cache' = cache
        /\ \/ Run(c, h) \/ Run(c, OpenWsdl(k, url))
    BY DEF CreateClient, IInv
  <1>2. /\ DOMAIN k = DOMAIN call[c] /\ k.stage = "new" /\ k.url = url
        /\ k.outcome = call[c].outcome /\ k.calls = call[c].calls /\ k.throws = call[c].throws
    BY <1>1 DEF Typed
  <1>3. Typed(k) /\ Balanced(k)
    BY <1>1, <1>2 DEF Typed, Balanced
  <1> HIDE DEF k
  <1>4. Kept(k, h)
    BY <1>3 DEF Typed, Kept
  <1>5. Kept(k, OpenWsdl(k, url))
    BY <1>2, <1>3, OpenWsdlKeeps
  <1>6. Fit(h) /\ Fit(OpenWsdl(k, url))
    BY <1>2, <1>3, <1>4, <1>5, KeptFit
  <1> HIDE DEF h
  <1> QED BY <1>1, <1>6 DEF Sound, IInv

LEMMA HitSound ==
    ASSUME IInv, NEW c \in Call, Hit(c)
    PROVE  \E d : Sound(c, d)
  <1> DEFINE o == Success(cache[call[c].url])
  <1>1. /\ call[c].stage = "hit" /\ Run(c, Deliver(call[c], o)) /\ cache' = cache
    BY DEF Hit, RunOn
  <1>2. o \in Outcome
    BY <1>1, Underway, FailureType
  <1> HIDE DEF o
  <1>3. Kept(call[c], Deliver(call[c], o))
    BY <1>1, <1>2, Underway, DeliverKeeps
  <1> QED BY <1>1, <1>3, KeptSound

LEMMA ReadSound ==
    ASSUME IInv, NEW c \in Call, ReadOk(c) \/ ReadFails(c) \/ Parse(c)
    PROVE  \E d : Sound(c, d)
  <1> DEFINE k == call[c]
  <1>1. k.stage \in {"opening", "parsing"} /\ cache' = cache
    BY DEF ReadOk, ReadFails, Parse
  <1>2. \/ Run(c, Construct(k, k.file)) \/ Run(c, Deliver(k, Failure)) \/ Run(c, StartIncludes(k))
    BY DEF ReadOk, ReadFails, Parse, RunOn
  <1>3. Typed(k)
    BY <1>1, Underway
  <1>4. /\ Kept(k, Construct(k, k.file)) /\ Kept(k, Deliver(k, Failure))
        /\ Kept(k, StartIncludes(k))
    BY <1>3, ConstructKeeps, DeliverKeeps, StartIncludesKeeps, FailureType
  <1> QED BY <1>1, <1>2, <1>4, KeptSound

LEMMA IncludeSound ==
    ASSUME IInv, NEW c \in Call, Include(c) \/ IncludeRefused(c)
    PROVE  \E d : Sound(c, d)
  <1> DEFINE k == call[c]
             g == Head(Top(k).todo)
             m == MergeInto(k, Top(k).file, g)
  <1>1. k.stage = "including" /\ cache' = cache
    BY DEF Include, IncludeRefused
  <1>2. Typed(k) /\ k.url \in Url
    BY <1>1, Underway
  <1>3. Kept(k, Deliver(k, Failure)) /\ Kept(k, OpenWsdl(k, g))
    BY <1>2, DeliverKeeps, OpenWsdlKeeps, FailureType
  <1>4. Kept(k, m) /\ Typed(m)
    BY <1>2, MergeIntoKeeps, KeptTyped
  <1>5. Kept(m, DoneWithInclude(m))
    <2> HIDE DEF m
    <2> QED BY <1>4, DoneWithIncludeKeeps
  <1>6. Kept(k, DoneWithInclude(m))
    BY <1>4, <1>5, KeptTransitive
  <1>7. \/ Run(c, DoneWithInclude(m)) \/ Run(c, Deliver(k, Failure)) \/ Run(c, OpenWsdl(k, g))
    BY DEF Include, IncludeRefused, IncludeKnown, RunOn
  <1> QED BY <1>1, <1>3, <1>6, <1>7, KeptSound

LEMMA EndIncludesSound ==
    ASSUME IInv, NEW c \in Call, EndIncludes(c)
    PROVE  \E d : Sound(c, d)
  <1> DEFINE k == [call[c] EXCEPT !.stage = "ready", !.tries = call[c].tries + 1]
  <1>1. /\ call[c].stage = "including" /\ cache' = cache
        /\ Run(c, k) \/ Run(c, Raise(k))
    BY DEF EndIncludes, RunOn
  <1>2. Typed(call[c]) /\ call[c].url \in Url
    BY <1>1, Underway
  <1>3. Kept(call[c], k)
    BY <1>2 DEF Typed, Kept
  <1> HIDE DEF k
  <1>4. Typed(k) /\ k.url \in Url
    BY <1>2, <1>3, KeptTyped DEF Kept
  <1>5. Kept(call[c], Raise(k))
    BY <1>3, <1>4, RaiseKeeps, KeptTransitive
  <1> QED BY <1>1, <1>3, <1>5, KeptSound

LEMMA CompleteIncludeSound ==
    ASSUME IInv, NEW c \in Call, CompleteInclude(c)
    PROVE  \E d : Sound(c, d)
  <1> DEFINE k == call[c]
             d == [k EXCEPT !.stage = "including", !.stack = Front(k.stack)]
             m == MergeInto(d, Top(d).file, Top(k).file)
  <1>1. k.stage = "ready" /\ cache' = cache /\ Run(c, DoneWithInclude(m))
    BY DEF CompleteInclude, ReturnToIncluder, RunOn
  <1>2. Typed(k) /\ k.url \in Url
    BY <1>1, Underway
  <1>3. Kept(k, d)
    BY <1>2 DEF Typed, Kept
  <1> HIDE DEF d
  <1>4. Typed(d) /\ d.url \in Url
    BY <1>2, <1>3, KeptTyped DEF Kept
  <1>5. Kept(d, m) /\ Typed(m)
    BY <1>4, MergeIntoKeeps, KeptTyped
  <1> HIDE DEF m
  <1>6. Kept(m, DoneWithInclude(m))
    BY <1>5, DoneWithIncludeKeeps
  <1>7. Kept(k, DoneWithInclude(m))
    BY <1>3, <1>5, <1>6, KeptTransitive
  <1> QED BY <1>1, <1>7, KeptSound

LEMMA CompleteSound ==
    ASSUME IInv, NEW c \in Call, Complete(c)
    PROVE  \E d : Sound(c, d)
  <1>1. /\ call[c].stage = "ready" /\ cache' = StoredBy(c)
        /\ Run(c, Deliver(call[c], Success(c)))
    BY DEF Complete, RunOn
  <1>2. /\ Typed(call[c]) /\ Balanced(call[c]) /\ call[c].url \in Url
    BY <1>1, Underway
  <1>3. Kept(call[c], Deliver(call[c], Success(c)))
    BY <1>2, DeliverKeeps, FailureType
  <1>4. Fit(Deliver(call[c], Success(c)))
    BY <1>1, <1>2, <1>3, KeptFit
  <1>5. cache' \in [File -> Call \cup {NoCall}]
    BY <1>1 DEF StoredBy, IInv
  <1> QED BY <1>1, <1>4, <1>5 DEF Sound

\* An exception that is thrown pays for the callback its try clause may make.
LEMMA ThrowFit ==
    ASSUME NEW k, Typed(k), k.url \in Url, Len(k.calls) <= k.throws + 1
    PROVE  Fit(Raise([k EXCEPT !.throws = k.throws + 1]))
  <1> DEFINE d == [k EXCEPT !.throws = k.throws + 1]
  <1>1. Len(k.calls) \in Nat /\ k.throws \in Nat
    BY LenProperties DEF Typed
  <1>2. /\ DOMAIN d = DOMAIN k /\ d.stage = k.stage /\ d.url = k.url /\ d.outcome = k.outcome
        /\ d.calls = k.calls /\ d.throws = k.throws + 1
    BY DEF Typed
  <1>3. Typed(d) /\ d.url \in Url
    BY <1>1, <1>2 DEF Typed
  <1> HIDE DEF d
  <1>4. Kept(d, Raise(d))
    BY <1>3, RaiseKeeps
  <1>5. Typed(Raise(d))
    BY <1>3, <1>4, KeptTyped
  <1>6. Len(Raise(d).calls) = Len(k.calls) /\ Raise(d).throws = k.throws + 1
    BY <1>2, <1>4 DEF Kept
  <1>7. Balanced(Raise(d))
    BY <1>1, <1>6 DEF Balanced
  <1> QED BY <1>5, <1>7 DEF Fit, d

\* The callback is called.
LEMMA CalledTyped ==
    ASSUME NEW k, Typed(k)
    PROVE  /\ Typed(Called(k)) /\ Called(k).url = k.url /\ Called(k).throws = k.throws
           /\ Called(k).stage = k.stage /\ Len(Called(k).calls) = Len(k.calls) + 1
  <1>1. k.calls \in Seq(Outcome) /\ k.outcome \in Outcome
    BY DEF Typed
  <1>2. Append(k.calls, k.outcome) \in Seq(Outcome)
        /\ Len(Append(k.calls, k.outcome)) = Len(k.calls) + 1
    BY <1>1, AppendProperties
  <1>3. /\ DOMAIN Called(k) = DOMAIN k /\ Called(k).url = k.url /\ Called(k).throws = k.throws
        /\ Called(k).stage = k.stage /\ Called(k).outcome = k.outcome
        /\ Called(k).calls = Append(k.calls, k.outcome)
    BY DEF Typed, Called
  <1> QED BY <1>2, <1>3 DEF Typed

LEMMA DeliveredSound ==
    ASSUME IInv, NEW c \in Call, ClientThrows(c) \/ CallbackReturns(c) \/ CallbackThrows(c)
    PROVE  \E d : Sound(c, d)
  <1> DEFINE k == call[c]
             called == Called(k)
             done == [called EXCEPT !.stage = "done"]
  <1>1. k.stage = "delivering" /\ cache' = cache
    BY DEF ClientThrows, CallbackReturns, CallbackThrows
  <1>2. Typed(k) /\ k.url \in Url /\ Balanced(k)
    BY <1>1, Underway
  <1>3. Len(k.calls) \in Nat /\ k.throws \in Nat /\ Len(k.calls) <= k.throws
    <2>1. Len(k.calls) \in Nat /\ k.throws \in Nat
      BY <1>2, LenProperties DEF Typed
    <2>2. Len(k.calls) <= k.throws
      BY <1>1, <1>2 DEF Balanced
    <2> QED BY <2>1, <2>2
  <1>4. /\ Typed(called) /\ called.url \in Url /\ called.throws = k.throws
        /\ Len(called.calls) = Len(k.calls) + 1
    BY <1>2, CalledTyped
  <1>5. \/ Run(c, Raise([k EXCEPT !.throws = k.throws + 1]))
        \/ Run(c, done)
        \/ Run(c, Raise([called EXCEPT !.throws = called.throws + 1]))
    BY DEF ClientThrows, CallbackReturns, CallbackThrows, RunOn
  <1> HIDE DEF k, called
  <1>6. Fit(Raise([k EXCEPT !.throws = k.throws + 1]))
    <2>1. Len(k.calls) <= k.throws + 1
      BY <1>3
    <2> QED BY <1>2, <2>1, ThrowFit
  <1>7. Fit(Raise([called EXCEPT !.throws = called.throws + 1]))
    <2>1. Len(called.calls) <= called.throws + 1
      BY <1>3, <1>4
    <2> QED BY <1>4, <2>1, ThrowFit
  <1>8. Fit(done)
    <2>1. Kept(called, done) /\ done.stage = "done"
      BY <1>4 DEF Typed, Kept
    <2> HIDE DEF done
    <2>2. Typed(done)
      BY <1>4, <2>1, KeptTyped
    <2>3. Len(done.calls) = Len(k.calls) + 1 /\ done.throws = k.throws
      BY <1>4, <2>1 DEF Kept
    <2>4. Balanced(done)
      BY <1>3, <2>1, <2>3 DEF Balanced
    <2> QED BY <2>2, <2>4 DEF Fit
  <1> HIDE DEF done
  <1> QED BY <1>1, <1>5, <1>6, <1>7, <1>8 DEF Sound, IInv

-----------------------------------------------------------------------------
(* Every step keeps the invariant. *)

LEMMA InitInv == Init => IInv
  <1> SUFFICES ASSUME Init PROVE IInv
    OBVIOUS
  <1>1. Typed(NewCall)
    BY EmptySeq, FailureType DEF Typed, NewCall
  <1>2. Balanced(NewCall)
    BY EmptySeq DEF Balanced, NewCall
  <1> QED BY <1>1, <1>2 DEF Init, IInv

LEMMA SoundKeeps ==
    ASSUME IInv, NEW c \in Call, NEW d, Sound(c, d)
    PROVE  IInv'
  <1>1. /\ DOMAIN call' = Call /\ call'[c] = d
        /\ \A x \in Call : x # c => call'[x] = call[x]
    BY DEF Sound, Run, IInv
  <1>2. ASSUME NEW x \in Call PROVE Typed(call[x])' /\ Balanced(call[x])'
    <2>1. Typed(call'[x]) /\ Balanced(call'[x])
      BY <1>1 DEF Sound, Fit, IInv
    <2> QED BY <2>1 DEF Typed, Balanced
  <1> QED BY <1>1, <1>2 DEF Sound, IInv

LEMMA NextInv == IInv /\ [Next]_vars => IInv'
  <1> SUFFICES ASSUME IInv, [Next]_vars PROVE IInv'
    OBVIOUS
  <1>1. ASSUME NEW c \in Call, NEW url \in Url, NEW cached \in BOOLEAN,
               CreateClient(c, url, cached)
        PROVE  IInv'
    BY <1>1, CreateClientSound, SoundKeeps
  <1>2. ASSUME NEW c \in Call, Hit(c) PROVE IInv'
    BY <1>2, HitSound, SoundKeeps
  <1>3. ASSUME NEW c \in Call, ReadOk(c) \/ ReadFails(c) \/ Parse(c) PROVE IInv'
    BY <1>3, ReadSound, SoundKeeps
  <1>4. ASSUME NEW c \in Call, Include(c) \/ IncludeRefused(c) PROVE IInv'
    BY <1>4, IncludeSound, SoundKeeps
  <1>5. ASSUME NEW c \in Call, EndIncludes(c) PROVE IInv'
    BY <1>5, EndIncludesSound, SoundKeeps
  <1>6. ASSUME NEW c \in Call, CompleteInclude(c) PROVE IInv'
    BY <1>6, CompleteIncludeSound, SoundKeeps
  <1>7. ASSUME NEW c \in Call, Complete(c) PROVE IInv'
    BY <1>7, CompleteSound, SoundKeeps
  <1>8. ASSUME NEW c \in Call, ClientThrows(c) \/ CallbackReturns(c) \/ CallbackThrows(c)
        PROVE  IInv'
    BY <1>8, DeliveredSound, SoundKeeps
  <1>9. CASE UNCHANGED vars
    BY <1>9 DEF vars, IInv, Typed, Balanced
  <1> QED
    BY <1>1, <1>2, <1>3, <1>4, <1>5, <1>6, <1>7, <1>8, <1>9 DEF Next, Continue

-----------------------------------------------------------------------------
(* How often createClient calls back. *)

\* createClient calls back once, and once more for each time its callback, or the
\* constructor of the client, throws: the loader calls it again from the try clauses of the
\* WSDLs that complete (src/wsdl/index.ts:133-145).
THEOREM CallbacksArePaid == Spec => []CallbacksPaidByThrows
  <1>1. IInv => CallbacksPaidByThrows
    <2> SUFFICES ASSUME IInv, NEW c \in Call
                 PROVE  Len(call[c].calls) <= 1 + call[c].throws
      BY DEF CallbacksPaidByThrows
    <2>1. Typed(call[c]) /\ Balanced(call[c])
      BY DEF IInv
    <2>2. Len(call[c].calls) \in Nat /\ call[c].throws \in Nat
      BY <2>1, LenProperties DEF Typed
    <2> QED BY <2>1, <2>2 DEF Balanced
  <1> QED BY <1>1, InitInv, NextInv, PTL DEF Spec

-----------------------------------------------------------------------------
(* How far the search of one load has come. *)

\* The documents whose includes are being loaded.
OnStack(k) == {k.stack[i].file : i \in DOMAIN k.stack}

\* The definitions of g hold what h defines.
Held(k, g, h) ==
    \A ns \in NamespacesOf[h] \cap Namespace :
        /\ k.schema[g][ns] # NoFile
        /\ h \in k.content[k.schema[g][ns]][ns]

Merged(k) ==
    \A g \in k.parsed :
        /\ g \in k.merged[g] /\ k.merged[g] \subseteq k.parsed
        /\ \A h \in k.merged[g] : Held(k, g, h)
        /\ \A ns \in Namespace : k.schema[g][ns] \in k.parsed \cup {NoFile}

Stacked(k) ==
    /\ \A i, j \in DOMAIN k.stack : k.stack[i].file = k.stack[j].file => i = j
    /\ k.stack # <<>> => k.stack[1].file = k.url
    /\ \A i \in DOMAIN k.stack :
          /\ k.stack[i].file \in k.parsed
          /\ ToSet(k.stack[i].todo) \subseteq ToSet(Includes[k.stack[i].file])
          /\ ToSet(Includes[k.stack[i].file]) \subseteq k.parsed \cup ToSet(k.stack[i].todo)
          /\ i + 1 \in DOMAIN k.stack =>
                k.stack[i].todo # <<>> /\ k.stack[i + 1].file = Head(k.stack[i].todo)

Explored(k) ==
    /\ k.parsed \subseteq k.known
    /\ k.known # {} => k.known \subseteq Reach[k.url]
    /\ \A h \in k.parsed : Document[h].parses
    /\ \A h \in k.parsed \ OnStack(k) :
          Document[h].completes /\ ToSet(Includes[h]) \subseteq k.parsed
    /\ \A h \in k.parsed : \E i \in DOMAIN k.stack : h \in k.merged[k.stack[i].file]

\* The document that is opened or parsed is asked for: by the user or an include.
Wanted(k) ==
    /\ k.file \in Reach[k.url] \ k.parsed
    /\ IF k.stack = <<>> THEN k.file = k.url
       ELSE Top(k).todo # <<>> /\ k.file = Head(Top(k).todo)

Staged(k) ==
    /\ k.stage \in {"new", "hit"} => k.stack = <<>> /\ k.known = {} /\ k.outcome = Failure
    /\ k.url \in IF k.stage = "new" THEN {NoFile} ELSE Url
    /\ k.stage \notin {"delivering", "done"} => k.calls = <<>>
    /\ k.stage = "opening" => k.known = k.parsed /\ Wanted(k)
    /\ k.stage = "parsing" => k.known = k.parsed \cup {k.file} /\ Wanted(k)
    /\ k.stage \in {"including", "ready"} => k.known = k.parsed /\ k.stack # <<>>
    /\ k.stage = "ready" => Top(k).todo = <<>> /\ Document[Top(k).file].completes

Loading(k) == k \in CallType /\ Merged(k) /\ Stacked(k) /\ Explored(k) /\ Staged(k)

-----------------------------------------------------------------------------
(* What is within reach. *)
LEMMA ReachProperties ==
    ASSUME NEW f \in File
    PROVE  /\ f \in Reach[f] /\ Reach[f] \subseteq File
           /\ \A g \in Reach[f] : ToSet(Includes[g]) \subseteq Reach[f]
           /\ \A S \in SUBSET File :
                f \in S /\ (\A h \in S : ToSet(Includes[h]) \subseteq S) => Reach[f] \subseteq S
  <1>1. Reach[f] = {g \in File : \A S \in SUBSET File :
            f \in S /\ (\A h \in S : ToSet(Includes[h]) \subseteq S) => g \in S}
    BY DEF Reach
  <1>2. \A g \in File : ToSet(Includes[g]) \subseteq File
    BY IncludesAssumption DEF ToSet
  <1> QED BY <1>1, <1>2

\* What statements leave alone.
SameSearch(k, d) ==
    /\ d.url = k.url /\ d.cached = k.cached /\ d.stack = k.stack /\ d.known = k.known
    /\ d.parsed = k.parsed
SameTables(k, d) == d.merged = k.merged /\ d.schema = k.schema /\ d.content = k.content

SameAnswer(k, d) == d.outcome = k.outcome /\ d.calls = k.calls

LEMMA DeliverFrame ==
    ASSUME NEW k \in CallType, NEW o \in Outcome
    PROVE  LET d == Deliver(k, o) IN
           /\ d \in CallType /\ SameSearch(k, d) /\ SameTables(k, d)
           /\ d.stage = "delivering" /\ d.outcome = o /\ d.calls = k.calls
  BY DEF Deliver, CallType, SameSearch, SameTables, Stage

LEMMA RaiseFrame ==
    ASSUME NEW k \in CallType
    PROVE  LET d == Raise(k) IN
           /\ d \in CallType /\ SameSearch(k, d) /\ SameTables(k, d)
           /\ d.stage \in {"delivering", "done"} /\ d.outcome \in {k.outcome, Failure}
           /\ d.calls = k.calls
  <1>1. Failure \in Outcome
    BY DEF Failure, Outcome
  <1>2. CASE k.tries > 0
    <2> DEFINE t == [k EXCEPT !.tries = k.tries - 1]
    <2>1. k.tries - 1 \in Nat
      BY <1>2 DEF CallType
    <2>2. t \in CallType /\ SameSearch(k, t) /\ SameTables(k, t) /\ t.calls = k.calls
      BY <2>1 DEF CallType, SameSearch, SameTables
    <2>3. Raise(k) = Deliver(t, Failure)
      BY <1>2 DEF Raise
    <2> HIDE DEF t
    <2> QED BY <1>1, <2>2, <2>3, DeliverFrame DEF SameSearch, SameTables
  <1>3. CASE ~(k.tries > 0)
    BY <1>3 DEF Raise, CallType, SameSearch, SameTables, Stage
  <1> QED BY <1>2, <1>3

LEMMA ConstructFrame ==
    ASSUME NEW k \in CallType, NEW f \in File
    PROVE  LET d == Construct(k, f) IN
           /\ d \in CallType /\ d.url = k.url /\ d.cached = k.cached /\ d.stack = k.stack
           /\ d.known = k.known \cup {f} /\ d.parsed = k.parsed
           /\ SameTables(k, d) /\ SameAnswer(k, d)
           /\ d.stage = "parsing" /\ d.file = f
  BY DEF Construct, CallType, SameTables, SameAnswer, Stage

LEMMA OpenWsdlFrame ==
    ASSUME NEW k \in CallType, NEW f \in File
    PROVE  LET d == OpenWsdl(k, f) IN
           /\ d \in CallType /\ d.url = k.url /\ d.cached = k.cached /\ d.stack = k.stack
           /\ d.parsed = k.parsed
           /\ SameTables(k, d) /\ SameAnswer(k, d) /\ d.file = f
           /\ \/ d.stage = "opening" /\ d.known = k.known
              \/ d.stage = "parsing" /\ d.known = k.known \cup {f}
  <1> DEFINE t == [k EXCEPT !.tries = 0]
  <1>1. t \in CallType /\ SameSearch(k, t) /\ SameTables(k, t) /\ SameAnswer(k, t)
    BY DEF CallType, SameSearch, SameTables, SameAnswer
  <1> HIDE DEF t
  <1>2. CASE Document[f].inline
    <2>1. OpenWsdl(k, f) = Construct(t, f)
      BY <1>2 DEF OpenWsdl, t
    <2> QED BY <1>1, <2>1, ConstructFrame DEF SameSearch, SameTables, SameAnswer
  <1>3. CASE ~Document[f].inline
    <2> DEFINE d == [t EXCEPT !.stage = "opening", !.file = f]
    <2>1. OpenWsdl(k, f) = d
      BY <1>3 DEF OpenWsdl, t
    <2>2. d \in CallType /\ SameSearch(t, d) /\ SameTables(t, d) /\ SameAnswer(t, d)
          /\ d.stage = "opening" /\ d.file = f
      BY <1>1 DEF CallType, SameSearch, SameTables, SameAnswer, Stage
    <2> QED BY <1>1, <2>1, <2>2 DEF SameSearch, SameTables, SameAnswer
  <1> QED BY <1>2, <1>3

\* The tables of a load, and the stack, with a new document on top.
LEMMA StartIncludesFrame ==
    ASSUME NEW k \in CallType, k.file \in File
    PROVE  LET d == StartIncludes(k)
               f == k.file IN
           /\ d \in CallType /\ d.url = k.url /\ d.cached = k.cached /\ d.known = k.known
           /\ d.parsed = k.parsed \cup {f} /\ d.stage = "including" /\ SameAnswer(k, d)
           /\ d.stack = Append(k.stack, [file |-> f, todo |-> Includes[f]])
           /\ d.merged = [k.merged EXCEPT ![f] = {f}]
           /\ d.schema = [k.schema EXCEPT ![f] =
                 [ns \in Namespace |-> IF ns \in NamespacesOf[f] THEN f ELSE NoFile]]
           /\ d.content = [k.content EXCEPT ![f] =
                 [ns \in Namespace |-> IF ns \in NamespacesOf[f] THEN {f} ELSE {}]]
  <1> DEFINE f == k.file
             st == Append(k.stack, [file |-> f, todo |-> Includes[f]])
             me == [k.merged EXCEPT ![f] = {f}]
             sc == [k.schema EXCEPT ![f] =
                 [ns \in Namespace |-> IF ns \in NamespacesOf[f] THEN f ELSE NoFile]]
             co == [k.content EXCEPT ![f] =
                 [ns \in Namespace |-> IF ns \in NamespacesOf[f] THEN {f} ELSE {}]]
  <1>1. /\ k.stack \in Seq([file : File, todo : Seq(File)])
        /\ k.merged \in [File -> SUBSET File]
        /\ k.schema \in [File -> [Namespace -> File \cup {NoFile}]]
        /\ k.content \in [File -> [Namespace -> SUBSET File]]
        /\ k.parsed \subseteq File
    BY DEF CallType
  <1>2. [file |-> f, todo |-> Includes[f]] \in [file : File, todo : Seq(File)]
    BY IncludesAssumption
  <1>3. st \in Seq([file : File, todo : Seq(File)])
    BY <1>1, <1>2, AppendProperties
  <1>4. me \in [File -> SUBSET File]
    BY <1>1
  <1>5. sc \in [File -> [Namespace -> File \cup {NoFile}]]
    BY <1>1
  <1>6. co \in [File -> [Namespace -> SUBSET File]]
    BY <1>1
  <1>7. StartIncludes(k) =
          [k EXCEPT !.stage = "including", !.parsed = k.parsed \cup {f},
                    !.merged = me, !.schema = sc, !.content = co, !.stack = st]
    BY DEF StartIncludes, CallType
  <1> HIDE DEF st, me, sc, co
  <1>8. StartIncludes(k) \in CallType
    <2>1. k.parsed \cup {f} \in SUBSET File
      BY <1>1
    <2> HIDE DEF f
    <2> QED BY <1>3, <1>4, <1>5, <1>6, <1>7, <2>1 DEF CallType, Stage
  <1>9. LET d == StartIncludes(k) IN
           /\ d.url = k.url /\ d.cached = k.cached /\ d.known = k.known
           /\ d.parsed = k.parsed \cup {f} /\ d.stage = "including" /\ SameAnswer(k, d)
           /\ d.stack = st /\ d.merged = me /\ d.schema = sc /\ d.content = co
    BY <1>7 DEF CallType, SameAnswer
  <1> QED BY <1>8, <1>9 DEF st, me, sc, co

\* What is merged: schemas that f lacks are shared, those both have grow.
LEMMA MergeIntoFrame ==
    ASSUME NEW k \in CallType, NEW f \in File, NEW g \in File
    PROVE  LET d == MergeInto(k, f, g) IN
           /\ d \in CallType /\ SameSearch(k, d) /\ SameAnswer(k, d) /\ d.stage = k.stage
           /\ d.merged[f] = k.merged[f] \cup k.merged[g]
           /\ \A ns \in Namespace : d.schema[f][ns] =
                 IF k.schema[f][ns] = NoFile THEN k.schema[g][ns] ELSE k.schema[f][ns]
           /\ \A x \in File \ {f} : d.merged[x] = k.merged[x] /\ d.schema[x] = k.schema[x]
           /\ \A x \in File, ns \in Namespace : k.content[x][ns] \subseteq d.content[x][ns]
           /\ \A ns \in Namespace : k.schema[f][ns] # NoFile /\ k.schema[g][ns] # NoFile =>
                 k.content[k.schema[g][ns]][ns] \subseteq d.content[k.schema[f][ns]][ns]
  <1> DEFINE both == {ns \in Namespace : k.schema[f][ns] # NoFile /\ k.schema[g][ns] # NoFile}
             me == [k.merged EXCEPT ![f] = k.merged[f] \cup k.merged[g]]
             sc == [k.schema EXCEPT ![f] = [ns \in Namespace |->
                 IF k.schema[f][ns] = NoFile THEN k.schema[g][ns] ELSE k.schema[f][ns]]]
             co == [h \in File |-> [ns \in Namespace |->
                IF ns \in both /\ h = k.schema[f][ns]
                THEN k.content[h][ns] \cup k.content[k.schema[g][ns]][ns] ELSE k.content[h][ns]]]
  <1>1. /\ k.merged \in [File -> SUBSET File]
        /\ k.schema \in [File -> [Namespace -> File \cup {NoFile}]]
        /\ k.content \in [File -> [Namespace -> SUBSET File]]
    BY DEF CallType
  <1>2. /\ me \in [File -> SUBSET File] /\ me[f] = k.merged[f] \cup k.merged[g]
        /\ \A x \in File \ {f} : me[x] = k.merged[x]
    BY <1>1
  <1>3. /\ sc \in [File -> [Namespace -> File \cup {NoFile}]]
        /\ \A x \in File \ {f} : sc[x] = k.schema[x]
        /\ \A ns \in Namespace : sc[f][ns] =
              IF k.schema[f][ns] = NoFile THEN k.schema[g][ns] ELSE k.schema[f][ns]
    BY <1>1
  <1>4. \A ns \in both : k.schema[f][ns] \in File /\ k.schema[g][ns] \in File
    BY <1>1
  <1>5. co \in [File -> [Namespace -> SUBSET File]]
    BY <1>1, <1>4
  <1>6. \A x \in File, ns \in Namespace : k.content[x][ns] \subseteq co[x][ns]
    OBVIOUS
  <1>7. \A ns \in both : k.content[k.schema[g][ns]][ns] \subseteq co[k.schema[f][ns]][ns]
    BY <1>4
  <1>8. MergeInto(k, f, g) = [k EXCEPT !.merged = me, !.schema = sc, !.content = co]
    BY DEF MergeInto, CallType
  <1> HIDE DEF me, sc, co
  <1>9. MergeInto(k, f, g) \in CallType
    BY <1>2, <1>3, <1>5, <1>8 DEF CallType
  <1>10. LET d == MergeInto(k, f, g) IN
           /\ SameSearch(k, d) /\ SameAnswer(k, d) /\ d.stage = k.stage
           /\ d.merged = me /\ d.schema = sc /\ d.content = co
    BY <1>8 DEF CallType, SameAnswer, SameSearch
  <1> QED BY <1>2, <1>3, <1>6, <1>7, <1>9, <1>10

LEMMA MergeIntoMerged ==
    ASSUME NEW k \in CallType, NEW f \in k.parsed, NEW g \in k.parsed, Merged(k)
    PROVE  Merged(MergeInto(k, f, g))
  <1> DEFINE d == MergeInto(k, f, g)
  <1>1. k.parsed \subseteq File /\ f \in File /\ g \in File
    BY DEF CallType
  <1>2. d.parsed = k.parsed
    BY <1>1, MergeIntoFrame DEF SameSearch
  <1>3. k.schema \in [File -> [Namespace -> File \cup {NoFile}]]
    BY DEF CallType
  <1>4. \A x \in File, ns \in Namespace : k.content[x][ns] \subseteq d.content[x][ns]
    BY <1>1, MergeIntoFrame
  <1>5. \A ns \in Namespace : k.schema[f][ns] # NoFile /\ k.schema[g][ns] # NoFile =>
            k.content[k.schema[g][ns]][ns] \subseteq d.content[k.schema[f][ns]][ns]
    BY <1>1, MergeIntoFrame
  <1>6. \A x \in File \ {f} : d.merged[x] = k.merged[x] /\ d.schema[x] = k.schema[x]
    BY <1>1, MergeIntoFrame
  <1>7. /\ d.merged[f] = k.merged[f] \cup k.merged[g]
        /\ \A ns \in Namespace : d.schema[f][ns] =
              IF k.schema[f][ns] = NoFile THEN k.schema[g][ns] ELSE k.schema[f][ns]
    BY <1>1, MergeIntoFrame
  <1> HIDE DEF d
  <1>8. ASSUME NEW x \in k.parsed
        PROVE  /\ x \in d.merged[x] /\ d.merged[x] \subseteq k.parsed
               /\ \A ns \in Namespace : d.schema[x][ns] \in k.parsed \cup {NoFile}
    BY <1>1, <1>6, <1>7 DEF Merged
  <1>9. ASSUME NEW x \in k.parsed, NEW h \in k.merged[x] PROVE Held(d, x, h)
    <2> SUFFICES ASSUME NEW ns \in NamespacesOf[h] \cap Namespace
                 PROVE  d.schema[x][ns] # NoFile /\ h \in d.content[d.schema[x][ns]][ns]
      BY DEF Held
    <2>1. k.schema[x][ns] # NoFile /\ h \in k.content[k.schema[x][ns]][ns]
      BY DEF Merged, Held
    <2>2. k.schema[x][ns] \in File
      BY <1>1, <1>3, <2>1
    <2>3. d.schema[x][ns] = k.schema[x][ns]
      BY <1>1, <1>6, <1>7, <2>1
    <2> QED BY <1>4, <2>1, <2>2, <2>3
  <1>10. ASSUME NEW h \in k.merged[g] PROVE Held(d, f, h)
    <2> SUFFICES ASSUME NEW ns \in NamespacesOf[h] \cap Namespace
                 PROVE  d.schema[f][ns] # NoFile /\ h \in d.content[d.schema[f][ns]][ns]
      BY DEF Held
    <2>1. k.schema[g][ns] # NoFile /\ h \in k.content[k.schema[g][ns]][ns]
      BY DEF Merged, Held
    <2>2. k.schema[g][ns] \in File
      BY <1>1, <1>3, <2>1
    <2>3. CASE k.schema[f][ns] = NoFile
      <3>1. d.schema[f][ns] = k.schema[g][ns]
        BY <1>7, <2>3
      <3> QED BY <1>4, <2>1, <2>2, <3>1
    <2>4. CASE k.schema[f][ns] # NoFile
      <3>1. d.schema[f][ns] = k.schema[f][ns]
        BY <1>7, <2>4
      <3> QED BY <1>5, <2>1, <2>4, <3>1
    <2> QED BY <2>3, <2>4
  <1>11. ASSUME NEW x \in k.parsed, NEW h \in d.merged[x] PROVE Held(d, x, h)
    <2>1. CASE h \in k.merged[x]
      BY <1>9, <2>1
    <2>2. CASE h \notin k.merged[x]
      BY <1>1, <1>6, <1>7, <1>10, <2>2
    <2> QED BY <2>1, <2>2
  <1>12. Merged(d)
    BY <1>2, <1>8, <1>11 DEF Merged
  <1> QED BY <1>12 DEF d

-----------------------------------------------------------------------------
(* The stack of a load. *)

Frame == [file : File, todo : Seq(File)]

LEMMA StackType ==
    ASSUME NEW k \in CallType
    PROVE  /\ k.stack \in Seq(Frame) /\ Len(k.stack) \in Nat /\ DOMAIN k.stack = 1..Len(k.stack)
           /\ k.stack # <<>> => /\ Len(k.stack) \in DOMAIN k.stack /\ 1 \in DOMAIN k.stack
                                /\ Top(k) = k.stack[Len(k.stack)] /\ Top(k) \in Frame
           /\ \A i \in DOMAIN k.stack : k.stack[i] \in Frame
  <1>1. k.stack \in Seq(Frame)
    BY DEF CallType, Frame
  <1>2. Len(k.stack) \in Nat /\ DOMAIN k.stack = 1..Len(k.stack)
    BY <1>1, LenProperties
  <1>3. \A i \in DOMAIN k.stack : k.stack[i] \in Frame
    BY <1>1, <1>2, ElementOfSeq
  <1>4. k.stack # <<>> => Len(k.stack) # 0
    BY <1>1, EmptySeq
  <1>5. k.stack # <<>> => Len(k.stack) \in DOMAIN k.stack /\ 1 \in DOMAIN k.stack
    BY <1>2, <1>4
  <1> QED BY <1>1, <1>2, <1>3, <1>5 DEF Top, Last

LEMMA HeadAndTail ==
    ASSUME NEW s \in Seq(File), s # <<>>
    PROVE  /\ Head(s) \in ToSet(s) /\ Head(s) \in File /\ Tail(s) \in Seq(File)
           /\ ToSet(s) = {Head(s)} \cup ToSet(Tail(s))
  <1>1. /\ Head(s) \in File /\ Tail(s) \in Seq(File) /\ Len(Tail(s)) = Len(s) - 1
        /\ \A i \in 1..Len(Tail(s)) : Tail(s)[i] = s[i + 1]
    BY HeadTailProperties
  <1>2. Len(s) \in Nat /\ Len(s) # 0 /\ DOMAIN s = 1..Len(s) /\ Head(s) = s[1]
    BY LenProperties, EmptySeq
  <1>3. DOMAIN Tail(s) = 1..(Len(s) - 1)
    BY <1>1, LenProperties
  <1>4. ASSUME NEW i \in DOMAIN s PROVE s[i] \in {Head(s)} \cup ToSet(Tail(s))
    <2>1. CASE i = 1
      BY <1>2, <2>1
    <2>2. CASE i # 1
      <3>1. i - 1 \in DOMAIN Tail(s) /\ Tail(s)[i - 1] = s[i]
        BY <1>1, <1>2, <1>3, <2>2
      <3> QED BY <3>1 DEF ToSet
    <2> QED BY <2>1, <2>2
  <1>5. ASSUME NEW i \in DOMAIN Tail(s) PROVE Tail(s)[i] \in ToSet(s)
    <2>1. i + 1 \in DOMAIN s /\ Tail(s)[i] = s[i + 1]
      BY <1>1, <1>2, <1>3
    <2> QED BY <2>1 DEF ToSet
  <1>6. Head(s) \in ToSet(s)
    BY <1>2 DEF ToSet
  <1> QED BY <1>1, <1>4, <1>5, <1>6 DEF ToSet

\* What a step that neither opens nor parses a document starts from, and keeps.
Stable(k) == k \in CallType /\ Merged(k) /\ Stacked(k) /\ Explored(k)

LEMMA SettlesLoading ==
    ASSUME NEW k, Loading(k), k.stage # "new",
           NEW d \in CallType, SameSearch(k, d), SameTables(k, d),
           d.stage \in {"delivering", "done"}
    PROVE  Loading(d)
  <1>1. Merged(d)
    BY DEF Loading, Merged, Held, SameSearch, SameTables
  <1>2. Stacked(d)
    BY DEF Loading, Stacked, SameSearch, SameTables
  <1>3. Explored(d)
    BY DEF Loading, Explored, OnStack, SameSearch, SameTables
  <1>4. Staged(d)
    BY DEF Loading, Staged, SameSearch
  <1> QED BY <1>1, <1>2, <1>3, <1>4 DEF Loading

LEMMA OpensLoading ==
    ASSUME NEW k, Stable(k), k.known = k.parsed, k.calls = <<>>, k.url \in Url,
           NEW g \in Reach[k.url] \ k.parsed,
           IF k.stack = <<>> THEN g = k.url ELSE Top(k).todo # <<>> /\ g = Head(Top(k).todo)
    PROVE  Loading(OpenWsdl(k, g))
  <1> DEFINE d == OpenWsdl(k, g)
  <1>1. g \in File /\ k \in CallType /\ k.url \in File
    BY ReachProperties, DocumentAssumption DEF Stable
  <1>2. /\ d \in CallType /\ d.url = k.url /\ d.stack = k.stack /\ d.parsed = k.parsed
        /\ SameTables(k, d) /\ SameAnswer(k, d) /\ d.file = g
        /\ \/ d.stage = "opening" /\ d.known = k.known
           \/ d.stage = "parsing" /\ d.known = k.known \cup {g}
    BY <1>1, OpenWsdlFrame
  <1> HIDE DEF d
  <1>3. Merged(d)
    BY <1>2 DEF Stable, Merged, Held, SameTables
  <1>4. Stacked(d)
    BY <1>2 DEF Stable, Stacked
  <1>5. Explored(d)
    <2>1. d.known # {} => d.known \subseteq Reach[k.url]
      BY <1>2 DEF Stable, Explored
    <2>2. d.parsed \subseteq d.known
      BY <1>2
    <2> QED BY <1>2, <2>1, <2>2 DEF Stable, Explored, OnStack, SameTables
  <1>6. Wanted(d)
    BY <1>2 DEF Wanted, Top
  <1>7. Staged(d)
    BY <1>2, <1>6 DEF Staged, SameAnswer
  <1> QED BY <1>2, <1>3, <1>4, <1>5, <1>7 DEF Loading, d

LEMMA ConstructLoading ==
    ASSUME NEW k, Loading(k), k.stage = "opening"
    PROVE  Loading(Construct(k, k.file))
  <1> DEFINE d == Construct(k, k.file)
  <1>1. k.file \in Reach[k.url] \ k.parsed /\ k.url \in File /\ k.known = k.parsed /\ Wanted(k)
        /\ k.url \in Url /\ k.calls = <<>>
    BY DocumentAssumption DEF Loading, Staged, Wanted
  <1>2. k.file \in File /\ k \in CallType
    BY <1>1, ReachProperties DEF Loading
  <1>3. /\ d \in CallType /\ d.url = k.url /\ d.cached = k.cached /\ d.stack = k.stack
        /\ d.known = k.known \cup {k.file} /\ d.parsed = k.parsed
        /\ SameTables(k, d) /\ SameAnswer(k, d)
        /\ d.stage = "parsing" /\ d.file = k.file
    BY <1>2, ConstructFrame
  <1> HIDE DEF d
  <1>4. Merged(d)
    BY <1>3 DEF Loading, Merged, Held, SameTables
  <1>5. Stacked(d)
    BY <1>3 DEF Loading, Stacked
  <1>6. Explored(d)
    <2>1. d.known # {} => d.known \subseteq Reach[k.url]
      BY <1>1, <1>3 DEF Loading, Explored
    <2> QED BY <1>1, <1>3, <2>1 DEF Loading, Explored, OnStack, SameTables
  <1>7. Wanted(d)
    BY <1>1, <1>3 DEF Wanted, Top
  <1>8. Staged(d)
    BY <1>1, <1>3, <1>7 DEF Staged, SameAnswer
  <1> QED BY <1>3, <1>4, <1>5, <1>6, <1>8 DEF Loading, d

\* The document that was parsed takes the top of the stack.
LEMMA StartIncludesLoading ==
    ASSUME NEW k, Loading(k), k.stage = "parsing", Document[k.file].parses
    PROVE  Loading(StartIncludes(k))
  <1> DEFINE d == StartIncludes(k)
             f == k.file
             top == [file |-> f, todo |-> Includes[f]]
             n == Len(k.stack)
  <1>1. /\ f \in Reach[k.url] \ k.parsed /\ k.url \in Url /\ k.url \in File /\ k.calls = <<>>
        /\ k.known = k.parsed \cup {f} /\ Wanted(k) /\ k \in CallType
    BY DocumentAssumption DEF Loading, Staged, Wanted
  <1>2. f \in File
    BY <1>1, ReachProperties
  <1>3. /\ d \in CallType /\ d.url = k.url /\ d.known = k.known
        /\ d.parsed = k.parsed \cup {f} /\ d.stage = "including" /\ SameAnswer(k, d)
        /\ d.stack = Append(k.stack, top)
        /\ d.merged = [k.merged EXCEPT ![f] = {f}]
        /\ d.schema = [k.schema EXCEPT ![f] =
              [ns \in Namespace |-> IF ns \in NamespacesOf[f] THEN f ELSE NoFile]]
        /\ d.content = [k.content EXCEPT ![f] =
              [ns \in Namespace |-> IF ns \in NamespacesOf[f] THEN {f} ELSE {}]]
    BY <1>1, <1>2, StartIncludesFrame
  <1>4. top \in Frame /\ top.file = f /\ top.todo = Includes[f]
    BY <1>2, IncludesAssumption DEF Frame
  <1> HIDE DEF d, top
  <1>5. k.stack \in Seq(Frame) /\ n \in Nat /\ DOMAIN k.stack = 1..n
    BY <1>1, StackType
  <1>6. /\ DOMAIN d.stack = 1..(n + 1) /\ Len(d.stack) = n + 1
        /\ \A i \in 1..n : d.stack[i] = k.stack[i]
        /\ d.stack[n + 1] = top
    BY <1>3, <1>4, <1>5, AppendProperties
  <1>7. /\ k.merged \in [File -> SUBSET File] /\ k.parsed \subseteq File
        /\ k.schema \in [File -> [Namespace -> File \cup {NoFile}]]
        /\ k.content \in [File -> [Namespace -> SUBSET File]]
    BY <1>1 DEF CallType
  <1>8. Merged(d)
    <2>1. /\ d.merged[f] = {f}
          /\ \A ns \in Namespace : d.schema[f][ns] = IF ns \in NamespacesOf[f] THEN f ELSE NoFile
          /\ \A ns \in Namespace :
                d.content[f][ns] = IF ns \in NamespacesOf[f] THEN {f} ELSE {}
      BY <1>2, <1>3, <1>7
    <2>2. \A g \in k.parsed : /\ d.merged[g] = k.merged[g] /\ d.schema[g] = k.schema[g]
                              /\ d.content[g] = k.content[g] /\ g # f
      BY <1>1, <1>3, <1>7
    <2>3. Held(d, f, f)
      <3> SUFFICES ASSUME NEW ns \in NamespacesOf[f] \cap Namespace
                   PROVE  d.schema[f][ns] # NoFile /\ f \in d.content[d.schema[f][ns]][ns]
        BY DEF Held
      <3> QED BY <1>2, <2>1, DocumentAssumption
    <2>4. ASSUME NEW g \in k.parsed, NEW h \in k.merged[g] PROVE Held(d, g, h)
      <3> SUFFICES ASSUME NEW ns \in NamespacesOf[h] \cap Namespace
                   PROVE  d.schema[g][ns] # NoFile /\ h \in d.content[d.schema[g][ns]][ns]
        BY DEF Held
      <3>1. k.schema[g][ns] # NoFile /\ h \in k.content[k.schema[g][ns]][ns]
        BY DEF Loading, Merged, Held
      <3>2. k.schema[g][ns] \in k.parsed
        BY <3>1 DEF Loading, Merged
      <3> QED BY <2>2, <3>1, <3>2
    <2>5. ASSUME NEW g \in d.parsed
          PROVE  /\ g \in d.merged[g] /\ d.merged[g] \subseteq d.parsed
                 /\ \A h \in d.merged[g] : Held(d, g, h)
                 /\ \A ns \in Namespace : d.schema[g][ns] \in d.parsed \cup {NoFile}
      <3>1. CASE g = f
        BY <1>3, <2>1, <2>3, <3>1
      <3>2. CASE g \in k.parsed
        BY <1>3, <2>2, <2>4, <3>2 DEF Loading, Merged
      <3> QED BY <1>3, <3>1, <3>2
    <2> QED BY <2>5 DEF Merged
  <1>9. ASSUME n # 0 PROVE k.stack[n].todo # <<>> /\ f = Head(k.stack[n].todo)
    <2>1. k.stack # <<>>
      BY <1>5, <1>9
    <2> QED BY <1>1, <2>1 DEF Wanted, Top, Last
  <1>10. Stacked(d)
    <2>1. ASSUME NEW i \in 1..n, NEW j \in 1..n, k.stack[i].file = k.stack[j].file
          PROVE  i = j
      BY <1>5, <2>1 DEF Loading, Stacked
    <2>2. \A i \in 1..n : k.stack[i].file # f
      BY <1>1, <1>5 DEF Loading, Stacked
    <2>3. ASSUME NEW i \in 1..(n + 1), NEW j \in 1..(n + 1), d.stack[i].file = d.stack[j].file
          PROVE  i = j
      <3>1. CASE i \in 1..n /\ j \in 1..n
        BY <1>6, <2>1, <2>3, <3>1
      <3>2. CASE i \in 1..n /\ j = n + 1
        BY <1>4, <1>6, <2>2, <2>3, <3>2
      <3>3. CASE i = n + 1 /\ j \in 1..n
        BY <1>4, <1>6, <2>2, <2>3, <3>3
      <3> QED BY <1>5, <3>1, <3>2, <3>3
    <2>4. d.stack[1].file = d.url
      <3>1. CASE n = 0
        <4>1. k.stack = <<>>
          BY <1>5, <3>1, EmptySeq
        <4>2. f = k.url
          BY <1>1, <4>1 DEF Wanted
        <4> QED BY <1>3, <1>4, <1>6, <3>1, <4>2
      <3>2. CASE n # 0
        <4>1. k.stack # <<>> /\ 1 \in 1..n
          BY <1>5, <3>2
        <4> QED BY <1>3, <1>6, <4>1 DEF Loading, Stacked
      <3> QED BY <3>1, <3>2
    <2>5. ASSUME NEW i \in 1..(n + 1)
          PROVE  /\ d.stack[i].file \in d.parsed
                 /\ ToSet(d.stack[i].todo) \subseteq ToSet(Includes[d.stack[i].file])
                 /\ ToSet(Includes[d.stack[i].file]) \subseteq d.parsed \cup ToSet(d.stack[i].todo)
                 /\ i + 1 \in 1..(n + 1) =>
                       d.stack[i].todo # <<>> /\ d.stack[i + 1].file = Head(d.stack[i].todo)
      <3>1. CASE i = n + 1
        <4>1. i + 1 \notin 1..(n + 1)
          BY <1>5, <3>1
        <4> QED BY <1>3, <1>4, <1>6, <3>1, <4>1
      <3>2. CASE i \in 1..n
        <4>1. d.stack[i] = k.stack[i]
          BY <1>6, <3>2
        <4>2. /\ d.stack[i].file \in d.parsed
              /\ ToSet(d.stack[i].todo) \subseteq ToSet(Includes[d.stack[i].file])
              /\ ToSet(Includes[d.stack[i].file]) \subseteq d.parsed \cup ToSet(d.stack[i].todo)
          BY <1>3, <1>5, <3>2, <4>1 DEF Loading, Stacked
        <4>3. CASE i = n
          BY <1>4, <1>5, <1>6, <1>9, <3>2, <4>1, <4>2, <4>3
        <4>4. CASE i # n
          <5>1. i + 1 \in 1..n
            BY <1>5, <3>2, <4>4
          <5>2. k.stack[i].todo # <<>> /\ k.stack[i + 1].file = Head(k.stack[i].todo)
            BY <1>5, <3>2, <5>1 DEF Loading, Stacked
          <5> QED BY <1>6, <4>1, <4>2, <5>1, <5>2
        <4> QED BY <4>3, <4>4
      <3> QED BY <1>5, <3>1, <3>2
    <2> QED BY <1>6, <2>3, <2>4, <2>5 DEF Stacked
  <1>11. Explored(d)
    <2>1. d.parsed \subseteq d.known
      BY <1>1, <1>3
    <2>2. d.known # {} => d.known \subseteq Reach[d.url]
      BY <1>1, <1>3 DEF Loading, Explored
    <2>3. \A h \in d.parsed : Document[h].parses
      BY <1>3 DEF Loading, Explored
    <2>4. ASSUME NEW h \in d.parsed \ OnStack(d)
          PROVE  Document[h].completes /\ ToSet(Includes[h]) \subseteq d.parsed
      <3>1. n + 1 \in DOMAIN d.stack /\ d.stack[n + 1].file = f
        BY <1>4, <1>5, <1>6
      <3>2. h # f
        BY <3>1 DEF OnStack
      <3>3. h \notin OnStack(k)
        <4>1. \A i \in 1..n : i \in DOMAIN d.stack /\ d.stack[i].file = k.stack[i].file
          BY <1>5, <1>6
        <4> QED BY <1>5, <4>1 DEF OnStack
      <3> QED BY <1>3, <3>2, <3>3 DEF Loading, Explored
    <2>5. ASSUME NEW h \in d.parsed
          PROVE  \E i \in DOMAIN d.stack : h \in d.merged[d.stack[i].file]
      <3>1. CASE h = f
        <4>1. n + 1 \in DOMAIN d.stack /\ d.stack[n + 1].file = f
          BY <1>4, <1>5, <1>6
        <4>2. f \in d.merged[f]
          BY <1>2, <1>3, <1>7
        <4> QED BY <3>1, <4>1, <4>2
      <3>2. CASE h # f
        <4>1. PICK i \in DOMAIN k.stack : h \in k.merged[k.stack[i].file]
          BY <1>3, <3>2 DEF Loading, Explored
        <4>2. k.stack[i].file \in k.parsed
          BY DEF Loading, Stacked
        <4>3. d.merged[k.stack[i].file] = k.merged[k.stack[i].file]
          BY <1>1, <1>3, <1>7, <4>2
        <4>4. i \in DOMAIN d.stack /\ d.stack[i].file = k.stack[i].file
          BY <1>5, <1>6
        <4> QED BY <4>1, <4>3, <4>4
      <3> QED BY <3>1, <3>2
    <2> QED BY <2>1, <2>2, <2>3, <2>4, <2>5 DEF Explored
  <1>12. Staged(d)
    <2>1. d.stack # <<>>
      BY <1>3, <1>4, <1>5, AppendProperties
    <2>2. d.known = d.parsed
      BY <1>1, <1>3
    <2> QED BY <1>1, <1>3, <2>1, <2>2 DEF Staged, SameAnswer
  <1> QED BY <1>3, <1>8, <1>10, <1>11, <1>12 DEF Loading, d

\* The include at the head of the list on top of the stack is done with.
LEMMA DoneFrame ==
    ASSUME NEW k \in CallType, k.stack # <<>>, Top(k).todo # <<>>
    PROVE  LET d == DoneWithInclude(k)
               n == Len(k.stack) IN
           /\ d \in CallType /\ d.url = k.url /\ d.cached = k.cached /\ d.known = k.known
           /\ d.parsed = k.parsed /\ SameTables(k, d) /\ SameAnswer(k, d) /\ d.stage = k.stage
           /\ DOMAIN d.stack = 1..n /\ Len(d.stack) = n /\ n \in Nat \ {0}
           /\ \A i \in 1..n : i # n => d.stack[i] = k.stack[i]
           /\ d.stack[n].file = k.stack[n].file /\ d.stack[n].todo = Tail(k.stack[n].todo)
  <1> DEFINE d == DoneWithInclude(k)
             n == Len(k.stack)
             top == [k.stack[n] EXCEPT !.todo = Tail(k.stack[n].todo)]
             st == [k.stack EXCEPT ![n] = top]
  <1>1. /\ k.stack \in Seq(Frame) /\ n \in Nat /\ DOMAIN k.stack = 1..n /\ n \in 1..n
        /\ Top(k) = k.stack[n] /\ k.stack[n] \in Frame
    BY StackType
  <1>2. Tail(k.stack[n].todo) \in Seq(File)
    BY <1>1, HeadAndTail DEF Frame
  <1>3. top \in Frame /\ top.file = k.stack[n].file /\ top.todo = Tail(k.stack[n].todo)
    BY <1>1, <1>2 DEF Frame
  <1> HIDE DEF top
  <1>4. /\ st \in Seq(Frame) /\ Len(st) = n
        /\ \A j \in 1..n : st[j] = IF j = n THEN top ELSE k.stack[j]
    BY <1>1, <1>3, ExceptSeq
  <1>5. d = [k EXCEPT !.stack = st]
    BY DEF DoneWithInclude, CallType, top
  <1>6. DOMAIN st = 1..n
    BY <1>4, LenProperties
  <1> HIDE DEF st, d
  <1>7. d \in CallType
    BY <1>4, <1>5 DEF CallType, Frame
  <1>8. /\ d.url = k.url /\ d.cached = k.cached /\ d.known = k.known
        /\ d.parsed = k.parsed /\ SameTables(k, d) /\ SameAnswer(k, d) /\ d.stage = k.stage
        /\ d.stack = st
    BY <1>5 DEF CallType, SameTables, SameAnswer
  <1>9. n # 0
    BY <1>1
  <1> QED BY <1>1, <1>3, <1>4, <1>6, <1>7, <1>8, <1>9 DEF d

LEMMA DoneLoading ==
    ASSUME NEW k, Stable(k), k.stage = "including", k.known = k.parsed, k.url \in Url,
           k.calls = <<>>, k.stack # <<>>, Top(k).todo # <<>>, Head(Top(k).todo) \in k.parsed
    PROVE  Loading(DoneWithInclude(k))
  <1> DEFINE d == DoneWithInclude(k)
             n == Len(k.stack)
             f == k.stack[n].file
             todo == k.stack[n].todo
  <1>1. k \in CallType /\ DOMAIN k.stack = 1..n /\ Top(k) = k.stack[n] /\ k.stack[n] \in Frame
    BY StackType DEF Stable
  <1>2. /\ d \in CallType /\ d.url = k.url /\ d.known = k.known
        /\ d.parsed = k.parsed /\ SameTables(k, d) /\ SameAnswer(k, d) /\ d.stage = k.stage
        /\ DOMAIN d.stack = 1..n /\ Len(d.stack) = n /\ n \in Nat \ {0}
        /\ \A i \in 1..n : i # n => d.stack[i] = k.stack[i]
        /\ d.stack[n].file = f /\ d.stack[n].todo = Tail(todo)
    BY <1>1, DoneFrame
  <1>3. todo \in Seq(File) /\ todo # <<>> /\ Head(todo) \in k.parsed
    BY <1>1 DEF Frame
  <1>4. ToSet(todo) = {Head(todo)} \cup ToSet(Tail(todo))
    BY <1>3, HeadAndTail
  <1> HIDE DEF d, n
  <1>5. \A i \in 1..n : d.stack[i].file = k.stack[i].file
    BY <1>2
  <1>6. Merged(d)
    BY <1>2 DEF Stable, Merged, Held, SameTables
  <1>7. Stacked(d)
    <2>1. \A i, j \in 1..n : d.stack[i].file = d.stack[j].file => i = j
      BY <1>1, <1>5 DEF Stable, Stacked
    <2>2. d.stack[1].file = d.url
      BY <1>2, <1>5 DEF Stable, Stacked
    <2>3. ASSUME NEW i \in 1..n
          PROVE  /\ d.stack[i].file \in d.parsed
                 /\ ToSet(d.stack[i].todo) \subseteq ToSet(Includes[d.stack[i].file])
                 /\ ToSet(Includes[d.stack[i].file]) \subseteq d.parsed \cup ToSet(d.stack[i].todo)
                 /\ i + 1 \in 1..n =>
                       d.stack[i].todo # <<>> /\ d.stack[i + 1].file = Head(d.stack[i].todo)
      <3>1. /\ k.stack[i].file \in k.parsed
            /\ ToSet(k.stack[i].todo) \subseteq ToSet(Includes[k.stack[i].file])
            /\ ToSet(Includes[k.stack[i].file]) \subseteq k.parsed \cup ToSet(k.stack[i].todo)
            /\ i + 1 \in 1..n =>
                  k.stack[i].todo # <<>> /\ k.stack[i + 1].file = Head(k.stack[i].todo)
        BY <1>1 DEF Stable, Stacked
      <3>2. CASE i # n
        BY <1>2, <1>5, <3>1, <3>2
      <3>3. CASE i = n
        <4>1. i + 1 \notin 1..n
          BY <1>2, <3>3
        <4> QED BY <1>2, <1>3, <1>4, <3>1, <3>3, <4>1
      <3> QED BY <3>2, <3>3
    <2> QED BY <1>2, <2>1, <2>2, <2>3 DEF Stacked
  <1>8. Explored(d)
    <2>1. OnStack(d) = OnStack(k)
      BY <1>1, <1>2, <1>5 DEF OnStack
    <2>2. ASSUME NEW h \in k.parsed PROVE \E i \in 1..n : h \in d.merged[d.stack[i].file]
      <3>1. PICK i \in 1..n : h \in k.merged[k.stack[i].file]
        BY <1>1 DEF Stable, Explored
      <3> QED BY <1>2, <1>5, <3>1 DEF SameTables
    <2> QED BY <1>2, <2>1, <2>2 DEF Stable, Explored
  <1>9. Staged(d)
    <2>1. d.stack # <<>>
      BY <1>2
    <2> QED BY <1>2, <2>1 DEF Staged, SameAnswer
  <1> QED BY <1>2, <1>6, <1>7, <1>8, <1>9 DEF Loading, d

\* An include that was loaded before is merged into its includer once more.
LEMMA IncludeKnownLoading ==
    ASSUME NEW k, Loading(k), k.stage = "including", Top(k).todo # <<>>
    PROVE  Loading(IncludeKnown(k))
  <1> DEFINE g == Head(Top(k).todo)
             f == Top(k).file
             m == MergeInto(k, f, g)
  <1>1. /\ k \in CallType /\ k.known = k.parsed /\ k.stack # <<>> /\ k.url \in Url
        /\ k.calls = <<>> /\ Failure \in Outcome
    BY DEF Loading, Staged, Failure, Outcome
  <1>2. CASE g \in k.parsed
    <2>1. IncludeKnown(k) = DoneWithInclude(m)
      BY <1>2 DEF IncludeKnown
    <2>2. f \in k.parsed /\ k.parsed \subseteq File
      BY <1>1, StackType DEF Loading, Stacked, CallType
    <2>3. Merged(m)
      BY <1>1, <1>2, <2>2, MergeIntoMerged DEF Loading
    <2>4. /\ m \in CallType /\ SameSearch(k, m) /\ SameAnswer(k, m) /\ m.stage = k.stage
          /\ m.merged[f] = k.merged[f] \cup k.merged[g]
          /\ \A x \in File \ {f} : m.merged[x] = k.merged[x]
      BY <1>1, <1>2, <2>2, MergeIntoFrame
    <2> HIDE DEF m
    <2>5. Stacked(m)
      BY <2>4 DEF Loading, Stacked, SameSearch
    <2>6. \A x \in File : k.merged[x] \subseteq m.merged[x]
      BY <2>4
    <2>7. Explored(m)
      <3>1. ASSUME NEW h \in m.parsed
            PROVE  \E i \in DOMAIN m.stack : h \in m.merged[m.stack[i].file]
        <4>1. PICK i \in DOMAIN k.stack : h \in k.merged[k.stack[i].file]
          BY <2>4 DEF Loading, Explored, SameSearch
        <4>2. k.stack[i].file \in File
          BY <2>2 DEF Loading, Stacked
        <4> QED BY <2>4, <2>6, <4>1, <4>2 DEF SameSearch
      <3> QED BY <2>4, <3>1 DEF Loading, Explored, OnStack, SameSearch
    <2>8. Stable(m)
      BY <2>3, <2>4, <2>5, <2>7 DEF Stable
    <2>9. Top(m) = Top(k)
      BY <2>4 DEF Top, SameSearch
    <2> QED BY <1>1, <1>2, <2>1, <2>4, <2>8, <2>9, DoneLoading DEF SameSearch, SameAnswer
  <1>3. CASE g \notin k.parsed
    <2>1. IncludeKnown(k) = Deliver(k, Failure)
      BY <1>3 DEF IncludeKnown
    <2> QED BY <1>1, <2>1, DeliverFrame, SettlesLoading
  <1> QED BY <1>2, <1>3

\* The document on top is complete: the one below goes on without it.
LEMMA ReturnLoading ==
    ASSUME NEW k, Loading(k), k.stage = "ready", Len(k.stack) > 1
    PROVE  Loading(ReturnToIncluder(k))
  <1> DEFINE n == Len(k.stack)
             g == Top(k).file
             d == [k EXCEPT !.stage = "including", !.stack = Front(k.stack)]
             f == Top(d).file
             m == MergeInto(d, f, g)
  <1>1. /\ k \in CallType /\ k.known = k.parsed /\ k.stack # <<>> /\ k.url \in Url
        /\ k.calls = <<>> /\ Top(k).todo = <<>> /\ Document[g].completes
    BY DEF Loading, Staged
  <1>2. /\ k.stack \in Seq(Frame) /\ DOMAIN k.stack = 1..n /\ n \in Nat /\ n > 1
        /\ \A i \in 1..n : k.stack[i] \in Frame
    BY <1>1, StackType
  <1>3. Top(k) = k.stack[n]
    BY <1>1, StackType
  <1>4. /\ Front(k.stack) \in Seq(Frame) /\ Len(Front(k.stack)) = n - 1
        /\ \A i \in 1..(n - 1) : Front(k.stack)[i] = k.stack[i]
    <2>1. \A i \in 1..(n - 1) : k.stack[i] \in Frame
      BY <1>2
    <2>2. n - 1 \in Int /\ 1 <= n - 1 /\ (n - 1) - 1 + 1 = n - 1
      BY <1>2
    <2>3. /\ SubSeq(k.stack, 1, n - 1) \in Seq(Frame) /\ Len(SubSeq(k.stack, 1, n - 1)) = n - 1
          /\ \A i \in 1..(n - 1) : SubSeq(k.stack, 1, n - 1)[i] = k.stack[1 + i - 1]
      BY <2>1, <2>2, SubSeqProperties
    <2>4. \A i \in 1..(n - 1) : 1 + i - 1 = i
      BY <1>2
    <2> QED BY <2>3, <2>4 DEF Front
  <1>5. /\ d \in CallType /\ d.stage = "including" /\ d.url = k.url /\ d.known = k.known
        /\ d.parsed = k.parsed /\ SameTables(k, d) /\ SameAnswer(k, d)
        /\ d.stack = Front(k.stack)
    BY <1>1, <1>4 DEF CallType, Frame, Stage, SameTables, SameAnswer
  <1> HIDE DEF n, d
  <1>6. DOMAIN d.stack = 1..(n - 1) /\ d.stack # <<>> /\ Top(d) = k.stack[n - 1]
    <2>1. DOMAIN d.stack = 1..(n - 1)
      BY <1>4, <1>5, LenProperties
    <2>2. d.stack # <<>>
      BY <1>2, <1>4, <1>5, EmptySeq
    <2>3. n - 1 \in 1..(n - 1)
      BY <1>2
    <2> QED BY <1>4, <1>5, <2>1, <2>2, <2>3 DEF Top, Last
  <1>7. f \in k.parsed /\ g \in k.parsed /\ k.parsed \subseteq File
    <2>1. n - 1 \in 1..n /\ n \in 1..n
      BY <1>2
    <2>2. k.stack[n].file \in k.parsed /\ k.stack[n - 1].file \in k.parsed
      BY <1>2, <2>1 DEF Loading, Stacked
    <2> QED BY <1>1, <1>3, <1>6, <2>2 DEF CallType
  <1>8. k.stack[n - 1].todo # <<>> /\ g = Head(k.stack[n - 1].todo)
    <2>1. n - 1 \in 1..n /\ (n - 1) + 1 = n /\ n \in 1..n
      BY <1>2
    <2>2. (n - 1) + 1 \in DOMAIN k.stack
      BY <1>2, <2>1
    <2>3. k.stack[n - 1].todo # <<>> /\ k.stack[(n - 1) + 1].file = Head(k.stack[n - 1].todo)
      BY <1>2, <2>1, <2>2 DEF Loading, Stacked
    <2> QED BY <1>3, <2>1, <2>3
  <1>9. ToSet(Includes[g]) \subseteq k.parsed
    <2>1. n \in DOMAIN k.stack /\ k.stack[n].todo = <<>> /\ ToSet(<<>>) = {}
      BY <1>1, <1>2, <1>3 DEF ToSet
    <2>2. ToSet(Includes[k.stack[n].file]) \subseteq k.parsed \cup ToSet(k.stack[n].todo)
      BY <2>1 DEF Loading, Stacked
    <2> QED BY <1>3, <2>1, <2>2
  <1>10. Merged(d)
    BY <1>5 DEF Loading, Merged, Held, SameTables
  <1>11. Merged(m)
    BY <1>5, <1>7, <1>10, MergeIntoMerged
  <1>12. /\ m \in CallType /\ SameSearch(d, m) /\ SameAnswer(d, m) /\ m.stage = d.stage
         /\ m.merged[f] = d.merged[f] \cup d.merged[g]
         /\ \A x \in File \ {f} : m.merged[x] = d.merged[x]
    BY <1>5, <1>7, MergeIntoFrame
  <1>13. /\ m.parsed = k.parsed /\ m.known = k.known /\ m.url = k.url /\ m.calls = <<>>
         /\ m.stack = d.stack /\ m.stage = "including"
         /\ m.merged[f] = k.merged[f] \cup k.merged[g]
         /\ \A x \in File : k.merged[x] \subseteq m.merged[x]
    BY <1>1, <1>5, <1>7, <1>12 DEF SameSearch, SameAnswer, SameTables
  <1>14. \A i \in 1..(n - 1) : m.stack[i] = k.stack[i] /\ i \in DOMAIN k.stack
    BY <1>2, <1>4, <1>5, <1>13
  <1>15. ReturnToIncluder(k) = DoneWithInclude(m)
    BY DEF ReturnToIncluder, d
  <1> HIDE DEF m
  <1>16. Stacked(m)
    <2>1. DOMAIN m.stack = 1..(n - 1)
      BY <1>6, <1>13
    <2>2. \A i, j \in 1..(n - 1) : m.stack[i].file = m.stack[j].file => i = j
      BY <1>14 DEF Loading, Stacked
    <2>3. m.stack[1].file = m.url
      <3>1. 1 \in 1..(n - 1)
        BY <1>2
      <3> QED BY <1>1, <1>13, <1>14, <3>1 DEF Loading, Stacked
    <2>4. ASSUME NEW i \in 1..(n - 1)
          PROVE  /\ m.stack[i].file \in m.parsed
                 /\ ToSet(m.stack[i].todo) \subseteq ToSet(Includes[m.stack[i].file])
                 /\ ToSet(Includes[m.stack[i].file]) \subseteq m.parsed \cup ToSet(m.stack[i].todo)
                 /\ i + 1 \in 1..(n - 1) =>
                       m.stack[i].todo # <<>> /\ m.stack[i + 1].file = Head(m.stack[i].todo)
      BY <1>13, <1>14 DEF Loading, Stacked
    <2> QED BY <2>1, <2>2, <2>3, <2>4 DEF Stacked
  <1>17. Explored(m)
    <2>1. ASSUME NEW h \in m.parsed \ OnStack(m)
          PROVE  Document[h].completes /\ ToSet(Includes[h]) \subseteq m.parsed
      <3>1. CASE h = g
        BY <1>1, <1>9, <1>13, <3>1
      <3>2. CASE h # g
        <4>1. h \notin OnStack(k)
          <5>1. ASSUME NEW i \in 1..n PROVE h # k.stack[i].file
            <6>1. CASE i = n
              BY <1>3, <3>2, <6>1
            <6>2. CASE i # n
              <7>1. i \in 1..(n - 1)
                BY <1>2, <6>2
              <7>2. i \in DOMAIN m.stack /\ m.stack[i].file = k.stack[i].file
                BY <1>6, <1>13, <1>14, <7>1
              <7> QED BY <7>2 DEF OnStack
            <6> QED BY <6>1, <6>2
          <5> QED BY <1>2, <5>1 DEF OnStack
        <4> QED BY <1>13, <4>1 DEF Loading, Explored
      <3> QED BY <3>1, <3>2
    <2>2. ASSUME NEW h \in m.parsed
          PROVE  \E i \in DOMAIN m.stack : h \in m.merged[m.stack[i].file]
      <3>1. PICK i \in 1..n : h \in k.merged[k.stack[i].file]
        BY <1>2, <1>13 DEF Loading, Explored
      <3>2. CASE i = n
        <4>1. n - 1 \in DOMAIN m.stack /\ m.stack[n - 1].file = f
          BY <1>2, <1>6, <1>13, <1>14
        <4>2. h \in m.merged[f]
          BY <1>3, <1>13, <3>1, <3>2
        <4> QED BY <4>1, <4>2
      <3>3. CASE i # n
        <4>1. i \in 1..(n - 1)
          BY <1>2, <3>3
        <4>2. i \in DOMAIN m.stack /\ m.stack[i].file = k.stack[i].file
          BY <1>6, <1>13, <1>14, <4>1
        <4>3. k.stack[i].file \in File
          BY <1>2, <1>7 DEF Loading, Stacked
        <4> QED BY <1>13, <3>1, <4>2, <4>3
      <3> QED BY <3>2, <3>3
    <2> QED BY <1>13, <2>1, <2>2 DEF Loading, Explored
  <1>18. Stable(m)
    BY <1>11, <1>12, <1>16, <1>17 DEF Stable
  <1>19. m.stack # <<>> /\ Top(m) = k.stack[n - 1]
    BY <1>6, <1>13 DEF Top
  <1> QED BY <1>1, <1>7, <1>8, <1>13, <1>15, <1>18, <1>19, DoneLoading

\* No include is left on top.
LEMMA EndIncludesLoading ==
    ASSUME NEW k, Loading(k), k.stage = "including", Top(k).todo = <<>>
    PROVE  LET d == [k EXCEPT !.stage = "ready", !.tries = @ + 1] IN
           /\ d \in CallType /\ SameSearch(k, d) /\ SameTables(k, d) /\ SameAnswer(k, d)
           /\ Top(d) = Top(k) /\ Loading(Raise(d))
           /\ Document[Top(d).file].completes => Loading(d)
  <1> DEFINE d == [k EXCEPT !.stage = "ready", !.tries = k.tries + 1]
  <1>1. k \in CallType /\ k.known = k.parsed /\ k.stack # <<>> /\ k.url \in Url /\ k.calls = <<>>
    BY DEF Loading, Staged
  <1>2. k.tries + 1 \in Nat
    BY <1>1 DEF CallType
  <1>3. /\ d \in CallType /\ SameSearch(k, d) /\ SameTables(k, d) /\ SameAnswer(k, d)
        /\ d.stage = "ready"
    BY <1>1, <1>2 DEF CallType, Stage, SameSearch, SameTables, SameAnswer
  <1> HIDE DEF d
  <1>4. Top(d) = Top(k)
    BY <1>3 DEF Top, SameSearch
  <1>5. Merged(d) /\ Stacked(d) /\ Explored(d)
    <2>1. Merged(d)
      BY <1>3 DEF Loading, Merged, Held, SameSearch, SameTables
    <2>2. Stacked(d)
      BY <1>3 DEF Loading, Stacked, SameSearch
    <2>3. Explored(d)
      BY <1>3 DEF Loading, Explored, OnStack, SameSearch, SameTables
    <2> QED BY <2>1, <2>2, <2>3
  <1>6. Document[Top(d).file].completes => Loading(d)
    <2>1. Document[Top(d).file].completes => Staged(d)
      BY <1>1, <1>3, <1>4 DEF Staged, SameSearch, SameAnswer
    <2> QED BY <1>3, <1>5, <2>1 DEF Loading
  <1>7. Loading(Raise(d))
    <2>1. /\ Raise(d) \in CallType /\ SameSearch(k, Raise(d)) /\ SameTables(k, Raise(d))
          /\ Raise(d).stage \in {"delivering", "done"}
      BY <1>3, RaiseFrame DEF SameSearch, SameTables
    <2> QED BY <2>1, SettlesLoading
  <1> QED BY <1>3, <1>4, <1>6, <1>7 DEF d

\* Nothing is left to load.
Finished(k) ==
    /\ k.stage \in {"delivering", "done"} /\ k.url \in Url
    /\ k.merged[k.url] = Reach[k.url]
    /\ \A h \in Reach[k.url] :
          Held(k, k.url, h) /\ Document[h].parses /\ Document[h].completes

LEMMA CompleteFinishes ==
    ASSUME NEW k, Loading(k), k.stage = "ready", Len(k.stack) = 1, NEW o \in Outcome
    PROVE  Finished(Deliver(k, o))
  <1> DEFINE u == k.url
  <1>1. /\ k \in CallType /\ k.known = k.parsed /\ k.stack # <<>> /\ u \in Url /\ u \in File
        /\ Top(k).todo = <<>> /\ Document[Top(k).file].completes
    BY DocumentAssumption DEF Loading, Staged
  <1>2. DOMAIN k.stack = 1..1 /\ Top(k) = k.stack[1] /\ 1 \in DOMAIN k.stack
    BY <1>1, StackType
  <1>3. k.stack[1].file = u /\ u \in k.parsed
    BY <1>1, <1>2 DEF Loading, Stacked
  <1>4. ToSet(Includes[u]) \subseteq k.parsed
    <2>1. ToSet(<<>>) = {}
      BY DEF ToSet
    <2> QED BY <1>1, <1>2, <1>3, <2>1 DEF Loading, Stacked
  <1>5. OnStack(k) = {u}
    BY <1>2, <1>3 DEF OnStack
  <1>6. \A h \in k.parsed : /\ ToSet(Includes[h]) \subseteq k.parsed
                            /\ Document[h].parses /\ Document[h].completes
    BY <1>1, <1>2, <1>3, <1>4, <1>5 DEF Loading, Explored
  <1>7. k.parsed = Reach[u]
    <2>1. k.parsed \subseteq File
      BY <1>1 DEF CallType
    <2>2. Reach[u] \subseteq k.parsed
      BY <1>1, <1>3, <1>6, <2>1, ReachProperties
    <2>3. k.parsed \subseteq Reach[u]
      BY <1>1, <1>3 DEF Loading, Explored
    <2> QED BY <2>2, <2>3
  <1>8. k.merged[u] = k.parsed
    <2>1. k.merged[u] \subseteq k.parsed
      BY <1>3 DEF Loading, Merged
    <2>2. \A h \in k.parsed : h \in k.merged[u]
      BY <1>2, <1>3 DEF Loading, Explored
    <2> QED BY <2>1, <2>2
  <1>9. \A h \in k.parsed : Held(k, u, h)
    BY <1>3, <1>8 DEF Loading, Merged
  <1>10. /\ SameSearch(k, Deliver(k, o)) /\ SameTables(k, Deliver(k, o))
         /\ Deliver(k, o).stage = "delivering"
    BY <1>1, DeliverFrame
  <1> QED BY <1>1, <1>6, <1>7, <1>8, <1>9, <1>10 DEF Finished, Held, SameSearch, SameTables

\* What the return leaves alone of a record.
LEMMA ReturnFrame ==
    ASSUME NEW k, Loading(k), k.stage = "ready", Len(k.stack) > 1
    PROVE  LET d == ReturnToIncluder(k) IN
           /\ d.url = k.url /\ d.cached = k.cached /\ SameAnswer(k, d) /\ d.stage = "including"
  <1> DEFINE d == [k EXCEPT !.stage = "including", !.stack = Front(k.stack)]
             m == MergeInto(d, Top(d).file, Top(k).file)
  <1>1. /\ d.url = k.url /\ d.cached = k.cached /\ SameAnswer(k, d) /\ d.stage = "including"
        /\ DOMAIN d = DOMAIN k
    BY DEF Loading, CallType, SameAnswer
  <1>2. {"url", "cached", "outcome", "calls", "stage"} \subseteq DOMAIN d
    BY <1>1 DEF Loading, CallType
  <1> HIDE DEF d
  <1>3. /\ m.url = k.url /\ m.cached = k.cached /\ SameAnswer(k, m) /\ m.stage = "including"
        /\ DOMAIN m = DOMAIN d
    BY <1>1, <1>2 DEF MergeInto, SameAnswer
  <1> HIDE DEF m
  <1>4. LET e == DoneWithInclude(m) IN
        /\ e.url = k.url /\ e.cached = k.cached /\ SameAnswer(k, e) /\ e.stage = "including"
    BY <1>2, <1>3 DEF DoneWithInclude, SameAnswer
  <1>5. ReturnToIncluder(k) = DoneWithInclude(m)
    BY DEF ReturnToIncluder, d, m
  <1> QED BY <1>4, <1>5

LEMMA MergedFrame ==
    ASSUME NEW k \in CallType, k.stack # <<>>, Top(k).todo # <<>>, NEW f \in File, NEW g \in File
    PROVE  LET d == DoneWithInclude(MergeInto(k, f, g)) IN
           /\ d.url = k.url /\ d.cached = k.cached /\ SameAnswer(k, d) /\ d.stage = k.stage
  <1> DEFINE m == MergeInto(k, f, g)
  <1>1. m \in CallType /\ SameSearch(k, m) /\ SameAnswer(k, m) /\ m.stage = k.stage
    BY MergeIntoFrame
  <1> HIDE DEF m
  <1>2. m.stack # <<>> /\ Top(m).todo # <<>>
    BY <1>1 DEF SameSearch, Top
  <1>3. LET d == DoneWithInclude(m) IN
        d.url = m.url /\ d.cached = m.cached /\ SameAnswer(m, d) /\ d.stage = m.stage
    BY <1>1, <1>2, DoneFrame
  <1> QED BY <1>1, <1>3 DEF SameSearch, SameAnswer, m

-----------------------------------------------------------------------------
(* What all calls have in common. *)

\* What a callback is called with: an error, or a load of its own or of a call that cached it.
Honest(all, c, o) ==
    \/ o = Failure
    \/ \E x \in Call : /\ o = Success(x) /\ Finished(all[x]) /\ all[x].url = all[c].url
                       /\ x = c \/ all[c].cached

LoadInv ==
    /\ call \in [Call -> CallType] /\ cache \in [File -> Call \cup {NoCall}]
    /\ running \in Call \cup {NoCall}
    /\ \A c \in Call : Loading(call[c])
    /\ \A c \in Call : Honest(call, c, call[c].outcome)
    /\ \A c \in Call : \A o \in ToSet(call[c].calls) : Honest(call, c, o)
    /\ \A c \in Call : call[c].stage = "hit" => cache[call[c].url] # NoCall /\ call[c].cached
    /\ \A f \in File : cache[f] # NoCall =>
          Finished(call[cache[f]]) /\ call[cache[f]].url = f /\ call[cache[f]].cached

\* What was asked for is not asked again, and a finished load stays as it is.
Evolves(k, d) ==
    /\ Loading(d)
    /\ k.stage # "new" => d.url = k.url /\ d.cached = k.cached
    /\ Finished(k) => Finished(d)

\* A step of call c leaves its record as d.
Advances(c, d) ==
    /\ Run(c, d) /\ Evolves(call[c], d) /\ running' \in Call \cup {NoCall}
    /\ d.stage # "new"
    /\ d.outcome = call[c].outcome \/ Honest(call', c, d.outcome)
    /\ \/ d.calls = call[c].calls
       \/ call[c].stage = "delivering" /\ d.calls = Append(call[c].calls, call[c].outcome)
    /\ d.stage = "hit" => cache[d.url] # NoCall /\ d.cached
    /\ \/ cache' = cache
       \/ /\ cache' = [cache EXCEPT ![d.url] = c] /\ Finished(d) /\ d.cached
          /\ call[c].stage = "ready"

LEMMA AppendedCall ==
    ASSUME NEW k \in CallType
    PROVE  LET a == Append(k.calls, k.outcome) IN
           /\ a \in Seq(Outcome) /\ ToSet(a) \subseteq ToSet(k.calls) \cup {k.outcome}
           /\ a # <<>> /\ a[1] = IF k.calls = <<>> THEN k.outcome ELSE k.calls[1]
  <1> DEFINE a == Append(k.calls, k.outcome)
             n == Len(k.calls)
  <1>1. k.calls \in Seq(Outcome) /\ k.outcome \in Outcome
    BY DEF CallType
  <1>2. /\ a \in Seq(Outcome) /\ a # <<>> /\ Len(a) = n + 1 /\ a[n + 1] = k.outcome
        /\ \A i \in 1..n : a[i] = k.calls[i]
    BY <1>1, AppendProperties
  <1>3. DOMAIN a = 1..(n + 1) /\ DOMAIN k.calls = 1..n /\ n \in Nat
    BY <1>1, <1>2, LenProperties
  <1>4. k.calls = <<>> <=> n = 0
    BY <1>1, EmptySeq
  <1> HIDE DEF a, n
  <1>5. a[1] = IF k.calls = <<>> THEN k.outcome ELSE k.calls[1]
    <2>1. CASE n = 0
      BY <1>2, <1>4, <2>1
    <2>2. CASE n # 0
      <3>1. 1 \in 1..n
        BY <1>3, <2>2
      <3> QED BY <1>2, <1>4, <2>2, <3>1
    <2> QED BY <2>1, <2>2
  <1>6. ASSUME NEW i \in DOMAIN a PROVE a[i] \in ToSet(k.calls) \cup {k.outcome}
    <2>1. CASE i = n + 1
      BY <1>2, <2>1
    <2>2. CASE i # n + 1
      <3>1. i \in DOMAIN k.calls /\ a[i] = k.calls[i]
        BY <1>2, <1>3, <2>2
      <3> QED BY <3>1 DEF ToSet
    <2> QED BY <2>1, <2>2
  <1>7. ToSet(a) \subseteq ToSet(k.calls) \cup {k.outcome}
    BY <1>6 DEF ToSet
  <1> QED BY <1>2, <1>5, <1>7 DEF a

LEMMA AdvancesKeeps ==
    ASSUME LoadInv, NEW c \in Call, NEW d, Advances(c, d)
    PROVE  LoadInv'
  <1>1. /\ call' \in [Call -> CallType] /\ call'[c] = d
        /\ \A x \in Call : x # c => call'[x] = call[x]
    BY DEF Advances, Evolves, Loading, Run, LoadInv
  <1>2. \A x \in Call : Finished(call[x]) => Finished(call'[x]) /\ call'[x].url = call[x].url
    BY <1>1 DEF Advances, Evolves, Finished
  <1>3. ASSUME NEW x \in Call, call[x].stage # "new"
        PROVE  call'[x].url = call[x].url /\ call'[x].cached = call[x].cached
    BY <1>1, <1>3 DEF Advances, Evolves
  <1>4. ASSUME NEW x \in Call, NEW o, Honest(call, x, o), x # c \/ call[x].stage # "new"
        PROVE  Honest(call', x, o)
    BY <1>1, <1>2, <1>3, <1>4 DEF Honest
  <1>5. ASSUME call[c].stage = "new", NEW o \in {call[c].outcome} \cup ToSet(call[c].calls)
        PROVE  o = Failure
    <2>1. call[c].outcome = Failure /\ call[c].calls = <<>>
      BY <1>5 DEF LoadInv, Loading, Staged
    <2> QED BY <1>5, <2>1 DEF ToSet
  <1>6. ASSUME NEW x \in Call, NEW o \in {call[x].outcome} \cup ToSet(call[x].calls)
        PROVE  Honest(call', x, o)
    <2>1. Honest(call, x, o)
      BY DEF LoadInv
    <2>2. CASE x # c \/ call[x].stage # "new"
      BY <1>4, <2>1, <2>2
    <2>3. CASE x = c /\ call[x].stage = "new"
      BY <1>5, <2>3 DEF Honest
    <2> QED BY <2>2, <2>3
  <1>7. ASSUME NEW x \in Call
        PROVE  /\ Honest(call', x, call'[x].outcome)
               /\ \A o \in ToSet(call'[x].calls) : Honest(call', x, o)
    <2>1. CASE x # c
      BY <1>1, <1>6, <2>1
    <2>2. CASE x = c
      <3>1. Honest(call', c, d.outcome)
        BY <1>6 DEF Advances
      <3>2. call[c] \in CallType
        BY DEF LoadInv
      <3>3. ToSet(d.calls) \subseteq ToSet(call[c].calls) \cup {call[c].outcome}
        BY <3>2, AppendedCall DEF Advances
      <3> QED BY <1>1, <1>6, <2>2, <3>1, <3>3
    <2> QED BY <2>1, <2>2
  <1>8. \A x \in Call : Loading(call'[x])
    BY <1>1 DEF Advances, Evolves, LoadInv
  <1>9. /\ cache' \in [File -> Call \cup {NoCall}]
        /\ \A f \in File : \/ cache'[f] = cache[f]
                           \/ cache'[f] = c /\ f = d.url /\ Finished(d) /\ d.cached
    <2>1. cache \in [File -> Call \cup {NoCall}]
      BY DEF LoadInv
    <2>2. CASE cache' = cache
      BY <2>1, <2>2
    <2>3. CASE cache' = [cache EXCEPT ![d.url] = c] /\ Finished(d) /\ d.cached
      BY <2>1, <2>3
    <2> QED BY <2>2, <2>3 DEF Advances
  <1>10. \A f \in File : cache[f] # NoCall => cache'[f] # NoCall
    BY <1>9, CallAssumption
  <1>11. ASSUME NEW x \in Call, call'[x].stage = "hit"
         PROVE  cache'[call'[x].url] # NoCall /\ call'[x].cached
    <2>1. call'[x].url \in File
      BY <1>8, <1>11, DocumentAssumption DEF Loading, Staged
    <2>2. CASE x = c
      BY <1>1, <1>10, <1>11, <2>1, <2>2 DEF Advances
    <2>3. CASE x # c
      BY <1>1, <1>10, <1>11, <2>1, <2>3 DEF LoadInv
    <2> QED BY <2>2, <2>3
  <1>12. ASSUME NEW f \in File, cache'[f] # NoCall
         PROVE  /\ Finished(call'[cache'[f]]) /\ call'[cache'[f]].url = f
                /\ call'[cache'[f]].cached
    <2>1. CASE cache'[f] = c /\ f = d.url /\ Finished(d) /\ d.cached
      BY <1>1, <2>1
    <2>2. CASE cache'[f] = cache[f]
      <3>1. cache[f] \in Call
        BY <1>12, <2>2 DEF LoadInv
      <3>2. Finished(call[cache[f]]) /\ call[cache[f]].url = f /\ call[cache[f]].cached
        BY <1>12, <2>2 DEF LoadInv
      <3>3. call[cache[f]].stage # "new"
        BY <3>2 DEF Finished
      <3> QED BY <1>2, <1>3, <2>2, <3>1, <3>2, <3>3
    <2> QED BY <1>9, <2>1, <2>2
  <1>13. running' \in Call \cup {NoCall}
    BY DEF Advances
  <1> QED BY <1>1, <1>7, <1>8, <1>9, <1>11, <1>12, <1>13 DEF LoadInv

-----------------------------------------------------------------------------
(* The actions. *)

LEMMA RunOnRunning ==
    ASSUME NEW c \in Call, NEW d, RunOn(c, d)
    PROVE  Run(c, d) /\ running' \in Call \cup {NoCall}
  BY DEF RunOn

\* A load under way whose answer is not touched.
LEMMA GoesOn ==
    ASSUME LoadInv, NEW c \in Call, call[c].stage \notin {"new", "hit", "delivering", "done"},
           NEW d, RunOn(c, d), Loading(d), cache' = cache, d.stage \notin {"new", "hit"},
           d.url = call[c].url, d.cached = call[c].cached, d.calls = call[c].calls,
           d.outcome \in {call[c].outcome, Failure}
    PROVE  Advances(c, d)
  <1>1. Run(c, d) /\ running' \in Call \cup {NoCall}
    BY RunOnRunning
  <1>2. Evolves(call[c], d)
    BY DEF Evolves, Finished
  <1> QED BY <1>1, <1>2 DEF Advances, Honest

LEMMA DeliveryOfFailure ==
    ASSUME LoadInv, NEW c \in Call, call[c].stage \notin {"new", "hit", "delivering", "done"},
           RunOn(c, Deliver(call[c], Failure)), cache' = cache
    PROVE  \E d : Advances(c, d)
  <1> DEFINE k == call[c]
             d == Deliver(k, Failure)
  <1>1. Loading(k) /\ k \in CallType
    BY DEF LoadInv
  <1>2. /\ d \in CallType /\ SameSearch(k, d) /\ SameTables(k, d)
        /\ d.stage = "delivering" /\ d.outcome = Failure /\ d.calls = k.calls
    BY <1>1, FailureType, DeliverFrame
  <1> HIDE DEF d
  <1>3. Loading(d)
    BY <1>1, <1>2, SettlesLoading
  <1> QED BY <1>2, <1>3, GoesOn DEF SameSearch, d

LEMMA CreateClientAdvances ==
    ASSUME LoadInv, NEW c \in Call, NEW url \in Url, NEW cached \in BOOLEAN,
           CreateClient(c, url, cached)
    PROVE  \E d : Advances(c, d)
  <1> DEFINE k == [call[c] EXCEPT !.url = url, !.cached = cached]
             h == [k EXCEPT !.stage = "hit"]
             d == OpenWsdl(k, url)
  <1>1. /\ call[c].stage = "new" /\ call[c] \in CallType /\ cache' = cache /\ running' = running
        /\ \/ Run(c, h) /\ cached /\ cache[url] # NoCall
           \/ Run(c, d)
    BY DEF CreateClient, LoadInv
  <1>2. /\ call[c].stack = <<>> /\ call[c].known = {} /\ call[c].parsed = {}
        /\ call[c].outcome = Failure /\ call[c].calls = <<>>
    BY <1>1 DEF LoadInv, Loading, Staged, Explored
  <1>3. /\ k \in CallType /\ k.stage = "new" /\ k.url = url /\ k.cached = cached /\ k.stack = <<>>
        /\ k.known = {} /\ k.parsed = {} /\ k.outcome = Failure /\ k.calls = <<>>
    BY <1>1, <1>2 DEF CallType
  <1> HIDE DEF k
  <1>4. Stable(k)
    <2>1. Merged(k) /\ Explored(k)
      BY <1>3 DEF Merged, Explored
    <2>2. DOMAIN k.stack = {}
      BY <1>3
    <2>3. Stacked(k)
      BY <1>3, <2>2 DEF Stacked
    <2> QED BY <1>3, <2>1, <2>3 DEF Stable
  <1>5. /\ h \in CallType /\ h.stage = "hit" /\ h.url = url /\ h.cached = cached
        /\ SameSearch(k, h) /\ SameTables(k, h) /\ SameAnswer(k, h)
    BY <1>3 DEF CallType, Stage, SameSearch, SameTables, SameAnswer
  <1> HIDE DEF h
  <1>6. Loading(h)
    <2>1. Merged(h)
      BY <1>4, <1>5 DEF Stable, Merged, Held, SameSearch, SameTables
    <2>2. Stacked(h)
      BY <1>4, <1>5 DEF Stable, Stacked, SameSearch
    <2>3. Explored(h)
      BY <1>4, <1>5 DEF Stable, Explored, OnStack, SameSearch, SameTables
    <2>4. Staged(h)
      BY <1>3, <1>5 DEF Staged, SameSearch, SameAnswer
    <2> QED BY <1>5, <2>1, <2>2, <2>3, <2>4 DEF Loading
  <1>7. url \in File /\ url \in Reach[url]
    BY DocumentAssumption, ReachProperties
  <1>8. Loading(d)
    BY <1>3, <1>4, <1>7, OpensLoading
  <1>9. /\ d.url = url /\ SameAnswer(k, d) /\ d.stage \in {"opening", "parsing"}
    BY <1>3, <1>7, OpenWsdlFrame
  <1> HIDE DEF d
  <1>10. running' \in Call \cup {NoCall} /\ ~Finished(call[c])
    BY <1>1 DEF LoadInv, Finished
  <1>11. CASE Run(c, h) /\ cached /\ cache[url] # NoCall
    <2>1. Advances(c, h)
      BY <1>1, <1>2, <1>3, <1>5, <1>6, <1>10, <1>11 DEF Advances, Evolves, SameAnswer
    <2> QED BY <2>1
  <1>12. CASE Run(c, d)
    <2>1. Advances(c, d)
      BY <1>1, <1>2, <1>3, <1>8, <1>9, <1>10, <1>12 DEF Advances, Evolves, SameAnswer
    <2> QED BY <2>1
  <1> QED BY <1>1, <1>11, <1>12

LEMMA HitAdvances ==
    ASSUME LoadInv, NEW c \in Call, Hit(c)
    PROVE  \E d : Advances(c, d)
  <1> DEFINE k == call[c]
             x == cache[k.url]
             d == Deliver(k, Success(x))
  <1>1. k.stage = "hit" /\ RunOn(c, d) /\ cache' = cache /\ Loading(k) /\ k \in CallType
    BY DEF Hit, LoadInv
  <1>2. k.url \in File
    BY <1>1, DocumentAssumption DEF Loading, Staged
  <1>3. x \in Call /\ Finished(call[x]) /\ call[x].url = k.url /\ k.cached
    BY <1>1, <1>2 DEF LoadInv
  <1>4. /\ d \in CallType /\ SameSearch(k, d) /\ SameTables(k, d)
        /\ d.stage = "delivering" /\ d.outcome = Success(x) /\ d.calls = k.calls
    BY <1>1, <1>3, FailureType, DeliverFrame
  <1> HIDE DEF d, x
  <1>5. Loading(d)
    BY <1>1, <1>4, SettlesLoading
  <1>6. x # c
    BY <1>1, <1>3 DEF Finished
  <1>7. call'[c] = d /\ call'[x] = call[x]
    BY <1>1, <1>3, <1>6 DEF RunOn, Run, LoadInv
  <1>8. Honest(call', c, d.outcome)
    BY <1>3, <1>4, <1>7 DEF Honest, SameSearch
  <1>9. Evolves(k, d)
    BY <1>1, <1>4, <1>5 DEF Evolves, Finished, SameSearch
  <1>10. Run(c, d) /\ running' \in Call \cup {NoCall}
    BY <1>1, RunOnRunning
  <1> QED BY <1>1, <1>4, <1>8, <1>9, <1>10 DEF Advances

LEMMA ReadAdvances ==
    ASSUME LoadInv, NEW c \in Call, ReadOk(c) \/ ReadFails(c) \/ Parse(c)
    PROVE  \E d : Advances(c, d)
  <1> DEFINE k == call[c]
  <1>1. k.stage \in {"opening", "parsing"} /\ cache' = cache /\ Loading(k) /\ k \in CallType
    BY DEF ReadOk, ReadFails, Parse, LoadInv
  <1>2. k.file \in File
    <2>1. k.file \in Reach[k.url] /\ k.url \in File
      BY <1>1, DocumentAssumption DEF Loading, Staged, Wanted
    <2> QED BY <2>1, ReachProperties
  <1>3. CASE ReadOk(c)
    <2> DEFINE d == Construct(k, k.file)
    <2>1. RunOn(c, d) /\ k.stage = "opening"
      BY <1>3 DEF ReadOk
    <2>2. Loading(d)
      BY <1>1, <2>1, ConstructLoading
    <2>3. d.stage = "parsing" /\ d.url = k.url /\ d.cached = k.cached /\ SameAnswer(k, d)
      BY <1>1, <1>2, ConstructFrame
    <2> HIDE DEF d
    <2> QED BY <1>1, <2>1, <2>2, <2>3, GoesOn DEF SameAnswer
  <1>4. CASE RunOn(c, Deliver(k, Failure))
    BY <1>1, <1>4, DeliveryOfFailure
  <1>5. CASE Parse(c) /\ Document[k.file].parses
    <2> DEFINE d == StartIncludes(k)
    <2>1. RunOn(c, d) /\ k.stage = "parsing"
      BY <1>5 DEF Parse
    <2>2. Loading(d)
      BY <1>1, <1>5, <2>1, StartIncludesLoading
    <2>3. d.stage = "including" /\ d.url = k.url /\ d.cached = k.cached /\ SameAnswer(k, d)
      BY <1>1, <1>2, StartIncludesFrame
    <2> HIDE DEF d
    <2> QED BY <1>1, <2>1, <2>2, <2>3, GoesOn DEF SameAnswer
  <1> QED BY <1>3, <1>4, <1>5 DEF ReadFails, Parse

LEMMA IncludeAdvances ==
    ASSUME LoadInv, NEW c \in Call, Include(c)
    PROVE  \E d : Advances(c, d)
  <1> DEFINE k == call[c]
             g == Head(Top(k).todo)
             f == Top(k).file
             m == MergeInto(k, f, g)
             w == OpenWsdl(k, g)
  <1>1. /\ k.stage = "including" /\ Top(k).todo # <<>> /\ cache' = cache
        /\ RunOn(c, IF g \in k.known THEN IncludeKnown(k) ELSE w)
        /\ Loading(k) /\ k \in CallType
    BY DEF Include, LoadInv
  <1>2. k.stack # <<>> /\ k.known = k.parsed /\ k.url \in Url /\ k.url \in File /\ k.calls = <<>>
    BY <1>1, DocumentAssumption DEF Loading, Staged
  <1>3. f \in k.parsed /\ f \in File /\ Top(k).todo \in Seq(File)
        /\ ToSet(Top(k).todo) \subseteq ToSet(Includes[f])
    <2>1. Len(k.stack) \in DOMAIN k.stack /\ Top(k) = k.stack[Len(k.stack)] /\ Top(k) \in Frame
      BY <1>1, <1>2, StackType
    <2> QED BY <1>1, <2>1 DEF Frame, Loading, Stacked
  <1>4. g \in File /\ g \in ToSet(Top(k).todo)
    BY <1>1, <1>3, HeadAndTail
  <1>5. CASE g \in k.parsed
    <2> DEFINE d == DoneWithInclude(m)
    <2>1. IncludeKnown(k) = d /\ RunOn(c, d)
      BY <1>1, <1>2, <1>5 DEF IncludeKnown
    <2>2. Loading(d)
      BY <1>1, <2>1, IncludeKnownLoading
    <2>3. d.url = k.url /\ d.cached = k.cached /\ SameAnswer(k, d) /\ d.stage = k.stage
      BY <1>1, <1>2, <1>3, <1>4, MergedFrame
    <2> HIDE DEF d
    <2>4. Advances(c, d)
      BY <1>1, <2>1, <2>2, <2>3, GoesOn DEF SameAnswer
    <2> QED BY <2>4
  <1>6. CASE g \notin k.parsed
    <2>1. RunOn(c, w)
      BY <1>1, <1>2, <1>6
    <2>2. g \in Reach[k.url] \ k.parsed
      <3>1. f \in Reach[k.url]
        BY <1>1, <1>2, <1>3 DEF Loading, Explored
      <3> QED BY <1>2, <1>3, <1>4, <1>6, <3>1, ReachProperties
    <2>3. Stable(k)
      BY <1>1 DEF Loading, Stable
    <2>4. Loading(w)
      BY <1>1, <1>2, <2>2, <2>3, OpensLoading
    <2>5. w.url = k.url /\ w.cached = k.cached /\ SameAnswer(k, w)
          /\ w.stage \in {"opening", "parsing"}
      BY <1>1, <1>4, OpenWsdlFrame
    <2> HIDE DEF w
    <2> QED BY <1>1, <2>1, <2>4, <2>5, GoesOn DEF SameAnswer
  <1> QED BY <1>5, <1>6

LEMMA IncludeRefusedAdvances ==
    ASSUME LoadInv, NEW c \in Call, IncludeRefused(c)
    PROVE  \E d : Advances(c, d)
  BY DeliveryOfFailure DEF IncludeRefused

LEMMA EndIncludesAdvances ==
    ASSUME LoadInv, NEW c \in Call, EndIncludes(c)
    PROVE  \E d : Advances(c, d)
  <1> DEFINE k == call[c]
             r == [k EXCEPT !.stage = "ready", !.tries = @ + 1]
             w == Raise(r)
  <1>1. /\ k.stage = "including" /\ Top(k).todo = <<>> /\ cache' = cache /\ Loading(k)
        /\ RunOn(c, IF Document[Top(r).file].completes THEN r ELSE w)
    BY DEF EndIncludes, LoadInv
  <1>2. /\ r \in CallType /\ SameSearch(k, r) /\ SameTables(k, r) /\ SameAnswer(k, r)
        /\ Loading(w)
        /\ Document[Top(r).file].completes => Loading(r)
    BY <1>1, EndIncludesLoading
  <1>3. r.stage = "ready"
    BY DEF LoadInv, CallType
  <1> HIDE DEF r
  <1>4. /\ SameSearch(r, w) /\ w.stage \in {"delivering", "done"}
        /\ w.outcome \in {r.outcome, Failure} /\ w.calls = r.calls
    BY <1>2, RaiseFrame
  <1> HIDE DEF w
  <1>5. CASE Document[Top(r).file].completes
    <2>1. /\ RunOn(c, r) /\ Loading(r) /\ r.url = k.url /\ r.cached = k.cached
          /\ r.calls = k.calls /\ r.outcome \in {k.outcome, Failure}
      BY <1>1, <1>2, <1>5 DEF SameSearch, SameAnswer
    <2>2. Advances(c, r)
      BY <1>1, <1>3, <2>1, GoesOn
    <2> QED BY <2>2
  <1>6. CASE ~Document[Top(r).file].completes
    <2>1. /\ RunOn(c, w) /\ Loading(w) /\ w.url = k.url /\ w.cached = k.cached
          /\ w.calls = k.calls /\ w.outcome \in {k.outcome, Failure} /\ w.stage \notin {"new", "hit"}
      BY <1>1, <1>2, <1>4, <1>6 DEF SameSearch, SameAnswer
    <2>2. Advances(c, w)
      BY <1>1, <2>1, GoesOn
    <2> QED BY <2>2
  <1> QED BY <1>5, <1>6

LEMMA CompleteIncludeAdvances ==
    ASSUME LoadInv, NEW c \in Call, CompleteInclude(c)
    PROVE  \E d : Advances(c, d)
  <1> DEFINE k == call[c]
             w == ReturnToIncluder(k)
  <1>1. /\ k.stage = "ready" /\ Len(k.stack) > 1 /\ cache' = cache /\ RunOn(c, w) /\ Loading(k)
        /\ k \in CallType
    BY DEF CompleteInclude, LoadInv
  <1>2. Loading(w)
    BY <1>1, ReturnLoading
  <1>3. w.url = k.url /\ w.cached = k.cached /\ SameAnswer(k, w) /\ w.stage = "including"
    BY <1>1, ReturnFrame
  <1> HIDE DEF w
  <1> QED BY <1>1, <1>2, <1>3, GoesOn DEF SameAnswer

LEMMA CompleteAdvances ==
    ASSUME LoadInv, NEW c \in Call, Complete(c)
    PROVE  \E d : Advances(c, d)
  <1> DEFINE k == call[c]
             d == Deliver(k, Success(c))
  <1>1. /\ k.stage = "ready" /\ Len(k.stack) = 1 /\ cache' = StoredBy(c) /\ RunOn(c, d)
        /\ Loading(k) /\ k \in CallType
    BY DEF Complete, LoadInv
  <1>2. /\ d \in CallType /\ SameSearch(k, d) /\ SameTables(k, d)
        /\ d.stage = "delivering" /\ d.outcome = Success(c) /\ d.calls = k.calls
    BY <1>1, FailureType, DeliverFrame
  <1>3. Finished(d)
    BY <1>1, FailureType, CompleteFinishes
  <1> HIDE DEF d
  <1>4. Loading(d)
    BY <1>1, <1>2, SettlesLoading
  <1>5. call'[c] = d
    BY <1>1 DEF RunOn, Run, LoadInv
  <1>6. Honest(call', c, d.outcome)
    BY <1>2, <1>3, <1>5 DEF Honest
  <1>7. Evolves(k, d)
    BY <1>2, <1>3, <1>4 DEF Evolves, SameSearch
  <1>8. Run(c, d) /\ running' \in Call \cup {NoCall}
    BY <1>1, RunOnRunning
  <1>9. \/ cache' = cache
        \/ /\ cache' = [cache EXCEPT ![d.url] = c] /\ Finished(d) /\ d.cached
           /\ k.stage = "ready"
    BY <1>1, <1>2, <1>3 DEF StoredBy, SameSearch
  <1> QED BY <1>2, <1>6, <1>7, <1>8, <1>9 DEF Advances

\* A record whose answer is being delivered, with other throws and calls.
SameLoad(k, d) ==
    /\ d \in CallType /\ SameSearch(k, d) /\ SameTables(k, d)
    /\ d.outcome \in {k.outcome, Failure}
    /\ d.calls \in {k.calls, Append(k.calls, k.outcome)}

LEMMA DeliveredEvolves ==
    ASSUME NEW k, Loading(k), k.stage = "delivering", NEW d, SameLoad(k, d),
           d.stage \in {"delivering", "done"}
    PROVE  Evolves(k, d)
  <1>1. Loading(d)
    BY SettlesLoading DEF SameLoad
  <1>2. Finished(k) => Finished(d)
    BY DEF SameLoad, Finished, Held, SameSearch, SameTables
  <1> QED BY <1>1, <1>2 DEF Evolves, SameLoad, SameSearch

LEMMA CalledFrame ==
    ASSUME NEW k \in CallType
    PROVE  SameLoad(k, Called(k))
  <1> DEFINE a == Append(k.calls, k.outcome)
             d == [k EXCEPT !.calls = a]
  <1>1. a \in Seq(Outcome)
    BY AppendedCall
  <1>2. Called(k) = d
    BY DEF Called
  <1> HIDE DEF a
  <1>3. d \in CallType /\ SameSearch(k, d) /\ SameTables(k, d) /\ d.outcome = k.outcome
        /\ d.calls = a
    BY <1>1 DEF CallType, SameSearch, SameTables
  <1> HIDE DEF d
  <1> QED BY <1>2, <1>3 DEF SameLoad, a

LEMMA ThrowFrame ==
    ASSUME NEW k \in CallType, NEW d, SameLoad(k, d)
    PROVE  LET r == Raise([d EXCEPT !.throws = @ + 1])
           IN  SameLoad(k, r) /\ r.stage \in {"delivering", "done"}
  <1> DEFINE t == [d EXCEPT !.throws = d.throws + 1]
  <1>1. d \in CallType /\ d.throws + 1 \in Nat
    BY DEF SameLoad, CallType
  <1>2. /\ t \in CallType /\ SameSearch(d, t) /\ SameTables(d, t) /\ t.outcome = d.outcome
        /\ t.calls = d.calls
    BY <1>1 DEF CallType, SameSearch, SameTables
  <1> HIDE DEF t
  <1>3. /\ Raise(t) \in CallType /\ SameSearch(t, Raise(t)) /\ SameTables(t, Raise(t))
        /\ Raise(t).stage \in {"delivering", "done"}
        /\ Raise(t).outcome \in {t.outcome, Failure} /\ Raise(t).calls = t.calls
    BY <1>2, RaiseFrame
  <1>4. SameLoad(k, Raise(t))
    BY <1>2, <1>3 DEF SameLoad, SameSearch, SameTables
  <1> QED BY <1>3, <1>4 DEF t

LEMMA DeliveredAdvances ==
    ASSUME LoadInv, NEW c \in Call, ClientThrows(c) \/ CallbackReturns(c) \/ CallbackThrows(c)
    PROVE  \E d : Advances(c, d)
  <1> DEFINE k == call[c]
             done == [Called(k) EXCEPT !.stage = "done"]
  <1>1. k.stage = "delivering" /\ cache' = cache /\ Loading(k) /\ k \in CallType
    BY DEF ClientThrows, CallbackReturns, CallbackThrows, LoadInv
  <1>2. ASSUME NEW d, RunOn(c, d), SameLoad(k, d), d.stage \in {"delivering", "done"}
        PROVE  Advances(c, d)
    <2>1. Evolves(k, d)
      BY <1>1, <1>2, DeliveredEvolves
    <2>2. Run(c, d) /\ running' \in Call \cup {NoCall}
      BY <1>2, RunOnRunning
    <2> QED BY <1>1, <1>2, <2>1, <2>2 DEF Advances, SameLoad, Honest
  <1>3. SameLoad(k, k)
    BY <1>1 DEF SameLoad, SameSearch, SameTables
  <1>4. SameLoad(k, Called(k)) /\ Called(k) \in CallType
    BY <1>1, CalledFrame DEF SameLoad
  <1>5. SameLoad(k, done) /\ done.stage = "done"
    <2> DEFINE e == Called(k)
    <2>1. e \in CallType /\ SameLoad(k, e)
      BY <1>4
    <2> HIDE DEF e
    <2>2. LET d == [e EXCEPT !.stage = "done"] IN SameLoad(k, d) /\ d.stage = "done"
      BY <2>1 DEF SameLoad, CallType, Stage, SameSearch, SameTables
    <2> QED BY <2>2 DEF e
  <1>6. CASE ClientThrows(c)
    <2> DEFINE d == Raise([k EXCEPT !.throws = @ + 1])
    <2>1. SameLoad(k, d) /\ d.stage \in {"delivering", "done"}
      BY <1>1, <1>3, ThrowFrame
    <2>2. RunOn(c, d)
      BY <1>6 DEF ClientThrows
    <2> QED BY <1>2, <2>1, <2>2
  <1>7. CASE CallbackReturns(c)
    BY <1>2, <1>5, <1>7 DEF CallbackReturns
  <1>8. CASE CallbackThrows(c)
    <2> DEFINE d == Raise([Called(k) EXCEPT !.throws = @ + 1])
    <2>1. SameLoad(k, d) /\ d.stage \in {"delivering", "done"}
      BY <1>1, <1>4, ThrowFrame
    <2>2. RunOn(c, d)
      BY <1>8 DEF CallbackThrows
    <2> QED BY <1>2, <2>1, <2>2
  <1> QED BY <1>6, <1>7, <1>8

-----------------------------------------------------------------------------
(* Every step keeps the invariant. *)

LEMMA NewCallLoading == NewCall \in CallType /\ Loading(NewCall)
  <1>1. NewCall \in CallType
    <2>1. <<>> \in Seq([file : File, todo : Seq(File)]) /\ <<>> \in Seq(Outcome)
      BY EmptySeq
    <2>2. Failure \in Outcome
      BY FailureType
    <2> QED BY <2>1, <2>2 DEF NewCall, CallType, Stage
  <1>2. Merged(NewCall) /\ Explored(NewCall)
    BY DEF NewCall, Merged, Explored
  <1>3. Stacked(NewCall)
    <2>1. NewCall.stack = <<>> /\ DOMAIN <<>> = {}
      BY DEF NewCall
    <2> QED BY <2>1 DEF Stacked
  <1>4. Staged(NewCall)
    BY DEF NewCall, Staged
  <1> QED BY <1>1, <1>2, <1>3, <1>4 DEF Loading

LEMMA InitLoadInv == Init => LoadInv
  <1> SUFFICES ASSUME Init PROVE LoadInv
    OBVIOUS
  <1>1. \A c \in Call : call[c] = NewCall
    BY DEF Init
  <1>2. /\ NewCall.outcome = Failure /\ NewCall.calls = <<>> /\ NewCall.stage = "new"
        /\ ToSet(<<>>) = {}
    BY DEF NewCall, ToSet
  <1>3. call \in [Call -> CallType] /\ cache \in [File -> Call \cup {NoCall}] /\ running = NoCall
        /\ \A f \in File : cache[f] = NoCall
    BY NewCallLoading DEF Init
  <1> QED BY <1>1, <1>2, <1>3, NewCallLoading DEF LoadInv, Honest

LEMMA ContinueAdvances ==
    ASSUME LoadInv, NEW c \in Call, Continue(c)
    PROVE  \E d : Advances(c, d)
  <1>1. CASE Hit(c)
    BY <1>1, HitAdvances
  <1>2. CASE ReadOk(c) \/ ReadFails(c) \/ Parse(c)
    BY <1>2, ReadAdvances
  <1>3. CASE Include(c)
    BY <1>3, IncludeAdvances
  <1>4. CASE IncludeRefused(c)
    BY <1>4, IncludeRefusedAdvances
  <1>5. CASE EndIncludes(c)
    BY <1>5, EndIncludesAdvances
  <1>6. CASE CompleteInclude(c)
    BY <1>6, CompleteIncludeAdvances
  <1>7. CASE Complete(c)
    BY <1>7, CompleteAdvances
  <1>8. CASE ClientThrows(c) \/ CallbackReturns(c) \/ CallbackThrows(c)
    BY <1>8, DeliveredAdvances
  <1> QED BY <1>1, <1>2, <1>3, <1>4, <1>5, <1>6, <1>7, <1>8 DEF Continue

LEMMA NextLoadInv == LoadInv /\ [Next]_vars => LoadInv'
  <1> SUFFICES ASSUME LoadInv, [Next]_vars PROVE LoadInv'
    OBVIOUS
  <1>1. ASSUME NEW c \in Call, NEW url \in Url, NEW cached \in BOOLEAN,
               CreateClient(c, url, cached)
        PROVE  LoadInv'
    BY <1>1, CreateClientAdvances, AdvancesKeeps
  <1>2. ASSUME NEW c \in Call, Continue(c) PROVE LoadInv'
    BY <1>2, ContinueAdvances, AdvancesKeeps
  <1>3. CASE UNCHANGED vars
    BY <1>3 DEF vars, LoadInv
  <1> QED BY <1>1, <1>2, <1>3 DEF Next

-----------------------------------------------------------------------------
(* What createClient calls back with. *)

\* Whatever a document includes, each call keeps its type: its stack holds files and what is
\* left to include, and its outcomes name a call (src/wsdl/index.ts:1230-1288).
THEOREM TypeCorrect == Spec => []TypeOK
  <1>1. LoadInv => TypeOK
    BY DEF LoadInv, TypeOK
  <1> QED BY <1>1, InitLoadInv, NextLoadInv, PTL DEF Spec

\* However documents include each other, themselves too, no load has one twice on its stack,
\* and when it goes on with its includes every WSDL it knows has definitions: the order in
\* which open_wsdl_recursive looks in WSDL_CACHE and a constructor enters it there sees to it
\* (src/wsdl/index.ts:1426-1436, 1469-1472).
THEOREM IncludesAreEnteredOnce == Spec => []IncludesEnteredOnce
  <1>1. LoadInv => IncludesEnteredOnce
    BY DEF LoadInv, Loading, Stacked, Staged, IncludesEnteredOnce
  <1> QED BY <1>1, InitLoadInv, NextLoadInv, PTL DEF Spec

\* A finished load is whole.
LEMMA FinishedIsWhole ==
    ASSUME NEW x \in Call, Finished(call[x])
    PROVE  Whole(x)
  <1>1. ASSUME NEW f \in Reach[call[x].url], NEW ns \in Namespace, ns \in NamespacesOf[f]
        PROVE  f \in call[x].content[call[x].schema[call[x].url][ns]][ns]
    BY <1>1 DEF Finished, Held
  <1> QED BY <1>1 DEF Whole, Finished

LEMMA HonestMeans ==
    ASSUME NEW c \in Call, NEW o, Honest(call, c, o)
    PROVE  /\ o.ok => /\ o.wsdl \in Call /\ Finished(call[o.wsdl])
                      /\ call[o.wsdl].url = call[c].url
           /\ ~call[c].cached => o.wsdl \in {c, NoCall}
  BY DEF Honest, Success, Failure

\* A call that succeeds is given everything within reach of its url, merged: depth first, with
\* includes that were merged before they had merged theirs, a circle is still whole in the end
\* (src/wsdl/index.ts:1278-1285).
THEOREM SuccessesAreWhole == Spec => []SuccessIsWhole
  <1>1. LoadInv => SuccessIsWhole
    <2> SUFFICES ASSUME LoadInv, NEW c \in Call, NEW i \in DOMAIN call[c].calls,
                        call[c].calls[i].ok
                 PROVE  LET o == call[c].calls[i] IN
                        /\ call[o.wsdl].url = call[c].url
                        /\ Whole(o.wsdl)
                        /\ \A f \in Reach[call[c].url] :
                              Document[f].parses /\ Document[f].completes
      BY DEF SuccessIsWhole
    <2> DEFINE o == call[c].calls[i]
    <2>1. Honest(call, c, o)
      BY DEF LoadInv, ToSet
    <2>2. o.wsdl \in Call /\ Finished(call[o.wsdl]) /\ call[o.wsdl].url = call[c].url
      BY <2>1, HonestMeans
    <2>3. Whole(o.wsdl)
      BY <2>2, FinishedIsWhole
    <2> QED BY <2>2, <2>3 DEF Finished
  <1> QED BY <1>1, InitLoadInv, NextLoadInv, PTL DEF Spec

\* Nothing but whole WSDLs is cached, under the url they were asked for, and disableCache keeps
\* a call away from the cache, however loads of one url overtake each other (src/soap.ts:24-38).
THEOREM CachedWsdlsAreWhole == Spec => []CacheIsSound
  <1>1. LoadInv => CacheIsSound
    <2> SUFFICES ASSUME LoadInv PROVE CacheIsSound
      OBVIOUS
    <2>1. ASSUME NEW f \in File, cache[f] # NoCall
          PROVE  call[cache[f]].cached /\ call[cache[f]].url = f /\ Whole(cache[f])
      <3>1. cache[f] \in Call
        BY <2>1 DEF LoadInv
      <3>2. Finished(call[cache[f]]) /\ call[cache[f]].url = f /\ call[cache[f]].cached
        BY <2>1 DEF LoadInv
      <3> QED BY <3>1, <3>2, FinishedIsWhole
    <2>2. ASSUME NEW c \in Call, ~call[c].cached, NEW i \in DOMAIN call[c].calls
          PROVE  call[c].calls[i].wsdl \in {c, NoCall}
      <3>1. Honest(call, c, call[c].calls[i])
        BY DEF LoadInv, ToSet
      <3> QED BY <2>2, <3>1, HonestMeans
    <2> QED BY <2>1, <2>2 DEF CacheIsSound
  <1> QED BY <1>1, InitLoadInv, NextLoadInv, PTL DEF Spec

-----------------------------------------------------------------------------
(* The loader implements WsdlProvider. *)

\* The first answer, as the abstract specification has it.
FirstAnswer(k) ==
    IF k.calls = <<>> THEN NoFile ELSE IF k.calls[1].ok THEN Reach[k.url] ELSE {}

AnswerIn(all, c) ==
    IF all[c].calls = <<>> THEN NoFile
    ELSE LET o == all[c].calls[1]
         IN  IF o.ok THEN all[o.wsdl].merged[all[c].url] ELSE {}

LEMMA AnswerMeans ==
    ASSUME NEW all, NEW c \in Call, all[c] \in CallType,
           \A o \in ToSet(all[c].calls) : Honest(all, c, o)
    PROVE  AnswerIn(all, c) = FirstAnswer(all[c])
  <1>1. CASE all[c].calls = <<>>
    BY <1>1 DEF AnswerIn, FirstAnswer
  <1>2. CASE all[c].calls # <<>>
    <2> DEFINE o == all[c].calls[1]
    <2>1. 1 \in DOMAIN all[c].calls
      <3>1. all[c].calls \in Seq(Outcome)
        BY DEF CallType
      <3>2. Len(all[c].calls) \in Nat /\ Len(all[c].calls) # 0
            /\ DOMAIN all[c].calls = 1..Len(all[c].calls)
        BY <1>2, <3>1, EmptySeq, LenProperties
      <3> QED BY <3>2
    <2>2. Honest(all, c, o)
      BY <2>1 DEF ToSet
    <2> HIDE DEF o
    <2>3. o.ok => all[o.wsdl].merged[all[c].url] = Reach[all[c].url]
      BY <2>2 DEF Honest, Success, Failure, Finished
    <2> QED BY <1>2, <2>3 DEF AnswerIn, FirstAnswer, o
  <1> QED BY <1>1, <1>2

\* What the refinement mapping makes of a state.
LEMMA Mapped ==
    ASSUME LoadInv
    PROVE  [c \in Call |-> AnswerOf(c)] = [c \in Call |-> FirstAnswer(call[c])]
  <1>1. ASSUME NEW c \in Call PROVE AnswerOf(c) = FirstAnswer(call[c])
    <2>1. AnswerOf(c) = AnswerIn(call, c)
      BY DEF AnswerOf, AnswerIn
    <2> QED BY <2>1, AnswerMeans DEF LoadInv
  <1> QED BY <1>1

LEMMA MappedNext ==
    ASSUME LoadInv'
    PROVE  [c \in Call |-> AnswerOf(c)]' = [c \in Call |-> FirstAnswer(call'[c])]
  <1>1. ASSUME NEW c \in Call PROVE AnswerOf(c)' = FirstAnswer(call'[c])
    <2>1. AnswerOf(c)' = AnswerIn(call', c)
      BY DEF AnswerOf, AnswerIn
    <2>2. call'[c] \in CallType /\ \A o \in ToSet(call'[c].calls) : Honest(call', c, o)
      BY DEF LoadInv
    <2> QED BY <2>1, <2>2, AnswerMeans
  <1> QED BY <1>1

LEMMA AdvancesImplements ==
    ASSUME LoadInv, LoadInv', NEW c \in Call, NEW d, Advances(c, d)
    PROVE  Provider!Next \/ UNCHANGED Provider!vars
  <1> DEFINE k == call[c]
             asked == [x \in Call |-> call[x].url]
             askedNext == [x \in Call |-> call'[x].url]
             answer == [x \in Call |-> FirstAnswer(call[x])]
             answerNext == [x \in Call |-> FirstAnswer(call'[x])]
             stored == {f \in File : cache[f] # NoCall}
             storedNext == {f \in File : cache'[f] # NoCall}
  <1>1. /\ call'[c] = d /\ \A x \in Call : x # c => call'[x] = call[x]
        /\ Loading(k) /\ Loading(d) /\ k \in CallType /\ d.stage # "new"
    BY DEF Advances, Evolves, Run, LoadInv
  <1>2. d.url \in Url /\ d.url \in File /\ NoFile \notin Url
    BY <1>1, DocumentAssumption DEF Loading, Staged
  <1>3. askedNext = [asked EXCEPT ![c] = d.url] /\ answerNext = [answer EXCEPT ![c] = FirstAnswer(d)]
    BY <1>1
  <1>4. CASE k.stage = "new"
    <2>1. k.url = NoFile /\ k.calls = <<>> /\ d.calls = <<>> /\ cache' = cache
      BY <1>1, <1>4 DEF Loading, Staged, Advances
    <2>2. answerNext = answer /\ storedNext = stored
      BY <1>3, <2>1 DEF FirstAnswer
    <2>3. asked[c] = NoFile
      BY <2>1
    <2>4. Provider!Ask(c, d.url)
      BY <1>3, <2>2, <2>3, Mapped, MappedNext DEF Provider!Ask
    <2> QED BY <1>2, <2>4 DEF Provider!Next
  <1>5. CASE k.stage # "new"
    <2>1. d.url = k.url /\ asked[c] = k.url /\ answer[c] = FirstAnswer(k)
      BY <1>5 DEF Advances, Evolves
    <2>2. askedNext = asked
      BY <1>3, <2>1
    <2>3. CASE d.calls = k.calls /\ cache' = cache
      <3>1. FirstAnswer(d) = FirstAnswer(k)
        BY <2>1, <2>3 DEF FirstAnswer
      <3>2. answerNext = answer /\ storedNext = stored
        BY <1>3, <2>1, <2>3, <3>1
      <3> QED BY <2>2, <3>2, Mapped, MappedNext DEF Provider!vars
    <2>4. CASE k.stage = "delivering" /\ d.calls = Append(k.calls, k.outcome)
      <3>1. d.calls # <<>> /\ d.calls[1] = IF k.calls = <<>> THEN k.outcome ELSE k.calls[1]
        BY <1>1, <2>4, AppendedCall
      <3>2. storedNext = stored
        BY <2>4 DEF Advances
      <3>3. CASE k.calls = <<>>
        <4>1. Provider!Waiting(c)
          BY <1>2, <2>1, <3>3, Mapped DEF Provider!Waiting, FirstAnswer
        <4>2. FirstAnswer(d) = IF k.outcome.ok THEN Reach[k.url] ELSE {}
          BY <2>1, <3>1, <3>3 DEF FirstAnswer
        <4>3. CASE k.outcome.ok
          <5>1. Provider!Succeed(c)
            BY <1>3, <2>1, <2>2, <3>2, <4>1, <4>2, <4>3, Mapped, MappedNext DEF Provider!Succeed
          <5> QED BY <5>1 DEF Provider!Next
        <4>4. CASE ~k.outcome.ok
          <5>1. Provider!Fail(c)
            BY <1>3, <2>2, <3>2, <4>1, <4>2, <4>4, Mapped, MappedNext DEF Provider!Fail
          <5> QED BY <5>1 DEF Provider!Next
        <4> QED BY <4>3, <4>4
      <3>4. CASE k.calls # <<>>
        <4>1. FirstAnswer(d) = FirstAnswer(k)
          BY <2>1, <3>1, <3>4 DEF FirstAnswer
        <4>2. answerNext = answer
          BY <1>3, <2>1, <4>1
        <4> QED BY <2>2, <3>2, <4>2, Mapped, MappedNext DEF Provider!vars
      <3> QED BY <3>3, <3>4
    <2>5. CASE /\ cache' = [cache EXCEPT ![d.url] = c] /\ k.stage = "ready"
               /\ d.calls = k.calls
      <3>1. k.calls = <<>>
        BY <1>1, <2>5 DEF Loading, Staged
      <3>2. answerNext = answer
        <4>1. FirstAnswer(d) = FirstAnswer(k)
          BY <2>1, <2>5 DEF FirstAnswer
        <4> QED BY <1>3, <2>1, <4>1
      <3>3. storedNext = stored \cup {k.url}
        <4>1. cache \in [File -> Call \cup {NoCall}] /\ c # NoCall
          BY CallAssumption DEF LoadInv
        <4>2. \A f \in File : cache'[f] = IF f = k.url THEN c ELSE cache[f]
          BY <1>2, <2>1, <2>5, <4>1
        <4> QED BY <1>2, <2>1, <4>1, <4>2
      <3>4. Provider!Waiting(c)
        BY <1>2, <2>1, <3>1, Mapped DEF Provider!Waiting, FirstAnswer
      <3>5. Provider!Store(c)
        BY <2>1, <2>2, <3>2, <3>3, <3>4, Mapped, MappedNext DEF Provider!Store
      <3> QED BY <3>5 DEF Provider!Next
    <2>6. \/ d.calls = k.calls
          \/ k.stage = "delivering" /\ d.calls = Append(k.calls, k.outcome)
      BY DEF Advances
    <2>7. \/ cache' = cache
          \/ cache' = [cache EXCEPT ![d.url] = c] /\ k.stage = "ready"
      BY DEF Advances
    <2> QED BY <2>3, <2>4, <2>5, <2>6, <2>7
  <1> QED BY <1>4, <1>5

\* The loader implements WsdlProvider: the first callback of a call answers it, for good, with
\* an error or with everything within reach, and a url is stored only while a call that asked
\* for it is about to be answered (src/soap.ts:24-83).
THEOREM LoaderImplementsProvider == Spec => ImplementsProvider
  <1>1. Init => Provider!Init
    <2> SUFFICES ASSUME Init PROVE Provider!Init
      OBVIOUS
    <2>1. \A c \in Call : call[c].url = NoFile /\ AnswerOf(c) = NoFile
      BY DEF Init, NewCall, AnswerOf
    <2>2. {f \in File : cache[f] # NoCall} = {}
      BY DEF Init
    <2> QED BY <2>1, <2>2 DEF Provider!Init
  <1>2. LoadInv /\ LoadInv' /\ [Next]_vars => [Provider!Next]_(Provider!vars)
    <2> SUFFICES ASSUME LoadInv, LoadInv', [Next]_vars
                 PROVE  Provider!Next \/ UNCHANGED Provider!vars
      OBVIOUS
    <2>1. ASSUME NEW c \in Call, NEW url \in Url, NEW cached \in BOOLEAN,
                 CreateClient(c, url, cached)
          PROVE  Provider!Next \/ UNCHANGED Provider!vars
      BY <2>1, CreateClientAdvances, AdvancesImplements
    <2>2. ASSUME NEW c \in Call, Continue(c)
          PROVE  Provider!Next \/ UNCHANGED Provider!vars
      BY <2>2, ContinueAdvances, AdvancesImplements
    <2>3. CASE UNCHANGED vars
      BY <2>3 DEF vars, Provider!vars, AnswerOf
    <2> QED BY <2>1, <2>2, <2>3 DEF Next
  <1> QED BY <1>1, <1>2, InitLoadInv, NextLoadInv, PTL DEF Spec, ImplementsProvider, Provider!Spec
=============================================================================
