-------------------------- MODULE ListenerChainProofs --------------------------
(***************************************************************************)
(* Theorems about ListenerChain, for every set of servers, of listeners of  *)
(* the application and of requests, every choice of paths and of refused    *)
(* requests, and any number of deliveries.                                  *)
(*                                                                          *)
(* That a request is taken once rests on the shape of the lists: on Node's  *)
(* server the listener of a SOAP server is only ever the first of a list,   *)
(* because it takes the others off when it comes.  So what is left to call  *)
(* after one of them has taken the request are the application's own.       *)
(*                                                                          *)
(* How often authorizeConnection is asked rests on two counts: a server has *)
(* one listener more than exceptions of its callback (Delivered), and the   *)
(* listeners that asked are newer than what is called next (Descending).    *)
(*                                                                          *)
(* That requests are routed as RequestRouting says is a refinement.  Each   *)
(* wrapper has a place among the registrations (Placed): the list it saved  *)
(* is the registrations from the newest older wrapper of the list on.  So   *)
(* the listeners that are left to call stand for the registrations from     *)
(* some place on, and none that would take the request was passed (NodeOk). *)
(* On Express what is left to try is the registrations from some place on   *)
(* (ExpressOk).  When nothing is left, what the list of outcomes says is    *)
(* what the abstract step does.                                             *)
(***************************************************************************)
EXTENDS ListenerChain, FoldTheorems

\* Where a list of outcomes says that the request is served or refused.
TakenIn(l) == {i \in DOMAIN l : l[i].what \in {"served", "refused"}}

AtMostOne(set) == \A i, j \in set : i = j

\* Lists without listeners of servers, and those with one at most, at their head.
AppsOnly(l) == \A i \in DOMAIN l : l[i].wrapper = 0

HeadOnly(l) == \A i \in DOMAIN l : l[i].wrapper # 0 => i = 1

\* Nothing was done with a request that did not come.
Untouched == \A r \in Requests : r \notin arrived => outcomes[r] = <<>>

Chained ==
    ~express => /\ HeadOnly(listeners) /\ HeadOnly(pending)
                /\ \A k \in DOMAIN wrappers : HeadOnly(wrappers[k].saved)

\* After the request is taken, no server is called for it.
Settled ==
    current # NoRequest /\ TakenAt(current) # {} =>
        IF express THEN pending = <<>> ELSE AppsOnly(pending)

IInv == TypeOK /\ Untouched /\ Chained /\ Settled /\ TakenOnce

-----------------------------------------------------------------------------
(* Lists. *)

LEMMA TakenAtIn == \A r : TakenAt(r) = TakenIn(outcomes[r])
  BY DEF TakenAt, TakenIn

LEMMA ListenersGrow ==
    ASSUME NEW m \in Nat, NEW n \in Nat, m <= n
    PROVE  ListenersUpTo(m) \subseteq ListenersUpTo(n)
  BY DEF ListenersUpTo

LEMMA ListsGrow ==
    ASSUME NEW m \in Nat, NEW n \in Nat, m <= n, NEW l \in Seq(ListenersUpTo(m))
    PROVE  l \in Seq(ListenersUpTo(n))
  BY ListenersGrow, SeqMonotonic

LEMMA TakenConcat ==
    ASSUME NEW a \in Seq(Outcome), NEW b \in Seq(Outcome),
           AtMostOne(TakenIn(a)), AtMostOne(TakenIn(b)),
           TakenIn(a) = {} \/ TakenIn(b) = {}
    PROVE  /\ AtMostOne(TakenIn(a \o b))
           /\ TakenIn(b) = {} => (TakenIn(a \o b) # {} => TakenIn(a) # {})
  <1>1. /\ DOMAIN (a \o b) = 1..(Len(a) + Len(b))
        /\ DOMAIN a = 1..Len(a) /\ DOMAIN b = 1..Len(b)
        /\ Len(a) \in Nat /\ Len(b) \in Nat
        /\ \A i \in 1..(Len(a) + Len(b)) :
             (a \o b)[i] = IF i <= Len(a) THEN a[i] ELSE b[i - Len(a)]
    BY ConcatProperties, LenProperties
  <1>2. ASSUME NEW i \in TakenIn(a \o b)
        PROVE  i \in Int /\ (i \in TakenIn(a) \/ i - Len(a) \in TakenIn(b))
    BY <1>1, <1>2 DEF TakenIn
  <1>3. CASE TakenIn(b) = {}
    BY <1>2, <1>3 DEF AtMostOne
  <1>4. CASE TakenIn(a) = {} /\ TakenIn(b) # {}
    <2>1. ASSUME NEW i \in TakenIn(a \o b), NEW j \in TakenIn(a \o b)
          PROVE  i = j
      <3>1. i - Len(a) = j - Len(a)
        BY <1>2, <1>4 DEF AtMostOne
      <3> QED BY <1>1, <1>2, <3>1
    <2> QED BY <1>4, <2>1 DEF AtMostOne
  <1> QED BY <1>3, <1>4

LEMMA HeadOnlyConcat ==
    ASSUME NEW S, NEW a \in Seq(S), NEW b \in Seq(S), HeadOnly(a), AppsOnly(b)
    PROVE  HeadOnly(a \o b)
  <1>1. /\ DOMAIN (a \o b) = 1..(Len(a) + Len(b))
        /\ DOMAIN a = 1..Len(a) /\ DOMAIN b = 1..Len(b)
        /\ Len(a) \in Nat /\ Len(b) \in Nat
        /\ \A i \in 1..(Len(a) + Len(b)) :
             (a \o b)[i] = IF i <= Len(a) THEN a[i] ELSE b[i - Len(a)]
    BY ConcatProperties, LenProperties
  <1>2. ASSUME NEW i \in DOMAIN (a \o b), (a \o b)[i].wrapper # 0
        PROVE  i = 1
    <2>1. i <= Len(a) \/ i - Len(a) \in DOMAIN b
      BY <1>1
    <2>2. CASE i <= Len(a)
      BY <1>1, <1>2, <2>2 DEF HeadOnly
    <2>3. CASE ~(i <= Len(a))
      BY <1>1, <1>2, <2>3 DEF AppsOnly
    <2> QED BY <2>2, <2>3
  <1> QED BY <1>2 DEF HeadOnly

LEMMA AppsOnlyTail ==
    ASSUME NEW S, NEW l \in Seq(S), l # <<>>, HeadOnly(l)
    PROVE  AppsOnly(Tail(l))
  <1>1. /\ Tail(l) \in Seq(S) /\ Len(Tail(l)) = Len(l) - 1
        /\ \A i \in 1..Len(Tail(l)) : Tail(l)[i] = l[i + 1]
    BY HeadTailProperties
  <1>2. DOMAIN Tail(l) = 1..Len(Tail(l)) /\ DOMAIN l = 1..Len(l) /\ Len(l) \in Nat
    BY <1>1, LenProperties
  <1> QED BY <1>1, <1>2 DEF HeadOnly, AppsOnly

LEMMA AppsOnlyIsHeadOnly == \A l : AppsOnly(l) => HeadOnly(l)
  BY DEF AppsOnly, HeadOnly

LEMMA HeadOnlyAppend ==
    ASSUME NEW S, NEW l \in Seq(S), NEW a \in Apps, App(a) \in S, HeadOnly(l)
    PROVE  HeadOnly(Append(l, App(a)))
  <1>1. App(a).wrapper = 0
    BY DEF App
  <1>2. /\ Append(l, App(a)) \in Seq(S) /\ Len(Append(l, App(a))) = Len(l) + 1
        /\ \A i \in 1..Len(l) : Append(l, App(a))[i] = l[i]
        /\ Append(l, App(a))[Len(l) + 1] = App(a)
    BY AppendProperties
  <1>3. /\ DOMAIN Append(l, App(a)) = 1..(Len(l) + 1)
        /\ DOMAIN l = 1..Len(l) /\ Len(l) \in Nat
    BY <1>2, LenProperties
  <1> QED BY <1>1, <1>2, <1>3 DEF HeadOnly

LEMMA OneListener ==
    ASSUME NEW l
    PROVE  HeadOnly(<<l>>)
  BY DEF HeadOnly

-----------------------------------------------------------------------------
(* What the listener of a server does with the current request. *)

LEMMA AskedType ==
    ASSUME NEW s \in Servers
    PROVE  Asked(s) \in Seq(Outcome) /\ TakenIn(Asked(s)) = {}
  <1>1. Did("asked", s) \in Outcome /\ Did("asked", s).what = "asked"
    BY DEF Did, Outcome
  <1>2. CASE Asked(s) = <<Did("asked", s)>>
    BY <1>1, <1>2 DEF TakenIn
  <1>3. CASE Asked(s) = <<>>
    BY <1>3 DEF TakenIn
  <1> QED BY <1>2, <1>3 DEF Asked

\* What is done with a request, of which the last may be that it is taken.
LEMMA DoneType ==
    ASSUME NEW s \in Servers, NEW last \in Seq(Outcome), Len(last) <= 1
    PROVE  /\ Asked(s) \o last \in Seq(Outcome)
           /\ AtMostOne(TakenIn(Asked(s) \o last))
           /\ last = <<>> => TakenIn(Asked(s) \o last) = {}
  <1>1. AtMostOne(TakenIn(last))
    <2>1. DOMAIN last = 1..Len(last) /\ Len(last) \in Nat
      BY LenProperties
    <2>2. \A i \in TakenIn(last) : i = 1
      BY <2>1 DEF TakenIn
    <2> QED BY <2>2 DEF AtMostOne
  <1>2. Asked(s) \in Seq(Outcome) /\ TakenIn(Asked(s)) = {} /\ AtMostOne(TakenIn(Asked(s)))
    BY AskedType DEF AtMostOne
  <1>3. Asked(s) \o last \in Seq(Outcome)
    BY <1>2, ConcatProperties
  <1>4. AtMostOne(TakenIn(Asked(s) \o last))
    BY <1>1, <1>2, TakenConcat
  <1>5. last = <<>> => TakenIn(Asked(s) \o last) = {}
    BY <1>2, ConcatEmptySeq
  <1> QED BY <1>3, <1>4, <1>5

\* Noting what is done with the current request, which is not taken twice.
LEMMA NoteKeeps ==
    ASSUME IInv, current # NoRequest, arrived' = arrived,
           NEW did \in Seq(Outcome), Note(did), AtMostOne(TakenIn(did)),
           TakenAt(current) = {} \/ TakenIn(did) = {}
    PROVE  /\ outcomes' \in [Requests -> Seq(Outcome)]
           /\ Untouched' /\ TakenOnce'
           /\ TakenIn(did) = {} => (TakenIn(outcomes'[current]) # {} => TakenAt(current) # {})
  <1>1. /\ current \in arrived /\ current \in Requests
        /\ outcomes \in [Requests -> Seq(Outcome)] /\ outcomes[current] \in Seq(Outcome)
    BY DEF IInv, TypeOK
  <1>2. /\ \A r \in Requests : outcomes'[r] = IF r = current THEN outcomes[r] \o did
                                              ELSE outcomes[r]
        /\ outcomes' = [r \in Requests |-> IF r = current THEN outcomes[r] \o did
                                           ELSE outcomes[r]]
    BY <1>1 DEF Note
  <1>3. \A r \in Requests : AtMostOne(TakenIn(outcomes[r]))
    BY TakenAtIn DEF IInv, TakenOnce, AtMostOne
  <1>4. TakenAt(current) = TakenIn(outcomes[current])
    BY TakenAtIn
  <1>5. /\ AtMostOne(TakenIn(outcomes[current] \o did))
        /\ TakenIn(did) = {} =>
             (TakenIn(outcomes[current] \o did) # {} => TakenIn(outcomes[current]) # {})
    BY <1>1, <1>3, <1>4, TakenConcat
  <1>6. outcomes[current] \o did \in Seq(Outcome)
    BY <1>1, ConcatProperties
  <1>7. \A r \in Requests : outcomes'[r] \in Seq(Outcome)
    BY <1>1, <1>2, <1>6
  <1>8. outcomes' \in [Requests -> Seq(Outcome)]
    BY <1>2, <1>7
  <1>9. Untouched'
    BY <1>1, <1>2 DEF IInv, Untouched
  <1>10. \A r \in Requests : AtMostOne(TakenIn(outcomes'[r]))
    BY <1>1, <1>2, <1>3, <1>5
  <1>11. TakenOnce'
    <2>1. \A r : TakenAt(r)' = TakenIn(outcomes'[r])
      BY DEF TakenAt, TakenIn
    <2> QED BY <1>10, <2>1 DEF TakenOnce, AtMostOne
  <1> QED BY <1>1, <1>2, <1>4, <1>5, <1>8, <1>9, <1>11

\* The listener that is called, and what is left.
LEMMA CallingType ==
    ASSUME TypeOK, NEW n, Calling(n)
    PROVE  /\ pending # <<>> /\ pending \in Seq(ListenersUpTo(Len(wrappers)))
           /\ Head(pending) \in ListenersUpTo(Len(wrappers)) /\ Head(pending) = pending[1]
           /\ 1 \in DOMAIN pending
           /\ Tail(pending) \in Seq(ListenersUpTo(Len(wrappers)))
  <1>1. pending # <<>> /\ pending \in Seq(ListenersUpTo(Len(wrappers)))
    BY DEF Calling, TypeOK
  <1>2. Len(pending) \in Nat \ {0} /\ DOMAIN pending = 1..Len(pending)
    BY <1>1, EmptySeq, LenProperties
  <1> QED BY <1>1, <1>2, HeadTailProperties

LEMMA WrapperType ==
    ASSUME TypeOK, NEW w \in DOMAIN wrappers
    PROVE  /\ w \in Nat /\ w # 0 /\ wrappers[w].server \in Servers
           /\ wrappers[w].saved \in Seq(ListenersUpTo(Len(wrappers)))
  <1> DEFINE R == [server : Servers, saved : Seq(ListenersUpTo(Len(wrappers)))]
  <1>1. wrappers \in Seq(R)
    BY DEF TypeOK
  <1> HIDE DEF R
  <1>2. w \in 1..Len(wrappers) /\ Len(wrappers) \in Nat
    BY <1>1, LenProperties
  <1>3. wrappers[w] \in R
    BY <1>1, <1>2, ElementOfSeq
  <1> QED BY <1>2, <1>3 DEF R

-----------------------------------------------------------------------------
(* Every step keeps the invariant. *)

LEMMA InitInv == Init => IInv
  <1> SUFFICES ASSUME Init PROVE IInv
    OBVIOUS
  <1> USE ListenerAssumption
  <1>1. /\ \A S : <<>> \in Seq(S)
        /\ DOMAIN <<>> = {} /\ Len(<<>>) = 0
    BY EmptySeq
  <1>2. TypeOK
    BY <1>1 DEF Init, TypeOK
  <1>3. Untouched /\ Chained /\ Settled
    BY <1>1 DEF Init, Untouched, Chained, Settled, HeadOnly
  <1>4. TakenOnce
    BY <1>1 DEF Init, TakenOnce, TakenAt
  <1> QED BY <1>2, <1>3, <1>4 DEF IInv

\* What registers a listener, and the calls for a request, leave alone.
LEMMA KeepsOutcomes ==
    ASSUME IInv, UNCHANGED dispatchVars
    PROVE  Untouched' /\ TakenOnce' /\ (express' = express => Settled')
  BY DEF IInv, dispatchVars, Untouched, TakenOnce, TakenAt, Settled

LEMMA RegisterKeeps ==
    ASSUME IInv, NEW s \in Servers, Register(s), express' = express, UNCHANGED dispatchVars
    PROVE  /\ wrappers' \in Seq([server : Servers, saved : Seq(ListenersUpTo(Len(wrappers'))) ])
           /\ \A k \in DOMAIN wrappers' : wrappers'[k].saved \in Seq(ListenersUpTo(k - 1))
           /\ listeners' \in Seq(ListenersUpTo(Len(wrappers')))
           /\ pending' \in Seq(ListenersUpTo(Len(wrappers')))
           /\ Chained'
  <1> DEFINE n == Len(wrappers)
             R(k) == [server : Servers, saved : Seq(ListenersUpTo(k))]
             saved == IF express THEN <<>> ELSE listeners
             new == [server |-> s, saved |-> saved]
  <1>1. wrappers \in Seq(R(n)) /\ listeners \in Seq(ListenersUpTo(n))
        /\ pending \in Seq(ListenersUpTo(n)) /\ express \in BOOLEAN
    BY DEF IInv, TypeOK
  <1>2. n \in Nat /\ DOMAIN wrappers = 1..n
    BY <1>1, LenProperties
  <1>3. /\ ListenersUpTo(n) \subseteq ListenersUpTo(n + 1)
        /\ Seq(ListenersUpTo(n)) \subseteq Seq(ListenersUpTo(n + 1))
    BY <1>2, ListenersGrow, ListsGrow
  <1>4. R(n) \subseteq R(n + 1)
    BY <1>3
  <1>5. wrappers \in Seq(R(n + 1))
    BY <1>1, <1>4, SeqMonotonic
  <1>6. saved \in Seq(ListenersUpTo(n)) /\ new \in R(n + 1)
    BY <1>1, <1>3, EmptySeq
  <1> HIDE DEF R
  <1>7. wrappers' = Append(wrappers, new)
    BY DEF Register
  <1>8. /\ wrappers' \in Seq(R(n + 1)) /\ Len(wrappers') = n + 1
        /\ \A k \in 1..n : wrappers'[k] = wrappers[k]
        /\ wrappers'[n + 1] = new
    BY <1>5, <1>6, <1>7, AppendProperties
  <1>9. DOMAIN wrappers' = 1..(n + 1)
    BY <1>8, LenProperties
  <1>10. \A k \in DOMAIN wrappers : wrappers[k].saved \in Seq(ListenersUpTo(k - 1))
    BY DEF IInv, TypeOK
  <1>11. new.saved = saved
    OBVIOUS
  <1>12. ASSUME NEW k \in DOMAIN wrappers'
         PROVE  wrappers'[k].saved \in Seq(ListenersUpTo(k - 1))
    <2>1. CASE k \in 1..n
      BY <1>2, <1>8, <1>10, <2>1
    <2>2. CASE k = n + 1
      <3>1. k - 1 = n
        BY <1>2, <2>2
      <3> HIDE DEF n, saved, new
      <3> QED BY <1>6, <1>8, <1>11, <2>2, <3>1
    <2> QED BY <1>2, <1>9, <2>1, <2>2
  <1>13. Wrapper(n + 1) \in ListenersUpTo(n + 1)
    BY <1>2 DEF ListenersUpTo
  <1>14. listeners' \in Seq(ListenersUpTo(n + 1))
    <2>1. listeners \in Seq(ListenersUpTo(n + 1)) /\ n = Len(wrappers)
      BY <1>1, <1>3
    <2> HIDE DEF n
    <2>2. Append(listeners, Wrapper(n + 1)) \in Seq(ListenersUpTo(n + 1))
      BY <1>13, <2>1, AppendProperties
    <2>3. <<Wrapper(n + 1)>> \in Seq(ListenersUpTo(n + 1))
      BY <1>13
    <2> QED BY <2>1, <2>2, <2>3 DEF Register
  <1>15. pending' \in Seq(ListenersUpTo(n + 1))
    BY <1>1, <1>3 DEF dispatchVars
  <1>16. Chained'
    <2> SUFFICES ASSUME ~express
                 PROVE  /\ HeadOnly(listeners') /\ HeadOnly(pending')
                        /\ \A k \in DOMAIN wrappers' : HeadOnly(wrappers'[k].saved)
      BY DEF Chained, HeadOnly
    <2>1. /\ HeadOnly(listeners) /\ HeadOnly(pending)
          /\ \A k \in DOMAIN wrappers : HeadOnly(wrappers[k].saved)
      BY DEF IInv, Chained
    <2>2. listeners' = <<Wrapper(n + 1)>> /\ pending' = pending /\ saved = listeners
      BY DEF Register, dispatchVars
    <2>3. HeadOnly(listeners')
      BY <2>2, OneListener
    <2>4. ASSUME NEW k \in DOMAIN wrappers' PROVE HeadOnly(wrappers'[k].saved)
      <3>1. CASE k \in 1..n
        BY <1>2, <1>8, <2>1, <3>1
      <3>2. CASE k = n + 1
        <4> HIDE DEF n, saved, new
        <4> QED BY <1>8, <1>11, <2>1, <2>2, <3>2
      <3> QED BY <1>2, <1>9, <3>1, <3>2
    <2> QED BY <2>1, <2>2, <2>3, <2>4
  <1>17. Len(wrappers') = n + 1
    BY <1>8
  <1> HIDE DEF n
  <1> QED BY <1>8, <1>12, <1>14, <1>15, <1>16, <1>17 DEF R

\* A WSDL is delivered, for the first time or again.
LEMMA DeliverKeeps ==
    ASSUME IInv, NEW s \in Servers, Deliver(s), loading' \subseteq loading
    PROVE  IInv'
  <1> USE DEF IInv
  <1>1. /\ Register(s) /\ log' = Append(log, s)
        /\ UNCHANGED <<express, guarded, arrived, current, pending, outcomes>>
        /\ UNCHANGED dispatchVars
    BY DEF Deliver, dispatchVars
  <1>2. PICK throw \in BOOLEAN :
           /\ throws' = [throws EXCEPT ![s] = IF throw THEN @ + 1 ELSE @]
           /\ delivering' = IF throw /\ throws[s] < MaxThrows THEN s ELSE NoServer
    BY DEF Deliver
  <1>3. throws' \in [Servers -> Nat] /\ delivering' \in Servers \cup {NoServer}
    BY <1>2 DEF TypeOK
  <1>4. log' \in Seq(Servers \cup Apps)
    BY <1>1, AppendProperties DEF TypeOK
  <1>5. /\ express' \in BOOLEAN /\ loading' \subseteq Servers /\ guarded' \subseteq Servers
        /\ arrived' \subseteq Requests /\ current' \in arrived' \cup {NoRequest}
        /\ outcomes' \in [Requests -> Seq(Outcome)]
    BY <1>1 DEF TypeOK
  <1>6. /\ wrappers' \in Seq([server : Servers, saved : Seq(ListenersUpTo(Len(wrappers')))])
        /\ \A k \in DOMAIN wrappers' : wrappers'[k].saved \in Seq(ListenersUpTo(k - 1))
        /\ listeners' \in Seq(ListenersUpTo(Len(wrappers')))
        /\ pending' \in Seq(ListenersUpTo(Len(wrappers')))
        /\ Chained'
    BY <1>1, RegisterKeeps
  <1>7. TypeOK'
    BY <1>3, <1>4, <1>5, <1>6 DEF TypeOK
  <1> QED BY <1>1, <1>6, <1>7, KeepsOutcomes

LEMMA AddListenerKeeps ==
    ASSUME IInv, NEW a \in Apps, AddListener(a)
    PROVE  IInv'
  <1>1. /\ listeners' = Append(listeners, App(a)) /\ log' = Append(log, a)
        /\ UNCHANGED <<express, loadVars, wrappers, guarded>> /\ UNCHANGED dispatchVars
    BY DEF AddListener
  <1>2. App(a) \in ListenersUpTo(Len(wrappers))
    BY DEF ListenersUpTo
  <1>3. listeners \in Seq(ListenersUpTo(Len(wrappers))) /\ log \in Seq(Servers \cup Apps)
    BY DEF IInv, TypeOK
  <1>4. /\ listeners' \in Seq(ListenersUpTo(Len(wrappers)))
        /\ log' \in Seq(Servers \cup Apps)
    BY <1>1, <1>2, <1>3, AppendProperties
  <1>5. TypeOK'
    BY <1>1, <1>4 DEF IInv, TypeOK, loadVars, dispatchVars
  <1>6. Chained'
    <2>1. ~express => HeadOnly(listeners')
      BY <1>1, <1>2, <1>3, HeadOnlyAppend DEF IInv, Chained
    <2>2. UNCHANGED <<express, wrappers, pending>>
      BY <1>1 DEF dispatchVars
    <2> QED BY <2>1, <2>2 DEF IInv, Chained, HeadOnly
  <1> QED BY <1>1, <1>5, <1>6, KeepsOutcomes DEF IInv

LEMMA SetAuthorizeConnectionKeeps ==
    ASSUME IInv, NEW s \in Servers, SetAuthorizeConnection(s)
    PROVE  IInv'
  <1>1. /\ guarded' = guarded \cup {s}
        /\ UNCHANGED <<express, loadVars, wrappers, log, listeners>> /\ UNCHANGED dispatchVars
    BY DEF SetAuthorizeConnection
  <1>2. TypeOK'
    BY <1>1 DEF IInv, TypeOK, loadVars, dispatchVars
  <1>3. Chained'
    BY <1>1 DEF IInv, Chained, HeadOnly, dispatchVars
  <1> QED BY <1>1, <1>2, <1>3, KeepsOutcomes DEF IInv

LEMMA RequestKeeps ==
    ASSUME IInv, NEW r \in Requests, Request(r)
    PROVE  IInv'
  <1>1. /\ r \notin arrived /\ arrived' = arrived \cup {r} /\ current' = r
        /\ pending' = listeners
        /\ UNCHANGED <<express, loadVars, wrappers, log, listeners, guarded, outcomes>>
    BY DEF Request
  <1>2. TypeOK'
    BY <1>1 DEF IInv, TypeOK, loadVars
  <1>3. Untouched' /\ TakenOnce'
    BY <1>1 DEF IInv, Untouched, TakenOnce, TakenAt
  <1>4. Chained'
    BY <1>1 DEF IInv, Chained, HeadOnly
  <1>5. Settled'
    <2>1. outcomes'[r] = <<>>
      BY <1>1 DEF IInv, Untouched
    <2>2. TakenAt(current)' = {}
      BY <1>1, <2>1, EmptySeq DEF TakenAt
    <2> QED BY <2>2 DEF Settled
  <1> QED BY <1>2, <1>3, <1>4, <1>5 DEF IInv

\* A call for the current request: did is noted, and rest is what is left to call.
LEMMA CallKeeps ==
    ASSUME IInv, current # NoRequest,
           NEW did \in Seq(Outcome), Note(did), AtMostOne(TakenIn(did)),
           TakenAt(current) = {} \/ TakenIn(did) = {},
           pending' \in Seq(ListenersUpTo(Len(wrappers))),
           ~express => HeadOnly(pending'),
           TakenAt(current) # {} \/ TakenIn(did) # {} =>
               IF express THEN pending' = <<>> ELSE AppsOnly(pending'),
           UNCHANGED <<express, loadVars, wrappers, log, listeners, guarded, arrived, current>>
    PROVE  IInv'
  <1>1. /\ outcomes' \in [Requests -> Seq(Outcome)]
        /\ Untouched' /\ TakenOnce'
        /\ TakenIn(did) = {} => (TakenIn(outcomes'[current]) # {} => TakenAt(current) # {})
    BY NoteKeeps
  <1>2. TypeOK'
    BY <1>1 DEF IInv, TypeOK, loadVars
  <1>3. Chained'
    BY DEF IInv, Chained, HeadOnly
  <1>4. TakenAt(current)' = TakenIn(outcomes'[current])
    BY DEF TakenAt, TakenIn
  <1>5. Settled'
    BY <1>1, <1>4 DEF Settled, AppsOnly
  <1> QED BY <1>1, <1>2, <1>3, <1>5 DEF IInv

LEMMA CallListenerKeeps ==
    ASSUME IInv, NEW w, CallListener(w)
    PROVE  IInv'
  <1> DEFINE s == wrappers[w].server
             last == IF Refuses(s) THEN <<Did("refused", s)>>
                     ELSE IF current \in Has[s] THEN <<Did("served", s)>> ELSE <<>>
             did == Asked(s) \o last
  <1>1. /\ ~express /\ Calling(w) /\ w \in DOMAIN wrappers
        /\ Note(did) /\ pending' = Saved(w) \o Tail(pending)
        /\ UNCHANGED <<express, loadVars, wrappers, log, listeners, guarded, arrived, current>>
    BY DEF CallListener
  <1>2. TypeOK
    BY DEF IInv
  <1>3. /\ w # 0 /\ s \in Servers
        /\ wrappers[w].saved \in Seq(ListenersUpTo(Len(wrappers)))
    BY <1>1, <1>2, WrapperType
  <1>4. /\ pending # <<>> /\ pending \in Seq(ListenersUpTo(Len(wrappers)))
        /\ Head(pending) = pending[1] /\ 1 \in DOMAIN pending
        /\ Tail(pending) \in Seq(ListenersUpTo(Len(wrappers)))
        /\ current # NoRequest /\ Head(pending).wrapper = w
    BY <1>1, <1>2, CallingType DEF Calling
  <1>5. HeadOnly(pending) /\ HeadOnly(wrappers[w].saved)
    BY <1>1 DEF IInv, Chained
  <1>6. AppsOnly(Tail(pending))
    BY <1>4, <1>5, AppsOnlyTail
  <1>7. TakenAt(current) = {}
    BY <1>1, <1>3, <1>4 DEF IInv, Settled, AppsOnly
  <1>8. last \in Seq(Outcome) /\ Len(last) <= 1
    <2>1. Did("refused", s) \in Outcome /\ Did("served", s) \in Outcome
      BY <1>3 DEF Did, Outcome
    <2> HIDE DEF s
    <2> QED BY <2>1
  <1>9. did \in Seq(Outcome) /\ AtMostOne(TakenIn(did)) /\ (last = <<>> => TakenIn(did) = {})
    <2> HIDE DEF s, last
    <2> QED BY <1>3, <1>8, DoneType
  <1>10. Saved(w) \in Seq(ListenersUpTo(Len(wrappers))) /\ HeadOnly(Saved(w))
    <2>1. Saved(w) = <<>> \/ Saved(w) = wrappers[w].saved
      BY DEF Saved
    <2>2. <<>> \in Seq(ListenersUpTo(Len(wrappers)))
      BY EmptySeq
    <2>3. HeadOnly(<<>>)
      BY DEF HeadOnly
    <2>4. CASE Saved(w) = <<>>
      BY <2>2, <2>3, <2>4
    <2>5. CASE Saved(w) = wrappers[w].saved
      BY <1>3, <1>5, <2>5
    <2> QED BY <2>1, <2>4, <2>5
  <1>11. last # <<>> => Saved(w) = <<>>
    BY DEF Saved
  <1>12. /\ pending' \in Seq(ListenersUpTo(Len(wrappers))) /\ HeadOnly(pending')
    BY <1>1, <1>4, <1>6, <1>10, ConcatProperties, HeadOnlyConcat
  <1>13. TakenIn(did) # {} => AppsOnly(pending')
    <2>1. Saved(w) = <<>> => pending' = Tail(pending)
      BY <1>1, <1>4, ConcatEmptySeq
    <2> QED BY <1>6, <1>9, <1>11, <2>1
  <1> HIDE DEF did
  <1> QED BY <1>1, <1>4, <1>7, <1>9, <1>12, <1>13, CallKeeps

LEMMA CallRouteKeeps ==
    ASSUME IInv, NEW w, CallRoute(w)
    PROVE  IInv'
  <1> DEFINE s == wrappers[w].server
             last == <<Did(IF Refuses(s) THEN "refused" ELSE "served", s)>>
             did == IF current \in Has[s] THEN Asked(s) \o last ELSE <<>>
  <1>1. /\ express /\ Calling(w) /\ w \in DOMAIN wrappers
        /\ UNCHANGED <<express, loadVars, wrappers, log, listeners, guarded, arrived, current>>
    BY DEF CallRoute
  <1>2. TypeOK
    BY DEF IInv
  <1>3. w # 0 /\ s \in Servers
    BY <1>1, <1>2, WrapperType
  <1>4. /\ pending # <<>> /\ Tail(pending) \in Seq(ListenersUpTo(Len(wrappers)))
        /\ current # NoRequest
    BY <1>1, <1>2, CallingType DEF Calling
  <1>5. TakenAt(current) = {}
    BY <1>1, <1>4 DEF IInv, Settled
  <1>6. last \in Seq(Outcome) /\ Len(last) <= 1
    BY <1>3 DEF Did, Outcome
  <1>7. Asked(s) \o last \in Seq(Outcome) /\ AtMostOne(TakenIn(Asked(s) \o last))
    <2> HIDE DEF s, last
    <2> QED BY <1>3, <1>6, DoneType
  <1>8. <<>> \in Seq(Outcome) /\ TakenIn(<<>>) = {}
    BY EmptySeq DEF TakenIn
  <1>9. did \in Seq(Outcome) /\ AtMostOne(TakenIn(did))
    BY <1>7, <1>8 DEF AtMostOne
  <1>10. Note(did)
    <2>1. CASE current \in Has[s]
      BY <2>1 DEF CallRoute
    <2>2. CASE current \notin Has[s]
      <3>1. outcomes' = outcomes
        BY <2>2 DEF CallRoute
      <3>2. outcomes \in [Requests -> Seq(Outcome)] /\ outcomes[current] \in Seq(Outcome)
        BY <1>2, <1>4 DEF TypeOK
      <3>3. outcomes[current] \o <<>> = outcomes[current]
        BY <3>2, ConcatEmptySeq
      <3> QED BY <2>2, <3>1, <3>2, <3>3 DEF Note
    <2> QED BY <2>1, <2>2
  <1>11. pending' = IF current \in Has[s] THEN <<>> ELSE Tail(pending)
    BY DEF CallRoute
  <1>12. pending' \in Seq(ListenersUpTo(Len(wrappers)))
    BY <1>4, <1>11, EmptySeq
  <1>13. TakenIn(did) # {} => pending' = <<>>
    BY <1>8, <1>11
  <1> HIDE DEF did
  <1> QED BY <1>1, <1>4, <1>5, <1>9, <1>10, <1>12, <1>13, CallKeeps

LEMMA CallAppKeeps ==
    ASSUME IInv, CallApp
    PROVE  IInv'
  <1>1. /\ Calling(0)
        /\ pending' = IF express THEN <<>> ELSE Tail(pending)
        /\ UNCHANGED <<express, loadVars, wrappers, log, listeners, guarded, arrived, current>>
    BY DEF CallApp
  <1>2. TypeOK
    BY DEF IInv
  <1>3. PICK a \in Head(pending).app : Note(<<Did("called", a)>>)
    BY DEF CallApp
  <1> DEFINE did == <<Did("called", a)>>
  <1>4. /\ pending # <<>> /\ pending \in Seq(ListenersUpTo(Len(wrappers)))
        /\ Head(pending) \in ListenersUpTo(Len(wrappers))
        /\ Tail(pending) \in Seq(ListenersUpTo(Len(wrappers)))
        /\ current # NoRequest
    BY <1>1, <1>2, CallingType DEF Calling
  <1>5. a \in Apps
    BY <1>3, <1>4 DEF ListenersUpTo, Wrapper, App
  <1>6. did \in Seq(Outcome) /\ TakenIn(did) = {} /\ AtMostOne(TakenIn(did))
    BY <1>5 DEF Did, Outcome, TakenIn, AtMostOne
  <1>7. pending' \in Seq(ListenersUpTo(Len(wrappers)))
    BY <1>1, <1>4, EmptySeq
  <1>8. ~express => AppsOnly(pending')
    <2>1. ~express => HeadOnly(pending)
      BY DEF IInv, Chained
    <2> QED BY <1>1, <1>4, <2>1, AppsOnlyTail
  <1>9. ~express => HeadOnly(pending')
    BY <1>8, AppsOnlyIsHeadOnly
  <1>10. express => pending' = <<>>
    BY <1>1
  <1>11. Note(did)
    BY <1>3
  <1> HIDE DEF did
  <1> QED BY <1>1, <1>4, <1>6, <1>7, <1>8, <1>9, <1>10, <1>11, CallKeeps

LEMMA ReturnKeeps ==
    ASSUME IInv, Return
    PROVE  IInv'
  <1>1. /\ current' = NoRequest
        /\ UNCHANGED <<express, loadVars, wrappers, log, listeners, guarded, arrived, pending,
                       outcomes>>
    BY DEF Return
  <1>2. TypeOK'
    BY <1>1 DEF IInv, TypeOK, loadVars
  <1>3. Untouched' /\ TakenOnce' /\ Settled'
    BY <1>1 DEF IInv, Untouched, TakenOnce, TakenAt, Settled
  <1>4. Chained'
    BY <1>1 DEF IInv, Chained, HeadOnly
  <1> QED BY <1>2, <1>3, <1>4 DEF IInv

LEMMA StutterKeeps ==
    ASSUME IInv, UNCHANGED vars
    PROVE  IInv'
  BY DEF IInv, TypeOK, Untouched, Chained, HeadOnly, Settled, AppsOnly, TakenOnce, TakenAt,
         vars, loadVars, dispatchVars

LEMMA NextInv == IInv /\ [Next]_vars => IInv'
  <1> SUFFICES ASSUME IInv, [Next]_vars PROVE IInv'
    OBVIOUS
  <1>1. ASSUME NEW s \in Servers, OnReady(s) PROVE IInv'
    BY <1>1, DeliverKeeps DEF OnReady
  <1>2. ASSUME NEW s \in Servers, OnReadyAgain(s) PROVE IInv'
    BY <1>2, DeliverKeeps DEF OnReadyAgain
  <1>3. ASSUME NEW s \in Servers, SetAuthorizeConnection(s) PROVE IInv'
    BY <1>3, SetAuthorizeConnectionKeeps
  <1>4. ASSUME NEW a \in Apps, AddListener(a) PROVE IInv'
    BY <1>4, AddListenerKeeps
  <1>5. ASSUME NEW r \in Requests, Request(r) PROVE IInv'
    BY <1>5, RequestKeeps
  <1>6. ASSUME NEW w, CallListener(w) PROVE IInv'
    BY <1>6, CallListenerKeeps
  <1>7. ASSUME NEW w, CallRoute(w) PROVE IInv'
    BY <1>7, CallRouteKeeps
  <1>8. ASSUME CallApp PROVE IInv'
    BY <1>8, CallAppKeeps
  <1>9. ASSUME Return PROVE IInv'
    BY <1>9, ReturnKeeps
  <1>10. ASSUME UNCHANGED vars PROVE IInv'
    BY <1>10, StutterKeeps
  <1> QED
    BY <1>1, <1>2, <1>3, <1>4, <1>5, <1>6, <1>7, <1>8, <1>9, <1>10 DEF Next

-----------------------------------------------------------------------------
(* The theorems. *)

LEMMA Invariance == Spec => []IInv
  BY InitInv, NextInv, PTL DEF Spec

\* The lists hold listeners that exist, and each listener of a server has saved only older
\* ones: following the calls of src/server.ts:153-171 never leads back.
THEOREM TypeCorrect == Spec => []TypeOK
  <1>1. IInv => TypeOK
    BY DEF IInv
  <1> QED BY <1>1, Invariance, PTL

\* A request is served or refused once at most, whatever servers and listeners there are,
\* in whatever order their WSDLs become ready and however often they are delivered.
THEOREM RequestsAreTakenOnce == Spec => []TakenOnce
  <1>1. IInv => TakenOnce
    BY DEF IInv
  <1> QED BY <1>1, Invariance, PTL

-----------------------------------------------------------------------------
(* How often a server is asked. *)

\* Where a list of outcomes says that s was asked.
AskedIn(l, s) == {i \in DOMAIN l : l[i] = Did("asked", s)}

WrappersOf(s) == {k \in DOMAIN wrappers : wrappers[k].server = s}

\* The wrapper at the head of a list, 0 when there is none.
FirstOf(l) == IF l = <<>> THEN 0 ELSE Head(l).wrapper

Upcoming == FirstOf(pending)

\* A server has a listener more than exceptions of its callback, or is to be delivered.
Delivered ==
    \A s \in Servers :
        /\ s \in loading => WrappersOf(s) = {} /\ s # delivering
        /\ Cardinality(WrappersOf(s)) <= throws[s] + (IF s = delivering THEN 0 ELSE 1)

\* On Node's server the wrappers are called from the newest to the oldest.
Descending ==
    ~express /\ current # NoRequest =>
        \A s \in Servers :
            Cardinality(AskedAt(current, s))
                <= Cardinality({k \in WrappersOf(s) : k > Upcoming})

\* On Express the server that is asked passes nothing on.
Routed ==
    express => /\ \A r \in Requests : \A s \in Servers : AtMostOne(AskedAt(r, s))
               /\ current # NoRequest /\ pending # <<>> =>
                      \A s \in Servers : AskedAt(current, s) = {}

\* What these say of the current request.
AskedNow == \A s \in Servers : Cardinality(AskedAt(current, s)) <= throws[s] + 1

KInv == IInv /\ Delivered /\ Descending /\ Routed /\ AskedOnce

LEMMA AskedAtIn == \A r, s : AskedAt(r, s) = AskedIn(outcomes[r], s)
  BY DEF AskedAt, AskedIn

LEMMA AskedInFinite ==
    ASSUME NEW l \in Seq(Outcome), NEW s
    PROVE  /\ AskedIn(l, s) \subseteq 1..Len(l) /\ Len(l) \in Nat
           /\ IsFiniteSet(AskedIn(l, s)) /\ Cardinality(AskedIn(l, s)) \in Nat
  <1>1. DOMAIN l = 1..Len(l) /\ Len(l) \in Nat
    BY LenProperties
  <1>2. AskedIn(l, s) \subseteq 1..Len(l)
    BY <1>1 DEF AskedIn
  <1>3. IsFiniteSet(1..Len(l))
    BY <1>1, FS_Interval
  <1>4. IsFiniteSet(AskedIn(l, s))
    BY <1>2, <1>3, FS_Subset
  <1> QED BY <1>1, <1>2, <1>4, FS_CardinalityType

LEMMA ConcatParts ==
    ASSUME NEW S, NEW a \in Seq(S), NEW b \in Seq(S)
    PROVE  /\ DOMAIN (a \o b) = 1..(Len(a) + Len(b))
           /\ DOMAIN a = 1..Len(a) /\ DOMAIN b = 1..Len(b)
           /\ Len(a) \in Nat /\ Len(b) \in Nat
           /\ \A i \in 1..(Len(a) + Len(b)) :
                (a \o b)[i] = IF i <= Len(a) THEN a[i] ELSE b[i - Len(a)]
  BY ConcatProperties, LenProperties

\* What is done asks s at its beginning, or not at all.
LEMMA AskedConcat ==
    ASSUME NEW l \in Seq(Outcome), NEW did \in Seq(Outcome), NEW s,
           AskedIn(did, s) \subseteq {1}
    PROVE  /\ Cardinality(AskedIn(l \o did, s)) <= Cardinality(AskedIn(l, s)) + 1
           /\ AskedIn(l, s) = {} => AtMostOne(AskedIn(l \o did, s))
           /\ AskedIn(did, s) = {} => AskedIn(l \o did, s) = AskedIn(l, s)
  <1> DEFINE n == Len(l)
  <1>1. /\ DOMAIN (l \o did) = 1..(n + Len(did))
        /\ DOMAIN l = 1..n /\ DOMAIN did = 1..Len(did)
        /\ n \in Nat /\ Len(did) \in Nat
        /\ \A i \in 1..(n + Len(did)) :
             (l \o did)[i] = IF i <= n THEN l[i] ELSE did[i - n]
    BY ConcatParts
  <1> HIDE DEF n
  <1>2. ASSUME NEW i \in AskedIn(l \o did, s)
        PROVE  i \in Int /\ (i \in AskedIn(l, s) \/ i - n \in AskedIn(did, s))
    <2>1. i \in 1..(n + Len(did)) /\ (l \o did)[i] = Did("asked", s)
      BY <1>1 DEF AskedIn
    <2>2. CASE i <= n
      BY <1>1, <2>1, <2>2 DEF AskedIn
    <2>3. CASE ~(i <= n)
      <3>1. i - n \in 1..Len(did) /\ did[i - n] = Did("asked", s)
        BY <1>1, <2>1, <2>3
      <3> QED BY <1>1, <2>1, <3>1 DEF AskedIn
    <2> QED BY <2>2, <2>3
  <1>3. AskedIn(l \o did, s) \subseteq AskedIn(l, s) \cup {n + 1}
    <2>1. ASSUME NEW i \in AskedIn(l \o did, s), i \notin AskedIn(l, s)
          PROVE  i = n + 1
      <3>1. i \in Int /\ i - n = 1
        BY <1>2, <2>1
      <3> QED BY <1>1, <3>1
    <2> QED BY <2>1
  <1>4. IsFiniteSet(AskedIn(l, s)) /\ Cardinality(AskedIn(l, s)) \in Nat
    BY AskedInFinite
  <1>5. /\ IsFiniteSet(AskedIn(l, s) \cup {n + 1})
        /\ Cardinality(AskedIn(l, s) \cup {n + 1}) <= Cardinality(AskedIn(l, s)) + 1
    <2> DEFINE A == AskedIn(l, s)
               x == n + 1
    <2>1. IsFiniteSet(A) /\ Cardinality(A) \in Nat
      BY <1>4
    <2> HIDE DEF A, x
    <2>2. /\ IsFiniteSet(A \cup {x})
          /\ Cardinality(A \cup {x}) = IF x \in A THEN Cardinality(A) ELSE Cardinality(A) + 1
      BY <2>1, FS_AddElement
    <2>3. Cardinality(A \cup {x}) <= Cardinality(A) + 1
      BY <2>1, <2>2
    <2> QED BY <2>2, <2>3 DEF A, x
  <1>6. Cardinality(AskedIn(l \o did, s)) <= Cardinality(AskedIn(l, s) \cup {n + 1})
    BY <1>3, <1>5, FS_Subset
  <1>7. /\ Cardinality(AskedIn(l \o did, s)) \in Nat
        /\ Cardinality(AskedIn(l, s) \cup {n + 1}) \in Nat
    <2>1. IsFiniteSet(AskedIn(l \o did, s))
      BY <1>3, <1>5, FS_Subset
    <2> QED BY <1>5, <2>1, FS_CardinalityType
  <1>8. Cardinality(AskedIn(l \o did, s)) <= Cardinality(AskedIn(l, s)) + 1
    BY <1>4, <1>5, <1>6, <1>7
  <1>9. AskedIn(l, s) = {} => AtMostOne(AskedIn(l \o did, s))
    BY <1>3 DEF AtMostOne
  <1>10. AskedIn(did, s) = {} => AskedIn(l \o did, s) = AskedIn(l, s)
    <2>1. AskedIn(l, s) \subseteq AskedIn(l \o did, s)
      BY <1>1 DEF AskedIn
    <2> QED BY <1>2, <2>1
  <1> QED BY <1>8, <1>9, <1>10

\* Of the outcomes of a listener only the first can be that it asks, and only its server.
LEMMA AskedByListener ==
    ASSUME NEW t \in Servers, NEW last \in Seq(Outcome), NEW s,
           \A i \in DOMAIN last : last[i].what # "asked"
    PROVE  /\ AskedIn(Asked(t) \o last, s) \subseteq {1}
           /\ s # t => AskedIn(Asked(t) \o last, s) = {}
  <1>1. Did("asked", t) \in Outcome
    BY DEF Did, Outcome
  <1>2. \A i \in DOMAIN last : last[i] # Did("asked", s)
    BY DEF Did
  <1>3. CASE Asked(t) = <<>>
    <2>1. Asked(t) \o last = last
      BY <1>3, ConcatEmptySeq
    <2> QED BY <1>2, <2>1 DEF AskedIn
  <1>4. CASE Asked(t) = <<Did("asked", t)>>
    <2> DEFINE a == <<Did("asked", t)>>
    <2>1. Len(a) = 1 /\ a[1] = Did("asked", t)
      OBVIOUS
    <2>0. a \in Seq(Outcome)
      BY <1>1
    <2> HIDE DEF a
    <2>2. /\ DOMAIN (a \o last) = 1..(1 + Len(last))
          /\ DOMAIN last = 1..Len(last) /\ Len(last) \in Nat
          /\ \A i \in 1..(1 + Len(last)) :
               (a \o last)[i] = IF i <= 1 THEN a[i] ELSE last[i - 1]
      <3>1. /\ DOMAIN (a \o last) = 1..(Len(a) + Len(last))
            /\ DOMAIN last = 1..Len(last) /\ Len(last) \in Nat
            /\ \A i \in 1..(Len(a) + Len(last)) :
                 (a \o last)[i] = IF i <= Len(a) THEN a[i] ELSE last[i - Len(a)]
        BY <2>0, ConcatParts
      <3> QED BY <2>1, <3>1
    <2>3. ASSUME NEW i \in AskedIn(a \o last, s)
          PROVE  i = 1
      <3>1. i \in 1..(1 + Len(last)) /\ (a \o last)[i] = Did("asked", s)
        BY <2>2 DEF AskedIn
      <3>2. CASE ~(i <= 1)
        <4>1. i - 1 \in DOMAIN last /\ last[i - 1] = Did("asked", s)
          BY <2>2, <3>1, <3>2
        <4> QED BY <1>2, <4>1
      <3> QED BY <2>2, <3>1, <3>2
    <2>4. s # t => 1 \notin AskedIn(a \o last, s)
      <3>1. s # t => Did("asked", t) # Did("asked", s)
        BY DEF Did
      <3>2. (a \o last)[1] = Did("asked", t)
        BY <2>1, <2>2
      <3> QED BY <3>1, <3>2 DEF AskedIn
    <2> QED BY <1>4, <2>3, <2>4 DEF a
  <1> QED BY <1>3, <1>4 DEF Asked

LEMMA WrappersFinite ==
    ASSUME TypeOK, NEW s
    PROVE  /\ Len(wrappers) \in Nat /\ DOMAIN wrappers = 1..Len(wrappers)
           /\ WrappersOf(s) \subseteq 1..Len(wrappers)
           /\ \A S \in SUBSET WrappersOf(s) :
                /\ IsFiniteSet(S) /\ Cardinality(S) \in Nat
                /\ Cardinality(S) <= Cardinality(WrappersOf(s))
           /\ Cardinality(WrappersOf(s)) \in Nat
  <1> DEFINE R == [server : Servers, saved : Seq(ListenersUpTo(Len(wrappers)))]
  <1>1. wrappers \in Seq(R)
    BY DEF TypeOK
  <1> HIDE DEF R
  <1>2. Len(wrappers) \in Nat /\ DOMAIN wrappers = 1..Len(wrappers)
    BY <1>1, LenProperties
  <1>3. WrappersOf(s) \subseteq 1..Len(wrappers)
    BY <1>2 DEF WrappersOf
  <1>4. IsFiniteSet(1..Len(wrappers))
    BY <1>2, FS_Interval
  <1>5. IsFiniteSet(WrappersOf(s))
    BY <1>3, <1>4, FS_Subset
  <1>6. ASSUME NEW S \in SUBSET WrappersOf(s)
        PROVE  /\ IsFiniteSet(S) /\ Cardinality(S) \in Nat
               /\ Cardinality(S) <= Cardinality(WrappersOf(s))
    BY <1>5, FS_Subset, FS_CardinalityType
  <1> QED BY <1>2, <1>3, <1>5, <1>6, FS_CardinalityType

LEMMA FirstOfType ==
    ASSUME NEW n \in Nat, NEW l \in Seq(ListenersUpTo(n))
    PROVE  FirstOf(l) \in 0..n
  <1>1. CASE l = <<>>
    BY <1>1 DEF FirstOf
  <1>2. CASE l # <<>>
    <2>1. Head(l) \in ListenersUpTo(n)
      BY <1>2, HeadTailProperties
    <2>2. \A x \in ListenersUpTo(n) : x.wrapper \in 0..n
      BY DEF ListenersUpTo, Wrapper, App
    <2> QED BY <1>2, <2>1, <2>2 DEF FirstOf
  <1> QED BY <1>1, <1>2

LEMMA AskedOfNow ==
    TypeOK /\ Delivered /\ Descending /\ Routed /\ current # NoRequest => AskedNow
  <1> SUFFICES ASSUME TypeOK, Delivered, Descending, Routed, current # NoRequest,
                      NEW s \in Servers
               PROVE  Cardinality(AskedAt(current, s)) <= throws[s] + 1
    BY DEF AskedNow
  <1>1. throws[s] \in Nat /\ current \in Requests /\ outcomes[current] \in Seq(Outcome)
        /\ express \in BOOLEAN
    BY DEF TypeOK
  <1>2. /\ Cardinality(AskedAt(current, s)) \in Nat
        /\ IsFiniteSet(AskedAt(current, s))
    BY <1>1, AskedAtIn, AskedInFinite
  <1>3. CASE express
    <2>1. AtMostOne(AskedAt(current, s))
      BY <1>1, <1>3 DEF Routed
    <2>2. CASE AskedAt(current, s) = {}
      BY <1>1, <1>2, <2>2, FS_EmptySet
    <2>3. CASE AskedAt(current, s) # {}
      <3>1. PICK i : AskedAt(current, s) = {i}
        BY <2>1, <2>3 DEF AtMostOne
      <3>2. Cardinality(AskedAt(current, s)) = 1
        BY <3>1, FS_Singleton
      <3> QED BY <1>1, <3>2
    <2> QED BY <2>2, <2>3
  <1>4. CASE ~express
    <2> DEFINE S == {k \in WrappersOf(s) : k > Upcoming}
    <2>1. Cardinality(AskedAt(current, s)) <= Cardinality(S)
      BY <1>4 DEF Descending
    <2>2. /\ Cardinality(S) \in Nat /\ Cardinality(S) <= Cardinality(WrappersOf(s))
          /\ Cardinality(WrappersOf(s)) \in Nat
      BY WrappersFinite
    <2>3. Cardinality(WrappersOf(s)) <= throws[s] + 1
      BY <1>1, <2>2 DEF Delivered
    <2> HIDE DEF S
    <2> QED BY <1>1, <1>2, <2>1, <2>2, <2>3
  <1> QED BY <1>1, <1>3, <1>4

LEMMA InitKInv == Init => KInv
  <1> SUFFICES ASSUME Init PROVE Delivered /\ Descending /\ Routed /\ AskedOnce
    BY InitInv DEF KInv
  <1>1. DOMAIN <<>> = {}
    BY EmptySeq
  <1>2. \A s : WrappersOf(s) = {}
    BY <1>1 DEF Init, WrappersOf
  <1>3. \A r \in Requests : \A s : AskedAt(r, s) = {}
    BY <1>1 DEF Init, AskedAt
  <1>4. Cardinality({}) = 0
    BY FS_EmptySet
  <1>5. Delivered
    <2>1. \A s \in Servers : throws[s] = 0 /\ s # delivering
      BY ListenerAssumption DEF Init
    <2> QED BY <1>2, <1>4, <2>1 DEF Delivered
  <1>6. Descending
    BY DEF Init, Descending
  <1>7. Routed
    BY <1>3 DEF Init, Routed, AtMostOne
  <1>8. AskedOnce
    BY <1>3, <1>4 DEF Init, AskedOnce
  <1> QED BY <1>5, <1>6, <1>7, <1>8

\* A delivery gives the server one wrapper more.
LEMMA DeliverAsks ==
    ASSUME KInv, NEW s \in Servers, Deliver(s),
           s \in loading \/ delivering = s, loading' = loading \ {s},
           delivering \in {s, NoServer}
    PROVE  Delivered' /\ Descending' /\ Routed' /\ AskedOnce'
  <1> DEFINE n == Len(wrappers)
             new == [server |-> s, saved |-> IF express THEN <<>> ELSE listeners]
  <1>1. TypeOK
    BY DEF KInv, IInv
  <1>2. PICK throw \in BOOLEAN :
           /\ throws' = [throws EXCEPT ![s] = IF throw THEN @ + 1 ELSE @]
           /\ delivering' = IF throw /\ throws[s] < MaxThrows THEN s ELSE NoServer
    BY DEF Deliver
  <1>3. /\ wrappers' = Append(wrappers, new)
        /\ UNCHANGED <<express, current, pending, outcomes>>
    BY DEF Deliver, Register, dispatchVars
  <1>4. /\ n \in Nat /\ DOMAIN wrappers = 1..n
        /\ DOMAIN wrappers' = 1..(n + 1) /\ wrappers'[n + 1] = new
        /\ \A k \in 1..n : wrappers'[k] = wrappers[k]
    <2> DEFINE R == [server : Servers, saved : Seq(ListenersUpTo(n))]
    <2>1. wrappers \in Seq(R) /\ listeners \in Seq(ListenersUpTo(n))
      BY <1>1 DEF TypeOK
    <2>2. new \in R
      BY <2>1, EmptySeq
    <2> HIDE DEF R, new, n
    <2>3. wrappers' \in Seq(R) /\ Len(wrappers') = Len(wrappers) + 1
          /\ wrappers'[Len(wrappers) + 1] = new
          /\ \A k \in 1..Len(wrappers) : wrappers'[k] = wrappers[k]
      BY <1>3, <2>1, <2>2, AppendProperties
    <2> QED BY <2>1, <2>3, LenProperties DEF n
  <1>5. new.server = s
    OBVIOUS
  <1> HIDE DEF n, new
  <1>6. ASSUME NEW x \in Servers
        PROVE  WrappersOf(x)' = WrappersOf(x) \cup (IF x = s THEN {n + 1} ELSE {})
    BY <1>4, <1>5 DEF WrappersOf
  <1>7. ASSUME NEW x \in Servers
        PROVE  /\ WrappersOf(x) \subseteq 1..n
               /\ IsFiniteSet(WrappersOf(x)) /\ Cardinality(WrappersOf(x)) \in Nat
    BY <1>1, WrappersFinite DEF n
  <1>8. ASSUME NEW x \in Servers
        PROVE  Cardinality(WrappersOf(x)') = Cardinality(WrappersOf(x)) + (IF x = s THEN 1 ELSE 0)
    <2>1. CASE x # s
      <3>1. WrappersOf(x)' = WrappersOf(x)
        BY <1>6, <2>1
      <3>2. Cardinality(WrappersOf(x)) \in Nat
        BY <1>7
      <3> QED BY <2>1, <3>1, <3>2
    <2>2. CASE x = s
      <3>1. n + 1 \notin WrappersOf(x)
        BY <1>4, <1>7
      <3>2. WrappersOf(x)' = WrappersOf(x) \cup {n + 1}
        BY <1>6, <2>2
      <3>3. Cardinality(WrappersOf(x) \cup {n + 1}) = Cardinality(WrappersOf(x)) + 1
        BY <1>7, <3>1, FS_AddElement
      <3> QED BY <2>2, <3>2, <3>3
    <2> QED BY <2>1, <2>2
  <1>9. throws \in [Servers -> Nat] /\ throws[s] \in Nat /\ NoServer \notin Servers
    BY <1>1, ListenerAssumption DEF TypeOK
  <1>10. \A x \in Servers : /\ throws'[x] \in Nat /\ throws[x] \in Nat /\ throws[x] <= throws'[x]
                            /\ x # s => throws'[x] = throws[x]
                            /\ delivering' = s => throws'[s] = throws[s] + 1
    BY <1>2, <1>9
  <1>11. Cardinality(WrappersOf(s)) <= throws[s]
    <2>1. CASE delivering = s
      BY <1>7, <1>9, <2>1 DEF KInv, Delivered
    <2>2. CASE s \in loading
      <3>1. Cardinality(WrappersOf(s)) = 0
        BY <2>2, FS_EmptySet DEF KInv, Delivered
      <3> QED BY <1>9, <3>1
    <2> QED BY <2>1, <2>2
  <1>12. Delivered'
    <2> SUFFICES ASSUME NEW x \in Servers
                 PROVE  /\ x \in loading' => WrappersOf(x)' = {} /\ x # delivering'
                        /\ Cardinality(WrappersOf(x)')
                             <= throws'[x] + (IF x = delivering' THEN 0 ELSE 1)
      BY DEF Delivered
    <2>1. CASE x = s
      <3>1. Cardinality(WrappersOf(s)') = Cardinality(WrappersOf(s)) + 1
        BY <1>8
      <3> QED BY <1>7, <1>10, <1>11, <2>1, <3>1
    <2>2. CASE x # s
      <3>1. WrappersOf(x)' = WrappersOf(x)
        BY <1>6, <2>2
      <3>2. x # delivering' /\ x # delivering
        BY <1>2, <1>9, <2>2
      <3>3. Cardinality(WrappersOf(x)) <= throws[x] + 1
        BY <3>2 DEF KInv, Delivered
      <3>4. x \in loading' => WrappersOf(x) = {}
        BY <2>2 DEF KInv, Delivered
      <3> QED BY <1>10, <2>2, <3>1, <3>2, <3>3, <3>4
    <2> QED BY <2>1, <2>2
  <1>13. \A r : \A x : AskedAt(r, x)' = AskedAt(r, x)
    BY <1>3 DEF AskedAt
  <1>14. Descending'
    <2> SUFFICES ASSUME ~express, current # NoRequest, NEW x \in Servers
                 PROVE  Cardinality(AskedAt(current, x)')
                          <= Cardinality({k \in WrappersOf(x) : k > Upcoming}')
      BY <1>3 DEF Descending
    <2> DEFINE A == {k \in WrappersOf(x) : k > Upcoming}
               B == {k \in WrappersOf(x)' : k > Upcoming}
    <2>1. Cardinality(AskedAt(current, x)) <= Cardinality(A)
      BY DEF KInv, Descending
    <2>2. Upcoming' = Upcoming
      BY <1>3 DEF Upcoming, FirstOf
    <2>3. IsFiniteSet(WrappersOf(x)')
      <3>1. IsFiniteSet(WrappersOf(x))
        BY <1>7
      <3>2. IsFiniteSet(WrappersOf(x) \cup {n + 1})
        BY <3>1, FS_AddElement
      <3> QED BY <1>6, <3>1, <3>2
    <2>4. A \subseteq B /\ B \subseteq WrappersOf(x)'
      BY <1>6
    <2>5. IsFiniteSet(B)
      BY <2>3, <2>4, FS_Subset
    <2>6. Cardinality(A) <= Cardinality(B) /\ IsFiniteSet(A)
      BY <2>4, <2>5, FS_Subset
    <2>7. Cardinality(A) \in Nat /\ Cardinality(B) \in Nat
      BY <2>5, <2>6, FS_CardinalityType
    <2>8. Cardinality(AskedAt(current, x)) \in Nat
      <3>1. outcomes[current] \in Seq(Outcome)
        BY <1>1 DEF TypeOK
      <3> QED BY <3>1, AskedAtIn, AskedInFinite
    <2>9. {k \in WrappersOf(x) : k > Upcoming}' = B
      BY <2>2
    <2>10. AskedAt(current, x)' = AskedAt(current, x)
      BY <1>3 DEF AskedAt
    <2> HIDE DEF A, B
    <2>11. Cardinality(AskedAt(current, x)) <= Cardinality(B)
      BY <2>1, <2>6, <2>7, <2>8
    <2> QED BY <2>9, <2>10, <2>11
  <1>15. Routed'
    BY <1>3 DEF KInv, Routed, AskedAt
  <1>16. AskedOnce'
    <2> SUFFICES ASSUME NEW r \in Requests, NEW x \in Servers
                 PROVE  Cardinality(AskedAt(r, x)') <= throws'[x] + 1
      BY DEF AskedOnce
    <2>1. Cardinality(AskedAt(r, x)) <= throws[x] + 1
      BY DEF KInv, AskedOnce
    <2>2. AskedAt(r, x)' = AskedAt(r, x)
      BY <1>13
    <2>3. Cardinality(AskedAt(r, x)) \in Nat
      <3>1. outcomes[r] \in Seq(Outcome)
        BY <1>1 DEF TypeOK
      <3> QED BY <3>1, AskedAtIn, AskedInFinite
    <2> QED BY <1>10, <2>1, <2>2, <2>3
  <1> QED BY <1>12, <1>14, <1>15, <1>16

\* A listener that is called: what it does asks s at most once and only when it is its own,
\* and what is called after it is older.
LEMMA CallAsks ==
    ASSUME KInv, IInv', current # NoRequest, pending # <<>>,
           NEW did \in Seq(Outcome), Note(did),
           \A s : AskedIn(did, s) \subseteq {1},
           ~express => \A s \in Servers :
               /\ AskedIn(did, s) # {} => Upcoming \in WrappersOf(s)
               /\ Upcoming' = 0 \/ Upcoming' < Upcoming,
           express => pending' = <<>> \/ \A s : AskedIn(did, s) = {},
           UNCHANGED <<express, loadVars, wrappers, current>>
    PROVE  Delivered' /\ Descending' /\ Routed' /\ AskedOnce'
  <1>1. TypeOK /\ TypeOK'
    BY DEF KInv, IInv
  <1>2. /\ current \in Requests /\ outcomes \in [Requests -> Seq(Outcome)]
        /\ outcomes[current] \in Seq(Outcome) /\ express \in BOOLEAN
    BY <1>1 DEF TypeOK
  <1>3. /\ outcomes'[current] = outcomes[current] \o did
        /\ \A r \in Requests : r # current => outcomes'[r] = outcomes[r]
    BY <1>2 DEF Note
  <1>4. ASSUME NEW s
        PROVE  /\ Cardinality(AskedAt(current, s)') <= Cardinality(AskedAt(current, s)) + 1
               /\ AskedAt(current, s) = {} => AtMostOne(AskedAt(current, s)')
               /\ AskedIn(did, s) = {} => AskedAt(current, s)' = AskedAt(current, s)
               /\ Cardinality(AskedAt(current, s)) \in Nat
               /\ Cardinality(AskedAt(current, s)') \in Nat
    <2>1. AskedAt(current, s)' = AskedIn(outcomes[current] \o did, s)
      BY <1>3 DEF AskedAt, AskedIn
    <2>2. outcomes[current] \o did \in Seq(Outcome)
      BY <1>2, ConcatProperties
    <2>3. AskedAt(current, s) = AskedIn(outcomes[current], s)
      BY AskedAtIn
    <2> DEFINE l == outcomes[current]
    <2>4. l \in Seq(Outcome) /\ l \o did \in Seq(Outcome)
      BY <1>2, <2>2
    <2> HIDE DEF l
    <2>5. /\ Cardinality(AskedIn(l \o did, s)) <= Cardinality(AskedIn(l, s)) + 1
          /\ AskedIn(l, s) = {} => AtMostOne(AskedIn(l \o did, s))
          /\ AskedIn(did, s) = {} => AskedIn(l \o did, s) = AskedIn(l, s)
      BY <2>4, AskedConcat
    <2>6. /\ Cardinality(AskedIn(l, s)) \in Nat
          /\ Cardinality(AskedIn(l \o did, s)) \in Nat
      BY <2>4, AskedInFinite
    <2>7. AtMostOne(AskedIn(l \o did, s)) => AtMostOne(AskedAt(current, s)')
      BY <2>1 DEF l
    <2> QED BY <2>1, <2>3, <2>5, <2>6, <2>7 DEF l
  <1>5. \A r \in Requests : r # current => \A s : AskedAt(r, s)' = AskedAt(r, s)
    BY <1>3 DEF AskedAt
  <1>6. \A s : WrappersOf(s)' = WrappersOf(s)
    BY DEF WrappersOf
  <1>7. Delivered'
    BY <1>6 DEF KInv, Delivered, loadVars
  <1>8. Descending'
    <2> SUFFICES ASSUME ~express, NEW s \in Servers
                 PROVE  Cardinality(AskedAt(current, s)')
                          <= Cardinality({k \in WrappersOf(s) : k > Upcoming}')
      BY DEF Descending
    <2> DEFINE n == Upcoming
               m == Upcoming'
               A == {k \in WrappersOf(s) : k > n}
               B == {k \in WrappersOf(s) : k > m}
    <2>1. Cardinality(AskedAt(current, s)) <= Cardinality(A)
      BY DEF KInv, Descending
    <2>2. {k \in WrappersOf(s) : k > Upcoming}' = B
      BY <1>6
    <2>3. /\ A \subseteq WrappersOf(s) /\ B \subseteq WrappersOf(s)
          /\ WrappersOf(s) \subseteq 1..Len(wrappers) /\ Len(wrappers) \in Nat
          /\ IsFiniteSet(A) /\ IsFiniteSet(B)
          /\ Cardinality(A) \in Nat /\ Cardinality(B) \in Nat
      BY <1>1, WrappersFinite
    <2>4. n \in Nat /\ m \in Nat
      <3>1. /\ pending \in Seq(ListenersUpTo(Len(wrappers)))
            /\ pending' \in Seq(ListenersUpTo(Len(wrappers)))
        BY <1>1 DEF TypeOK
      <3> QED BY <2>3, <3>1, FirstOfType DEF Upcoming
    <2>5. m = 0 \/ m < n
      OBVIOUS
    <2> HIDE DEF n, m
    <2>6. A \subseteq B
      BY <2>3, <2>4, <2>5
    <2>7. CASE AskedIn(did, s) = {}
      <3>1. AskedAt(current, s)' = AskedAt(current, s)
        BY <1>4, <2>7
      <3>2. Cardinality(A) <= Cardinality(B)
        BY <2>3, <2>6, FS_Subset
      <3>3. Cardinality(AskedAt(current, s)) \in Nat
        BY <1>4
      <3> HIDE DEF A, B
      <3>4. Cardinality(AskedAt(current, s)) <= Cardinality(B)
        BY <2>1, <2>3, <3>2, <3>3
      <3> QED BY <2>2, <3>1, <3>4
    <2>8. CASE AskedIn(did, s) # {}
      <3>1. n \in WrappersOf(s) /\ n > 0
        BY <2>3, <2>8 DEF n
      <3>2. n \notin A /\ n \in B
        BY <2>3, <2>4, <2>5, <3>1
      <3>3. A \cup {n} \subseteq B
        BY <2>6, <3>2
      <3> HIDE DEF A, B
      <3>4. Cardinality(A \cup {n}) = Cardinality(A) + 1
        BY <2>3, <3>2, FS_AddElement
      <3>5. Cardinality(A \cup {n}) <= Cardinality(B)
        BY <2>3, <3>3, FS_Subset
      <3>6. /\ Cardinality(AskedAt(current, s)') <= Cardinality(AskedAt(current, s)) + 1
            /\ Cardinality(AskedAt(current, s)) \in Nat
            /\ Cardinality(AskedAt(current, s)') \in Nat
        BY <1>4
      <3>7. Cardinality(AskedAt(current, s)') <= Cardinality(B)
        BY <2>1, <2>3, <3>4, <3>5, <3>6
      <3> QED BY <2>2, <3>7
    <2> QED BY <2>7, <2>8
  <1>9. Routed'
    <2> SUFFICES ASSUME express
                 PROVE  /\ \A r \in Requests : \A s \in Servers : AtMostOne(AskedAt(r, s)')
                        /\ pending' # <<>> => \A s \in Servers : AskedAt(current, s)' = {}
      BY DEF Routed, AtMostOne
    <2>1. \A s \in Servers : AskedAt(current, s) = {}
      BY DEF KInv, Routed
    <2>2. \A r \in Requests : \A s \in Servers : AtMostOne(AskedAt(r, s))
      BY DEF KInv, Routed
    <2>3. \A r \in Requests : \A s \in Servers : AtMostOne(AskedAt(r, s)')
      BY <1>4, <1>5, <2>1, <2>2
    <2>4. pending' # <<>> => \A s \in Servers : AskedAt(current, s)' = {}
      BY <1>4, <2>1
    <2> QED BY <2>3, <2>4
  <1>10. AskedOnce'
    <2> SUFFICES ASSUME NEW r \in Requests, NEW s \in Servers
                 PROVE  (Cardinality(AskedAt(r, s)) <= throws[s] + 1)'
      BY DEF AskedOnce
    <2>1. throws' = throws /\ current' = current
      BY DEF loadVars
    <2>2. CASE r = current
      <3>1. (TypeOK /\ Delivered /\ Descending /\ Routed /\ current # NoRequest => AskedNow)'
        BY AskedOfNow, PTL
      <3>2. AskedNow'
        BY <1>1, <1>7, <1>8, <1>9, <2>1, <3>1
      <3> QED BY <2>1, <2>2, <3>2 DEF AskedNow
    <2>3. CASE r # current
      <3>1. AskedAt(r, s)' = AskedAt(r, s)
        BY <1>5, <2>3
      <3>2. Cardinality(AskedAt(r, s)) <= throws[s] + 1
        BY DEF KInv, AskedOnce
      <3> QED BY <2>1, <3>1, <3>2
    <2> QED BY <2>2, <2>3
  <1> QED BY <1>7, <1>8, <1>9, <1>10

LEMMA CallListenerAsks ==
    ASSUME KInv, IInv', NEW w, CallListener(w)
    PROVE  Delivered' /\ Descending' /\ Routed' /\ AskedOnce'
  <1> DEFINE t == wrappers[w].server
             last == IF Refuses(t) THEN <<Did("refused", t)>>
                     ELSE IF current \in Has[t] THEN <<Did("served", t)>> ELSE <<>>
             did == Asked(t) \o last
  <1>1. /\ ~express /\ Calling(w) /\ w \in DOMAIN wrappers
        /\ Note(did) /\ pending' = Saved(w) \o Tail(pending)
        /\ UNCHANGED <<express, loadVars, wrappers, log, listeners, guarded, arrived, current>>
    BY DEF CallListener
  <1>2. TypeOK /\ HeadOnly(pending)
    BY <1>1 DEF KInv, IInv, Chained
  <1>3. w \in Nat /\ w # 0 /\ t \in Servers
    BY <1>1, <1>2, WrapperType
  <1>4. /\ pending # <<>> /\ pending \in Seq(ListenersUpTo(Len(wrappers)))
        /\ Tail(pending) \in Seq(ListenersUpTo(Len(wrappers)))
        /\ current # NoRequest /\ Head(pending).wrapper = w
    BY <1>1, <1>2, CallingType DEF Calling
  <1>5. last \in Seq(Outcome) /\ \A i \in DOMAIN last : last[i].what # "asked"
    <2>1. Did("refused", t) \in Outcome /\ Did("served", t) \in Outcome
      BY <1>3 DEF Did, Outcome
    <2> HIDE DEF t
    <2> QED BY <2>1 DEF Did
  <1>6. Upcoming = w /\ w \in WrappersOf(t)
    BY <1>1, <1>4 DEF Upcoming, FirstOf, WrappersOf
  <1> HIDE DEF last, t
  <1>7. did \in Seq(Outcome)
    BY <1>3, <1>5, AskedType, ConcatProperties
  <1>8. \A s : AskedIn(did, s) \subseteq {1} /\ (s # t => AskedIn(did, s) = {})
    BY <1>3, <1>5, AskedByListener
  <1>9. Upcoming' = 0 \/ Upcoming' < w
    <2>1. wrappers[w].saved \in Seq(ListenersUpTo(w - 1)) /\ w - 1 \in Nat
      <3>1. \A k \in DOMAIN wrappers : wrappers[k].saved \in Seq(ListenersUpTo(k - 1))
        BY <1>2 DEF TypeOK
      <3>2. w - 1 \in Nat
        BY <1>3
      <3> QED BY <1>1, <3>1, <3>2
    <2>2. CASE Saved(w) = <<>>
      <3>1. pending' = Tail(pending) /\ AppsOnly(Tail(pending))
        BY <1>1, <1>2, <1>4, <2>2, ConcatEmptySeq, AppsOnlyTail
      <3>2. \A l \in Seq(ListenersUpTo(Len(wrappers))) : AppsOnly(l) => FirstOf(l) = 0
        <4>1. ASSUME NEW l \in Seq(ListenersUpTo(Len(wrappers))), AppsOnly(l), l # <<>>
              PROVE  Head(l).wrapper = 0
          <5>1. Head(l) = l[1] /\ 1 \in DOMAIN l
            BY <4>1, HeadTailProperties, LenProperties, EmptySeq
          <5> QED BY <4>1, <5>1 DEF AppsOnly
        <4> QED BY <4>1 DEF FirstOf
      <3> QED BY <1>4, <3>1, <3>2 DEF Upcoming
    <2>3. CASE Saved(w) # <<>>
      <3> DEFINE a == wrappers[w].saved
                 S == ListenersUpTo(Len(wrappers))
      <3>1. Saved(w) = a /\ a # <<>>
        BY <2>3 DEF Saved
      <3>2. FirstOf(a) \in 0..(w - 1)
        BY <2>1, FirstOfType
      <3>3. a \in Seq(S) /\ Tail(pending) \in Seq(S)
        BY <1>1, <1>2, <1>4, WrapperType
      <3> HIDE DEF a, S
      <3>4. FirstOf(a \o Tail(pending)) = FirstOf(a)
        <4>1. Len(a) \in Nat /\ Len(a) # 0 /\ Len(Tail(pending)) \in Nat
          BY <3>1, <3>3, EmptySeq, LenProperties
        <4>2. (a \o Tail(pending)) \in Seq(S) /\ Len(a \o Tail(pending)) # 0
              /\ (a \o Tail(pending))[1] = a[1]
          BY <3>3, <4>1, ConcatProperties
        <4>3. a \o Tail(pending) # <<>>
          BY <4>2, EmptySeq
        <4> QED BY <3>1, <3>3, <4>2, <4>3, HeadTailProperties DEF FirstOf
      <3> QED BY <1>1, <1>3, <3>1, <3>2, <3>4 DEF Upcoming
    <2> QED BY <2>2, <2>3
  <1>10. \A s \in Servers : AskedIn(did, s) # {} => Upcoming \in WrappersOf(s)
    BY <1>6, <1>8
  <1> HIDE DEF did
  <1> QED BY <1>1, <1>4, <1>6, <1>7, <1>8, <1>9, <1>10, CallAsks

LEMMA CallRouteAsks ==
    ASSUME KInv, IInv', NEW w, CallRoute(w)
    PROVE  Delivered' /\ Descending' /\ Routed' /\ AskedOnce'
  <1> DEFINE t == wrappers[w].server
             last == <<Did(IF Refuses(t) THEN "refused" ELSE "served", t)>>
             did == IF current \in Has[t] THEN Asked(t) \o last ELSE <<>>
  <1>1. /\ express /\ Calling(w) /\ w \in DOMAIN wrappers
        /\ UNCHANGED <<express, loadVars, wrappers, log, listeners, guarded, arrived, current>>
    BY DEF CallRoute
  <1>2. TypeOK
    BY DEF KInv, IInv
  <1>3. t \in Servers
    BY <1>1, <1>2, WrapperType
  <1>4. pending # <<>> /\ current # NoRequest
    BY <1>1, <1>2, CallingType DEF Calling
  <1>5. last \in Seq(Outcome) /\ \A i \in DOMAIN last : last[i].what # "asked"
    <2>1. Did("refused", t) \in Outcome /\ Did("served", t) \in Outcome
      BY <1>3 DEF Did, Outcome
    <2> HIDE DEF t
    <2> QED BY <2>1 DEF Did
  <1>6. Asked(t) \o last \in Seq(Outcome)
        /\ \A s : AskedIn(Asked(t) \o last, s) \subseteq {1}
    <2> HIDE DEF last, t
    <2> QED BY <1>3, <1>5, AskedType, ConcatProperties, AskedByListener
  <1>7. <<>> \in Seq(Outcome) /\ \A s : AskedIn(<<>>, s) = {}
    BY EmptySeq DEF AskedIn
  <1>8. did \in Seq(Outcome) /\ \A s : AskedIn(did, s) \subseteq {1}
    BY <1>6, <1>7
  <1>9. Note(did)
    <2>1. CASE current \in Has[t]
      BY <2>1 DEF CallRoute
    <2>2. CASE current \notin Has[t]
      <3>1. outcomes' = outcomes
        BY <2>2 DEF CallRoute
      <3>2. outcomes \in [Requests -> Seq(Outcome)] /\ outcomes[current] \in Seq(Outcome)
        BY <1>2, <1>4 DEF TypeOK
      <3>3. outcomes[current] \o <<>> = outcomes[current]
        BY <3>2, ConcatEmptySeq
      <3> QED BY <2>2, <3>1, <3>2, <3>3 DEF Note
    <2> QED BY <2>1, <2>2
  <1>10. pending' = <<>> \/ \A s : AskedIn(did, s) = {}
    BY <1>7 DEF CallRoute
  <1> HIDE DEF did
  <1> QED BY <1>1, <1>4, <1>8, <1>9, <1>10, CallAsks

LEMMA CallAppAsks ==
    ASSUME KInv, IInv', CallApp
    PROVE  Delivered' /\ Descending' /\ Routed' /\ AskedOnce'
  <1>1. /\ Calling(0)
        /\ pending' = IF express THEN <<>> ELSE Tail(pending)
        /\ UNCHANGED <<express, loadVars, wrappers, log, listeners, guarded, arrived, current>>
    BY DEF CallApp
  <1>2. TypeOK
    BY DEF KInv, IInv
  <1>3. PICK a \in Head(pending).app : Note(<<Did("called", a)>>)
    BY DEF CallApp
  <1> DEFINE did == <<Did("called", a)>>
  <1>4. /\ pending # <<>> /\ pending \in Seq(ListenersUpTo(Len(wrappers)))
        /\ Head(pending) \in ListenersUpTo(Len(wrappers))
        /\ current # NoRequest
    BY <1>1, <1>2, CallingType DEF Calling
  <1>5. a \in Apps
    BY <1>3, <1>4 DEF ListenersUpTo, Wrapper, App
  <1>6. did \in Seq(Outcome) /\ \A s : AskedIn(did, s) = {}
    BY <1>5 DEF Did, Outcome, AskedIn
  <1>7. ~express => Upcoming' = 0
    <2> SUFFICES ASSUME ~express PROVE FirstOf(Tail(pending)) = 0
      BY <1>1 DEF Upcoming
    <2>1. AppsOnly(Tail(pending))
      BY <1>4, AppsOnlyTail DEF KInv, IInv, Chained
    <2>2. Tail(pending) \in Seq(ListenersUpTo(Len(wrappers)))
      BY <1>1, <1>2, CallingType
    <2>3. CASE Tail(pending) # <<>>
      <3>1. Head(Tail(pending)) = Tail(pending)[1] /\ 1 \in DOMAIN Tail(pending)
        BY <2>2, <2>3, HeadTailProperties, LenProperties, EmptySeq
      <3> QED BY <2>1, <2>3, <3>1 DEF FirstOf, AppsOnly
    <2> QED BY <2>3 DEF FirstOf
  <1>8. Note(did)
    BY <1>3
  <1> HIDE DEF did
  <1> QED BY <1>1, <1>4, <1>6, <1>7, <1>8, CallAsks

\* A request that comes was asked about by nobody.
LEMMA RequestAsks ==
    ASSUME KInv, NEW r \in Requests, Request(r)
    PROVE  Delivered' /\ Descending' /\ Routed' /\ AskedOnce'
  <1>1. /\ r \notin arrived /\ current' = r
        /\ UNCHANGED <<express, loading, delivering, throws, wrappers, outcomes>>
    BY DEF Request, loadVars
  <1>2. \A x, s : AskedAt(x, s)' = AskedAt(x, s)
    BY <1>1 DEF AskedAt
  <1>3. \A s : AskedAt(r, s) = {}
    BY <1>1, EmptySeq DEF KInv, IInv, Untouched, AskedAt
  <1>4. \A s : WrappersOf(s)' = WrappersOf(s)
    BY <1>1 DEF WrappersOf
  <1>5. Descending'
    <2> SUFFICES ASSUME NEW s \in Servers
                 PROVE  Cardinality(AskedAt(r, s)')
                          <= Cardinality({k \in WrappersOf(s) : k > Upcoming}')
      BY <1>1 DEF Descending
    <2> DEFINE m == Upcoming'
               B == {k \in WrappersOf(s) : k > m}
    <2>1. {k \in WrappersOf(s) : k > Upcoming}' = B
      BY <1>4
    <2>2. TypeOK
      BY DEF KInv, IInv
    <2>3. Cardinality(B) \in Nat
      <3> HIDE DEF m
      <3> QED BY <2>2, WrappersFinite
    <2>4. Cardinality({}) = 0
      BY FS_EmptySet
    <2> HIDE DEF B
    <2> QED BY <1>2, <1>3, <2>1, <2>3, <2>4
  <1>6. Delivered'
    BY <1>1, <1>4 DEF KInv, Delivered
  <1>7. Routed'
    BY <1>1, <1>2, <1>3 DEF KInv, Routed, AtMostOne
  <1>8. AskedOnce'
    BY <1>1, <1>2 DEF KInv, AskedOnce
  <1> QED BY <1>5, <1>6, <1>7, <1>8

\* Steps that are about neither a delivery nor a call.
LEMMA OtherAsks ==
    ASSUME KInv, UNCHANGED <<express, loading, delivering, throws, wrappers, outcomes, pending>>,
           current' \in {current, NoRequest}
    PROVE  Delivered' /\ Descending' /\ Routed' /\ AskedOnce'
  <1>1. \A x, s : AskedAt(x, s)' = AskedAt(x, s)
    BY DEF AskedAt
  <1>2. \A s : WrappersOf(s)' = WrappersOf(s)
    BY DEF WrappersOf
  <1>3. Delivered'
    BY <1>2 DEF KInv, Delivered
  <1>4. Descending'
    BY <1>1, <1>2 DEF KInv, Descending, Upcoming, FirstOf
  <1>5. Routed'
    BY <1>1 DEF KInv, Routed, AtMostOne
  <1>6. AskedOnce'
    BY <1>1 DEF KInv, AskedOnce
  <1> QED BY <1>3, <1>4, <1>5, <1>6

LEMMA NextKInv == KInv /\ [Next]_vars => KInv'
  <1> SUFFICES ASSUME KInv, [Next]_vars
               PROVE  Delivered' /\ Descending' /\ Routed' /\ AskedOnce'
    BY NextInv DEF KInv
  <1> DEFINE G == Delivered' /\ Descending' /\ Routed' /\ AskedOnce'
  <1> HIDE DEF G
  <1>1. IInv /\ IInv'
    BY NextInv DEF KInv
  <1>2. ASSUME NEW s \in Servers, OnReady(s) PROVE G
    <2>1. Deliver(s) /\ s \in loading /\ loading' = loading \ {s} /\ delivering = NoServer
      BY <1>2 DEF OnReady, Idle
    <2> QED BY <2>1, DeliverAsks DEF G
  <1>3. ASSUME NEW s \in Servers, OnReadyAgain(s) PROVE G
    <2>1. Deliver(s) /\ delivering = s /\ loading' = loading
      BY <1>3 DEF OnReadyAgain
    <2>2. s \notin loading
      BY <2>1 DEF KInv, Delivered
    <2> QED BY <2>1, <2>2, DeliverAsks DEF G
  <1>4. ASSUME NEW s \in Servers, SetAuthorizeConnection(s) PROVE G
    BY <1>4, OtherAsks DEF G, SetAuthorizeConnection, loadVars, dispatchVars
  <1>5. ASSUME NEW a \in Apps, AddListener(a) PROVE G
    BY <1>5, OtherAsks DEF G, AddListener, loadVars, dispatchVars
  <1>6. ASSUME NEW r \in Requests, Request(r) PROVE G
    BY <1>6, RequestAsks DEF G
  <1>7. ASSUME NEW w, CallListener(w) PROVE G
    BY <1>1, <1>7, CallListenerAsks DEF G
  <1>8. ASSUME NEW w, CallRoute(w) PROVE G
    BY <1>1, <1>8, CallRouteAsks DEF G
  <1>9. ASSUME CallApp PROVE G
    BY <1>1, <1>9, CallAppAsks DEF G
  <1>10. ASSUME Return PROVE G
    BY <1>10, OtherAsks DEF G, Return, loadVars
  <1>11. ASSUME UNCHANGED vars PROVE G
    BY <1>11, OtherAsks DEF G, vars, loadVars, dispatchVars
  <1>12. G
    BY <1>2, <1>3, <1>4, <1>5, <1>6, <1>7, <1>8, <1>9, <1>10, <1>11 DEF Next
  <1> QED BY <1>12 DEF G

\* authorizeConnection is asked about a request once, and once more at most for each time
\* the callback of listen threw and its server was added again (src/server.ts:147-171).
THEOREM AuthorizationIsAskedOnce == Spec => []AskedOnce
  <1>1. KInv => AskedOnce
    BY DEF KInv
  <1> QED BY <1>1, InitKInv, NextKInv, PTL DEF Spec

-----------------------------------------------------------------------------
(* What a list of outcomes says. *)

\* What a list of outcomes says: who took the request, whether it was refused, and which of
\* the application's listeners were called, in their order.
TakerIn(l) == {l[i].who : i \in TakenIn(l)}

RefusedIn(l) == \E i \in TakenIn(l) : l[i].what = "refused"

Calls == [what : {"called"}, who : Apps]

Whos(l) == [n \in DOMAIN l |-> l[n].who]

CalledIn(l) == Whos(Only(l, Calls))

\* The listeners of the application that have these names.
Call(names) == [n \in DOMAIN names |-> App(names[n])]

LEMMA FateIn ==
    ASSUME NEW r
    PROVE  Fate(r) = [server |-> TakerIn(outcomes[r]), refused |-> RefusedIn(outcomes[r]),
                      apps |-> CalledIn(outcomes[r]), over |-> r \in arrived]
  BY DEF Fate, TakerIn, RefusedIn, CalledIn, Whos, Calls, TakenAt, TakenIn

LEMMA WhosConcat ==
    ASSUME NEW a \in Seq(Outcome), NEW b \in Seq(Outcome)
    PROVE  Whos(a \o b) = Whos(a) \o Whos(b)
  <1> DEFINE W == Servers \cup Apps
  <1>1. ASSUME NEW l \in Seq(Outcome)
        PROVE  Whos(l) \in Seq(W) /\ Len(Whos(l)) = Len(l) /\ DOMAIN l = 1..Len(l)
               /\ \A i \in 1..Len(l) : Whos(l)[i] = l[i].who
    <2>1. DOMAIN l = 1..Len(l) /\ Len(l) \in Nat
      BY LenProperties
    <2>2. \A i \in 1..Len(l) : l[i].who \in W
      <3>1. \A i \in 1..Len(l) : l[i] \in Outcome
        BY ElementOfSeq
      <3> QED BY <3>1 DEF Outcome
    <2>3. Whos(l) \in [1..Len(l) -> W]
      BY <2>1, <2>2 DEF Whos
    <2>4. Whos(l) \in Seq(W)
      BY <2>1, <2>3, SeqDef
    <2>5. Len(Whos(l)) = Len(l)
      BY <2>1, <2>3, <2>4, LenProperties
    <2> QED BY <2>1, <2>4, <2>5 DEF Whos
  <1>2. a \o b \in Seq(Outcome) /\ Len(a \o b) = Len(a) + Len(b)
        /\ Len(a) \in Nat /\ Len(b) \in Nat
        /\ \A i \in 1..(Len(a) + Len(b)) :
             (a \o b)[i] = IF i <= Len(a) THEN a[i] ELSE b[i - Len(a)]
    BY ConcatProperties, LenProperties
  <1> DEFINE x == Whos(a) y == Whos(b) z == Whos(a \o b)
  <1>3. x \in Seq(W) /\ y \in Seq(W) /\ z \in Seq(W)
        /\ Len(x) = Len(a) /\ Len(y) = Len(b) /\ Len(z) = Len(a) + Len(b)
    BY <1>1, <1>2
  <1>x. PICK f \in Seq(W), g \in Seq(W) : f = x /\ g = y
    BY <1>3
  <1>4. x \o y \in Seq(W) /\ Len(x \o y) = Len(x) + Len(y)
        /\ \A i \in 1..(Len(x) + Len(y)) :
             (x \o y)[i] = IF i <= Len(x) THEN x[i] ELSE y[i - Len(x)]
    <2>1. f \o g \in Seq(W) /\ Len(f \o g) = Len(f) + Len(g)
          /\ \A i \in 1..(Len(f) + Len(g)) :
               (f \o g)[i] = IF i <= Len(f) THEN f[i] ELSE g[i - Len(f)]
      BY ConcatProperties
    <2> HIDE DEF x, y
    <2> QED BY <1>x, <2>1
  <1>5. /\ \A i \in 1..Len(a) : x[i] = a[i].who
        /\ \A i \in 1..Len(b) : y[i] = b[i].who
        /\ \A i \in 1..(Len(a) + Len(b)) : z[i] = (a \o b)[i].who
    BY <1>1, <1>2
  <1> HIDE DEF x, y, z, W
  <1>6. ASSUME NEW i \in 1..(Len(a) + Len(b)) PROVE z[i] = (x \o y)[i]
    <2>1. CASE i <= Len(a)
      <3>1. i \in 1..Len(a)
        BY <1>2, <2>1
      <3> QED BY <1>2, <1>3, <1>4, <1>5, <2>1, <3>1
    <2>2. CASE ~(i <= Len(a))
      <3>1. i - Len(a) \in 1..Len(b)
        BY <1>2, <2>2
      <3> QED BY <1>2, <1>3, <1>4, <1>5, <2>2, <3>1
    <2> QED BY <2>1, <2>2
  <1>7. z = x \o y
    <2>1. Len(z) = Len(x \o y)
      BY <1>3, <1>4
    <2>2. \A i \in 1..Len(z) : z[i] = (x \o y)[i]
      BY <1>3, <1>6
    <2> QED BY <1>3, <1>4, <2>1, <2>2, SeqEqual
  <1> QED BY <1>7 DEF x, y, z

LEMMA CallsOutcomes == Calls \subseteq Outcome
  BY DEF Calls, Outcome

LEMMA SaysConcat ==
    ASSUME NEW a \in Seq(Outcome), NEW b \in Seq(Outcome)
    PROVE  /\ TakerIn(a \o b) = TakerIn(a) \cup TakerIn(b)
           /\ RefusedIn(a \o b) = (RefusedIn(a) \/ RefusedIn(b))
           /\ CalledIn(a \o b) = CalledIn(a) \o CalledIn(b)
  <1>1. /\ DOMAIN (a \o b) = 1..(Len(a) + Len(b))
        /\ DOMAIN a = 1..Len(a) /\ DOMAIN b = 1..Len(b)
        /\ Len(a) \in Nat /\ Len(b) \in Nat
        /\ \A i \in 1..(Len(a) + Len(b)) :
             (a \o b)[i] = IF i <= Len(a) THEN a[i] ELSE b[i - Len(a)]
    BY ConcatProperties, LenProperties
  <1>2. ASSUME NEW i \in TakenIn(a \o b)
        PROVE  \/ i \in TakenIn(a) /\ (a \o b)[i] = a[i]
               \/ i - Len(a) \in TakenIn(b) /\ (a \o b)[i] = b[i - Len(a)]
    BY <1>1, <1>2 DEF TakenIn
  <1>3. ASSUME NEW i \in TakenIn(a)
        PROVE  i \in TakenIn(a \o b) /\ (a \o b)[i] = a[i]
    BY <1>1, <1>3 DEF TakenIn
  <1>4. ASSUME NEW i \in TakenIn(b)
        PROVE  i + Len(a) \in TakenIn(a \o b) /\ (a \o b)[i + Len(a)] = b[i]
    <2>1. i \in 1..Len(b) /\ i + Len(a) \in 1..(Len(a) + Len(b)) /\ ~(i + Len(a) <= Len(a))
          /\ i + Len(a) - Len(a) = i /\ b[i].what \in {"served", "refused"}
      BY <1>1 DEF TakenIn
    <2>2. PICK j \in 1..(Len(a) + Len(b)) : j = i + Len(a) /\ j - Len(a) = i /\ ~(j <= Len(a))
      BY <2>1
    <2>3. (a \o b)[j] = b[i]
      BY <1>1, <2>2
    <2> QED BY <1>1, <2>1, <2>2, <2>3 DEF TakenIn
  <1>5. TakerIn(a \o b) = TakerIn(a) \cup TakerIn(b)
    <2>1. PICK c : c = a \o b
      OBVIOUS
    <2>2. \A i \in TakenIn(c) : c[i].who \in TakerIn(a) \cup TakerIn(b)
      BY <1>2, <2>1 DEF TakerIn
    <2>3. /\ \A i \in TakenIn(a) : a[i].who \in TakerIn(c)
          /\ \A i \in TakenIn(b) : b[i].who \in TakerIn(c)
      BY <1>3, <1>4, <2>1 DEF TakerIn
    <2>4. TakerIn(c) \subseteq TakerIn(a) \cup TakerIn(b)
      BY <2>2 DEF TakerIn
    <2>5. TakerIn(a) \subseteq TakerIn(c) /\ TakerIn(b) \subseteq TakerIn(c)
      BY <2>3 DEF TakerIn
    <2> QED BY <2>1, <2>4, <2>5
  <1>6. RefusedIn(a \o b) = (RefusedIn(a) \/ RefusedIn(b))
    <2>1. ASSUME RefusedIn(a \o b) PROVE RefusedIn(a) \/ RefusedIn(b)
      BY <1>2, <2>1 DEF RefusedIn
    <2>2. ASSUME RefusedIn(a) \/ RefusedIn(b) PROVE RefusedIn(a \o b)
      BY <1>3, <1>4, <2>2 DEF RefusedIn
    <2> QED BY <2>1, <2>2 DEF RefusedIn
  <1>7. CalledIn(a \o b) = CalledIn(a) \o CalledIn(b)
    <2>1. PICK x \in Seq(Outcome), y \in Seq(Outcome) : x = Only(a, Calls) /\ y = Only(b, Calls)
      BY OnlyType
    <2>2. Only(a \o b, Calls) = x \o y
      <3>1. Only(a \o b, Calls) = Only(a, Calls) \o Only(b, Calls)
        BY OnlyConcat
      <3> QED BY <2>1, <3>1
    <2>3. Whos(x \o y) = Whos(x) \o Whos(y)
      BY WhosConcat
    <2> QED BY <2>1, <2>2, <2>3 DEF CalledIn
  <1> QED BY <1>5, <1>6, <1>7

\* What one outcome says, and none.
LEMMA SaysOne ==
    ASSUME NEW what \in {"asked", "served", "refused", "called"}, NEW who \in Servers \cup Apps
    PROVE  /\ <<Did(what, who)>> \in Seq(Outcome)
           /\ TakerIn(<<Did(what, who)>>) = IF what \in {"served", "refused"} THEN {who} ELSE {}
           /\ RefusedIn(<<Did(what, who)>>) = (what = "refused")
           /\ CalledIn(<<Did(what, who)>>) =
                IF what = "called" /\ who \in Apps THEN <<who>> ELSE <<>>
  <1> DEFINE d == Did(what, who)
  <1>1. d \in Outcome /\ d.what = what /\ d.who = who
    BY DEF Did, Outcome
  <1>2. d \in Calls <=> what = "called" /\ who \in Apps
    BY DEF Did, Calls
  <1> HIDE DEF d
  <1>3. DOMAIN <<d>> = {1} /\ <<d>>[1] = d /\ <<d>> \in Seq(Outcome)
    BY <1>1
  <1>4. TakenIn(<<d>>) = IF what \in {"served", "refused"} THEN {1} ELSE {}
    BY <1>1, <1>3 DEF TakenIn
  <1>5. TakerIn(<<d>>) = IF what \in {"served", "refused"} THEN {who} ELSE {}
    BY <1>1, <1>3, <1>4 DEF TakerIn
  <1>6. RefusedIn(<<d>>) = (what = "refused")
    BY <1>1, <1>3, <1>4 DEF RefusedIn
  <1>7. Whos(<<d>>) = <<who>> /\ Whos(<<>>) = <<>>
    BY <1>1, <1>3 DEF Whos
  <1>8. CalledIn(<<d>>) = IF what = "called" /\ who \in Apps THEN <<who>> ELSE <<>>
    BY <1>2, <1>7, OnlyOne DEF CalledIn
  <1> QED BY <1>3, <1>5, <1>6, <1>8 DEF d

LEMMA SaysNothing ==
    /\ TakerIn(<<>>) = {} /\ ~RefusedIn(<<>>) /\ CalledIn(<<>>) = <<>>
    /\ Whos(<<>>) = <<>>
  <1>1. DOMAIN <<>> = {}
    OBVIOUS
  <1>2. TakenIn(<<>>) = {}
    BY <1>1 DEF TakenIn
  <1>3. Whos(<<>>) = <<>>
    BY DEF Whos
  <1> QED BY <1>2, <1>3, OnlyNone DEF TakerIn, RefusedIn, CalledIn

LEMMA SaysAsked ==
    ASSUME NEW s \in Servers
    PROVE  /\ Asked(s) \in Seq(Outcome)
           /\ TakerIn(Asked(s)) = {} /\ ~RefusedIn(Asked(s)) /\ CalledIn(Asked(s)) = <<>>
  <1> USE ListenerAssumption
  <1>1. CASE Asked(s) = <<Did("asked", s)>>
    <2>1. "asked" \in {"asked", "served", "refused", "called"} /\ s \in Servers \cup Apps
      OBVIOUS
    <2>2. PICK what \in {"asked", "served", "refused", "called"} : what = "asked"
      OBVIOUS
    <2>3. /\ <<Did(what, s)>> \in Seq(Outcome)
          /\ TakerIn(<<Did(what, s)>>) = IF what \in {"served", "refused"} THEN {s} ELSE {}
          /\ RefusedIn(<<Did(what, s)>>) = (what = "refused")
          /\ CalledIn(<<Did(what, s)>>) =
               IF what = "called" /\ s \in Apps THEN <<s>> ELSE <<>>
      BY <2>1, SaysOne
    <2> QED BY <1>1, <2>2, <2>3
  <1>2. CASE Asked(s) = <<>>
    BY <1>2, SaysNothing, EmptySeq
  <1> QED BY <1>1, <1>2 DEF Asked

-----------------------------------------------------------------------------
(* The calls of the application's listeners, and the registrations they stand for. *)

LEMMA CallIs ==
    ASSUME NEW s \in Seq(Apps)
    PROVE  /\ Len(Call(s)) = Len(s) /\ DOMAIN Call(s) = 1..Len(s) /\ Len(s) \in Nat
           /\ \A i \in 1..Len(s) : Call(s)[i] = App(s[i]) /\ s[i] \in Apps
           /\ \A n \in Nat : Call(s) \in Seq(ListenersUpTo(n))
           /\ Call(s) = <<>> => s = <<>>
  <1> USE LenProperties
  <1>1. DOMAIN s = 1..Len(s) /\ Len(s) \in Nat /\ \A i \in 1..Len(s) : s[i] \in Apps
    BY ElementOfSeq
  <1>2. DOMAIN Call(s) = 1..Len(s) /\ \A i \in 1..Len(s) : Call(s)[i] = App(s[i])
    BY <1>1 DEF Call
  <1>3. ASSUME NEW n \in Nat PROVE Call(s) \in Seq(ListenersUpTo(n))
    <2>1. \A i \in 1..Len(s) : App(s[i]) \in ListenersUpTo(n)
      BY <1>1 DEF ListenersUpTo
    <2>2. Call(s) \in [1..Len(s) -> ListenersUpTo(n)]
      BY <1>1, <2>1 DEF Call
    <2> QED BY <1>1, <2>2, SeqDef
  <1>4. Len(Call(s)) = Len(s)
    <2>1. Call(s) \in Seq(ListenersUpTo(0))
      BY <1>3
    <2>2. DOMAIN Call(s) = 1..Len(Call(s)) /\ Len(Call(s)) \in Nat
      BY <2>1
    <2> QED BY <1>1, <1>2, <2>2
  <1>5. Call(s) = <<>> => s = <<>>
    BY <1>1, <1>4, EmptySeq
  <1> QED BY <1>1, <1>2, <1>3, <1>4, <1>5

LEMMA CallConcat ==
    ASSUME NEW a \in Seq(Apps), NEW b \in Seq(Apps)
    PROVE  Call(a \o b) = Call(a) \o Call(b)
  <1> DEFINE L == ListenersUpTo(0)
  <1>1. a \o b \in Seq(Apps) /\ Len(a \o b) = Len(a) + Len(b)
        /\ Len(a) \in Nat /\ Len(b) \in Nat
        /\ \A i \in 1..(Len(a) + Len(b)) :
             (a \o b)[i] = IF i <= Len(a) THEN a[i] ELSE b[i - Len(a)]
    BY ConcatProperties, LenProperties
  <1>2. PICK c \in Seq(Apps) : c = a \o b
    BY <1>1
  <1>3. PICK x \in Seq(L), y \in Seq(L), z \in Seq(L) :
           x = Call(a) /\ y = Call(b) /\ z = Call(c)
    BY CallIs
  <1>4. /\ Len(x) = Len(a) /\ Len(y) = Len(b) /\ Len(z) = Len(a) + Len(b)
        /\ \A i \in 1..Len(a) : x[i] = App(a[i])
        /\ \A i \in 1..Len(b) : y[i] = App(b[i])
        /\ \A i \in 1..(Len(a) + Len(b)) : z[i] = App(c[i])
    BY <1>1, <1>2, <1>3, CallIs
  <1>5. x \o y \in Seq(L) /\ Len(x \o y) = Len(x) + Len(y)
        /\ \A i \in 1..(Len(x) + Len(y)) :
             (x \o y)[i] = IF i <= Len(x) THEN x[i] ELSE y[i - Len(x)]
    BY ConcatProperties
  <1> HIDE DEF L
  <1>6. ASSUME NEW i \in 1..(Len(a) + Len(b)) PROVE z[i] = (x \o y)[i]
    <2>1. CASE i <= Len(a)
      <3>1. i \in 1..Len(a)
        BY <1>1, <2>1
      <3> QED BY <1>1, <1>2, <1>4, <1>5, <2>1, <3>1
    <2>2. CASE ~(i <= Len(a))
      <3>1. i - Len(a) \in 1..Len(b)
        BY <1>1, <2>2
      <3> QED BY <1>1, <1>2, <1>4, <1>5, <2>2, <3>1
    <2> QED BY <2>1, <2>2
  <1>7. Len(z) = Len(x \o y) /\ \A i \in 1..Len(z) : z[i] = (x \o y)[i]
    BY <1>4, <1>5, <1>6
  <1>8. z = x \o y
    BY <1>5, <1>7, SeqEqual
  <1> QED BY <1>2, <1>3, <1>8

LEMMA CallNone == Call(<<>>) = <<>>
  BY DEF Call

LEMMA CallOne ==
    ASSUME NEW a \in Apps
    PROVE  Call(<<a>>) = <<App(a)>>
  <1>1. DOMAIN <<a>> = {1} /\ <<a>>[1] = a
    OBVIOUS
  <1>2. Call(<<a>>) = [n \in {1} |-> App(a)]
    BY <1>1 DEF Call
  <1>3. \A x : <<x>> = [n \in {1} |-> x]
    OBVIOUS
  <1> QED BY <1>2, <1>3

\* The first listener that is called, and what is left of the names.
LEMMA CallTail ==
    ASSUME NEW s \in Seq(Apps), Call(s) # <<>>
    PROVE  \E a \in Apps : \E u \in Seq(Apps) :
              s = <<a>> \o u /\ Head(Call(s)) = App(a) /\ Tail(Call(s)) = Call(u)
  <1>1. s # <<>>
    BY CallNone
  <1>2. /\ Head(s) \in Apps /\ Tail(s) \in Seq(Apps)
        /\ s = <<Head(s)>> \o Tail(s)
    <2>1. 1 \in 1..Len(s) /\ Len(s) \in 1..Len(s)
      BY <1>1, LenProperties, EmptySeq
    <2>2. SubSeq(s, 1, Len(s)) = <<s[1]>> \o SubSeq(s, 2, Len(s))
      <3>1. SubSeq(s, 1, Len(s)) = <<s[1]>> \o SubSeq(s, 1 + 1, Len(s))
        BY <2>1, SubSeqRecursiveFirst
      <3>2. 1 + 1 = 2
        OBVIOUS
      <3> QED BY <3>1, <3>2, Zenon
    <2>3. s = SubSeq(s, 1, Len(s)) /\ Tail(s) = SubSeq(s, 2, Len(s)) /\ Head(s) = s[1]
      BY <1>1, SubSeqFull, TailIsSubSeq, HeadTailProperties
    <2> QED BY <1>1, <2>2, <2>3, HeadTailProperties
  <1>3. PICK a \in Apps, u \in Seq(Apps) : a = Head(s) /\ u = Tail(s) /\ s = <<a>> \o u
    BY <1>2
  <1>4. Call(s) = <<App(a)>> \o Call(u)
    <2>1. <<a>> \in Seq(Apps)
      OBVIOUS
    <2> QED BY <1>3, <2>1, CallConcat, CallOne
  <1>5. PICK c \in Seq(ListenersUpTo(0)) : c = Call(u)
    BY CallIs
  <1>6. App(a) \in ListenersUpTo(0)
    BY DEF ListenersUpTo
  <1>7. PICK x \in ListenersUpTo(0) : x = App(a)
    BY <1>6
  <1>8. Head(<<x>> \o c) = x /\ Tail(<<x>> \o c) = c
    OBVIOUS
  <1> QED BY <1>3, <1>4, <1>5, <1>7, <1>8

-----------------------------------------------------------------------------
(* Parts of the registrations l. *)

Entries == Servers \cup Apps

\* The i-th to the last of the registrations.
From(l, i) == SubSeq(l, i, Len(l))

\* Of the registrations i to j there are only listeners of the application.
NoServerIn(l, i, j) == \A k \in i..j : l[k] \in Apps

LEMMA PartType ==
    ASSUME NEW l \in Seq(Entries), NEW i \in Nat \ {0}, NEW j \in Nat, j <= Len(l)
    PROVE  /\ SubSeq(l, i, j) \in Seq(Entries)
           /\ NoServerIn(l, i, j) => SubSeq(l, i, j) \in Seq(Apps)
  <1>1. SubSeq(l, i, j) \in Seq(Entries)
        /\ Len(SubSeq(l, i, j)) = (IF i <= j THEN j - i + 1 ELSE 0)
        /\ \A k \in 1..(j - i + 1) : SubSeq(l, i, j)[k] = l[i + k - 1]
    <2>1. i \in 1..(Len(l) + 1) \/ i > j
      BY LenProperties
    <2>2. CASE i > j
      <3>1. SubSeq(l, i, j) = <<>>
        BY <2>2, SubSeqEmpty
      <3>2. 1..(j - i + 1) = {} /\ Len(<<>>) = 0 /\ <<>> \in Seq(Entries)
        BY <2>2, EmptySeq
      <3> QED BY <2>2, <3>1, <3>2
    <2>3. CASE i <= j
      <3>1. i \in 1..(Len(l) + 1) /\ j \in (i - 1)..Len(l)
        BY <2>3, LenProperties
      <3> QED BY <3>1, SubSeqProperties
    <2> QED BY <2>2, <2>3
  <1>2. ASSUME NoServerIn(l, i, j) PROVE SubSeq(l, i, j) \in Seq(Apps)
    <2>1. PICK s \in Seq(Entries) : s = SubSeq(l, i, j)
      BY <1>1
    <2>2. \A k \in 1..Len(s) : s[k] \in Apps
      <3> SUFFICES ASSUME NEW k \in 1..Len(s) PROVE s[k] \in Apps
        OBVIOUS
      <3>1. k \in 1..(j - i + 1) /\ i + k - 1 \in i..j
        BY <1>1, <2>1
      <3> QED BY <1>1, <1>2, <2>1, <3>1 DEF NoServerIn
    <2>3. s \in [1..Len(s) -> Apps] /\ Len(s) \in Nat
      BY <2>2, LenProperties
    <2>4. \E n \in Nat : s \in [1..n -> Apps]
      BY <2>3
    <2>5. s \in Seq(Apps)
      BY <2>4, SeqDef
    <2> QED BY <2>1, <2>5
  <1> QED BY <1>1, <1>2

LEMMA OnlyAppsConcat ==
    ASSUME NEW a \in Seq(Entries), NEW b \in Seq(Entries)
    PROVE  Only(a \o b, Apps) = Only(a, Apps) \o Only(b, Apps)
  BY OnlyConcat

\* The application's listeners from the i-th registration on, past a server's.
LEMMA FromPastServer ==
    ASSUME NEW l \in Seq(Entries), NEW i \in Nat \ {0}, NEW k \in DOMAIN l, i <= k,
           l[k] \notin Apps, NoServerIn(l, i, k - 1)
    PROVE  /\ Only(From(l, i), Apps) = SubSeq(l, i, k - 1) \o Only(From(l, k + 1), Apps)
           /\ SubSeq(l, i, k - 1) \in Seq(Apps) /\ Only(From(l, k + 1), Apps) \in Seq(Apps)
           /\ Only(From(l, k), Apps) = Only(From(l, k + 1), Apps)
  <1> DEFINE n == Len(l)
  <1>1. n \in Nat /\ k \in 1..n /\ k - 1 \in Nat
    BY LenProperties
  <1>0. /\ SubSeq(l, i, k - 1) \in Seq(Apps) /\ SubSeq(l, i, k - 1) \in Seq(Entries)
        /\ SubSeq(l, k, n) \in Seq(Entries) /\ SubSeq(l, k + 1, n) \in Seq(Entries)
    <2>1. PICK j \in Nat, k1 \in Nat \ {0}, k2 \in Nat \ {0}, m \in Nat :
             j = k - 1 /\ k1 = k /\ k2 = k + 1 /\ m = n /\ j <= n
      BY <1>1
    <2>2. SubSeq(l, i, j) \in Seq(Entries) /\ SubSeq(l, i, j) \in Seq(Apps)
      BY <2>1, PartType
    <2>3. SubSeq(l, k1, m) \in Seq(Entries) /\ SubSeq(l, k2, m) \in Seq(Entries)
      BY <2>1, PartType
    <2> QED BY <2>1, <2>2, <2>3
  <1>2. PICK a \in Seq(Entries), b \in Seq(Entries), c \in Seq(Entries) :
           a = SubSeq(l, i, k - 1) /\ b = SubSeq(l, k, n) /\ c = SubSeq(l, k + 1, n)
    BY <1>0
  <1>3. SubSeq(l, i, n) = a \o b
    <2>1. i \in 1..(n + 1) /\ k - 1 \in (i - 1)..n /\ n \in (k - 1)..n /\ k - 1 + 1 = k
      BY <1>1
    <2>2. PICK j : j = k - 1 /\ j \in (i - 1)..n /\ n \in j..n
      BY <2>1
    <2>3. SubSeq(l, i, j) \o SubSeq(l, j + 1, n) = SubSeq(l, i, n)
      BY <2>1, <2>2, ConcatAdjacentSubSeq
    <2> QED BY <1>2, <2>1, <2>2, <2>3
  <1>4. b = <<l[k]>> \o c
    <2>1. n \in k..n
      BY <1>1
    <2> QED BY <1>1, <1>2, <2>1, SubSeqRecursiveFirst
  <1>5. a \in Seq(Apps)
    BY <1>0, <1>2
  <1>6. Only(a, Apps) = a
    BY <1>5, OnlyAll
  <1>7. Only(b, Apps) = Only(c, Apps)
    <2>1. PICK e \in Entries : e = l[k]
      BY <1>1, ElementOfSeq
    <2>2. <<e>> \in Seq(Entries)
      OBVIOUS
    <2>3. Only(<<e>> \o c, Apps) = Only(<<e>>, Apps) \o Only(c, Apps)
      BY <2>2, OnlyAppsConcat
    <2>4. Only(<<e>>, Apps) = <<>>
      BY <2>1, OnlyOne
    <2>5. Only(c, Apps) \in Seq(Entries)
      BY OnlyType
    <2> QED BY <1>4, <2>1, <2>3, <2>4, <2>5, ConcatEmptySeq
  <1>8. Only(a \o b, Apps) = a \o Only(c, Apps)
    <2>1. Only(a \o b, Apps) = Only(a, Apps) \o Only(b, Apps)
      BY OnlyAppsConcat
    <2> QED BY <1>6, <1>7, <2>1
  <1>9. Only(c, Apps) \in Seq(Apps)
    <2>1. Entries \cap Apps = Apps
      BY DEF Entries
    <2>2. Only(c, Apps) \in Seq(Entries \cap Apps)
      BY OnlyIn
    <2> QED BY <2>1, <2>2
  <1> QED BY <1>2, <1>3, <1>5, <1>7, <1>8, <1>9 DEF From, n

\* Where there are only listeners of the application, they are what is chosen.
LEMMA FromNoServer ==
    ASSUME NEW l \in Seq(Entries), NEW i \in Nat \ {0}, NoServerIn(l, i, Len(l))
    PROVE  Only(From(l, i), Apps) = SubSeq(l, i, Len(l)) /\ SubSeq(l, i, Len(l)) \in Seq(Apps)
  <1>1. SubSeq(l, i, Len(l)) \in Seq(Apps)
    BY PartType, LenProperties
  <1> QED BY <1>1, OnlyAll DEF From

\* A registration more leaves the parts before it, and lengthens those up to it.
LEMMA PartsGrow ==
    ASSUME NEW l \in Seq(Entries), NEW e \in Entries, NEW i \in Nat \ {0}
    PROVE  /\ \A j \in Nat : j <= Len(l) => SubSeq(Append(l, e), i, j) = SubSeq(l, i, j)
           /\ i <= Len(l) + 1 =>
                SubSeq(Append(l, e), i, Len(l) + 1) = SubSeq(l, i, Len(l)) \o <<e>>
  <1>1. PICK m : m = Append(l, e)
    OBVIOUS
  <1>2. /\ m \in Seq(Entries) /\ Len(m) = Len(l) + 1 /\ Len(l) \in Nat
        /\ \A k \in 1..Len(l) : m[k] = l[k]
        /\ m[Len(l) + 1] = e
    BY <1>1, AppendProperties, LenProperties
  <1>3. ASSUME NEW j \in Nat, j <= Len(l)
        PROVE  SubSeq(m, i, j) = SubSeq(l, i, j)
    <2>1. CASE i > j
      BY <1>2, <2>1, SubSeqEmpty
    <2>2. CASE i <= j
      <3>1. /\ i \in 1..(Len(l) + 1) /\ j \in (i - 1)..Len(l)
            /\ i \in 1..(Len(m) + 1) /\ j \in (i - 1)..Len(m)
        BY <1>2, <1>3, <2>2
      <3>2. /\ SubSeq(l, i, j) \in Seq(Entries) /\ Len(SubSeq(l, i, j)) = j - i + 1
            /\ \A k \in 1..(j - i + 1) : SubSeq(l, i, j)[k] = l[i + k - 1]
        BY <2>2, <3>1, SubSeqProperties
      <3>3. /\ SubSeq(m, i, j) \in Seq(Entries) /\ Len(SubSeq(m, i, j)) = j - i + 1
            /\ \A k \in 1..(j - i + 1) : SubSeq(m, i, j)[k] = m[i + k - 1]
        BY <1>2, <2>2, <3>1, SubSeqProperties
      <3>4. \A k \in 1..(j - i + 1) : i + k - 1 \in 1..Len(l)
        BY <1>2, <1>3, <2>2
      <3>5. PICK s \in Seq(Entries), t \in Seq(Entries) : s = SubSeq(m, i, j) /\ t = SubSeq(l, i, j)
        BY <3>2, <3>3
      <3>6. Len(s) = Len(t) /\ \A k \in 1..Len(s) : s[k] = t[k]
        BY <1>2, <3>2, <3>3, <3>4, <3>5
      <3>7. s = t
        BY <3>6, SeqEqual
      <3> QED BY <3>5, <3>7
    <2> QED BY <2>1, <2>2
  <1>4. ASSUME i <= Len(l) + 1
        PROVE  SubSeq(m, i, Len(l) + 1) = SubSeq(l, i, Len(l)) \o <<e>>
    <2>1. PICK n \in Nat : n = Len(l) + 1
      BY <1>2
    <2>2. i \in 1..Len(m) /\ n \in i..Len(m) /\ n - 1 = Len(l)
      BY <1>2, <1>4, <2>1
    <2>3. SubSeq(m, i, n) = SubSeq(m, i, n - 1) \o <<m[n]>>
      BY <1>2, <2>2, SubSeqRecursiveSecond
    <2>4. SubSeq(m, i, n - 1) = SubSeq(l, i, Len(l))
      BY <1>2, <1>3, <2>2
    <2> QED BY <1>2, <2>1, <2>3, <2>4
  <1> QED BY <1>1, <1>3, <1>4

-----------------------------------------------------------------------------
(* Node's server: the place of a wrapper among the registrations, and what is to come of a
   request when the listeners that are left to call have been called. *)

\* place[w] is the registration that made the w-th wrapper.  The list l of listeners is what
\* the first i registrations lg make it on Node's server: the listener of the last server
\* among them, and then the application's that came after it.
Shows(place, lg, l, i) ==
    \/ NoServerIn(lg, 1, i) /\ l = Call(SubSeq(lg, 1, i))
    \/ \E w \in DOMAIN place :
          /\ place[w] <= i /\ NoServerIn(lg, place[w] + 1, i)
          /\ l = <<Wrapper(w)>> \o Call(SubSeq(lg, place[w] + 1, i))

Placed(place) ==
    /\ place \in [DOMAIN wrappers -> DOMAIN log]
    /\ \A w \in DOMAIN wrappers :
          /\ log[place[w]] = wrappers[w].server
          /\ Shows(place, log, wrappers[w].saved, place[w] - 1)
    /\ Shows(place, log, listeners, Len(log))

\* The registrations that would take r.
TakersOf(r) ==
    {i \in DOMAIN log :
        IF express THEN log[i] \in Apps \/ r \in Has[log[i]]
        ELSE /\ log[i] \in Servers
             /\ (log[i] \in guarded /\ r \in Denies[log[i]]) \/ r \in Has[log[i]]}

Says(o, taker, refused, called) ==
    TakerIn(o) = taker /\ RefusedIn(o) = refused /\ CalledIn(o) = called

\* o was done with a request that taker took, and the listeners p are to be called: with
\* those that were, they are apps, listeners of the application.
Leaves(p, o, taker, refused, apps) ==
    \E called, rest \in Seq(Apps) :
       Says(o, taker, refused, called) /\ p = Call(rest) /\ called \o rest = apps

\* On Node's server, o was done with r and the listeners p are to be called: one of a
\* server, and no server that came after it takes r; or those of the application that are
\* left, after the last server that takes r has, or because none does.
NodeOk(place, r, p, o) ==
    \/ \E w \in DOMAIN wrappers :
          /\ p = <<Wrapper(w)>> \o Call(Only(From(log, place[w] + 1), Apps))
          /\ \A i \in TakersOf(r) : i <= place[w]
          /\ Says(o, {}, FALSE, <<>>)
    \/ \E i \in TakersOf(r) :
          /\ \A j \in TakersOf(r) : j <= i
          /\ Leaves(p, o, {log[i]}, log[i] \in guarded /\ r \in Denies[log[i]],
                    Only(From(log, i), Apps))
    \/ TakersOf(r) = {} /\ Leaves(p, o, {}, FALSE, Only(From(log, 1), Apps))

-----------------------------------------------------------------------------
(* Registrations on Node's server. *)

LEMMA ShowsKept ==
    ASSUME NEW lg \in Seq(Entries), NEW e \in Entries, NEW i \in Nat, i <= Len(lg),
           NEW m \in Nat, NEW place \in [1..m -> 1..Len(lg)],
           NEW n \in Nat, NEW grown \in [1..n -> 1..(Len(lg) + 1)], m <= n,
           \A w \in 1..m : grown[w] = place[w],
           NEW l, Shows(place, lg, l, i)
    PROVE  Shows(grown, Append(lg, e), l, i)
  <1>1. /\ \A k \in 1..Len(lg) : Append(lg, e)[k] = lg[k]
        /\ Len(lg) \in Nat
    BY AppendProperties, LenProperties
  <1>2. ASSUME NEW k \in Nat \ {0}
        PROVE  /\ NoServerIn(lg, k, i) => NoServerIn(Append(lg, e), k, i)
               /\ SubSeq(Append(lg, e), k, i) = SubSeq(lg, k, i)
    <2>1. \A j \in k..i : j \in 1..Len(lg)
      BY <1>1
    <2> QED BY <1>1, <2>1, PartsGrow DEF NoServerIn
  <1>3. CASE NoServerIn(lg, 1, i) /\ l = Call(SubSeq(lg, 1, i))
    <2>1. NoServerIn(Append(lg, e), 1, i) /\ SubSeq(Append(lg, e), 1, i) = SubSeq(lg, 1, i)
      BY <1>2, <1>3
    <2> QED BY <1>3, <2>1 DEF Shows
  <1>4. ASSUME NEW w \in 1..m, place[w] <= i, NoServerIn(lg, place[w] + 1, i),
               l = <<Wrapper(w)>> \o Call(SubSeq(lg, place[w] + 1, i))
        PROVE  Shows(grown, Append(lg, e), l, i)
    <2>1. PICK k \in Nat \ {0} : k = place[w] + 1 /\ k = grown[w] + 1
      BY <1>1, <1>4
    <2>2. /\ NoServerIn(Append(lg, e), k, i)
          /\ SubSeq(Append(lg, e), k, i) = SubSeq(lg, k, i)
      BY <1>2, <1>4, <2>1
    <2>3. w \in DOMAIN grown /\ grown[w] <= i
      BY <1>4
    <2> QED BY <1>4, <2>1, <2>2, <2>3 DEF Shows
  <1> QED BY <1>3, <1>4 DEF Shows

LEMMA ShowsMore ==
    ASSUME NEW lg \in Seq(Entries), NEW a \in Apps,
           NEW m \in Nat, NEW place \in [1..m -> 1..Len(lg)],
           NEW l, Shows(place, lg, l, Len(lg))
    PROVE  Shows(place, Append(lg, a), Append(l, App(a)), Len(lg) + 1)
  <1> DEFINE n == Len(lg)
             L == ListenersUpTo(m)
  <1>1. /\ \A k \in 1..n : Append(lg, a)[k] = lg[k]
        /\ Append(lg, a)[n + 1] = a
        /\ n \in Nat /\ a \in Entries
    <2>1. a \in Entries
      BY DEF Entries
    <2> QED BY <2>1, AppendProperties, LenProperties
  <1>2. App(a) \in L /\ \A w \in 1..m : Wrapper(w) \in L
    BY DEF ListenersUpTo
  <1>3. ASSUME NEW k \in Nat \ {0}, k <= n + 1, NoServerIn(lg, k, n)
        PROVE  /\ NoServerIn(Append(lg, a), k, n + 1)
               /\ SubSeq(lg, k, n) \in Seq(Apps) /\ Call(SubSeq(lg, k, n)) \in Seq(L)
               /\ Call(SubSeq(Append(lg, a), k, n + 1)) = Append(Call(SubSeq(lg, k, n)), App(a))
    <2>1. \A j \in k..(n + 1) : j \in k..n \/ j = n + 1
      BY <1>1
    <2>2. \A j \in k..n : j \in 1..n
      BY <1>1
    <2>3. NoServerIn(Append(lg, a), k, n + 1)
      BY <1>1, <1>3, <2>1, <2>2 DEF NoServerIn
    <2>4. PICK s \in Seq(Apps) : s = SubSeq(lg, k, n)
      <3>1. PICK j \in Nat : j = n /\ j <= Len(lg) /\ NoServerIn(lg, k, j)
        BY <1>1, <1>3
      <3>2. SubSeq(lg, k, j) \in Seq(Apps)
        BY <3>1, PartType
      <3> QED BY <3>1, <3>2
    <2>5. SubSeq(Append(lg, a), k, n + 1) = s \o <<a>>
      BY <1>1, <1>3, <2>4, PartsGrow
    <2>6. <<a>> \in Seq(Apps)
      OBVIOUS
    <2>7. Call(s \o <<a>>) = Call(s) \o <<App(a)>>
      BY <2>6, CallConcat, CallOne
    <2>8. Call(s) \in Seq(L)
      BY CallIs
    <2>9. Call(s) \o <<App(a)>> = Append(Call(s), App(a))
      BY <1>2, <2>8, AppendIsConcat
    <2> QED BY <2>3, <2>4, <2>5, <2>7, <2>8, <2>9
  <1> HIDE DEF n, L
  <1>4. CASE NoServerIn(lg, 1, n) /\ l = Call(SubSeq(lg, 1, n))
    <2>1. PICK k \in Nat \ {0} : k = 1 /\ k <= n + 1
      BY <1>1
    <2>2. /\ NoServerIn(Append(lg, a), k, n + 1)
          /\ Call(SubSeq(Append(lg, a), k, n + 1)) = Append(Call(SubSeq(lg, k, n)), App(a))
      BY <1>3, <1>4, <2>1
    <2> QED BY <1>4, <2>1, <2>2 DEF Shows, n
  <1>5. ASSUME NEW w \in 1..m, place[w] <= n, NoServerIn(lg, place[w] + 1, n),
               l = <<Wrapper(w)>> \o Call(SubSeq(lg, place[w] + 1, n))
        PROVE  Shows(place, Append(lg, a), Append(l, App(a)), n + 1)
    <2>1. PICK k \in Nat \ {0} : k = place[w] + 1 /\ k <= n + 1 /\ place[w] <= n + 1
      <3>1. place[w] \in 1..Len(lg)
        OBVIOUS
      <3> QED BY <1>1, <1>5, <3>1 DEF n
    <2>2. /\ NoServerIn(Append(lg, a), k, n + 1)
          /\ Call(SubSeq(lg, k, n)) \in Seq(L)
          /\ Call(SubSeq(Append(lg, a), k, n + 1)) = Append(Call(SubSeq(lg, k, n)), App(a))
      BY <1>3, <1>5, <2>1
    <2>3. PICK c \in Seq(L), h \in L, x \in L :
             c = Call(SubSeq(lg, k, n)) /\ h = Wrapper(w) /\ x = App(a)
      BY <1>2, <2>2
    <2>4. Append(<<h>> \o c, x) = <<h>> \o Append(c, x)
      <3>1. <<h>> \in Seq(L) /\ <<x>> \in Seq(L)
        OBVIOUS
      <3>2. <<h>> \o c \in Seq(L)
        BY <3>1, ConcatProperties
      <3>3. Append(<<h>> \o c, x) = (<<h>> \o c) \o <<x>> /\ Append(c, x) = c \o <<x>>
        BY <3>2, AppendIsConcat
      <3> QED BY <3>1, <3>3, ConcatAssociative
    <2>5. w \in DOMAIN place
      BY <1>5
    <2> QED BY <1>5, <2>1, <2>2, <2>3, <2>4, <2>5 DEF Shows
  <1>6. Shows(place, lg, l, n)
    BY DEF n
  <1>7. Shows(place, Append(lg, a), Append(l, App(a)), n + 1)
    <2>1. DOMAIN place = 1..m
      OBVIOUS
    <2> QED BY <1>4, <1>5, <1>6, <2>1 DEF Shows, n
  <1> QED BY <1>7 DEF n

LEMMA LogTypes ==
    ASSUME TypeOK
    PROVE  /\ log \in Seq(Entries) /\ Len(log) \in Nat /\ DOMAIN log = 1..Len(log)
           /\ Len(wrappers) \in Nat /\ DOMAIN wrappers = 1..Len(wrappers)
           /\ listeners \in Seq(ListenersUpTo(Len(wrappers)))
           /\ pending \in Seq(ListenersUpTo(Len(wrappers)))
           /\ \A i \in DOMAIN log : log[i] \in Entries
           /\ \A w \in DOMAIN wrappers : wrappers[w].server \in Servers
  <1>1. log \in Seq(Entries) /\ Len(log) \in Nat /\ DOMAIN log = 1..Len(log)
    BY LenProperties DEF TypeOK, Entries
  <1>2. Len(wrappers) \in Nat /\ DOMAIN wrappers = 1..Len(wrappers)
    BY LenProperties DEF TypeOK
  <1>3. \A i \in DOMAIN log : log[i] \in Entries
    BY <1>1, ElementOfSeq
  <1> QED BY <1>1, <1>2, <1>3, WrapperType DEF TypeOK

LEMMA DeliverPlaces ==
    ASSUME TypeOK, ~express, NEW place, Placed(place),
           NEW s \in Servers, Register(s), log' = Append(log, s)
    PROVE  \E grown : Placed(grown)'
  <1> DEFINE n == Len(wrappers)
             k == Len(log)
             new == [server |-> s, saved |-> listeners]
             grown == [w \in 1..(n + 1) |-> IF w <= n THEN place[w] ELSE k + 1]
  <1>1. /\ log \in Seq(Entries) /\ k \in Nat /\ DOMAIN log = 1..k
        /\ n \in Nat /\ DOMAIN wrappers = 1..n /\ s \in Entries
    BY LogTypes DEF Entries
  <1>2. /\ wrappers' = Append(wrappers, new) /\ listeners' = <<Wrapper(n + 1)>>
    BY DEF Register
  <1>3. /\ Len(wrappers') = n + 1 /\ DOMAIN wrappers' = 1..(n + 1)
        /\ \A w \in 1..n : wrappers'[w] = wrappers[w]
        /\ wrappers'[n + 1] = new
    <2>1. PICK X : wrappers \in Seq(X) /\ new \in X
      <3> DEFINE R == [server : Servers, saved : Seq(ListenersUpTo(Len(wrappers)))]
      <3>1. wrappers \in Seq(R) /\ new \in R
        BY DEF TypeOK
      <3> HIDE DEF R, new
      <3> QED BY <3>1
    <2> HIDE DEF new
    <2> QED BY <1>2, <2>1, AppendProperties, LenProperties
  <1>4. /\ log' \in Seq(Entries) /\ Len(log') = k + 1 /\ DOMAIN log' = 1..(k + 1)
        /\ \A i \in 1..k : log'[i] = log[i]
        /\ log'[k + 1] = s
    BY <1>1, AppendProperties, LenProperties
  <1>5. place \in [1..n -> 1..k]
    BY <1>1 DEF Placed
  <1>6. /\ grown \in [1..(n + 1) -> 1..(k + 1)]
        /\ \A w \in 1..n : grown[w] = place[w]
        /\ grown[n + 1] = k + 1
    BY <1>1, <1>5
  <1> HIDE DEF grown, new
  <1>7. ASSUME NEW l, NEW i \in Nat, i <= k, Shows(place, log, l, i)
        PROVE  Shows(grown, log', l, i)
    <2>1. n <= n + 1 /\ n + 1 \in Nat
      BY <1>1
    <2>2. Shows(grown, Append(log, s), l, i)
      BY <1>1, <1>5, <1>6, <1>7, <2>1, ShowsKept
    <2> QED BY <2>2
  <1>8. ASSUME NEW w \in 1..(n + 1)
        PROVE  /\ log'[grown[w]] = wrappers'[w].server
               /\ Shows(grown, log', wrappers'[w].saved, grown[w] - 1)
    <2>1. CASE w \in 1..n
      <3>1. /\ log[place[w]] = wrappers[w].server
            /\ Shows(place, log, wrappers[w].saved, place[w] - 1)
        BY <1>1, <2>1 DEF Placed
      <3>2. place[w] \in 1..k /\ place[w] - 1 \in Nat /\ place[w] - 1 <= k
        BY <1>1, <1>5, <2>1
      <3>3. Shows(grown, log', wrappers[w].saved, place[w] - 1)
        BY <1>7, <3>1, <3>2
      <3> QED BY <1>3, <1>4, <1>6, <2>1, <3>1, <3>2, <3>3
    <2>2. CASE w = n + 1
      <3>1. Shows(place, log, listeners, k)
        BY DEF Placed
      <3>2. Shows(grown, log', listeners, k)
        BY <1>1, <1>7, <3>1
      <3>3. grown[w] = k + 1 /\ grown[w] - 1 = k
        BY <1>1, <1>6, <2>2
      <3>4. wrappers'[w].server = s /\ wrappers'[w].saved = listeners
        BY <1>3, <2>2 DEF new
      <3> QED BY <1>4, <3>2, <3>3, <3>4
    <2>3. w \in 1..n \/ w = n + 1
      BY <1>1
    <2> QED BY <2>1, <2>2, <2>3
  <1>9. Shows(grown, log', listeners', Len(log'))
    <2>1. n + 1 \in DOMAIN grown /\ grown[n + 1] <= k + 1
      BY <1>1, <1>6
    <2>2. NoServerIn(log', grown[n + 1] + 1, k + 1)
      BY <1>1, <1>6 DEF NoServerIn
    <2>3. SubSeq(log', grown[n + 1] + 1, k + 1) = <<>>
      <3>1. PICK a \in Nat, b \in Nat : a = grown[n + 1] + 1 /\ b = k + 1 /\ a > b
        BY <1>1, <1>6
      <3>2. SubSeq(log', a, b) = <<>>
        BY <1>4, <3>1, SubSeqEmpty
      <3> QED BY <3>1, <3>2
    <2>4. <<Wrapper(n + 1)>> \o Call(<<>>) = <<Wrapper(n + 1)>>
      <3>1. PICK h : h = Wrapper(n + 1)
        OBVIOUS
      <3>2. <<h>> \in Seq({h})
        OBVIOUS
      <3>3. <<h>> \o <<>> = <<h>>
        BY <3>2, ConcatEmptySeq
      <3> QED BY <3>1, <3>3, CallNone
    <2> QED BY <1>2, <1>4, <2>1, <2>2, <2>3, <2>4 DEF Shows
  <1>10. grown \in [DOMAIN wrappers' -> DOMAIN log']
    BY <1>3, <1>4, <1>6
  <1>11. PICK g : g = grown
    OBVIOUS
  <1>12. Placed(g)'
    BY <1>3, <1>8, <1>9, <1>10, <1>11 DEF Placed
  <1> QED BY <1>12

LEMMA AddListenerPlaces ==
    ASSUME TypeOK, ~express, NEW place, Placed(place),
           NEW a \in Apps, AddListener(a)
    PROVE  Placed(place)'
  <1> DEFINE n == Len(wrappers)
             k == Len(log)
  <1>1. /\ log \in Seq(Entries) /\ k \in Nat /\ DOMAIN log = 1..k
        /\ n \in Nat /\ DOMAIN wrappers = 1..n /\ a \in Entries
    BY LogTypes DEF Entries
  <1>2. /\ listeners' = Append(listeners, App(a)) /\ log' = Append(log, a)
        /\ wrappers' = wrappers
    BY DEF AddListener
  <1>3. /\ log' \in Seq(Entries) /\ Len(log') = k + 1 /\ DOMAIN log' = 1..(k + 1)
        /\ \A i \in 1..k : log'[i] = log[i]
    BY <1>1, <1>2, AppendProperties, LenProperties
  <1>4. place \in [1..n -> 1..k] /\ place \in [1..n -> 1..(k + 1)]
    BY <1>1 DEF Placed
  <1>5. ASSUME NEW w \in 1..n
        PROVE  /\ log'[place[w]] = wrappers'[w].server
               /\ Shows(place, log', wrappers'[w].saved, place[w] - 1)
    <2>1. /\ log[place[w]] = wrappers[w].server
          /\ Shows(place, log, wrappers[w].saved, place[w] - 1)
      BY <1>1, <1>5 DEF Placed
    <2>2. PICK i \in Nat : i = place[w] - 1 /\ i <= k
      BY <1>1, <1>4
    <2>3. n <= n
      BY <1>1
    <2>4. Shows(place, Append(log, a), wrappers[w].saved, i)
      BY <1>1, <1>4, <2>1, <2>2, <2>3, ShowsKept
    <2> QED BY <1>2, <1>3, <1>4, <2>1, <2>2, <2>4
  <1>6. Shows(place, log', listeners', k + 1)
    <2>1. Shows(place, log, listeners, k)
      BY DEF Placed
    <2>2. Shows(place, Append(log, a), Append(listeners, App(a)), k + 1)
      BY <1>1, <1>4, <2>1, ShowsMore
    <2> QED BY <1>2, <2>2
  <1> QED BY <1>1, <1>2, <1>3, <1>4, <1>5, <1>6 DEF Placed

\* What is said of a request of which nothing was, and of one when a listener of the
\* application is called.
LEMMA SaysFirst ==
    ASSUME NEW o \in Seq(Outcome), Says(o, {}, FALSE, <<>>),
           NEW did \in Seq(Outcome), NEW taker, NEW refused, Says(did, taker, refused, <<>>)
    PROVE  Says(o \o did, taker, refused, <<>>)
  <1>1. /\ TakerIn(o \o did) = TakerIn(o) \cup TakerIn(did)
        /\ RefusedIn(o \o did) = (RefusedIn(o) \/ RefusedIn(did))
        /\ CalledIn(o \o did) = CalledIn(o) \o CalledIn(did)
    BY SaysConcat
  <1>2. TakerIn(o) = {} /\ RefusedIn(o) = FALSE /\ CalledIn(o) = <<>>
    BY DEF Says
  <1>3. TakerIn(did) = taker /\ RefusedIn(did) = refused /\ CalledIn(did) = <<>>
    BY DEF Says
  <1>4. <<>> \o <<>> = <<>>
    OBVIOUS
  <1>5. RefusedIn(did) \in BOOLEAN
    BY DEF RefusedIn
  <1>6. (RefusedIn(o) \/ RefusedIn(did)) = RefusedIn(did)
    BY <1>2, <1>5
  <1> QED BY <1>1, <1>2, <1>3, <1>4, <1>6 DEF Says

LEMMA SaysCall ==
    ASSUME NEW o \in Seq(Outcome), NEW taker, NEW refused, NEW called,
           Says(o, taker, refused, called), NEW a \in Apps
    PROVE  /\ o \o <<Did("called", a)>> \in Seq(Outcome)
           /\ Says(o \o <<Did("called", a)>>, taker, refused, called \o <<a>>)
  <1>1. PICK what \in {"asked", "served", "refused", "called"} : what = "called"
    OBVIOUS
  <1>2. a \in Servers \cup Apps
    OBVIOUS
  <1>3. /\ <<Did(what, a)>> \in Seq(Outcome)
        /\ TakerIn(<<Did(what, a)>>) = IF what \in {"served", "refused"} THEN {a} ELSE {}
        /\ RefusedIn(<<Did(what, a)>>) = (what = "refused")
        /\ CalledIn(<<Did(what, a)>>) = IF what = "called" /\ a \in Apps THEN <<a>> ELSE <<>>
    BY <1>2, SaysOne
  <1>4. PICK did \in Seq(Outcome) :
           /\ did = <<Did("called", a)>> /\ TakerIn(did) = {} /\ RefusedIn(did) = FALSE
           /\ CalledIn(did) = <<a>>
    BY <1>1, <1>3
  <1>5. /\ TakerIn(o \o did) = TakerIn(o) \cup TakerIn(did)
        /\ RefusedIn(o \o did) = (RefusedIn(o) \/ RefusedIn(did))
        /\ CalledIn(o \o did) = CalledIn(o) \o CalledIn(did)
    BY SaysConcat
  <1>6. RefusedIn(o) \in BOOLEAN
    BY DEF RefusedIn
  <1>7. (RefusedIn(o) \/ RefusedIn(did)) = RefusedIn(o)
    BY <1>4, <1>6
  <1>8. o \o did \in Seq(Outcome)
    BY ConcatProperties
  <1>9. TakerIn(o) \cup TakerIn(did) = TakerIn(o)
    BY <1>4
  <1>10. Says(o \o did, taker, refused, called \o <<a>>)
    BY <1>4, <1>5, <1>7, <1>9 DEF Says
  <1> QED BY <1>4, <1>8, <1>10

\* The listener of s says nothing about who takes the request, or that s does.
LEMMA SaysListener ==
    ASSUME NEW s \in Servers, NEW what \in {"served", "refused"}
    PROVE  /\ Asked(s) \o <<>> \in Seq(Outcome)
           /\ Asked(s) \o <<Did(what, s)>> \in Seq(Outcome)
           /\ Says(Asked(s) \o <<>>, {}, FALSE, <<>>)
           /\ Says(Asked(s) \o <<Did(what, s)>>, {s}, what = "refused", <<>>)
  <1>1. PICK a \in Seq(Outcome) : a = Asked(s) /\ Says(a, {}, FALSE, <<>>)
    BY SaysAsked DEF Says
  <1>2. what \in {"asked", "served", "refused", "called"} /\ s \in Servers \cup Apps
        /\ what # "called"
    OBVIOUS
  <1>3. PICK d \in Seq(Outcome) : d = <<Did(what, s)>> /\ Says(d, {s}, what = "refused", <<>>)
    BY <1>2, SaysOne DEF Says
  <1>4. a \o <<>> = a
    BY ConcatEmptySeq
  <1>5. <<>> \o <<>> = <<>>
    OBVIOUS
  <1>6. /\ TakerIn(a \o d) = TakerIn(a) \cup TakerIn(d)
        /\ RefusedIn(a \o d) = (RefusedIn(a) \/ RefusedIn(d))
        /\ CalledIn(a \o d) = CalledIn(a) \o CalledIn(d)
    BY SaysConcat
  <1>7. a \o d \in Seq(Outcome)
    BY ConcatProperties
  <1>8. Says(a \o d, {s}, what = "refused", <<>>)
    BY <1>1, <1>3, <1>5, <1>6 DEF Says
  <1> QED BY <1>1, <1>3, <1>4, <1>7, <1>8

LEMMA TakersAre ==
    ASSUME TypeOK, ~express, NEW r \in Requests, NEW i \in TakersOf(r)
    PROVE  /\ i \in 1..Len(log) /\ log[i] \in Servers /\ log[i] \notin Apps
           /\ (log[i] \in guarded /\ r \in Denies[log[i]]) \/ r \in Has[log[i]]
  BY LogTypes, ListenerAssumption DEF TakersOf

LEMMA PlaceTypes ==
    ASSUME TypeOK, NEW place, Placed(place), NEW w \in DOMAIN wrappers
    PROVE  /\ place[w] \in 1..Len(log) /\ place[w] \in DOMAIN log
           /\ place[w] + 1 \in Nat \ {0} /\ place[w] - 1 \in Nat
           /\ log[place[w]] \in Servers /\ log[place[w]] \notin Apps
           /\ log[place[w]] = wrappers[w].server
           /\ Shows(place, log, wrappers[w].saved, place[w] - 1)
           /\ w \in Nat \ {0}
  <1>1. place[w] \in DOMAIN log /\ DOMAIN log = 1..Len(log) /\ Len(log) \in Nat
    BY LogTypes DEF Placed
  <1>2. log[place[w]] = wrappers[w].server
        /\ Shows(place, log, wrappers[w].saved, place[w] - 1)
    BY DEF Placed
  <1> QED BY <1>1, <1>2, LogTypes, ListenerAssumption

\* The listeners l that the first i registrations leave, and after them those of the
\* application that come from registration k on, are what NodeOk says when no server after
\* the i-th registration takes r.
LEMMA AsksOn ==
    ASSUME TypeOK, ~express, NEW r \in Requests, NEW place, Placed(place),
           NEW i \in Nat, i <= Len(log), NEW l, Shows(place, log, l, i),
           \A j \in TakersOf(r) : j <= i,
           NEW b \in Seq(Apps),
           \A k \in Nat \ {0} : k <= i + 1 /\ NoServerIn(log, k, i)
              => Only(From(log, k), Apps) = SubSeq(log, k, i) \o b,
           NEW o, Says(o, {}, FALSE, <<>>)
    PROVE  NodeOk(place, r, l \o Call(b), o)
  <1>1. Len(log) \in Nat /\ log \in Seq(Entries)
    BY LogTypes
  <1>2. ASSUME NEW k \in Nat \ {0}, k <= i + 1, NoServerIn(log, k, i)
        PROVE  /\ SubSeq(log, k, i) \in Seq(Apps)
               /\ Call(SubSeq(log, k, i)) \o Call(b) = Call(Only(From(log, k), Apps))
               /\ Only(From(log, k), Apps) \in Seq(Apps)
    <2>1. PICK a \in Seq(Apps) : a = SubSeq(log, k, i)
      BY <1>1, <1>2, PartType
    <2>2. Call(a \o b) = Call(a) \o Call(b)
      BY CallConcat
    <2>3. Only(From(log, k), Apps) = a \o b /\ a \o b \in Seq(Apps)
      BY <1>2, <2>1, ConcatProperties
    <2> QED BY <2>1, <2>2, <2>3
  <1>3. CASE NoServerIn(log, 1, i) /\ l = Call(SubSeq(log, 1, i))
    <2>1. PICK k \in Nat \ {0} : k = 1 /\ k <= i + 1
      OBVIOUS
    <2>2. /\ l \o Call(b) = Call(Only(From(log, 1), Apps))
          /\ Only(From(log, 1), Apps) \in Seq(Apps)
      BY <1>2, <1>3, <2>1
    <2>3. TakersOf(r) = {}
      <3> SUFFICES ASSUME NEW j \in TakersOf(r) PROVE FALSE
        OBVIOUS
      <3>1. j \in 1..i
        BY TakersAre
      <3> QED BY <1>3, <3>1, TakersAre DEF NoServerIn
    <2>4. PICK rest \in Seq(Apps) : rest = Only(From(log, 1), Apps)
      BY <2>2
    <2>5. PICK called \in Seq(Apps) : called = <<>>
      BY EmptySeq
    <2>6. called \o rest = rest
      BY <2>5, ConcatEmptySeq
    <2>7. \E c, u \in Seq(Apps) : Says(o, {}, FALSE, c) /\ l \o Call(b) = Call(u)
                                  /\ c \o u = Only(From(log, 1), Apps)
      BY <2>2, <2>4, <2>5, <2>6
    <2>8. Leaves(l \o Call(b), o, {}, FALSE, Only(From(log, 1), Apps))
      BY <2>7 DEF Leaves
    <2> QED BY <2>3, <2>8 DEF NodeOk
  <1>4. ASSUME NEW w \in DOMAIN place, place[w] <= i, NoServerIn(log, place[w] + 1, i),
               l = <<Wrapper(w)>> \o Call(SubSeq(log, place[w] + 1, i))
        PROVE  NodeOk(place, r, l \o Call(b), o)
    <2>1. w \in DOMAIN wrappers /\ place[w] \in 1..Len(log)
      BY <1>4, PlaceTypes DEF Placed
    <2>2. PICK k \in Nat \ {0} : k = place[w] + 1 /\ k <= i + 1
      BY <1>4, <2>1
    <2>3. /\ SubSeq(log, k, i) \in Seq(Apps)
          /\ Call(SubSeq(log, k, i)) \o Call(b) = Call(Only(From(log, k), Apps))
      BY <1>2, <1>4, <2>2
    <2> DEFINE L == ListenersUpTo(Len(wrappers))
    <2>4. PICK h \in L, c \in Seq(L), d \in Seq(L) :
             h = Wrapper(w) /\ c = Call(SubSeq(log, k, i)) /\ d = Call(b)
      <3>1. Wrapper(w) \in L /\ Len(wrappers) \in Nat
        BY <2>1, LogTypes DEF ListenersUpTo
      <3>2. Call(SubSeq(log, k, i)) \in Seq(L) /\ Call(b) \in Seq(L)
        BY <2>3, <3>1, CallIs
      <3> QED BY <3>1, <3>2
    <2> HIDE DEF L
    <2>5. (<<h>> \o c) \o d = <<h>> \o (c \o d)
      <3>1. <<h>> \in Seq(L)
        OBVIOUS
      <3> QED BY <3>1, ConcatAssociative
    <2>6. l \o Call(b) = <<Wrapper(w)>> \o Call(Only(From(log, place[w] + 1), Apps))
      BY <1>4, <2>2, <2>3, <2>4, <2>5
    <2>7. \A j \in TakersOf(r) : j <= place[w]
      <3> SUFFICES ASSUME NEW j \in TakersOf(r), ~(j <= place[w]) PROVE FALSE
        OBVIOUS
      <3>1. j \in 1..Len(log) /\ j <= i /\ log[j] \notin Apps
        BY TakersAre
      <3>2. j \in (place[w] + 1)..i
        BY <2>1, <3>1
      <3> QED BY <1>4, <3>1, <3>2 DEF NoServerIn
    <2> QED BY <2>1, <2>6, <2>7 DEF NodeOk
  <1> QED BY <1>3, <1>4 DEF Shows

\* A request comes: the listeners that are there are called.
LEMMA RequestAsksOn ==
    ASSUME TypeOK, ~express, NEW r \in Requests, NEW place, Placed(place)
    PROVE  NodeOk(place, r, listeners, <<>>)
  <1>1. /\ Len(log) \in Nat /\ log \in Seq(Entries)
        /\ listeners \in Seq(ListenersUpTo(Len(wrappers)))
    BY LogTypes
  <1>x. PICK b \in Seq(Apps) : b = <<>>
    BY EmptySeq
  <1>2. PICK i \in Nat : i = Len(log) /\ i <= Len(log)
    BY <1>1
  <1>3. Shows(place, log, listeners, i)
    BY <1>2 DEF Placed
  <1>4. \A j \in TakersOf(r) : j <= i
    BY <1>2, TakersAre
  <1>5. ASSUME NEW k \in Nat \ {0}, NoServerIn(log, k, i)
        PROVE  Only(From(log, k), Apps) = SubSeq(log, k, i) \o b
    <2>1. Only(From(log, k), Apps) = SubSeq(log, k, i) /\ SubSeq(log, k, i) \in Seq(Apps)
      BY <1>1, <1>2, <1>5, FromNoServer
    <2> QED BY <1>x, <2>1, ConcatEmptySeq
  <1>6. PICK o : o = <<>> /\ Says(o, {}, FALSE, <<>>)
    BY SaysNothing DEF Says
  <1>7. NodeOk(place, r, listeners \o Call(b), o)
    BY <1>x, <1>2, <1>3, <1>4, <1>5, <1>6, AsksOn
  <1>8. listeners \o Call(b) = listeners
    BY <1>1, <1>x, CallNone, ConcatEmptySeq
  <1> QED BY <1>6, <1>7, <1>8

\* Which of the cases of NodeOk it is, by the listener that is called.
LEMMA NextIsServer ==
    ASSUME TypeOK, NEW place, Placed(place), NEW w \in DOMAIN wrappers,
           NEW p, p = <<Wrapper(w)>> \o Call(Only(From(log, place[w] + 1), Apps))
    PROVE  /\ Head(p).wrapper = w /\ w # 0
           /\ Tail(p) = Call(Only(From(log, place[w] + 1), Apps))
  <1>1. w # 0
    BY PlaceTypes
  <1>2. PICK k \in Nat \ {0} : k = place[w] + 1
    BY PlaceTypes
  <1>3. Only(From(log, k), Apps) \in Seq(Apps)
    <2>1. PICK s \in Seq(Entries) : s = From(log, k)
      <3>1. Len(log) \in Nat /\ log \in Seq(Entries) /\ Len(log) <= Len(log)
        BY LogTypes
      <3> QED BY <3>1, PartType DEF From
    <2>2. Only(s, Apps) \in Seq(Entries \cap Apps)
      BY OnlyIn
    <2>3. Entries \cap Apps = Apps
      BY DEF Entries
    <2> QED BY <2>1, <2>2, <2>3
  <1>4. PICK c \in Seq(ListenersUpTo(0)) : c = Call(Only(From(log, place[w] + 1), Apps))
    BY <1>2, <1>3, CallIs
  <1>5. Wrapper(w).wrapper = w
    BY DEF Wrapper
  <1>6. PICK h : h = Wrapper(w)
    OBVIOUS
  <1>7. Head(<<h>> \o c) = h /\ Tail(<<h>> \o c) = c
    OBVIOUS
  <1> QED BY <1>1, <1>4, <1>5, <1>6, <1>7

LEMMA NextIsApp ==
    ASSUME NEW p, p # <<>>, NEW o \in Seq(Outcome), NEW taker, NEW refused, NEW apps,
           Leaves(p, o, taker, refused, apps)
    PROVE  \E a \in Apps :
              /\ Head(p) = App(a)
              /\ Leaves(Tail(p), o \o <<Did("called", a)>>, taker, refused, apps)
  <1>1. PICK called \in Seq(Apps), rest \in Seq(Apps) :
           Says(o, taker, refused, called) /\ p = Call(rest) /\ called \o rest = apps
    BY DEF Leaves
  <1>2. PICK a \in Apps, u \in Seq(Apps) :
           rest = <<a>> \o u /\ Head(p) = App(a) /\ Tail(p) = Call(u)
    BY <1>1, CallTail
  <1>3. PICK c \in Seq(Apps) : c = called \o <<a>>
    <2>1. <<a>> \in Seq(Apps)
      OBVIOUS
    <2> QED BY <2>1, ConcatProperties
  <1>4. Says(o \o <<Did("called", a)>>, taker, refused, c)
    BY <1>1, <1>3, SaysCall
  <1>5. c \o u = apps
    <2>1. <<a>> \in Seq(Apps)
      OBVIOUS
    <2>2. (called \o <<a>>) \o u = called \o (<<a>> \o u)
      BY <2>1, ConcatAssociative
    <2> QED BY <1>1, <1>2, <1>3, <2>2
  <1> QED BY <1>2, <1>4, <1>5 DEF Leaves

LEMMA ListenerAsksOn ==
    ASSUME IInv, ~express, NEW place, Placed(place), NEW w, CallListener(w),
           NodeOk(place, current, pending, outcomes[current])
    PROVE  NodeOk(place, current, pending', outcomes'[current])
  <1> USE DEF IInv
  <1>1. /\ pending # <<>> /\ Head(pending).wrapper = w /\ w \in DOMAIN wrappers /\ w # 0
        /\ current \in Requests /\ outcomes \in [Requests -> Seq(Outcome)]
    BY PlaceTypes DEF CallListener, Calling, TypeOK
  <1>2. PICK s \in Servers, k \in 1..Len(log), o \in Seq(Outcome) :
           /\ k = place[w] /\ s = log[k] /\ s = wrappers[w].server /\ s \notin Apps
           /\ o = outcomes[current]
    BY <1>1, PlaceTypes
  <1>3. /\ k + 1 \in Nat \ {0} /\ k \in Nat \ {0} /\ k - 1 \in Nat /\ k - 1 <= Len(log)
        /\ Len(log) \in Nat /\ log \in Seq(Entries) /\ k \in DOMAIN log
    BY LogTypes
  <1>4. /\ Tail(pending) = Call(Only(From(log, k + 1), Apps))
        /\ \A i \in TakersOf(current) : i <= k
        /\ Says(o, {}, FALSE, <<>>)
    <2>1. PICK p : p = pending /\ NodeOk(place, current, p, o) /\ p # <<>>
      BY <1>1, <1>2
    <2>2. ASSUME NEW taker, NEW refused, NEW apps, Leaves(p, o, taker, refused, apps)
          PROVE  FALSE
      <3>1. PICK a \in Apps : Head(p) = App(a)
        BY <2>1, <2>2, NextIsApp
      <3> QED BY <1>1, <2>1, <3>1 DEF App
    <2>3. PICK v \in DOMAIN wrappers :
             /\ p = <<Wrapper(v)>> \o Call(Only(From(log, place[v] + 1), Apps))
             /\ \A i \in TakersOf(current) : i <= place[v]
             /\ Says(o, {}, FALSE, <<>>)
      BY <2>1, <2>2 DEF NodeOk
    <2>4. Head(p).wrapper = v /\ Tail(p) = Call(Only(From(log, place[v] + 1), Apps))
      BY <2>3, NextIsServer
    <2> QED BY <1>1, <1>2, <2>1, <2>3, <2>4
  <1>5. ASSUME NEW i \in Nat \ {0}, i <= k, NoServerIn(log, i, k - 1)
        PROVE  /\ Only(From(log, i), Apps) = SubSeq(log, i, k - 1) \o Only(From(log, k + 1), Apps)
               /\ Only(From(log, k + 1), Apps) \in Seq(Apps)
               /\ Only(From(log, k), Apps) = Only(From(log, k + 1), Apps)
    BY <1>2, <1>3, <1>5, FromPastServer
  <1>6. /\ Only(From(log, k + 1), Apps) \in Seq(Apps)
        /\ Only(From(log, k), Apps) = Only(From(log, k + 1), Apps)
    <2>1. k <= k /\ NoServerIn(log, k, k - 1)
      BY <1>3 DEF NoServerIn
    <2> QED BY <1>3, <1>5, <2>1
  <1>7. PICK b \in Seq(Apps) : b = Only(From(log, k + 1), Apps)
    BY <1>6
  <1>8. k \in TakersOf(current) <=> Refuses(s) \/ current \in Has[s]
    BY <1>2, <1>3 DEF TakersOf, Refuses
  <1>9. /\ outcomes'[current] = o \o (Asked(s) \o IF Refuses(s) THEN <<Did("refused", s)>>
                                   ELSE IF current \in Has[s] THEN <<Did("served", s)>>
                                   ELSE <<>>)
        /\ pending' = (IF current \in Has[s] \/ Refuses(s) THEN <<>> ELSE wrappers[w].saved)
                      \o Tail(pending)
    BY <1>1, <1>2 DEF CallListener, Note, Saved
  <1>10. CASE Refuses(s) \/ current \in Has[s]
    <2>1. PICK what \in {"served", "refused"} : what = IF Refuses(s) THEN "refused" ELSE "served"
      OBVIOUS
    <2>2. outcomes'[current] = o \o (Asked(s) \o <<Did(what, s)>>)
      BY <1>9, <1>10, <2>1
    <2>3. Says(outcomes'[current], {s}, what = "refused", <<>>)
      <3>1. PICK did \in Seq(Outcome) :
               did = Asked(s) \o <<Did(what, s)>> /\ Says(did, {s}, what = "refused", <<>>)
        BY SaysListener
      <3>2. Says(o \o did, {s}, what = "refused", <<>>)
        BY <1>4, <3>1, SaysFirst
      <3> QED BY <2>2, <3>1, <3>2
    <2>4. (what = "refused") = (log[k] \in guarded /\ current \in Denies[log[k]])
      BY <1>2, <2>1 DEF Refuses
    <2>5. pending' = Call(b)
      <3>1. pending' = <<>> \o Call(b)
        BY <1>4, <1>7, <1>9, <1>10
      <3>2. Call(b) \in Seq(ListenersUpTo(0))
        BY CallIs
      <3> QED BY <3>1, <3>2, ConcatEmptySeq
    <2>6. PICK called \in Seq(Apps) : called = <<>>
      BY EmptySeq
    <2>7. called \o b = Only(From(log, k), Apps)
      BY <1>6, <1>7, <2>6, ConcatEmptySeq
    <2>8. PICK r1 : r1 = (log[k] \in guarded /\ current \in Denies[log[k]])
      OBVIOUS
    <2>9. Says(outcomes'[current], {log[k]}, r1, called)
      BY <1>2, <2>3, <2>4, <2>6, <2>8
    <2>10. Leaves(pending', outcomes'[current], {log[k]}, r1, Only(From(log, k), Apps))
      BY <2>5, <2>7, <2>9 DEF Leaves
    <2> QED BY <1>4, <1>8, <1>10, <2>8, <2>10 DEF NodeOk
  <1>11. CASE ~(Refuses(s) \/ current \in Has[s])
    <2>1. outcomes'[current] = o \o (Asked(s) \o <<>>) /\ pending' = wrappers[w].saved \o Call(b)
      BY <1>4, <1>7, <1>9, <1>11
    <2>2. Says(outcomes'[current], {}, FALSE, <<>>)
      <3>1. PICK what \in {"served", "refused"} : what = "served"
        OBVIOUS
      <3>2. PICK did \in Seq(Outcome) : did = Asked(s) \o <<>> /\ Says(did, {}, FALSE, <<>>)
        BY SaysListener
      <3>3. Says(o \o did, {}, FALSE, <<>>)
        BY <1>4, <3>2, SaysFirst
      <3> QED BY <2>1, <3>2, <3>3
    <2>3. PICK i \in Nat : i = k - 1 /\ i <= Len(log) /\ i + 1 = k
      BY <1>3
    <2>4. Shows(place, log, wrappers[w].saved, i)
      BY <1>1, <1>2, <2>3 DEF Placed
    <2>5. \A j \in TakersOf(current) : j <= i
      <3> SUFFICES ASSUME NEW j \in TakersOf(current) PROVE j <= i
        OBVIOUS
      <3>1. j <= k /\ j # k /\ j \in 1..Len(log)
        BY <1>1, <1>4, <1>8, <1>11, TakersAre
      <3> QED BY <2>3, <3>1
    <2>6. \A m \in Nat \ {0} : m <= i + 1 /\ NoServerIn(log, m, i)
              => Only(From(log, m), Apps) = SubSeq(log, m, i) \o b
      BY <1>5, <1>7, <2>3
    <2>7. PICK l, o2 : l = wrappers[w].saved /\ o2 = outcomes'[current]
      OBVIOUS
    <2>8. NodeOk(place, current, l \o Call(b), o2)
      BY <1>1, <2>2, <2>3, <2>4, <2>5, <2>6, <2>7, AsksOn
    <2> QED BY <2>1, <2>7, <2>8
  <1> QED BY <1>10, <1>11

LEMMA AppAsksOn ==
    ASSUME IInv, ~express, NEW place, Placed(place), CallApp,
           NodeOk(place, current, pending, outcomes[current])
    PROVE  NodeOk(place, current, pending', outcomes'[current])
  <1> USE DEF IInv
  <1>1. /\ pending # <<>> /\ Head(pending).wrapper = 0
        /\ current \in Requests /\ outcomes \in [Requests -> Seq(Outcome)]
        /\ pending' = Tail(pending)
    BY DEF CallApp, Calling, TypeOK
  <1>2. PICK o \in Seq(Outcome) : o = outcomes[current]
    BY <1>1
  <1>3. PICK p : p = pending /\ NodeOk(place, current, p, o) /\ p # <<>>
    BY <1>1, <1>2
  <1>4. ASSUME NEW w \in DOMAIN wrappers
        PROVE  p # <<Wrapper(w)>> \o Call(Only(From(log, place[w] + 1), Apps))
    BY <1>1, <1>3, NextIsServer
  <1>5. ASSUME NEW taker, NEW refused, NEW apps, Leaves(p, o, taker, refused, apps)
        PROVE  Leaves(pending', outcomes'[current], taker, refused, apps)
    <2>1. PICK a \in Apps :
             /\ Head(p) = App(a)
             /\ Leaves(Tail(p), o \o <<Did("called", a)>>, taker, refused, apps)
      BY <1>3, <1>5, NextIsApp
    <2>2. Head(pending).app = {a}
      BY <1>3, <2>1 DEF App
    <2>3. outcomes'[current] = o \o <<Did("called", a)>>
      BY <1>1, <1>2, <2>2 DEF CallApp, Note
    <2> QED BY <1>1, <1>3, <2>1, <2>3
  <1>6. CASE \E i \in TakersOf(current) :
               /\ \A j \in TakersOf(current) : j <= i
               /\ Leaves(p, o, {log[i]}, log[i] \in guarded /\ current \in Denies[log[i]],
                         Only(From(log, i), Apps))
    BY <1>5, <1>6 DEF NodeOk
  <1>7. CASE TakersOf(current) = {} /\ Leaves(p, o, {}, FALSE, Only(From(log, 1), Apps))
    BY <1>5, <1>7 DEF NodeOk
  <1> QED BY <1>3, <1>4, <1>6, <1>7 DEF NodeOk

-----------------------------------------------------------------------------
(* Express: the handlers are the registrations. *)

\* On Express the handlers are the registrations, in their order.
AsRegistered ==
    /\ Len(listeners) = Len(log)
    /\ \A k \in DOMAIN log :
          \/ log[k] \in Apps /\ listeners[k] = App(log[k])
          \/ \E w \in DOMAIN wrappers :
                listeners[k] = Wrapper(w) /\ log[k] = wrappers[w].server

\* On Express, o was done with r and the handlers p are to be tried: those from the i-th
\* on, and none before takes r; or none, and the first that takes r has.
ExpressOk(r, p, o) ==
    \/ \E i \in 1..(Len(log) + 1) :
          /\ p = SubSeq(listeners, i, Len(listeners))
          /\ \A j \in TakersOf(r) : i <= j
          /\ Says(o, {}, FALSE, <<>>)
    \/ \E i \in TakersOf(r) :
          /\ \A j \in TakersOf(r) : i <= j
          /\ p = <<>>
          /\ IF log[i] \in Apps THEN Says(o, {}, FALSE, <<log[i]>>)
             ELSE Says(o, {log[i]}, log[i] \in guarded /\ r \in Denies[log[i]], <<>>)

LEMMA DeliverRegisters ==
    ASSUME TypeOK, express, AsRegistered,
           NEW s \in Servers, Register(s), log' = Append(log, s)
    PROVE  AsRegistered'
  <1> DEFINE n == Len(wrappers)
             k == Len(log)
             new == [server |-> s, saved |-> <<>>]
             L == ListenersUpTo(n + 1)
  <1>1. /\ log \in Seq(Entries) /\ k \in Nat /\ DOMAIN log = 1..k
        /\ n \in Nat /\ DOMAIN wrappers = 1..n /\ s \in Entries /\ Len(listeners) = k
    BY LogTypes DEF Entries, AsRegistered
  <1>2. wrappers' = Append(wrappers, new) /\ listeners' = Append(listeners, Wrapper(n + 1))
    BY DEF Register
  <1>3. /\ DOMAIN wrappers' = 1..(n + 1)
        /\ \A w \in 1..n : wrappers'[w] = wrappers[w]
        /\ wrappers'[n + 1] = new
    <2>1. PICK X : wrappers \in Seq(X) /\ new \in X
      <3> DEFINE R == [server : Servers, saved : Seq(ListenersUpTo(Len(wrappers)))]
      <3>1. wrappers \in Seq(R) /\ new \in R
        BY EmptySeq DEF TypeOK
      <3> HIDE DEF R, new
      <3> QED BY <3>1
    <2> HIDE DEF new
    <2> QED BY <1>2, <2>1, AppendProperties, LenProperties
  <1>4. /\ log' \in Seq(Entries) /\ Len(log') = k + 1 /\ DOMAIN log' = 1..(k + 1)
        /\ \A i \in 1..k : log'[i] = log[i]
        /\ log'[k + 1] = s
    BY <1>1, AppendProperties, LenProperties
  <1>5. /\ Len(listeners') = k + 1
        /\ \A i \in 1..k : listeners'[i] = listeners[i]
        /\ listeners'[k + 1] = Wrapper(n + 1)
    <2>1. listeners \in Seq(L) /\ Wrapper(n + 1) \in L
      <3>1. listeners \in Seq(ListenersUpTo(n)) /\ n <= n + 1 /\ n + 1 \in Nat
        BY <1>1, LogTypes
      <3>2. listeners \in Seq(ListenersUpTo(n + 1))
        BY <1>1, <3>1, ListsGrow
      <3>3. Wrapper(n + 1) \in ListenersUpTo(n + 1)
        BY <1>1 DEF ListenersUpTo
      <3> QED BY <3>2, <3>3
    <2> HIDE DEF L, n
    <2> QED BY <1>1, <1>2, <2>1, AppendProperties
  <1>6. new.server = s
    OBVIOUS
  <1> HIDE DEF new
  <1>7. ASSUME NEW i \in 1..(k + 1)
        PROVE  \/ log'[i] \in Apps /\ listeners'[i] = App(log'[i])
               \/ \E w \in DOMAIN wrappers' :
                     listeners'[i] = Wrapper(w) /\ log'[i] = wrappers'[w].server
    <2>1. CASE i \in 1..k
      <3>1. \/ log[i] \in Apps /\ listeners[i] = App(log[i])
            \/ \E w \in 1..n : listeners[i] = Wrapper(w) /\ log[i] = wrappers[w].server
        BY <1>1, <2>1 DEF AsRegistered
      <3>2. \A w \in 1..n : w \in 1..(n + 1)
        BY <1>1
      <3>3. log'[i] = log[i] /\ listeners'[i] = listeners[i]
        BY <1>4, <1>5, <2>1
      <3> QED BY <1>3, <3>1, <3>2, <3>3
    <2>2. CASE i = k + 1
      <3>1. n + 1 \in DOMAIN wrappers'
        BY <1>1, <1>3
      <3> QED BY <1>3, <1>4, <1>5, <1>6, <2>2, <3>1
    <2>3. i \in 1..k \/ i = k + 1
      BY <1>1
    <2> QED BY <2>1, <2>2, <2>3
  <1> QED BY <1>4, <1>5, <1>7 DEF AsRegistered

LEMMA AddListenerRegisters ==
    ASSUME TypeOK, AsRegistered, NEW a \in Apps, AddListener(a)
    PROVE  AsRegistered'
  <1> DEFINE n == Len(wrappers)
             k == Len(log)
             L == ListenersUpTo(n)
  <1>1. /\ log \in Seq(Entries) /\ k \in Nat /\ DOMAIN log = 1..k /\ a \in Entries
        /\ Len(listeners) = k
    BY LogTypes DEF Entries, AsRegistered
  <1>2. /\ listeners' = Append(listeners, App(a)) /\ log' = Append(log, a)
        /\ wrappers' = wrappers
    BY DEF AddListener
  <1>3. /\ Len(log') = k + 1 /\ DOMAIN log' = 1..(k + 1)
        /\ \A i \in 1..k : log'[i] = log[i]
        /\ log'[k + 1] = a
    BY <1>1, <1>2, AppendProperties, LenProperties
  <1>4. /\ Len(listeners') = k + 1
        /\ \A i \in 1..k : listeners'[i] = listeners[i]
        /\ listeners'[k + 1] = App(a)
    <2>1. listeners \in Seq(L) /\ App(a) \in L
      BY LogTypes DEF ListenersUpTo
    <2> HIDE DEF L
    <2> QED BY <1>1, <1>2, <2>1, AppendProperties
  <1>5. ASSUME NEW i \in 1..(k + 1)
        PROVE  \/ log'[i] \in Apps /\ listeners'[i] = App(log'[i])
               \/ \E w \in DOMAIN wrappers' :
                     listeners'[i] = Wrapper(w) /\ log'[i] = wrappers'[w].server
    <2>1. CASE i \in 1..k
      BY <1>1, <1>2, <1>3, <1>4, <2>1 DEF AsRegistered
    <2>2. CASE i = k + 1
      BY <1>3, <1>4, <2>2
    <2>3. i \in 1..k \/ i = k + 1
      BY <1>1
    <2> QED BY <2>1, <2>2, <2>3
  <1> QED BY <1>3, <1>4, <1>5 DEF AsRegistered

LEMMA RequestTries ==
    ASSUME TypeOK, AsRegistered, NEW r \in Requests
    PROVE  ExpressOk(r, listeners, <<>>)
  <1>1. Len(log) \in Nat /\ 1 \in 1..(Len(log) + 1)
    BY LogTypes
  <1>2. listeners = SubSeq(listeners, 1, Len(listeners))
    BY LogTypes, SubSeqFull
  <1>3. \A j \in TakersOf(r) : 1 <= j
    BY LogTypes DEF TakersOf
  <1> QED BY <1>1, <1>2, <1>3, SaysNothing DEF ExpressOk, Says

\* The handler that is tried is that of a registration.
LEMMA NextHandler ==
    ASSUME IInv, express, AsRegistered, current # NoRequest, pending # <<>>,
           ExpressOk(current, pending, outcomes[current])
    PROVE  \E i \in 1..Len(log) :
              /\ Head(pending) = listeners[i]
              /\ Tail(pending) = SubSeq(listeners, i + 1, Len(listeners))
              /\ i + 1 \in 1..(Len(log) + 1)
              /\ \A j \in TakersOf(current) : i <= j
              /\ Says(outcomes[current], {}, FALSE, <<>>)
              /\ \/ log[i] \in Apps /\ listeners[i] = App(log[i])
                 \/ /\ listeners[i].wrapper \in DOMAIN wrappers /\ listeners[i].wrapper # 0
                    /\ log[i] \in Servers /\ log[i] = wrappers[listeners[i].wrapper].server
  <1>1. PICK i \in 1..(Len(log) + 1) :
          /\ pending = SubSeq(listeners, i, Len(listeners))
          /\ \A j \in TakersOf(current) : i <= j
          /\ Says(outcomes[current], {}, FALSE, <<>>)
    BY DEF ExpressOk
  <1>2. /\ Len(listeners) = Len(log) /\ Len(log) \in Nat /\ DOMAIN log = 1..Len(log)
        /\ listeners \in Seq(ListenersUpTo(Len(wrappers)))
    BY LogTypes DEF IInv, AsRegistered
  <1>3. i \in 1..Len(log)
    <2>1. i = Len(log) + 1 => SubSeq(listeners, i, Len(listeners)) = <<>>
      <3>1. ASSUME i = Len(log) + 1 PROVE SubSeq(listeners, i, Len(listeners)) = <<>>
        <4>1. PICK m \in Nat, n \in Nat : m = i /\ n = Len(listeners) /\ m > n
          BY <1>2, <3>1
        <4> QED BY <1>2, <4>1, SubSeqEmpty
      <3> QED BY <3>1
    <2> QED BY <1>1, <1>2, <2>1
  <1>4. Head(pending) = listeners[i] /\ Tail(pending) = SubSeq(listeners, i + 1, Len(listeners))
    <2>0. PICK l \in Seq(ListenersUpTo(Len(wrappers))) : l = listeners
      BY <1>2
    <2>1. PICK n \in i..Len(l) : n = Len(listeners) /\ i \in 1..Len(l)
      BY <1>2, <1>3, <2>0
    <2>2. Head(SubSeq(l, i, n)) = l[i] /\ Tail(SubSeq(l, i, n)) = SubSeq(l, i + 1, n)
      BY <2>1, HeadTailOfSubSeq
    <2> QED BY <1>1, <2>0, <2>1, <2>2
  <1>5. \/ log[i] \in Apps /\ listeners[i] = App(log[i])
        \/ \E w \in DOMAIN wrappers : listeners[i] = Wrapper(w) /\ log[i] = wrappers[w].server
    BY <1>2, <1>3 DEF AsRegistered
  <1>6. \A w \in DOMAIN wrappers :
           Wrapper(w).wrapper = w /\ w # 0 /\ wrappers[w].server \in Servers
    BY WrapperType DEF Wrapper, IInv
  <1>7. i + 1 \in 1..(Len(log) + 1)
    BY <1>2, <1>3
  <1> QED BY <1>1, <1>3, <1>4, <1>5, <1>6, <1>7

LEMMA RouteTries ==
    ASSUME IInv, AsRegistered, NEW w, CallRoute(w),
           ExpressOk(current, pending, outcomes[current])
    PROVE  ExpressOk(current, pending', outcomes'[current])
  <1>1. /\ express /\ current # NoRequest /\ pending # <<>> /\ Head(pending).wrapper = w
        /\ w \in DOMAIN wrappers /\ w # 0
        /\ current \in Requests /\ outcomes \in [Requests -> Seq(Outcome)]
    BY WrapperType DEF CallRoute, Calling, IInv, TypeOK
  <1>2. PICK i \in 1..Len(log) :
          /\ Head(pending) = listeners[i]
          /\ Tail(pending) = SubSeq(listeners, i + 1, Len(listeners))
          /\ i + 1 \in 1..(Len(log) + 1)
          /\ \A j \in TakersOf(current) : i <= j
          /\ Says(outcomes[current], {}, FALSE, <<>>)
          /\ \/ log[i] \in Apps /\ listeners[i] = App(log[i])
             \/ /\ listeners[i].wrapper \in DOMAIN wrappers /\ listeners[i].wrapper # 0
                /\ log[i] \in Servers /\ log[i] = wrappers[listeners[i].wrapper].server
    BY <1>1, NextHandler
  <1>3. \A a : App(a).wrapper = 0
    BY DEF App
  <1>4. PICK s \in Servers, o \in Seq(Outcome) :
           s = log[i] /\ s = wrappers[w].server /\ s \notin Apps /\ o = outcomes[current]
    BY <1>1, <1>2, <1>3, ListenerAssumption
  <1>5. i \in TakersOf(current) <=> current \in Has[s]
    BY <1>1, <1>4, LogTypes DEF TakersOf, IInv
  <1>6. CASE current \notin Has[s]
    <2>1. pending' = Tail(pending) /\ outcomes' = outcomes
      BY <1>4, <1>6 DEF CallRoute
    <2>2. \A j \in TakersOf(current) : i + 1 <= j
      <3> SUFFICES ASSUME NEW j \in TakersOf(current) PROVE i + 1 <= j
        OBVIOUS
      <3>1. j \in 1..Len(log) /\ i <= j /\ i # j
        BY <1>2, <1>5, <1>6, LogTypes DEF TakersOf, IInv
      <3> QED BY <3>1
    <2> QED BY <1>2, <2>1, <2>2 DEF ExpressOk
  <1>7. CASE current \in Has[s]
    <2>1. PICK what \in {"served", "refused"} : what = IF Refuses(s) THEN "refused" ELSE "served"
      OBVIOUS
    <2>2. outcomes'[current] = o \o (Asked(s) \o <<Did(what, s)>>) /\ pending' = <<>>
      BY <1>1, <1>4, <1>7, <2>1 DEF CallRoute, Note
    <2>3. Says(outcomes'[current], {s}, what = "refused", <<>>)
      <3>1. PICK did \in Seq(Outcome) :
               did = Asked(s) \o <<Did(what, s)>> /\ Says(did, {s}, what = "refused", <<>>)
        BY SaysListener
      <3>2. Says(o \o did, {s}, what = "refused", <<>>)
        BY <1>2, <1>4, <3>1, SaysFirst
      <3> QED BY <2>2, <3>1, <3>2
    <2>4. (what = "refused") = (log[i] \in guarded /\ current \in Denies[log[i]])
      BY <1>4, <2>1 DEF Refuses
    <2>5. PICK r1 : r1 = (log[i] \in guarded /\ current \in Denies[log[i]])
      OBVIOUS
    <2>6. Says(outcomes'[current], {log[i]}, r1, <<>>)
      BY <1>4, <2>3, <2>4, <2>5
    <2> QED BY <1>2, <1>4, <1>5, <1>7, <2>2, <2>5, <2>6 DEF ExpressOk
  <1> QED BY <1>6, <1>7

LEMMA AppTries ==
    ASSUME IInv, express, AsRegistered, CallApp,
           ExpressOk(current, pending, outcomes[current])
    PROVE  ExpressOk(current, pending', outcomes'[current])
  <1>1. /\ current # NoRequest /\ pending # <<>> /\ Head(pending).wrapper = 0
        /\ current \in Requests /\ outcomes \in [Requests -> Seq(Outcome)]
        /\ pending' = <<>>
    BY DEF CallApp, Calling, IInv, TypeOK
  <1>2. PICK i \in 1..Len(log) :
          /\ Head(pending) = listeners[i]
          /\ Tail(pending) = SubSeq(listeners, i + 1, Len(listeners))
          /\ i + 1 \in 1..(Len(log) + 1)
          /\ \A j \in TakersOf(current) : i <= j
          /\ Says(outcomes[current], {}, FALSE, <<>>)
          /\ \/ log[i] \in Apps /\ listeners[i] = App(log[i])
             \/ /\ listeners[i].wrapper \in DOMAIN wrappers /\ listeners[i].wrapper # 0
                /\ log[i] \in Servers /\ log[i] = wrappers[listeners[i].wrapper].server
    BY <1>1, NextHandler
  <1>3. PICK a \in Apps, o \in Seq(Outcome) :
           a = log[i] /\ Head(pending) = App(a) /\ o = outcomes[current]
    BY <1>1, <1>2
  <1>4. outcomes'[current] = o \o <<Did("called", a)>>
    <2>1. Head(pending).app = {a}
      BY <1>3 DEF App
    <2> QED BY <1>1, <1>3, <2>1 DEF CallApp, Note
  <1>5. Says(outcomes'[current], {}, FALSE, <<a>>)
    <2>1. PICK called : called = <<>>
      OBVIOUS
    <2>2. Says(o \o <<Did("called", a)>>, {}, FALSE, called \o <<a>>)
      BY <1>2, <1>3, <2>1, SaysCall
    <2>3. <<>> \o <<a>> = <<a>>
      <3>1. <<a>> \in Seq(Apps)
        OBVIOUS
      <3> QED BY <3>1, ConcatEmptySeq
    <2> QED BY <1>4, <2>1, <2>2, <2>3
  <1>6. i \in TakersOf(current)
    BY <1>1, <1>3, LogTypes DEF TakersOf, IInv
  <1> QED BY <1>1, <1>2, <1>3, <1>5, <1>6 DEF ExpressOk

-----------------------------------------------------------------------------
(* Both are invariants of the specification. *)

\* WSDLs are delivered between requests.
Alone == delivering # NoServer => current = NoRequest

OnNode ==
    \E place : Placed(place)
               /\ (current # NoRequest => NodeOk(place, current, pending, outcomes[current]))

OnExpress ==
    AsRegistered /\ (current # NoRequest => ExpressOk(current, pending, outcomes[current]))

RInv == IInv /\ Alone /\ IF express THEN OnExpress ELSE OnNode

LEMMA InitRInv == Init => RInv
  <1> SUFFICES ASSUME Init PROVE RInv
    OBVIOUS
  <1>1. IInv
    BY InitInv
  <1>2. Alone
    BY DEF Init, Alone
  <1>3. DOMAIN <<>> = {} /\ Len(<<>>) = 0 /\ <<>> \in Seq(Apps)
    BY EmptySeq
  <1>4. AsRegistered /\ current = NoRequest
    BY <1>3 DEF Init, AsRegistered
  <1>5. \E place : Placed(place)
    <2>1. PICK place : place = [w \in {} |-> 0]
      OBVIOUS
    <2>2. SubSeq(log, 1, 0) = <<>>
      BY <1>3, SubSeqEmpty DEF Init
    <2>3. Shows(place, log, listeners, Len(log))
      <3>1. NoServerIn(log, 1, 0)
        BY DEF NoServerIn
      <3>2. listeners = Call(SubSeq(log, 1, 0)) /\ Len(log) = 0
        BY <1>3, <2>2, CallNone DEF Init
      <3> QED BY <3>1, <3>2 DEF Shows
    <2>4. place \in [DOMAIN wrappers -> DOMAIN log] /\ DOMAIN wrappers = {}
      BY <1>3, <2>1 DEF Init
    <2> QED BY <2>3, <2>4 DEF Placed
  <1> QED BY <1>1, <1>2, <1>4, <1>5 DEF RInv, OnNode, OnExpress

\* What leaves the registrations and their listeners alone.
LEMMA StandingKept ==
    ASSUME UNCHANGED <<express, wrappers, log, listeners, guarded>>
    PROVE  /\ \A place : Placed(place)' <=> Placed(place)
           /\ AsRegistered' <=> AsRegistered
           /\ \A place, r, p, o : NodeOk(place, r, p, o)' <=> NodeOk(place, r, p, o)
           /\ \A r, p, o : ExpressOk(r, p, o)' <=> ExpressOk(r, p, o)
  <1>1. \A place : Placed(place)' <=> Placed(place)
    BY DEF Placed, Shows
  <1>2. AsRegistered' <=> AsRegistered
    BY DEF AsRegistered
  <1>4. \A place, r, p, o : NodeOk(place, r, p, o)' <=> NodeOk(place, r, p, o)
    BY DEF NodeOk, TakersOf, Leaves, Says
  <1>5. \A r, p, o : ExpressOk(r, p, o)' <=> ExpressOk(r, p, o)
    BY DEF ExpressOk, TakersOf, Says
  <1> QED BY <1>1, <1>2, <1>4, <1>5

LEMMA DeliverStands ==
    ASSUME RInv, NEW s \in Servers, Deliver(s), current = NoRequest
    PROVE  Alone' /\ IF express' THEN OnExpress' ELSE OnNode'
  <1>1. /\ Register(s) /\ log' = Append(log, s) /\ express' = express /\ current' = NoRequest
        /\ TypeOK
    BY DEF Deliver, RInv, IInv, dispatchVars
  <1>2. CASE express
    BY <1>1, <1>2, DeliverRegisters DEF RInv, OnExpress, Alone
  <1>3. CASE ~express
    <2>1. PICK place : Placed(place)
      BY <1>3 DEF RInv, OnNode
    <2>2. PICK grown : Placed(grown)'
      BY <1>1, <1>3, <2>1, DeliverPlaces
    <2> QED BY <1>1, <1>3, <2>2 DEF OnNode, Alone
  <1> QED BY <1>2, <1>3

LEMMA AddListenerStands ==
    ASSUME RInv, NEW a \in Apps, AddListener(a)
    PROVE  Alone' /\ IF express' THEN OnExpress' ELSE OnNode'
  <1>1. /\ express' = express /\ current' = NoRequest /\ TypeOK
    BY DEF AddListener, RInv, IInv, dispatchVars, Idle
  <1>2. CASE express
    BY <1>1, <1>2, AddListenerRegisters DEF RInv, OnExpress, Alone
  <1>3. CASE ~express
    <2>1. PICK place : Placed(place)
      BY <1>3 DEF RInv, OnNode
    <2>2. Placed(place)'
      BY <1>1, <1>3, <2>1, AddListenerPlaces
    <2> QED BY <1>1, <1>3, <2>2 DEF OnNode, Alone
  <1> QED BY <1>2, <1>3

LEMMA SetAuthorizeConnectionStands ==
    ASSUME RInv, NEW s \in Servers, SetAuthorizeConnection(s)
    PROVE  Alone' /\ IF express' THEN OnExpress' ELSE OnNode'
  <1>1. /\ UNCHANGED <<express, wrappers, log, listeners>> /\ current' = NoRequest
    BY DEF SetAuthorizeConnection, dispatchVars, Idle
  <1>2. CASE express
    BY <1>1, <1>2 DEF RInv, OnExpress, Alone, AsRegistered
  <1>3. CASE ~express
    <2>1. PICK place : Placed(place)
      BY <1>3 DEF RInv, OnNode
    <2>2. Placed(place)'
      BY <1>1, <2>1 DEF Placed, Shows
    <2> QED BY <1>1, <1>3, <2>2 DEF OnNode, Alone
  <1> QED BY <1>2, <1>3

LEMMA RequestStands ==
    ASSUME RInv, NEW r \in Requests, Request(r)
    PROVE  Alone' /\ IF express' THEN OnExpress' ELSE OnNode'
  <1>1. /\ UNCHANGED <<express, wrappers, log, listeners, guarded>> /\ TypeOK
        /\ current' = r /\ pending' = listeners /\ outcomes' = outcomes
        /\ outcomes[r] = <<>> /\ delivering' = NoServer
    BY DEF Request, RInv, IInv, Idle, Untouched, loadVars
  <1>2. PICK p, o : p = listeners /\ o = <<>> /\ p = pending' /\ o = outcomes'[current']
    BY <1>1
  <1>3. CASE express
    <2>1. AsRegistered /\ ExpressOk(r, p, o)
      BY <1>1, <1>2, <1>3, RequestTries DEF RInv, OnExpress
    <2>2. AsRegistered' /\ ExpressOk(r, p, o)'
      BY <1>1, <2>1, StandingKept
    <2>3. ExpressOk(current, pending, outcomes[current])'
      BY <1>1, <1>2, <2>2
    <2> QED BY <1>1, <1>3, <2>2, <2>3 DEF OnExpress, Alone
  <1>4. CASE ~express
    <2>1. PICK place : Placed(place)
      BY <1>4 DEF RInv, OnNode
    <2>2. NodeOk(place, r, p, o)
      BY <1>1, <1>2, <1>4, <2>1, RequestAsksOn
    <2>3. Placed(place)' /\ NodeOk(place, r, p, o)'
      BY <1>1, <2>1, <2>2, StandingKept
    <2>4. NodeOk(place, current, pending, outcomes[current])'
      BY <1>1, <1>2, <2>3
    <2> QED BY <1>1, <1>4, <2>3, <2>4 DEF OnNode, Alone
  <1> QED BY <1>3, <1>4

LEMMA CallStands ==
    ASSUME RInv, (\E w : CallListener(w) \/ CallRoute(w)) \/ CallApp
    PROVE  Alone' /\ IF express' THEN OnExpress' ELSE OnNode'
  <1>1. /\ UNCHANGED <<express, wrappers, log, listeners, guarded, current, delivering>>
        /\ current # NoRequest /\ IInv
    BY DEF CallListener, CallRoute, CallApp, Calling, RInv, loadVars
  <1>2. Alone'
    BY <1>1 DEF RInv, Alone
  <1>3. PICK p, o, r : p = pending' /\ o = outcomes'[current] /\ r = current
    OBVIOUS
  <1>4. CASE express
    <2>1. AsRegistered /\ ExpressOk(current, pending, outcomes[current])
      BY <1>1, <1>4 DEF RInv, OnExpress
    <2>2. ExpressOk(r, p, o)
      BY <1>1, <1>3, <1>4, <2>1, RouteTries, AppTries DEF CallListener
    <2>3. AsRegistered' /\ ExpressOk(r, p, o)'
      BY <1>1, <2>1, <2>2, StandingKept
    <2>4. ExpressOk(current, pending, outcomes[current])'
      BY <1>1, <1>3, <2>3
    <2> QED BY <1>1, <1>2, <1>4, <2>3, <2>4 DEF OnExpress
  <1>5. CASE ~express
    <2>1. PICK place : Placed(place) /\ NodeOk(place, current, pending, outcomes[current])
      BY <1>1, <1>5 DEF RInv, OnNode
    <2>2. NodeOk(place, r, p, o)
      BY <1>1, <1>3, <1>5, <2>1, ListenerAsksOn, AppAsksOn DEF CallRoute
    <2>3. Placed(place)' /\ NodeOk(place, r, p, o)'
      BY <1>1, <2>1, <2>2, StandingKept
    <2>4. NodeOk(place, current, pending, outcomes[current])'
      BY <1>1, <1>3, <2>3
    <2> QED BY <1>1, <1>2, <1>5, <2>3, <2>4 DEF OnNode
  <1> QED BY <1>4, <1>5

LEMMA ReturnStands ==
    ASSUME RInv, Return
    PROVE  Alone' /\ IF express' THEN OnExpress' ELSE OnNode'
  <1>1. UNCHANGED <<express, wrappers, log, listeners, guarded>> /\ current' = NoRequest
    BY DEF Return
  <1>2. CASE express
    BY <1>1, <1>2, StandingKept DEF RInv, OnExpress, Alone
  <1>3. CASE ~express
    BY <1>1, <1>3, StandingKept DEF RInv, OnNode, Alone
  <1> QED BY <1>2, <1>3

LEMMA StutterStands ==
    ASSUME RInv, UNCHANGED vars
    PROVE  Alone' /\ IF express' THEN OnExpress' ELSE OnNode'
  <1>1. /\ UNCHANGED <<express, wrappers, log, listeners, guarded>>
        /\ UNCHANGED <<current, pending, outcomes, delivering>>
    BY DEF vars, loadVars, dispatchVars
  <1>2. Alone'
    BY <1>1 DEF RInv, Alone
  <1>3. CASE express
    <2>1. OnExpress
      BY <1>3 DEF RInv
    <2>2. OnExpress'
      BY <1>1, <2>1 DEF OnExpress, AsRegistered, ExpressOk, TakersOf, Says
    <2> QED BY <1>1, <1>2, <1>3, <2>2
  <1>4. CASE ~express
    <2>1. OnNode
      BY <1>4 DEF RInv
    <2>2. PICK place : /\ Placed(place)
                       /\ current # NoRequest
                            => NodeOk(place, current, pending, outcomes[current])
      BY <2>1 DEF OnNode
    <2>3. PICK p, o, r : p = pending /\ o = outcomes[current] /\ r = current
      OBVIOUS
    <2>4. Placed(place)' /\ (r # NoRequest => NodeOk(place, r, p, o)')
      BY <1>1, <2>2, <2>3, StandingKept
    <2>5. OnNode'
      BY <1>1, <2>3, <2>4 DEF OnNode
    <2> QED BY <1>1, <1>2, <1>4, <2>5
  <1> QED BY <1>3, <1>4

LEMMA NextRInv == RInv /\ [Next]_vars => RInv'
  <1> SUFFICES ASSUME RInv, [Next]_vars PROVE RInv'
    OBVIOUS
  <1>0. IInv'
    BY NextInv DEF RInv
  <1>1. Alone' /\ IF express' THEN OnExpress' ELSE OnNode'
    <2>1. ASSUME NEW s \in Servers, OnReady(s) \/ OnReadyAgain(s)
          PROVE  Alone' /\ IF express' THEN OnExpress' ELSE OnNode'
      <3>1. Deliver(s) /\ current = NoRequest
        BY <2>1, ListenerAssumption DEF OnReady, OnReadyAgain, RInv, Alone, Idle
      <3> QED BY <3>1, DeliverStands
    <2>2. ASSUME NEW s \in Servers, SetAuthorizeConnection(s)
          PROVE  Alone' /\ IF express' THEN OnExpress' ELSE OnNode'
      BY <2>2, SetAuthorizeConnectionStands
    <2>3. ASSUME NEW a \in Apps, AddListener(a)
          PROVE  Alone' /\ IF express' THEN OnExpress' ELSE OnNode'
      BY <2>3, AddListenerStands
    <2>4. ASSUME NEW r \in Requests, Request(r)
          PROVE  Alone' /\ IF express' THEN OnExpress' ELSE OnNode'
      BY <2>4, RequestStands
    <2>5. ASSUME (\E w \in 1..MaxWrappers : CallListener(w) \/ CallRoute(w)) \/ CallApp
          PROVE  Alone' /\ IF express' THEN OnExpress' ELSE OnNode'
      BY <2>5, CallStands
    <2>6. CASE Return
      BY <2>6, ReturnStands
    <2>7. CASE UNCHANGED vars
      BY <2>7, StutterStands
    <2> QED BY <2>1, <2>2, <2>3, <2>4, <2>5, <2>6, <2>7 DEF Next
  <1> QED BY <1>0, <1>1 DEF RInv

-----------------------------------------------------------------------------
(* The refinement. *)

LEMMA OnlyThere ==
    ASSUME NEW l, NEW S
    PROVE  Routing!Only(l, S) = Only(l, S)
  BY DEF Routing!Only, Only, Routing!FoldLeft, FoldLeft, Routing!MapThenFoldSet, MapThenFoldSet,
         Routing!Max, Max

LEMMA AppsFromIs ==
    ASSUME NEW l, NEW i
    PROVE  Routing!AppsFrom(l, i) = Only(From(l, i), Apps)
  BY OnlyThere DEF Routing!AppsFrom, From

LEMMA TakersThere ==
    ASSUME NEW r
    PROVE  Routing!Takers(log, r) = TakersOf(r)
  BY DEF Routing!Takers, Routing!Refuses, TakersOf

\* What has become of r, so far as its dispatch is over.
FateNow(r) ==
    IF r = current THEN Undecided
    ELSE [server |-> TakerIn(outcomes[r]), refused |-> RefusedIn(outcomes[r]),
          apps |-> CalledIn(outcomes[r]), over |-> r \in arrived]

\* The value that the refinement mapping gives fate.
Mapped == [r \in Requests |-> IF r = current THEN Undecided ELSE Fate(r)]

LEMMA MappedIs == Mapped = [r \in Requests |-> FateNow(r)]
  BY FateIn DEF Mapped, FateNow

LEMMA MappedThen == Mapped' = [r \in Requests |-> FateNow(r)']
  <1>1. (Mapped = [r \in Requests |-> FateNow(r)])'
    BY MappedIs, PTL
  <1> QED BY <1>1

LEMMA RefinesInit == Init => Routing!Init
  <1> SUFFICES ASSUME Init PROVE Routing!Init
    OBVIOUS
  <1>1. ASSUME NEW r \in Requests PROVE FateNow(r) = Routing!Pending
    <2>1. outcomes[r] = <<>> /\ r \notin arrived /\ r # current
      BY ListenerAssumption DEF Init
    <2>2. /\ TakerIn(outcomes[r]) = {} /\ RefusedIn(outcomes[r]) = FALSE
          /\ CalledIn(outcomes[r]) = <<>> /\ (r \in arrived) = FALSE
      BY <2>1, SaysNothing
    <2> QED BY <2>1, <2>2 DEF FateNow, Routing!Pending
  <1>2. Mapped = [r \in Requests |-> Routing!Pending]
    BY <1>1, MappedIs
  <1> QED BY <1>2 DEF Init, Routing!Init, Mapped

\* Registrations, and the calls before all have returned.
LEMMA FatesKept ==
    ASSUME RInv, UNCHANGED dispatchVars \/ (\E w : CallListener(w) \/ CallRoute(w)) \/ CallApp
    PROVE  Mapped' = Mapped
  <1>1. arrived' = arrived /\ current' = current
        /\ \A r \in Requests : r # current => outcomes'[r] = outcomes[r]
    <2>1. outcomes \in [Requests -> Seq(Outcome)]
      BY DEF RInv, IInv, TypeOK
    <2> QED BY <2>1 DEF dispatchVars, CallListener, CallRoute, CallApp, Note
  <1>2. ASSUME NEW r \in Requests PROVE FateNow(r)' = FateNow(r)
    BY <1>1 DEF FateNow
  <1> QED BY <1>2, MappedIs, MappedThen

LEMMA RequestKeepsFates ==
    ASSUME RInv, NEW q \in Requests, Request(q)
    PROVE  Mapped' = Mapped
  <1>1. /\ arrived' = arrived \cup {q} /\ current' = q /\ current = NoRequest
        /\ q \notin arrived /\ outcomes' = outcomes /\ outcomes[q] = <<>>
    BY DEF Request, Idle, RInv, IInv, Untouched
  <1>2. ASSUME NEW r \in Requests PROVE FateNow(r)' = FateNow(r)
    <2>1. r # current
      BY <1>1, ListenerAssumption
    <2>2. CASE r = q
      <3>1. /\ TakerIn(outcomes[q]) = {} /\ RefusedIn(outcomes[q]) = FALSE
            /\ CalledIn(outcomes[q]) = <<>> /\ (q \in arrived) = FALSE
        BY <1>1, SaysNothing
      <3>2. FateNow(r) = [server |-> {}, refused |-> FALSE, apps |-> <<>>, over |-> FALSE]
        BY <2>1, <2>2, <3>1 DEF FateNow
      <3> QED BY <1>1, <2>2, <3>2 DEF FateNow, Undecided
    <2>3. CASE r # q
      BY <1>1, <2>1, <2>3 DEF FateNow
    <2> QED BY <2>2, <2>3
  <1> QED BY <1>2, MappedIs, MappedThen

\* What the abstract specification says that becomes of r.
Due(r) ==
    LET takers == Routing!Takers(log, r)
    IN  IF takers # {} THEN Routing!TakenBy(log, IF express THEN Routing!Min(takers)
                                                 ELSE Routing!Max(takers), r)
        ELSE [server |-> {}, refused |-> FALSE, apps |-> Routing!AppsFrom(log, 1), over |-> TRUE]

Became(o) == [server |-> TakerIn(o), refused |-> RefusedIn(o), apps |-> CalledIn(o), over |-> TRUE]

\* All listeners of Node's server have returned.
LEMMA DueOnNode ==
    ASSUME TypeOK, ~express, NEW place, Placed(place), NEW r \in Requests,
           NEW o \in Seq(Outcome), NodeOk(place, r, <<>>, o)
    PROVE  Became(o) = Due(r)
  <1>1. PICK p : p = <<>>
    OBVIOUS
  <1>2. ASSUME NEW w \in DOMAIN wrappers,
               p = <<Wrapper(w)>> \o Call(Only(From(log, place[w] + 1), Apps))
        PROVE  FALSE
    <2>1. PICK c : c = Call(Only(From(log, place[w] + 1), Apps)) /\ c \in Seq(ListenersUpTo(0))
      <3>1. PICK k \in Nat \ {0} : k = place[w] + 1
        BY PlaceTypes
      <3>2. PICK s \in Seq(Entries) : s = From(log, k)
        <4>1. Len(log) \in Nat /\ log \in Seq(Entries) /\ Len(log) <= Len(log)
          BY LogTypes
        <4> QED BY <4>1, PartType DEF From
      <3>3. Only(s, Apps) \in Seq(Entries \cap Apps) /\ Entries \cap Apps = Apps
        BY OnlyIn DEF Entries
      <3>4. PICK u \in Seq(Apps) : u = Only(s, Apps)
        BY <3>3
      <3>5. Call(u) \in Seq(ListenersUpTo(0))
        BY CallIs
      <3> QED BY <3>1, <3>2, <3>4, <3>5
    <2>2. PICK h : h = Wrapper(w)
      OBVIOUS
    <2>3. <<h>> \o c # <<>>
      OBVIOUS
    <2> QED BY <1>1, <1>2, <2>1, <2>2, <2>3
  <1>3. ASSUME NEW taker, NEW refused, NEW apps, Leaves(<<>>, o, taker, refused, apps)
        PROVE  Says(o, taker, refused, apps)
    <2>1. PICK called \in Seq(Apps), rest \in Seq(Apps) :
             Says(o, taker, refused, called) /\ <<>> = Call(rest) /\ called \o rest = apps
      BY <1>3 DEF Leaves
    <2>2. rest = <<>>
      BY <2>1, CallIs
    <2>3. called = apps
      BY <2>1, <2>2, ConcatEmptySeq
    <2> QED BY <2>1, <2>3
  <1>4. ASSUME NEW i \in TakersOf(r), \A j \in TakersOf(r) : j <= i,
               Leaves(<<>>, o, {log[i]}, log[i] \in guarded /\ r \in Denies[log[i]],
                      Only(From(log, i), Apps))
        PROVE  Became(o) = Due(r)
    <2>1. Says(o, {log[i]}, log[i] \in guarded /\ r \in Denies[log[i]], Only(From(log, i), Apps))
      BY <1>3, <1>4
    <2>2. Routing!Max(TakersOf(r)) = i
      <3>1. TakersOf(r) \in SUBSET Int
        BY LogTypes DEF TakersOf
      <3>2. Max(TakersOf(r)) = i
        BY <1>4, <3>1, MaxIs
      <3> QED BY <3>2 DEF Max, Routing!Max
    <2>3. Due(r) = Routing!TakenBy(log, i, r)
      BY <1>4, <2>2, TakersThere DEF Due
    <2>4. log[i] \notin Apps
      BY <1>4, TakersAre
    <2>5. Routing!TakenBy(log, i, r) =
            [server |-> {log[i]}, refused |-> log[i] \in guarded /\ r \in Denies[log[i]],
             apps |-> Only(From(log, i), Apps), over |-> TRUE]
      BY <2>4, AppsFromIs DEF Routing!TakenBy, Routing!Refuses
    <2> QED BY <2>1, <2>3, <2>5 DEF Says, Became
  <1>5. ASSUME TakersOf(r) = {}, Leaves(<<>>, o, {}, FALSE, Only(From(log, 1), Apps))
        PROVE  Became(o) = Due(r)
    <2>1. Says(o, {}, FALSE, Only(From(log, 1), Apps))
      BY <1>3, <1>5
    <2>2. Due(r) = [server |-> {}, refused |-> FALSE, apps |-> Only(From(log, 1), Apps),
                    over |-> TRUE]
      BY <1>5, TakersThere, AppsFromIs DEF Due
    <2> QED BY <2>1, <2>2 DEF Says, Became
  <1> QED BY <1>1, <1>2, <1>4, <1>5 DEF NodeOk

\* A handler of the Express application has answered, or all were tried.
LEMMA DueOnExpress ==
    ASSUME TypeOK, express, AsRegistered, NEW r \in Requests, NEW o \in Seq(Outcome),
           ExpressOk(r, <<>>, o)
    PROVE  Became(o) = Due(r)
  <1>1. ASSUME NEW i \in 1..(Len(log) + 1), <<>> = SubSeq(listeners, i, Len(listeners)),
               \A j \in TakersOf(r) : i <= j, Says(o, {}, FALSE, <<>>)
        PROVE  Became(o) = Due(r)
    <2>1. /\ Len(log) \in Nat /\ log \in Seq(Entries) /\ DOMAIN log = 1..Len(log)
          /\ Len(listeners) = Len(log) /\ listeners \in Seq(ListenersUpTo(Len(wrappers)))
      BY LogTypes DEF AsRegistered
    <2>2. i = Len(log) + 1
      <3> SUFFICES ASSUME i <= Len(log) PROVE FALSE
        BY <2>1
      <3>1. PICK l \in Seq(ListenersUpTo(Len(wrappers))) : l = listeners
        BY <2>1
      <3>2. i \in 1..(Len(l) + 1) /\ Len(l) \in (i - 1)..Len(l) /\ i <= Len(l)
        BY <2>1, <3>1
      <3>3. Len(SubSeq(l, i, Len(l))) = Len(l) - i + 1
        BY <3>2, SubSeqProperties
      <3>4. SubSeq(l, i, Len(l)) = <<>>
        BY <1>1, <2>1, <3>1
      <3>5. Len(<<>>) = 0
        OBVIOUS
      <3>6. PICK n \in Nat : n = Len(l)
        BY <2>1, <3>1
      <3>7. i <= n /\ i \in Int
        BY <2>1, <3>1, <3>6
      <3>8. PICK s : s = SubSeq(l, i, Len(l))
        OBVIOUS
      <3>9. Len(s) = n - i + 1 /\ Len(s) = 0
        BY <3>3, <3>4, <3>5, <3>6, <3>8
      <3> QED BY <3>7, <3>9
    <2>3. TakersOf(r) = {}
      <3> SUFFICES ASSUME NEW j \in TakersOf(r) PROVE FALSE
        OBVIOUS
      <3>1. j \in 1..Len(log) /\ i <= j
        BY <1>1, <2>1 DEF TakersOf
      <3> QED BY <2>1, <2>2, <3>1
    <2>4. Only(From(log, 1), Apps) = <<>>
      <3>1. From(log, 1) = log
        BY <2>1, SubSeqFull DEF From
      <3>2. \A k \in 1..Len(log) : log[k] \in Servers
        <4> SUFFICES ASSUME NEW k \in 1..Len(log) PROVE log[k] \in Servers
          OBVIOUS
        <4>1. log[k] \notin Apps
          BY <2>1, <2>3 DEF TakersOf
        <4>2. log[k] \in Entries
          BY <2>1, ElementOfSeq
        <4> QED BY <4>1, <4>2 DEF Entries
      <3>3. log \in Seq(Servers)
        <4>1. log \in [1..Len(log) -> Servers]
          BY <2>1, <3>2
        <4> QED BY <2>1, <4>1, SeqDef
      <3> QED BY <3>1, <3>3, OnlyOthers, ListenerAssumption
    <2>5. Due(r) = [server |-> {}, refused |-> FALSE, apps |-> <<>>, over |-> TRUE]
      BY <2>3, <2>4, TakersThere, AppsFromIs DEF Due
    <2> QED BY <1>1, <2>5 DEF Says, Became
  <1>2. ASSUME NEW i \in TakersOf(r), \A j \in TakersOf(r) : i <= j,
               IF log[i] \in Apps THEN Says(o, {}, FALSE, <<log[i]>>)
               ELSE Says(o, {log[i]}, log[i] \in guarded /\ r \in Denies[log[i]], <<>>)
        PROVE  Became(o) = Due(r)
    <2>1. Routing!Min(TakersOf(r)) = i
      <3>1. TakersOf(r) \in SUBSET Int
        BY LogTypes DEF TakersOf
      <3>2. Min(TakersOf(r)) = i
        BY <1>2, <3>1, MinIs
      <3> QED BY <3>2 DEF Min, Routing!Min
    <2>2. Due(r) = Routing!TakenBy(log, i, r)
      BY <1>2, <2>1, TakersThere DEF Due
    <2>3. Routing!TakenBy(log, i, r) =
            IF log[i] \in Apps
            THEN [server |-> {}, refused |-> FALSE, apps |-> <<log[i]>>, over |-> TRUE]
            ELSE [server |-> {log[i]}, refused |-> log[i] \in guarded /\ r \in Denies[log[i]],
                  apps |-> <<>>, over |-> TRUE]
      BY DEF Routing!TakenBy, Routing!Refuses
    <2> QED BY <1>2, <2>2, <2>3 DEF Says, Became
  <1> QED BY <1>1, <1>2 DEF ExpressOk

LEMMA ReturnRoutes ==
    ASSUME RInv, Return
    PROVE  \E r \in Requests : Routing!Route(r)
  <1>1. PICK q \in Requests, o \in Seq(Outcome) :
           q = current /\ o = outcomes[current] /\ q \in arrived
    BY DEF RInv, IInv, TypeOK, Return
  <1>2. /\ UNCHANGED <<express, log, guarded, arrived, outcomes>>
        /\ current # NoRequest /\ pending = <<>> /\ current' = NoRequest /\ TypeOK
    BY DEF Return, RInv, IInv
  <1>3. Became(o) = Due(q)
    <2>1. CASE express
      <3>1. AsRegistered /\ ExpressOk(q, <<>>, o)
        BY <1>1, <1>2, <2>1 DEF RInv, OnExpress
      <3> QED BY <1>2, <2>1, <3>1, DueOnExpress
    <2>2. CASE ~express
      <3>1. PICK place : Placed(place) /\ NodeOk(place, q, <<>>, o)
        BY <1>1, <1>2, <2>2 DEF RInv, OnNode
      <3> QED BY <1>2, <2>2, <3>1, DueOnNode
    <2> QED BY <2>1, <2>2
  <1>4. FateNow(q).over = FALSE
    BY <1>1 DEF FateNow, Undecided
  <1>5. FateNow(q)' = Became(o)
    <2>1. q # NoRequest /\ (q \in arrived') = TRUE
      BY <1>1, <1>2
    <2>2. outcomes'[q] = o /\ q # current'
      BY <1>1, <1>2, <2>1
    <2> QED BY <2>1, <2>2 DEF FateNow, Became
  <1>6. ASSUME NEW r \in Requests, r # q PROVE FateNow(r)' = FateNow(r)
    <2>1. r # NoRequest
      BY ListenerAssumption
    <2> QED BY <1>1, <1>2, <1>6, <2>1 DEF FateNow
  <1>7. Mapped = [r \in Requests |-> FateNow(r)] /\ Mapped' = [r \in Requests |-> FateNow(r)']
    BY MappedIs, MappedThen
  <1>8. Mapped' = [Mapped EXCEPT ![q] = Due(q)]
    BY <1>3, <1>5, <1>6, <1>7
  <1>9. Mapped[q].over = FALSE
    BY <1>4, <1>7
  <1>10. Routing!Route(q)
    BY <1>2, <1>8, <1>9 DEF Routing!Route, Mapped, Due
  <1> QED BY <1>10

LEMMA RefinesNext == RInv /\ [Next]_vars => [Routing!Next]_(Routing!vars)
  <1> SUFFICES ASSUME RInv, [Next]_vars PROVE [Routing!Next]_(Routing!vars)
    OBVIOUS
  <1>1. ASSUME NEW s \in Servers, OnReady(s) \/ OnReadyAgain(s)
        PROVE  Routing!Register(s)
    <2>1. log' = Append(log, s) /\ UNCHANGED <<express, guarded>> /\ UNCHANGED dispatchVars
      BY <1>1 DEF OnReady, OnReadyAgain, Deliver
    <2>2. Mapped' = Mapped
      BY <2>1, FatesKept
    <2> QED BY <2>1, <2>2 DEF Routing!Register, Mapped
  <1>2. ASSUME NEW s \in Servers, SetAuthorizeConnection(s)
        PROVE  Routing!Guard(s)
    <2>1. guarded' = guarded \cup {s} /\ UNCHANGED <<express, log>> /\ UNCHANGED dispatchVars
      BY <1>2 DEF SetAuthorizeConnection
    <2>2. Mapped' = Mapped
      BY <2>1, FatesKept
    <2> QED BY <2>1, <2>2 DEF Routing!Guard, Mapped
  <1>3. ASSUME NEW a \in Apps, AddListener(a)
        PROVE  Routing!Register(a)
    <2>1. log' = Append(log, a) /\ UNCHANGED <<express, guarded>> /\ UNCHANGED dispatchVars
      BY <1>3 DEF AddListener
    <2>2. Mapped' = Mapped
      BY <2>1, FatesKept
    <2> QED BY <2>1, <2>2 DEF Routing!Register, Mapped
  <1>4. ASSUME NEW r \in Requests, Request(r)
        PROVE  UNCHANGED Routing!vars
    <2>1. UNCHANGED <<express, log, guarded>>
      BY <1>4 DEF Request
    <2>2. Mapped' = Mapped
      BY <1>4, RequestKeepsFates
    <2> QED BY <2>1, <2>2 DEF Routing!vars, Mapped
  <1>5. ASSUME (\E w \in 1..MaxWrappers : CallListener(w) \/ CallRoute(w)) \/ CallApp
        PROVE  UNCHANGED Routing!vars
    <2>1. UNCHANGED <<express, log, guarded>>
      BY <1>5 DEF CallListener, CallRoute, CallApp
    <2>2. Mapped' = Mapped
      BY <1>5, FatesKept
    <2> QED BY <2>1, <2>2 DEF Routing!vars, Mapped
  <1>6. CASE Return
    <2>1. \E r \in Requests : Routing!Route(r)
      BY <1>6, ReturnRoutes
    <2> QED BY <2>1 DEF Routing!Next
  <1>7. CASE UNCHANGED vars
    <2>1. UNCHANGED <<express, log, guarded>> /\ UNCHANGED dispatchVars
      BY <1>7 DEF vars, dispatchVars
    <2>2. Mapped' = Mapped
      BY <2>1, FatesKept
    <2> QED BY <2>1, <2>2 DEF Routing!vars, Mapped
  <1> QED BY <1>1, <1>2, <1>3, <1>4, <1>5, <1>6, <1>7 DEF Next, Routing!Next

\* The chain of listeners, and the handlers of Express, route requests as the order of the
\* registrations says: on Node's server the last server takes a request of its path or one
\* it refuses, and the application's listeners that came after it are called; on Express
\* the first handler for the path takes it.
THEOREM RequestsAreRouted == Spec => ImplementsRouting
  <1>1. RInv /\ [Next]_vars => RInv' /\ [Routing!Next]_(Routing!vars)
    BY NextRInv, RefinesNext
  <1>2. Spec => []RInv
    BY InitRInv, NextRInv, PTL DEF Spec
  <1> QED BY <1>2, RefinesInit, RefinesNext, PTL DEF Spec, ImplementsRouting, Routing!Spec
=============================================================================
