-------------------------- MODULE ClientOptionsProofs --------------------------
(***************************************************************************)
(* Theorems about ClientOptions, for every number of clients, all options   *)
(* and all security objects: what disableCache promises, who decides about  *)
(* an option, and what a security object signs.                             *)
(*                                                                          *)
(* A WSDL object is shared only through the cache.  So it is enough for     *)
(* disableCache that the cache never holds the WSDL of such a client, and   *)
(* that it never goes by the cache: each load makes an object that no client*)
(* has yet (IInv).                                                          *)
(*                                                                          *)
(* Who decides is an invariant by itself, once it is stated of the places in*)
(* the history made (DecideInv): a client is made later than all before it, *)
(* and writes on the options of one WSDL object.                            *)
(*                                                                          *)
(* What a security object has signed with is a fold over its additional     *)
(* references, each added once.  AddingAdds says what that fold yields, by  *)
(* induction over the additional references (FoldTheorems); the rest of     *)
(* SignInv follows it from one message to the next: the references are the *)
(* nodes by name and the Bodies in the envelope keys it has met, or, if the *)
(* Body is excluded, that in the first one at most.                         *)
(***************************************************************************)
EXTENDS ClientOptions, SequenceTheorems, FoldTheorems

Private(c) == clients[c].stage = "made" /\ clients[c].given.disableCache

WsdlType ==
    [valueKey : Values \cup {None}, envelopeKey : Keys \cup {None},
     overrideElementKey : Values \cup {None},
     ignoredNamespaces : SUBSET (Values \cup DefaultNamespaces)]

ClientType ==
    [stage : {"none", "loading", "hit", "made"}, given : Given \cup {None}, wsdl : Nat,
     security : Signers \cup {None}]

Typed ==
    /\ wsdls \in Seq(WsdlType) /\ cached \in 0..Len(wsdls)
    /\ clients \in [Clients -> ClientType]

\* What a client has at each stage, and what the cache then holds.
Staged ==
    \A c \in Clients :
        /\ clients[c].stage # "none" => clients[c].given \in Given
        /\ clients[c].stage # "made" => clients[c].wsdl = 0
        /\ clients[c].stage = "made" => clients[c].wsdl \in 1..Len(wsdls)
        /\ clients[c].stage = "hit" => cached # 0 /\ ~clients[c].given.disableCache

NotCached == \A c \in Clients : Private(c) => clients[c].wsdl # cached

IInv == Typed /\ Staged /\ NotCached /\ PrivateWsdlStands

-----------------------------------------------------------------------------
(* Options. *)

LEMMA ClientOptionsType ==
    ASSUME NEW options \in WsdlType, NEW given \in Given
    PROVE  InitializeOptions(options, given) \in WsdlType
  <1>1. given \in GivenType /\ SoapKey \in Keys
    BY OptionsAssumption
  <1> USE <1>1 DEF GivenType, WsdlType
  <1>2. Or(given.envelopeKey, SoapKey) \in Keys \cup {None}
    BY DEF Or
  <1>3. Or(given.overrideElementKey, options.overrideElementKey) \in Values \cup {None}
    BY DEF Or
  <1>4. given.ignoredNamespaces # None => given.ignoredNamespaces.namespaces \subseteq Values
    OBVIOUS
  <1> DEFINE ignored == IF given.ignoredNamespaces # None /\ given.ignoredNamespaces.override
                        THEN given.ignoredNamespaces.namespaces ELSE options.ignoredNamespaces
  <1>5. ignored \in SUBSET (Values \cup DefaultNamespaces)
    BY <1>4
  <1>6. InitializeOptions(options, given) =
          [options EXCEPT !.envelopeKey = Or(given.envelopeKey, SoapKey),
                          !.overrideElementKey =
                              Or(given.overrideElementKey, options.overrideElementKey),
                          !.ignoredNamespaces = ignored]
    BY DEF InitializeOptions
  <1> HIDE DEF ignored
  <1> QED BY <1>2, <1>3, <1>5, <1>6

LEMMA WsdlOptionsType ==
    ASSUME NEW given \in Given
    PROVE  WsdlOptions(given) \in WsdlType
  <1>1. given \in GivenType
    BY OptionsAssumption
  <1>2. given.ignoredNamespaces # None => given.ignoredNamespaces.namespaces \subseteq Values
    BY <1>1 DEF GivenType
  <1>3. IgnoredByWsdl(given) \subseteq Values \cup DefaultNamespaces
    BY <1>2 DEF IgnoredByWsdl
  <1> QED BY <1>1, <1>3 DEF WsdlOptions, WsdlType, GivenType

LEMMA LoadedOptionsType ==
    ASSUME NEW given \in Given
    PROVE  InitializeOptions(WsdlOptions(given), given) \in WsdlType
  BY WsdlOptionsType, ClientOptionsType

LEMMA GivenIsTyped ==
    ASSUME NEW given \in Given
    PROVE  given.disableCache \in BOOLEAN
  BY OptionsAssumption DEF GivenType

-----------------------------------------------------------------------------
(* Every step keeps the invariant, and the options of private WSDLs. *)

LEMMA InitInv == Init => IInv
  <1> SUFFICES ASSUME Init PROVE IInv
    OBVIOUS
  <1>1. wsdls \in Seq(WsdlType) /\ Len(wsdls) = 0
    BY EmptySeq DEF Init
  <1>2. \A c \in Clients : clients[c] = NewClient
    BY DEF Init
  <1>3. Typed
    BY <1>1 DEF Init, Typed, ClientType, NewClient
  <1>4. Staged /\ NotCached /\ PrivateWsdlStands
    BY <1>2 DEF Staged, NotCached, Private, PrivateWsdlStands, NewClient
  <1> QED BY <1>3, <1>4 DEF IInv

\* No WSDL is written that is private, in the step.
PrivateKept ==
    \A c \in Clients : Private(c) => wsdls'[clients[c].wsdl] = wsdls[clients[c].wsdl]

LEMMA CreateClientKeeps ==
    ASSUME IInv, NEW c \in Clients, NEW given \in Given, CreateClient(c, given)
    PROVE  IInv' /\ PrivateKept
  <1> DEFINE stage == IF given.disableCache \/ cached = 0 THEN "loading" ELSE "hit"
  <1>1. /\ clients[c].stage = "none" /\ clients[c] \in ClientType
        /\ clients' = [clients EXCEPT ![c].given = given, ![c].stage = stage]
        /\ UNCHANGED <<cached, wsdls>>
    BY DEF CreateClient, IInv, Typed
  <1>2. /\ clients'[c] = [clients[c] EXCEPT !.given = given, !.stage = stage]
        /\ \A d \in Clients : d # c => clients'[d] = clients[d]
        /\ clients' \in [Clients -> ClientType]
    BY <1>1 DEF IInv, Typed, ClientType
  <1>3. /\ clients'[c].stage = stage /\ clients'[c].given = given
        /\ clients'[c].wsdl = clients[c].wsdl
    BY <1>1, <1>2 DEF ClientType
  <1>4. stage # "made" /\ (stage = "hit" => cached # 0 /\ ~given.disableCache)
    OBVIOUS
  <1> HIDE DEF stage
  <1>5. Typed' /\ PrivateKept
    BY <1>1, <1>2 DEF IInv, Typed, PrivateKept
  <1>6. Staged'
    BY <1>1, <1>2, <1>3, <1>4 DEF IInv, Staged
  <1>7. \A d \in Clients : Private(d)' => d # c /\ Private(d)
    BY <1>2, <1>3, <1>4 DEF Private
  <1>8. \A d \in Clients : clients'[d].wsdl = clients[d].wsdl
    BY <1>2, <1>3
  <1>9. NotCached'
    BY <1>1, <1>7, <1>8 DEF IInv, NotCached
  <1>10. PrivateWsdlStands'
    BY <1>7, <1>8 DEF IInv, PrivateWsdlStands, Private
  <1> QED BY <1>5, <1>6, <1>9, <1>10 DEF IInv

LEMMA LoadedKeeps ==
    ASSUME IInv, NEW c \in Clients, Loaded(c)
    PROVE  IInv' /\ PrivateKept
  <1> DEFINE given == clients[c].given
             options == InitializeOptions(WsdlOptions(given), given)
             n == Len(wsdls)
  <1>1. /\ clients[c].stage = "loading" /\ clients[c] \in ClientType /\ given \in Given
        /\ wsdls' = Append(wsdls, options)
        /\ clients' = [clients EXCEPT ![c].stage = "made", ![c].wsdl = n + 1]
        /\ cached' = IF given.disableCache THEN cached ELSE n + 1
    BY DEF Loaded, Store, NewClientOf, IInv, Typed, Staged
  <1>2. options \in WsdlType /\ given.disableCache \in BOOLEAN
    BY <1>1, LoadedOptionsType, GivenIsTyped
  <1>3. wsdls \in Seq(WsdlType) /\ n \in Nat /\ cached \in 0..n
    BY LenProperties DEF IInv, Typed
  <1>4. /\ wsdls' \in Seq(WsdlType) /\ Len(wsdls') = n + 1
        /\ \A i \in 1..n : wsdls'[i] = wsdls[i]
    <2> HIDE DEF options
    <2> QED BY <1>1, <1>2, <1>3, AppendProperties
  <1>5. /\ clients'[c] = [clients[c] EXCEPT !.stage = "made", !.wsdl = n + 1]
        /\ \A d \in Clients : d # c => clients'[d] = clients[d]
        /\ clients' \in [Clients -> ClientType]
    <2>1. clients \in [Clients -> ClientType] /\ n + 1 \in Nat
      BY <1>3 DEF IInv, Typed
    <2> HIDE DEF n, given, options
    <2>2. [clients[c] EXCEPT !.stage = "made", !.wsdl = n + 1] \in ClientType
      BY <1>1, <2>1 DEF ClientType
    <2> QED BY <1>1, <2>1, <2>2
  <1>6. /\ clients'[c].stage = "made" /\ clients'[c].wsdl = n + 1
        /\ clients'[c].given = given
    BY <1>1, <1>5 DEF ClientType
  <1>7. \A d \in Clients : clients[d].wsdl \in 0..n
    BY <1>3 DEF IInv, Staged
  <1>8. cached' \in 0..(n + 1)
    BY <1>1, <1>2, <1>3
  <1> HIDE DEF options, n
  <1>9. Typed'
    BY <1>4, <1>5, <1>8 DEF Typed
  <1>10. Staged'
    <2> SUFFICES ASSUME NEW d \in Clients
                 PROVE  /\ clients'[d].stage # "none" => clients'[d].given \in Given
                        /\ clients'[d].stage # "made" => clients'[d].wsdl = 0
                        /\ clients'[d].stage = "made" => clients'[d].wsdl \in 1..Len(wsdls')
                        /\ clients'[d].stage = "hit" => cached' # 0
                                                        /\ ~clients'[d].given.disableCache
      BY DEF Staged
    <2>1. CASE d = c
      BY <1>1, <1>3, <1>4, <1>6, <2>1
    <2>2. CASE d # c
      <3>1. /\ clients[d].stage # "none" => clients[d].given \in Given
            /\ clients[d].stage # "made" => clients[d].wsdl = 0
            /\ clients[d].stage = "made" => clients[d].wsdl \in 1..n
            /\ clients[d].stage = "hit" => cached # 0 /\ ~clients[d].given.disableCache
        BY DEF IInv, Staged, n
      <3> QED BY <1>1, <1>3, <1>4, <1>5, <2>2, <3>1
    <2> QED BY <2>1, <2>2
  <1>11. NotCached'
    <2> SUFFICES ASSUME NEW d \in Clients, Private(d)'
                 PROVE  clients'[d].wsdl # cached'
      BY DEF NotCached
    <2>1. CASE d = c
      BY <1>1, <1>3, <1>6, <2>1 DEF Private
    <2>2. CASE d # c
      <3>1. Private(d) /\ clients'[d].wsdl = clients[d].wsdl
        BY <1>5, <2>2 DEF Private
      <3>2. clients[d].wsdl # cached
        BY <3>1 DEF IInv, NotCached
      <3> QED BY <1>1, <1>3, <1>7, <3>1, <3>2
    <2> QED BY <2>1, <2>2
  <1>12. PrivateWsdlStands'
    <2> SUFFICES ASSUME NEW d \in Clients, NEW e \in Clients, d # e, Private(d)'
                 PROVE  clients'[e].wsdl # clients'[d].wsdl
      BY DEF PrivateWsdlStands, Private
    <2>1. CASE d = c
      <3>1. clients'[e] = clients[e] /\ clients[e].wsdl \in 0..n
        BY <1>5, <1>7, <2>1
      <3> QED BY <1>3, <1>6, <2>1, <3>1
    <2>2. CASE e = c
      <3>1. clients'[d] = clients[d] /\ clients[d].wsdl \in 0..n
        BY <1>5, <1>7, <2>2
      <3> QED BY <1>3, <1>6, <2>2, <3>1
    <2>3. CASE d # c /\ e # c
      BY <1>5, <2>3 DEF IInv, PrivateWsdlStands, Private
    <2> QED BY <2>1, <2>2, <2>3
  <1>13. PrivateKept
    BY <1>4, <1>7, LenProperties DEF IInv, Staged, PrivateKept, Private, n
  <1> QED BY <1>9, <1>10, <1>11, <1>12, <1>13 DEF IInv

LEMMA HitKeeps ==
    ASSUME IInv, NEW c \in Clients, Hit(c)
    PROVE  IInv' /\ PrivateKept
  <1> DEFINE n == Len(wsdls)
             options == InitializeOptions(wsdls[cached], clients[c].given)
  <1>1. /\ clients[c].stage = "hit" /\ clients[c] \in ClientType
        /\ wsdls' = [wsdls EXCEPT ![cached] = options]
        /\ clients' = [clients EXCEPT ![c].stage = "made", ![c].wsdl = cached]
        /\ cached' = cached
    BY DEF Hit, NewClientOf, IInv, Typed
  <1>2. wsdls \in Seq(WsdlType) /\ n \in Nat /\ cached \in 0..n
    BY LenProperties DEF IInv, Typed
  <1>3. cached # 0 /\ ~clients[c].given.disableCache /\ clients[c].given \in Given
    BY <1>1 DEF IInv, Staged
  <1>4. cached \in 1..n
    BY <1>2, <1>3
  <1>5. options \in WsdlType
    <2>1. wsdls[cached] \in WsdlType
      BY <1>2, <1>4, ElementOfSeq
    <2> QED BY <1>3, <2>1, ClientOptionsType
  <1>6. /\ wsdls' \in Seq(WsdlType) /\ Len(wsdls') = n
        /\ \A i \in 1..n : i # cached => wsdls'[i] = wsdls[i]
    <2> HIDE DEF options
    <2> QED BY <1>1, <1>2, <1>4, <1>5, ExceptSeq
  <1>7. /\ clients'[c] = [clients[c] EXCEPT !.stage = "made", !.wsdl = cached]
        /\ \A d \in Clients : d # c => clients'[d] = clients[d]
        /\ clients' \in [Clients -> ClientType]
    <2>1. clients \in [Clients -> ClientType] /\ cached \in Nat
      BY <1>2 DEF IInv, Typed
    <2>2. [clients[c] EXCEPT !.stage = "made", !.wsdl = cached] \in ClientType
      BY <1>1, <2>1 DEF ClientType
    <2> HIDE DEF options
    <2> QED BY <1>1, <2>1, <2>2
  <1>8. /\ clients'[c].stage = "made" /\ clients'[c].wsdl = cached
        /\ clients'[c].given = clients[c].given
    BY <1>1, <1>7 DEF ClientType
  <1> HIDE DEF options, n
  <1>9. Typed'
    BY <1>1, <1>2, <1>6, <1>7 DEF Typed
  <1>10. Staged'
    BY <1>1, <1>3, <1>4, <1>6, <1>7, <1>8 DEF IInv, Staged, n
  <1>11. \A d \in Clients : Private(d)' =>
             d # c /\ Private(d) /\ clients'[d].wsdl = clients[d].wsdl
    BY <1>3, <1>7, <1>8 DEF Private
  <1>12. NotCached'
    BY <1>1, <1>11 DEF IInv, NotCached
  <1>13. PrivateWsdlStands'
    <2> SUFFICES ASSUME NEW d \in Clients, NEW e \in Clients, d # e, Private(d)'
                 PROVE  clients'[e].wsdl # clients'[d].wsdl
      BY DEF PrivateWsdlStands, Private
    <2>1. CASE e = c
      BY <1>8, <1>11, <2>1 DEF IInv, NotCached
    <2>2. CASE e # c
      BY <1>7, <1>11, <2>2 DEF IInv, PrivateWsdlStands, Private
    <2> QED BY <2>1, <2>2
  <1>14. PrivateKept
    BY <1>6 DEF IInv, NotCached, Staged, PrivateKept, Private, n
  <1> QED BY <1>9, <1>10, <1>12, <1>13, <1>14 DEF IInv

LEMMA SetSecurityKeeps ==
    ASSUME IInv, NEW c \in Clients, NEW s \in Signers, SetSecurity(c, s)
    PROVE  IInv' /\ PrivateKept
  <1>1. /\ clients[c] \in ClientType
        /\ clients' = [clients EXCEPT ![c].security = s]
        /\ UNCHANGED <<cached, wsdls>>
    BY DEF SetSecurity, IInv, Typed
  <1>2. /\ \A d \in Clients : /\ clients'[d].stage = clients[d].stage
                              /\ clients'[d].given = clients[d].given
                              /\ clients'[d].wsdl = clients[d].wsdl
        /\ clients' \in [Clients -> ClientType]
    BY <1>1 DEF IInv, Typed, ClientType
  <1>3. Typed' /\ PrivateKept
    BY <1>1, <1>2 DEF IInv, Typed, PrivateKept
  <1>4. Staged' /\ NotCached' /\ PrivateWsdlStands'
    BY <1>1, <1>2 DEF IInv, Staged, NotCached, Private, PrivateWsdlStands
  <1> QED BY <1>3, <1>4 DEF IInv

\* Messages that are signed, and stuttering.
LEMMA SameKeeps ==
    ASSUME IInv, UNCHANGED <<cached, wsdls, clients>>
    PROVE  IInv' /\ PrivateKept
  BY DEF IInv, Typed, Staged, NotCached, Private, PrivateWsdlStands, PrivateKept

LEMMA NextInv == IInv /\ [Next]_vars => IInv' /\ PrivateKept
  <1> SUFFICES ASSUME IInv, [Next]_vars PROVE IInv' /\ PrivateKept
    OBVIOUS
  <1>1. ASSUME NEW c \in Clients, NEW given \in Given, CreateClient(c, given)
        PROVE  IInv' /\ PrivateKept
    BY <1>1, CreateClientKeeps
  <1>2. ASSUME NEW c \in Clients, Loaded(c) PROVE IInv' /\ PrivateKept
    BY <1>2, LoadedKeeps
  <1>3. ASSUME NEW c \in Clients, Hit(c) PROVE IInv' /\ PrivateKept
    BY <1>3, HitKeeps
  <1>4. ASSUME NEW c \in Clients, NEW s \in Signers, SetSecurity(c, s)
        PROVE  IInv' /\ PrivateKept
    BY <1>4, SetSecurityKeeps
  <1>5. ASSUME NEW c \in Clients, NEW headers, Invoke(c, headers)
        PROVE  IInv' /\ PrivateKept
    BY <1>5, SameKeeps DEF Invoke
  <1>6. ASSUME UNCHANGED vars PROVE IInv' /\ PrivateKept
    BY <1>6, SameKeeps DEF vars
  <1> QED BY <1>1, <1>2, <1>3, <1>4, <1>5, <1>6 DEF Next

-----------------------------------------------------------------------------
(* The theorems. *)

LEMMA Invariance == Spec => []IInv
  <1>1. IInv /\ [Next]_vars => IInv'
    BY NextInv
  <1> QED BY <1>1, InitInv, PTL DEF Spec

\* A client with disableCache (src/soap.ts:43) has a WSDL object that no other client is
\* ever given, however loads and cache hits interleave.
THEOREM PrivateWsdls == Spec => []PrivateWsdlStands
  <1>1. IInv => PrivateWsdlStands
    BY DEF IInv
  <1> QED BY <1>1, Invariance, PTL

\* So no step changes the options that such a client works with.
THEOREM PrivateOptions == Spec => [][PrivateKept]_vars
  <1>1. IInv /\ [Next]_vars => [PrivateKept]_vars
    BY NextInv
  <1> QED BY <1>1, Invariance, PTL DEF Spec

-----------------------------------------------------------------------------
(* The references of a signer. *)

RefType == [name : Headers \cup {"Body", "Timestamp", "[[bodyXpath]]"}, key : Keys \cup {NoKey}]

\* The nodes that are signed of every message, besides the Body.
Names(s) ==
    LET o == SignerOptions[s]
        time == IF o.timestamp THEN {"Timestamp"} ELSE {}
    IN  {Node(n) : n \in (ToSet(o.additional) \cup time) \ o.excluded}

Excluded(s) == SignerOptions[s].excluded

LEMMA SignerOptionsAre ==
    ASSUME NEW s \in Signers
    PROVE  /\ SignerOptions[s].additional \in Seq(Headers)
           /\ SignerOptions[s].sha256 \in BOOLEAN /\ SignerOptions[s].timestamp \in BOOLEAN
           /\ Excluded(s) \subseteq Headers \cup {"Body", "Timestamp"}
  BY OptionsAssumption DEF OptionsType, Excluded

\* A reference is added at the end, once.
LEMMA AddOnceAdds ==
    ASSUME NEW s \in Signers, NEW refs \in Seq(RefType), NEW ref \in RefType, IsInjective(refs)
    PROVE  /\ AddOnce(s, refs, ref) \in Seq(RefType)
           /\ IsInjective(AddOnce(s, refs, ref))
           /\ ToSet(AddOnce(s, refs, ref)) =
                ToSet(refs) \cup (IF ref.name \in Excluded(s) THEN {} ELSE {ref})
  <1>1. CASE ref.name \in Excluded(s) \/ ref \in ToSet(refs)
    <2>1. AddOnce(s, refs, ref) = refs
      BY <1>1 DEF AddOnce, Excluded
    <2> QED BY <1>1, <2>1
  <1>2. CASE ref.name \notin Excluded(s) /\ ref \notin ToSet(refs)
    <2> DEFINE added == AddOnce(s, refs, ref)
    <2>1. added = Append(refs, ref)
      BY <1>2 DEF AddOnce, Excluded
    <2> HIDE DEF added
    <2>2. /\ added \in Seq(RefType) /\ Len(refs) \in Nat /\ DOMAIN refs = 1..Len(refs)
          /\ DOMAIN added = 1..(Len(refs) + 1)
          /\ \A i \in 1..Len(refs) : added[i] = refs[i]
          /\ added[Len(refs) + 1] = ref
      BY <2>1, AppendProperties, LenProperties
    <2>3. \A i \in 1..Len(refs) : refs[i] # ref
      BY <1>2, <2>2 DEF ToSet
    <2>4. IsInjective(added)
      BY <2>2, <2>3 DEF IsInjective
    <2>5. ToSet(added) = ToSet(refs) \cup {ref}
      BY <2>2 DEF ToSet
    <2> QED BY <1>2, <2>2, <2>4, <2>5 DEF added
  <1> QED BY <1>1, <1>2

-----------------------------------------------------------------------------
(* The additional references, one after the other. *)

Adding(s, base, seq) == FoldLeft(LAMBDA r, h : AddOnce(s, r, Node(h)), base, seq)

AddingAlong(s, base, seq) ==
    CHOOSE it : it = [T \in SUBSET DOMAIN seq |->
        IF T = {} THEN base ELSE AddOnce(s, it[T \ {Max(T)}], Node(seq[Max(T)]))]

LEMMA AddingIs ==
    ASSUME NEW s, NEW base, NEW seq
    PROVE  Adding(s, base, seq) = AddingAlong(s, base, seq)[DOMAIN seq]
  BY DEF Adding, FoldLeft, MapThenFoldSet, AddingAlong

\* The recursive function of the fold exists.
LEMMA AddingRuns ==
    ASSUME NEW s \in Signers, NEW base \in Seq(RefType), NEW seq \in Seq(Headers)
    PROVE  \A T \in SUBSET DOMAIN seq :
             AddingAlong(s, base, seq)[T] =
               IF T = {} THEN base
               ELSE AddOnce(s, AddingAlong(s, base, seq)[T \ {Max(T)}], Node(seq[Max(T)]))
  <1> DEFINE n == Len(seq)
             X == Seq(RefType)
             step == [p \in X \X (1..n) |-> AddOnce(s, p[1], Node(seq[p[2]]))]
  <1>1. n \in Nat /\ DOMAIN seq = 1..n /\ \A i \in 1..n : Node(seq[i]) \in RefType
    BY LenProperties, ElementOfSeq DEF RefType, Node
  <1>2. ASSUME NEW r \in X, NEW i \in 1..n PROVE AddOnce(s, r, Node(seq[i])) \in X
    BY <1>1, AppendProperties DEF AddOnce
  <1>3. step \in [X \X (1..n) -> X]
    BY <1>2
  <1>4. \A r \in X : \A i \in 1..n : step[<<r, i>>] = AddOnce(s, r, Node(seq[i]))
    OBVIOUS
  <1>5. ASSUME NEW T \in SUBSET (1..n), T # {}
        PROVE  Max(T) \in 1..n /\ T \ {Max(T)} \in SUBSET (1..n)
    BY <1>1, <1>5, MaxOfNats
  <1> HIDE DEF step, n, X
  <1>6. PICK h \in [SUBSET (1..n) -> X] : FoldsTo(h, base, step, n)
    BY <1>1, <1>3, FoldRuns DEF X
  <1>7. ASSUME NEW T \in SUBSET (1..n)
        PROVE  h[T] = IF T = {} THEN base
                      ELSE AddOnce(s, h[T \ {Max(T)}], Node(seq[Max(T)]))
    <2>1. h[T] = IF T = {} THEN base ELSE step[<<h[T \ {Max(T)}], Max(T)>>]
      BY <1>6 DEF FoldsTo
    <2>2. CASE T = {}
      BY <2>1, <2>2
    <2>3. CASE T # {}
      <3>1. Max(T) \in 1..n /\ h[T \ {Max(T)}] \in X
        BY <1>5, <1>6, <2>3
      <3> QED BY <1>4, <2>1, <2>3, <3>1
    <2> QED BY <2>2, <2>3
  <1>8. h = [T \in SUBSET DOMAIN seq |->
               IF T = {} THEN base ELSE AddOnce(s, h[T \ {Max(T)}], Node(seq[Max(T)]))]
    BY <1>1, <1>6, <1>7
  <1> DEFINE it == AddingAlong(s, base, seq)
  <1>9. it = [T \in SUBSET DOMAIN seq |->
                IF T = {} THEN base ELSE AddOnce(s, it[T \ {Max(T)}], Node(seq[Max(T)]))]
    BY <1>8 DEF AddingAlong
  <1> HIDE DEF it
  <1>10. \A T \in SUBSET DOMAIN seq :
           it[T] = IF T = {} THEN base
                   ELSE AddOnce(s, it[T \ {Max(T)}], Node(seq[Max(T)]))
    BY <1>9
  <1> QED BY <1>10 DEF it

LEMMA AddingAdds ==
    ASSUME NEW s \in Signers, NEW base \in Seq(RefType), NEW seq \in Seq(Headers),
           IsInjective(base)
    PROVE  /\ Adding(s, base, seq) \in Seq(RefType)
           /\ IsInjective(Adding(s, base, seq))
           /\ ToSet(Adding(s, base, seq)) =
                ToSet(base) \cup {Node(h) : h \in ToSet(seq) \ Excluded(s)}
  <1> DEFINE it == AddingAlong(s, base, seq)
             n == Len(seq)
             Added(k) == {Node(seq[i]) : i \in {j \in 1..k : seq[j] \notin Excluded(s)}}
             Good(k, refs) == /\ refs \in Seq(RefType) /\ IsInjective(refs)
                              /\ ToSet(refs) = ToSet(base) \cup Added(k)
             P == {k \in Nat : k <= n => Good(k, it[1..k])}
  <1>1. n \in Nat /\ DOMAIN seq = 1..n /\ \A i \in 1..n : seq[i] \in Headers
    BY LenProperties, ElementOfSeq
  <1>2. \A T \in SUBSET (1..n) :
          it[T] = IF T = {} THEN base
                  ELSE AddOnce(s, it[T \ {Max(T)}], Node(seq[Max(T)]))
    <2>1. \A T \in SUBSET DOMAIN seq :
            it[T] = IF T = {} THEN base
                    ELSE AddOnce(s, it[T \ {Max(T)}], Node(seq[Max(T)]))
      BY AddingRuns
    <2> HIDE DEF it, n
    <2> QED BY <1>1, <2>1
  <1> HIDE DEF it
  <1>3. 0 \in P
    <2>1. it[1..0] = base /\ 1..0 = {}
      BY <1>1, <1>2
    <2>2. Added(0) = {}
      OBVIOUS
    <2> HIDE DEF Added
    <2>3. Good(0, it[1..0])
      BY <2>1, <2>2
    <2> HIDE DEF Good
    <2> QED BY <2>3
  <1>4. ASSUME NEW k \in P PROVE k + 1 \in P
    <2> SUFFICES ASSUME k + 1 <= n PROVE Good(k + 1, it[1..(k + 1)])
      BY DEF P
    <2>1. k \in Nat /\ Good(k, it[1..k])
      <3> HIDE DEF Good
      <3> QED BY <1>1
    <2>2. 1..(k + 1) \in SUBSET (1..n) /\ k + 1 \in 1..n
      BY <1>1, <2>1
    <2> DEFINE before == it[1..k]
               ref == Node(seq[k + 1])
    <2>3. it[1..(k + 1)] = AddOnce(s, before, ref)
      <3> DEFINE T == 1..(k + 1)
      <3>1. /\ Max(T) = k + 1 /\ T \ {k + 1} = 1..k /\ T # {} /\ T \in SUBSET (1..n)
        BY <2>1, <2>2, FoldStep
      <3> HIDE DEF T
      <3>2. it[T] = AddOnce(s, it[T \ {Max(T)}], Node(seq[Max(T)]))
        BY <1>2, <3>1
      <3>3. it[T] = AddOnce(s, it[1..k], Node(seq[k + 1]))
        BY <3>1, <3>2
      <3> QED BY <3>3 DEF T
    <2>4. ref \in RefType /\ ref.name = seq[k + 1]
      BY <1>1, <2>2 DEF Node, RefType
    <2>5. /\ before \in Seq(RefType) /\ IsInjective(before)
          /\ ToSet(before) = ToSet(base) \cup Added(k)
      <3> HIDE DEF Added
      <3> QED BY <2>1
    <2>6. Added(k + 1) = Added(k) \cup (IF seq[k + 1] \in Excluded(s) THEN {} ELSE {ref})
      <3>1. 1..(k + 1) = (1..k) \cup {k + 1}
        BY <2>1
      <3> QED BY <3>1
    <2> HIDE DEF before, ref, Added
    <2>7. /\ AddOnce(s, before, ref) \in Seq(RefType)
          /\ IsInjective(AddOnce(s, before, ref))
          /\ ToSet(AddOnce(s, before, ref)) =
               ToSet(before) \cup (IF ref.name \in Excluded(s) THEN {} ELSE {ref})
      BY <2>4, <2>5, AddOnceAdds
    <2>8. ToSet(AddOnce(s, before, ref)) = ToSet(base) \cup Added(k + 1)
      BY <2>4, <2>5, <2>6, <2>7
    <2> QED BY <2>3, <2>7, <2>8
  <1>5. Good(n, it[1..n])
    <2> HIDE DEF Good
    <2>1. P \in SUBSET Nat
      OBVIOUS
    <2> HIDE DEF P
    <2>2. P = Nat
      BY <1>3, <1>4, <2>1, NatSet
    <2> QED BY <1>1, <2>2 DEF P
  <1>6. Adding(s, base, seq) = it[1..n]
    BY <1>1, AddingIs DEF it
  <1>7. Added(n) = {Node(h) : h \in ToSet(seq) \ Excluded(s)}
    BY <1>1 DEF ToSet
  <1> HIDE DEF Added
  <1> QED BY <1>5, <1>6, <1>7

-----------------------------------------------------------------------------
(* What postProcess does to the references of a signer. *)

BodyOf(s, key) == IF "Body" \in Excluded(s) THEN {} ELSE {Body(key)}

LEMMA Xpaths ==
    ASSUME NEW key \in Keys
    PROVE  /\ Body(key) \in RefType /\ Body(key).name = "Body" /\ Body(key) # Placeholder
           /\ Placeholder \in RefType /\ Node("Timestamp") \in RefType
           /\ Node("Timestamp").name = "Timestamp"
  BY OptionsAssumption DEF RefType, Body, Placeholder, Node

\* Once the placeholder is resolved, what is missing is added.
LEMMA ReferencesAdd ==
    ASSUME NEW s \in Signers, NEW refs, NEW key \in Keys,
           Resolve(refs, key) \in Seq(RefType), IsInjective(Resolve(refs, key))
    PROVE  /\ References(s, refs, key) \in Seq(RefType)
           /\ IsInjective(References(s, refs, key))
           /\ ToSet(References(s, refs, key)) =
                ToSet(Resolve(refs, key)) \cup BodyOf(s, key) \cup Names(s)
  <1> DEFINE resolved == Resolve(refs, key)
             body == AddOnce(s, resolved, Body(key))
             additional == SignerOptions[s].additional
             named == Adding(s, body, additional)
             timed == AddOnce(s, named, Node("Timestamp"))
             time == Node("Timestamp")
  <1>1. additional \in Seq(Headers) /\ SignerOptions[s].timestamp \in BOOLEAN
    BY SignerOptionsAre
  <1>2. References(s, refs, key) = IF SignerOptions[s].timestamp THEN timed ELSE named
    BY DEF References, Adding
  <1>3. /\ Body(key) \in RefType /\ Body(key).name = "Body"
        /\ time \in RefType /\ time.name = "Timestamp"
    BY Xpaths
  <1>4. /\ body \in Seq(RefType) /\ IsInjective(body)
        /\ ToSet(body) = ToSet(resolved) \cup BodyOf(s, key)
    BY <1>3, AddOnceAdds DEF BodyOf
  <1> HIDE DEF body, resolved, additional
  <1>5. /\ named \in Seq(RefType) /\ IsInjective(named)
        /\ ToSet(named) = ToSet(body) \cup {Node(h) : h \in ToSet(additional) \ Excluded(s)}
    BY <1>1, <1>4, AddingAdds
  <1> HIDE DEF named, time
  <1>6. /\ AddOnce(s, named, time) \in Seq(RefType) /\ IsInjective(AddOnce(s, named, time))
        /\ ToSet(AddOnce(s, named, time)) =
             ToSet(named) \cup (IF "Timestamp" \in Excluded(s) THEN {} ELSE {time})
    <2> HIDE DEF timed
    <2>1. /\ AddOnce(s, named, time) \in Seq(RefType) /\ IsInjective(AddOnce(s, named, time))
          /\ ToSet(AddOnce(s, named, time)) =
               ToSet(named) \cup (IF time.name \in Excluded(s) THEN {} ELSE {time})
      BY <1>3, <1>5, AddOnceAdds
    <2> QED BY <1>3, <2>1
  <1>7. CASE SignerOptions[s].timestamp
    <2>1. Names(s) = {Node(h) : h \in ToSet(additional) \ Excluded(s)}
                     \cup (IF "Timestamp" \in Excluded(s) THEN {} ELSE {time})
      BY <1>7 DEF Names, Excluded, time, additional
    <2> QED BY <1>2, <1>4, <1>5, <1>6, <1>7, <2>1 DEF resolved, time
  <1>8. CASE ~SignerOptions[s].timestamp
    <2>1. Names(s) = {Node(h) : h \in ToSet(additional) \ Excluded(s)}
      BY <1>8 DEF Names, Excluded, additional
    <2> QED BY <1>2, <1>4, <1>5, <1>8, <2>1 DEF resolved
  <1> QED BY <1>1, <1>7, <1>8

\* The first message of a signer names the Body also if it is excluded, in the place of the
\* placeholder.
LEMMA FirstReferences ==
    ASSUME NEW s \in Signers, NEW key \in Keys
    PROVE  /\ References(s, NewReferences(s), key) \in Seq(RefType)
           /\ IsInjective(References(s, NewReferences(s), key))
           /\ ToSet(References(s, NewReferences(s), key)) =
                (IF "Body" \in Excluded(s) /\ ~SignerOptions[s].sha256 THEN {} ELSE {Body(key)})
                \cup Names(s)
  <1> DEFINE resolved == Resolve(NewReferences(s), key)
  <1>1. Body(key) \in RefType
    BY Xpaths
  <1>2. CASE SignerOptions[s].sha256
    <2>1. resolved = <<Body(key)>>
      BY <1>2 DEF NewReferences, Resolve
    <2>2. resolved \in Seq(RefType) /\ IsInjective(resolved) /\ ToSet(resolved) = {Body(key)}
      BY <1>1, <2>1 DEF IsInjective, ToSet
    <2> QED BY <1>2, <2>2, ReferencesAdd DEF BodyOf
  <1>3. CASE ~SignerOptions[s].sha256
    <2>1. resolved = <<>>
      BY <1>3 DEF NewReferences, Resolve
    <2>2. resolved \in Seq(RefType) /\ IsInjective(resolved) /\ ToSet(resolved) = {}
      BY <2>1 DEF IsInjective, ToSet
    <2> QED BY <1>3, <2>2, ReferencesAdd DEF BodyOf
  <1> QED BY <1>2, <1>3, SignerOptionsAre

\* The later ones keep what is there, a Body in another key too.
LEMMA LaterReferences ==
    ASSUME NEW s \in Signers, NEW refs \in Seq(RefType), NEW key \in Keys,
           IsInjective(refs), Placeholder \notin ToSet(refs)
    PROVE  /\ References(s, refs, key) \in Seq(RefType)
           /\ IsInjective(References(s, refs, key))
           /\ ToSet(References(s, refs, key)) = ToSet(refs) \cup BodyOf(s, key) \cup Names(s)
  <1>1. Resolve(refs, key) = refs
    <2>1. \A i \in DOMAIN refs : refs[i] # Placeholder
      BY DEF ToSet
    <2>2. refs = [i \in DOMAIN refs |-> refs[i]]
      BY SeqDef
    <2> QED BY <2>1, <2>2 DEF Resolve
  <1> QED BY <1>1, ReferencesAdd
-----------------------------------------------------------------------------
(* What a signer has signed with, message by message. *)

CallType ==
    [signer : Signers, key : Keys, headers : SUBSET Headers, refs : Seq(RefType), sent : BOOLEAN]

\* The messages of a signer: all of them, and up to the i-th.
CallsOf(s) == {j \in DOMAIN calls : calls[j].signer = s}
CallsUpTo(i) == {j \in 1..i : calls[j].signer = calls[i].signer}

\* Those, of some, that added a Body in their key.
Adders(s, of) ==
    IF "Body" \notin Excluded(s) THEN of
    ELSE {j \in of : SignerOptions[s].sha256 /\ \A k \in of : j <= k}

\* What a signer has after some messages.
After(s, of) == {Body(calls[j].key) : j \in Adders(s, of)} \cup Names(s)

SignersTyped ==
    /\ signers \in [Signers -> Seq(RefType)] /\ calls \in Seq(CallType)
    /\ \A s \in Signers : IsInjective(signers[s])

Keyed == \A w \in DOMAIN wsdls : wsdls[w].envelopeKey \in Keys

Remembered ==
    \A s \in Signers : IF CallsOf(s) = {} THEN signers[s] = NewReferences(s)
                       ELSE ToSet(signers[s]) = After(s, CallsOf(s))

Recorded ==
    \A i \in DOMAIN calls :
        /\ calls[i].sent = Signable(calls[i].refs, calls[i].key, calls[i].headers)
        /\ IsInjective(calls[i].refs)
        /\ ToSet(calls[i].refs) = After(calls[i].signer, CallsUpTo(i))

SignInv == SignersTyped /\ Keyed /\ Remembered /\ Recorded

LEMMA KeyOfOptions ==
    ASSUME NEW options \in WsdlType, NEW given \in Given
    PROVE  InitializeOptions(options, given).envelopeKey \in Keys
  <1>1. given.envelopeKey \in Keys \cup {None} /\ SoapKey \in Keys
    BY OptionsAssumption DEF GivenType
  <1>2. InitializeOptions(options, given).envelopeKey = Or(given.envelopeKey, SoapKey)
    BY DEF InitializeOptions, WsdlType
  <1> QED BY <1>1, <1>2 DEF Or

LEMMA LoadedKey ==
    ASSUME NEW given \in Given
    PROVE  InitializeOptions(WsdlOptions(given), given).envelopeKey \in Keys
  <1>1. given.envelopeKey \in Keys \cup {None} /\ SoapKey \in Keys
    BY OptionsAssumption DEF GivenType
  <1>2. InitializeOptions(WsdlOptions(given), given).envelopeKey = Or(given.envelopeKey, SoapKey)
    BY DEF InitializeOptions, WsdlOptions
  <1> QED BY <1>1, <1>2 DEF Or

LEMMA InitSigns == Init => SignInv
  <1> SUFFICES ASSUME Init PROVE SignInv
    OBVIOUS
  <1>1. ASSUME NEW s \in Signers
        PROVE  NewReferences(s) \in Seq(RefType) /\ IsInjective(NewReferences(s))
    <2>1. Placeholder \in RefType
      BY OptionsAssumption DEF RefType, Placeholder, Node
    <2>2. CASE NewReferences(s) = <<Placeholder>>
      <3>1. Len(NewReferences(s)) = 1 /\ NewReferences(s) \in Seq(RefType)
        BY <2>1, <2>2
      <3>2. DOMAIN NewReferences(s) = 1..1
        BY <3>1, LenProperties
      <3> QED BY <3>1, <3>2 DEF IsInjective
    <2>3. CASE NewReferences(s) = <<>>
      BY <2>3 DEF IsInjective
    <2> QED BY <2>2, <2>3 DEF NewReferences
  <1>2. calls = <<>> /\ DOMAIN calls = {} /\ DOMAIN wsdls = {}
    BY DEF Init
  <1>3. SignersTyped
    BY <1>1, <1>2 DEF Init, SignersTyped
  <1>4. Keyed /\ Remembered /\ Recorded
    BY <1>2 DEF Init, Keyed, Remembered, Recorded, CallsOf
  <1> QED BY <1>3, <1>4 DEF SignInv

\* The steps before a message is signed.
LEMMA OthersSign ==
    ASSUME SignInv, Keyed', UNCHANGED <<signers, calls>>
    PROVE  SignInv'
  <1>1. /\ \A s : CallsOf(s)' = CallsOf(s)
        /\ \A i : CallsUpTo(i)' = CallsUpTo(i)
        /\ \A s, of : After(s, of)' = After(s, of)
    BY DEF CallsOf, CallsUpTo, After
  <1>2. SignersTyped'
    BY DEF SignInv, SignersTyped
  <1>3. Remembered'
    BY <1>1 DEF SignInv, Remembered
  <1>4. Recorded'
    BY <1>1 DEF SignInv, Recorded
  <1> QED BY <1>2, <1>3, <1>4 DEF SignInv

\* Whether the next message of a signer adds a Body: also an excluded one, if it is the first.
Adds(s, of) == "Body" \notin Excluded(s) \/ (of = {} /\ SignerOptions[s].sha256)

LEMMA AddersNext ==
    ASSUME NEW s \in Signers, NEW n \in Nat, NEW of \in SUBSET (1..n)
    PROVE  Adders(s, of \cup {n + 1}) =
             Adders(s, of) \cup (IF Adds(s, of) THEN {n + 1} ELSE {})
  <1>1. CASE "Body" \notin Excluded(s)
    BY <1>1 DEF Adders, Adds
  <1>2. CASE "Body" \in Excluded(s) /\ of = {}
    BY <1>2 DEF Adders, Adds
  <1>3. CASE "Body" \in Excluded(s) /\ of # {}
    <2>1. \A j \in of : j \in Nat /\ j <= n + 1 /\ ~(n + 1 <= j)
      OBVIOUS
    <2>2. \A j \in of \cup {n + 1} :
            (\A i \in of \cup {n + 1} : j <= i) <=> j \in of /\ \A i \in of : j <= i
      BY <1>3, <2>1
    <2>3. Adders(s, of) = {j \in of : SignerOptions[s].sha256 /\ \A i \in of : j <= i}
      BY <1>3 DEF Adders
    <2>4. Adders(s, of \cup {n + 1}) =
            {j \in of \cup {n + 1} : /\ SignerOptions[s].sha256
                                     /\ \A i \in of \cup {n + 1} : j <= i}
      BY <1>3 DEF Adders
    <2> QED BY <1>3, <2>2, <2>3, <2>4 DEF Adds
  <1> QED BY <1>1, <1>2, <1>3

LEMMA InvokeSigns ==
    ASSUME IInv, SignInv, NEW c \in Clients, NEW headers \in SUBSET Headers, Invoke(c, headers)
    PROVE  SignInv'
  <1>0. PICK s, n, of, key, refs :
          /\ s = clients[c].security /\ n = Len(calls) /\ of = CallsOf(s) /\ key = KeyOf(c)
          /\ refs = References(s, signers[s], key)
    OBVIOUS
  <1> DEFINE call == [signer |-> s, key |-> key, headers |-> headers, refs |-> refs,
                      sent |-> Signable(refs, key, headers)]
  <1>1. /\ signers' = [signers EXCEPT ![s] = refs] /\ calls' = Append(calls, call)
        /\ UNCHANGED wsdls
    BY <1>0 DEF Invoke
  <1>2. s \in Signers
    BY <1>0 DEF Invoke, IInv, Typed, ClientType
  <1>3. key \in Keys
    <2>1. clients[c].wsdl \in 1..Len(wsdls) /\ DOMAIN wsdls = 1..Len(wsdls)
      BY LenProperties DEF Invoke, IInv, Typed, Staged
    <2> QED BY <1>0, <2>1 DEF SignInv, Keyed, KeyOf
  <1>4. /\ n \in Nat /\ DOMAIN calls = 1..n /\ \A i \in 1..n : calls[i] \in CallType
        /\ of \in SUBSET (1..n)
    BY <1>0, LenProperties, ElementOfSeq DEF SignInv, SignersTyped, CallsOf
  <1>5. /\ refs \in Seq(RefType) /\ IsInjective(refs)
        /\ ToSet(refs) = {Body(calls[j].key) : j \in Adders(s, of)}
              \cup (IF Adds(s, of) THEN {Body(key)} ELSE {}) \cup Names(s)
    <2>1. /\ signers[s] \in Seq(RefType) /\ IsInjective(signers[s])
      BY <1>2 DEF SignInv, SignersTyped
    <2>2. CASE of = {}
      <3>1. signers[s] = NewReferences(s)
        BY <1>0, <1>2, <2>2 DEF SignInv, Remembered
      <3>2. Adders(s, of) = {}
        BY <2>2 DEF Adders
      <3>3. Adds(s, of) <=> ~("Body" \in Excluded(s) /\ ~SignerOptions[s].sha256)
        BY <2>2 DEF Adds
      <3>4. /\ References(s, NewReferences(s), key) \in Seq(RefType)
            /\ IsInjective(References(s, NewReferences(s), key))
            /\ ToSet(References(s, NewReferences(s), key)) =
                (IF "Body" \in Excluded(s) /\ ~SignerOptions[s].sha256 THEN {} ELSE {Body(key)})
                \cup Names(s)
        BY <1>2, <1>3, FirstReferences
      <3> QED BY <1>0, <3>1, <3>2, <3>3, <3>4
    <2>3. CASE of # {}
      <3>1. ToSet(signers[s]) = After(s, of)
        BY <1>0, <1>2, <2>3 DEF SignInv, Remembered
      <3>2. \A j \in Adders(s, of) : calls[j].key \in Keys
        BY <1>4 DEF Adders, CallType
      <3>3. Placeholder \notin After(s, of)
        <4>1. \A k \in Keys : Body(k) # Placeholder
          BY Xpaths
        <4>2. ASSUME NEW h \in Headers \cup {"Timestamp"}
              PROVE  Node(h) # Placeholder
          BY OptionsAssumption DEF Node, Placeholder
        <4>3. Names(s) \subseteq {Node(h) : h \in Headers \cup {"Timestamp"}}
          <5>1. ToSet(SignerOptions[s].additional) \subseteq Headers
            BY <1>2, SignerOptionsAre, ElementOfSeq, LenProperties DEF ToSet
          <5> QED BY <5>1 DEF Names
        <4> QED BY <3>2, <4>1, <4>2, <4>3 DEF After
      <3>4. Adds(s, of) <=> "Body" \notin Excluded(s)
        BY <2>3 DEF Adds
      <3>5. /\ refs \in Seq(RefType) /\ IsInjective(refs)
            /\ ToSet(refs) = ToSet(signers[s]) \cup BodyOf(s, key) \cup Names(s)
        BY <1>0, <1>2, <1>3, <2>1, <3>1, <3>3, LaterReferences
      <3> QED BY <3>1, <3>4, <3>5 DEF After, BodyOf
    <2> QED BY <2>2, <2>3
  <1>6. call \in CallType
    <2>1. Signable(refs, key, headers) \in BOOLEAN
      BY DEF Signable
    <2> QED BY <1>2, <1>3, <1>5, <2>1 DEF CallType
  <1>7. /\ call.signer = s /\ call.key = key /\ call.refs = refs /\ call.headers = headers
        /\ call.sent = Signable(refs, key, headers)
    OBVIOUS
  <1> HIDE DEF call
  <1>8. /\ calls' \in Seq(CallType) /\ DOMAIN calls' = 1..(n + 1)
        /\ \A i \in 1..n : calls'[i] = calls[i]
        /\ calls'[n + 1] = call
    BY <1>1, <1>4, <1>6, AppendProperties, LenProperties DEF SignInv, SignersTyped
  <1>9. /\ CallsOf(s)' = of \cup {n + 1} /\ CallsUpTo(n + 1)' = of \cup {n + 1}
        /\ \A t \in Signers : t # s => CallsOf(t)' = CallsOf(t)
        /\ \A i \in 1..n : CallsUpTo(i)' = CallsUpTo(i)
    <2>1. 1..(n + 1) = (1..n) \cup {n + 1}
      BY <1>4
    <2>2. \A i \in 1..n : (1..i) \subseteq 1..n /\ i \in Nat
      BY <1>4
    <2>3. of = {j \in 1..n : calls[j].signer = s}
      BY <1>0, <1>4 DEF CallsOf
    <2>4. CallsOf(s)' = of \cup {n + 1}
      BY <1>7, <1>8, <2>1, <2>3 DEF CallsOf
    <2>5. CallsUpTo(n + 1)' = of \cup {n + 1}
      BY <1>7, <1>8, <2>1, <2>3 DEF CallsUpTo
    <2>6. \A t \in Signers : t # s => CallsOf(t)' = CallsOf(t)
      BY <1>4, <1>7, <1>8, <2>1 DEF CallsOf
    <2>7. \A i \in 1..n : CallsUpTo(i)' = CallsUpTo(i)
      BY <1>8, <2>2 DEF CallsUpTo
    <2> QED BY <2>4, <2>5, <2>6, <2>7
  <1>10. ASSUME NEW t \in Signers, NEW old \in SUBSET (1..n)
         PROVE  After(t, old)' = After(t, old)
    <2>1. Adders(t, old) \subseteq 1..n
      BY DEF Adders
    <2> QED BY <1>8, <2>1 DEF After
  <1>11. After(s, of \cup {n + 1})' = ToSet(refs)
    <2> DEFINE new == IF Adds(s, of) THEN {n + 1} ELSE {}
    <2>1. Adders(s, of \cup {n + 1}) = Adders(s, of) \cup new /\ Adders(s, of) \subseteq 1..n
      <3>1. Adders(s, of) \subseteq of
        BY DEF Adders
      <3> QED BY <1>2, <1>4, <3>1, AddersNext
    <2>2. After(s, of \cup {n + 1})' =
            {Body(calls'[j].key) : j \in Adders(s, of) \cup new} \cup Names(s)
      BY <2>1 DEF After
    <2>3. {Body(calls'[j].key) : j \in Adders(s, of)} = {Body(calls[j].key) : j \in Adders(s, of)}
      BY <1>8, <2>1
    <2>4. {Body(calls'[j].key) : j \in new} = IF Adds(s, of) THEN {Body(key)} ELSE {}
      BY <1>7, <1>8
    <2> HIDE DEF new
    <2> QED BY <1>5, <2>2, <2>3, <2>4
  <1>12. SignersTyped'
    BY <1>1, <1>2, <1>5, <1>8 DEF SignInv, SignersTyped
  <1>13. Keyed'
    BY <1>1 DEF SignInv, Keyed
  <1>14. Remembered'
    <2> SUFFICES ASSUME NEW t \in Signers
                 PROVE  IF CallsOf(t)' = {} THEN signers'[t] = NewReferences(t)
                        ELSE ToSet(signers'[t]) = After(t, CallsOf(t))'
      BY DEF Remembered
    <2>1. CASE t = s
      <3>1. signers'[s] = refs /\ CallsOf(s)' # {}
        BY <1>1, <1>2, <1>9 DEF SignInv, SignersTyped
      <3> QED BY <1>9, <1>11, <2>1, <3>1
    <2>2. CASE t # s
      <3>1. signers'[t] = signers[t]
        BY <1>1, <2>2 DEF SignInv, SignersTyped
      <3>2. CallsOf(t) \in SUBSET (1..n)
        BY <1>4 DEF CallsOf
      <3>3. IF CallsOf(t) = {} THEN signers[t] = NewReferences(t)
            ELSE ToSet(signers[t]) = After(t, CallsOf(t))
        BY DEF SignInv, Remembered
      <3> QED BY <1>9, <1>10, <2>2, <3>1, <3>2, <3>3
    <2> QED BY <2>1, <2>2
  <1>15. Recorded'
    <2> SUFFICES ASSUME NEW i \in 1..(n + 1)
                 PROVE  /\ calls'[i].sent =
                             Signable(calls'[i].refs, calls'[i].key, calls'[i].headers)
                        /\ IsInjective(calls'[i].refs)
                        /\ ToSet(calls'[i].refs) = After(calls[i].signer, CallsUpTo(i))'
      BY <1>8 DEF Recorded
    <2>1. CASE i = n + 1
      BY <1>5, <1>7, <1>8, <1>9, <1>11, <2>1
    <2>2. CASE i \in 1..n
      <3>1. /\ calls[i].sent = Signable(calls[i].refs, calls[i].key, calls[i].headers)
            /\ IsInjective(calls[i].refs)
            /\ ToSet(calls[i].refs) = After(calls[i].signer, CallsUpTo(i))
        BY <1>4, <2>2 DEF SignInv, Recorded
      <3>2. CallsUpTo(i) \in SUBSET (1..n) /\ calls[i].signer \in Signers
        BY <1>4, <2>2 DEF CallsUpTo, CallType
      <3>3. After(calls[i].signer, CallsUpTo(i))' = After(calls[i].signer, CallsUpTo(i))
        BY <1>8, <1>9, <1>10, <2>2, <3>2
      <3> QED BY <1>8, <1>9, <2>2, <3>1, <3>3
    <2> QED BY <1>4, <2>1, <2>2
  <1> QED BY <1>12, <1>13, <1>14, <1>15 DEF SignInv

-----------------------------------------------------------------------------
(* Who decides about the options of a shared WSDL. *)

\* What WhoDecides says of options, when the clients at S gave g, one after the other.
Namers(S, g) == {i \in S : g[i].overrideElementKey # None}
Ignorers(S, g) ==
    {i \in S : g[i].ignoredNamespaces # None /\ g[i].ignoredNamespaces.override}

Decided(o, S, g) ==
    /\ S # {}
    /\ o.valueKey = g[Min(S)].valueKey
    /\ o.envelopeKey = Or(g[Max(S)].envelopeKey, SoapKey)
    /\ o.overrideElementKey =
          IF Namers(S, g) = {} THEN None ELSE g[Max(Namers(S, g))].overrideElementKey
    /\ o.ignoredNamespaces =
          IF Ignorers(S, g) = {} THEN IgnoredByWsdl(g[Min(S)])
          ELSE g[Max(Ignorers(S, g))].ignoredNamespaces.namespaces

AllGiven == [i \in DOMAIN made |-> GivenBy(i)]

DecidedAll == \A w \in DOMAIN wsdls : Decided(wsdls[w], ClientsOf(w), AllGiven)

\* Positions of a sequence have a first and a last one.
LEMMA Ends ==
    ASSUME NEW m \in Nat, NEW S \in SUBSET (1..m), S # {}
    PROVE  Min(S) \in S /\ Max(S) \in S
  <1>1. S \in SUBSET Nat
    OBVIOUS
  <1> QED BY <1>1, MinOfNats, MaxOfNats

LEMMA DecidedIs ==
    ASSUME made \in Seq(Clients)
    PROVE  WhoDecides <=> DecidedAll
  <1> SUFFICES ASSUME NEW w \in DOMAIN wsdls, ClientsOf(w) # {}
               PROVE  /\ AllGiven[Min(ClientsOf(w))] = GivenBy(Min(ClientsOf(w)))
                      /\ AllGiven[Max(ClientsOf(w))] = GivenBy(Max(ClientsOf(w)))
                      /\ Namers(ClientsOf(w), AllGiven) = Naming(w)
                      /\ Ignorers(ClientsOf(w), AllGiven) = Ignoring(w)
                      /\ Naming(w) # {} =>
                            AllGiven[Max(Naming(w))] = GivenBy(Max(Naming(w)))
                      /\ Ignoring(w) # {} =>
                            AllGiven[Max(Ignoring(w))] = GivenBy(Max(Ignoring(w)))
    BY DEF WhoDecides, DecidedAll, Decided
  <1>1. /\ Len(made) \in Nat /\ DOMAIN made = 1..Len(made)
        /\ ClientsOf(w) \in SUBSET (1..Len(made))
        /\ Naming(w) \in SUBSET ClientsOf(w) /\ Ignoring(w) \in SUBSET ClientsOf(w)
    BY LenProperties DEF ClientsOf, Naming, Ignoring
  <1>2. \A i \in ClientsOf(w) : AllGiven[i] = GivenBy(i)
    BY <1>1 DEF AllGiven
  <1>3. /\ Namers(ClientsOf(w), AllGiven) = Naming(w)
        /\ Ignorers(ClientsOf(w), AllGiven) = Ignoring(w)
    BY <1>2 DEF Namers, Naming, Ignorers, Ignoring
  <1>4. Min(ClientsOf(w)) \in ClientsOf(w) /\ Max(ClientsOf(w)) \in ClientsOf(w)
    BY <1>1, Ends
  <1>5. /\ Naming(w) # {} => Max(Naming(w)) \in Naming(w)
        /\ Ignoring(w) # {} => Max(Ignoring(w)) \in Ignoring(w)
    BY <1>1, Ends
  <1> QED BY <1>1, <1>2, <1>3, <1>4, <1>5

\* It depends on what those clients gave.
LEMMA DecidedSame ==
    ASSUME NEW o, NEW m \in Nat, NEW S \in SUBSET (1..m), NEW g, NEW h,
           \A i \in S : g[i] = h[i], Decided(o, S, g)
    PROVE  Decided(o, S, h)
  <1>1. Namers(S, h) = Namers(S, g) /\ Ignorers(S, h) = Ignorers(S, g)
    BY DEF Namers, Ignorers
  <1>2. Min(S) \in S /\ Max(S) \in S
    BY Ends DEF Decided
  <1>3. /\ Namers(S, g) # {} => Max(Namers(S, g)) \in S
        /\ Ignorers(S, g) # {} => Max(Ignorers(S, g)) \in S
    <2>1. /\ Namers(S, g) \in SUBSET (1..m) /\ Namers(S, g) \subseteq S
          /\ Ignorers(S, g) \in SUBSET (1..m) /\ Ignorers(S, g) \subseteq S
      BY DEF Namers, Ignorers
    <2> QED BY <2>1, Ends
  <1> QED BY <1>1, <1>2, <1>3 DEF Decided

LEMMA OptionsOf ==
    ASSUME NEW o \in WsdlType, NEW given \in Given
    PROVE  LET new == InitializeOptions(o, given)
           IN  /\ new.valueKey = o.valueKey
               /\ new.envelopeKey = Or(given.envelopeKey, SoapKey)
               /\ new.overrideElementKey = Or(given.overrideElementKey, o.overrideElementKey)
               /\ new.ignoredNamespaces =
                    IF given.ignoredNamespaces # None /\ given.ignoredNamespaces.override
                    THEN given.ignoredNamespaces.namespaces ELSE o.ignoredNamespaces
  BY DEF InitializeOptions, WsdlType

\* The client that loaded the WSDL.
LEMMA DecidedFirst ==
    ASSUME NEW k \in Nat, NEW g, NEW given \in Given, g[k] = given
    PROVE  Decided(InitializeOptions(WsdlOptions(given), given), {k}, g)
  <1> DEFINE o == WsdlOptions(given)
             new == InitializeOptions(o, given)
  <1>1. o \in WsdlType
    BY WsdlOptionsType
  <1>2. /\ o.valueKey = given.valueKey /\ o.overrideElementKey = given.overrideElementKey
        /\ o.ignoredNamespaces = IgnoredByWsdl(given)
    BY DEF WsdlOptions
  <1> HIDE DEF o
  <1>3. /\ new.valueKey = o.valueKey
        /\ new.envelopeKey = Or(given.envelopeKey, SoapKey)
        /\ new.overrideElementKey = Or(given.overrideElementKey, o.overrideElementKey)
        /\ new.ignoredNamespaces =
             IF given.ignoredNamespaces # None /\ given.ignoredNamespaces.override
             THEN given.ignoredNamespaces.namespaces ELSE o.ignoredNamespaces
    BY <1>1, OptionsOf
  <1> HIDE DEF new
  <1>4. Min({k}) = k /\ Max({k}) = k
    <2>1. {k} \in SUBSET Int
      OBVIOUS
    <2> QED BY <2>1, MinIs, MaxIs
  <1>5. /\ Namers({k}, g) = IF given.overrideElementKey # None THEN {k} ELSE {}
        /\ Ignorers({k}, g) =
             IF given.ignoredNamespaces # None /\ given.ignoredNamespaces.override
             THEN {k} ELSE {}
    BY DEF Namers, Ignorers
  <1>6. Decided(new, {k}, g)
    <2>1. new.overrideElementKey =
            IF Namers({k}, g) = {} THEN None ELSE g[Max(Namers({k}, g))].overrideElementKey
      BY <1>2, <1>3, <1>4, <1>5 DEF Or
    <2>2. new.ignoredNamespaces =
            IF Ignorers({k}, g) = {} THEN IgnoredByWsdl(g[Min({k})])
            ELSE g[Max(Ignorers({k}, g))].ignoredNamespaces.namespaces
      BY <1>2, <1>3, <1>4, <1>5
    <2> QED BY <1>2, <1>3, <1>4, <2>1, <2>2 DEF Decided
  <1> QED BY <1>6 DEF new, o

\* Another one, made later.
LEMMA DecidedNext ==
    ASSUME NEW m \in Nat, NEW S \in SUBSET (1..m), NEW g, NEW given \in Given,
           g[m + 1] = given, NEW o \in WsdlType, Decided(o, S, g)
    PROVE  Decided(InitializeOptions(o, given), S \cup {m + 1}, g)
  <1> DEFINE new == InitializeOptions(o, given)
             T == S \cup {m + 1}
             names == given.overrideElementKey # None
             ignores == given.ignoredNamespaces # None /\ given.ignoredNamespaces.override
  <1>1. /\ new.valueKey = o.valueKey
        /\ new.envelopeKey = Or(given.envelopeKey, SoapKey)
        /\ new.overrideElementKey = Or(given.overrideElementKey, o.overrideElementKey)
        /\ new.ignoredNamespaces =
             IF ignores THEN given.ignoredNamespaces.namespaces ELSE o.ignoredNamespaces
    BY OptionsOf
  <1> HIDE DEF new
  <1>2. /\ Namers(T, g) = Namers(S, g) \cup (IF names THEN {m + 1} ELSE {})
        /\ Ignorers(T, g) = Ignorers(S, g) \cup (IF ignores THEN {m + 1} ELSE {})
    BY DEF Namers, Ignorers
  <1>3. /\ Namers(S, g) \in SUBSET (1..m) /\ Ignorers(S, g) \in SUBSET (1..m)
    BY DEF Namers, Ignorers
  <1>4. ASSUME NEW U \in SUBSET (1..m)
        PROVE  Max(U \cup {m + 1}) = m + 1
    <2>1. U \cup {m + 1} \in SUBSET Int /\ \A y \in U \cup {m + 1} : y <= m + 1
      OBVIOUS
    <2> QED BY <2>1, MaxIs
  <1>5. Min(T) = Min(S)
    <2>1. S \in SUBSET Nat /\ S # {}
      BY DEF Decided
    <2>2. PICK x \in S : x = Min(S) /\ \A y \in S : x <= y
      BY <2>1, MinOfNats
    <2>3. T \in SUBSET Int /\ x \in T /\ \A y \in T : x <= y
      BY <2>2
    <2> HIDE DEF T
    <2> QED BY <2>2, <2>3, MinIs
  <1>6. Max(T) = m + 1 /\ T # {}
    BY <1>4
  <1>7. /\ o.valueKey = g[Min(S)].valueKey
        /\ o.overrideElementKey =
             IF Namers(S, g) = {} THEN None ELSE g[Max(Namers(S, g))].overrideElementKey
        /\ o.ignoredNamespaces =
             IF Ignorers(S, g) = {} THEN IgnoredByWsdl(g[Min(S)])
             ELSE g[Max(Ignorers(S, g))].ignoredNamespaces.namespaces
    BY DEF Decided
  <1> HIDE DEF T
  <1>8. new.overrideElementKey =
          IF Namers(T, g) = {} THEN None ELSE g[Max(Namers(T, g))].overrideElementKey
    <2>1. CASE names
      BY <1>1, <1>2, <1>3, <1>4, <2>1 DEF Or
    <2>2. CASE ~names
      BY <1>1, <1>2, <1>7, <2>2 DEF Or
    <2> QED BY <2>1, <2>2
  <1>9. new.ignoredNamespaces =
          IF Ignorers(T, g) = {} THEN IgnoredByWsdl(g[Min(T)])
          ELSE g[Max(Ignorers(T, g))].ignoredNamespaces.namespaces
    <2>1. CASE ignores
      BY <1>1, <1>2, <1>3, <1>4, <2>1
    <2>2. CASE ~ignores
      <3>1. Ignorers(T, g) = Ignorers(S, g)
        BY <1>2, <2>2
      <3>2. new.ignoredNamespaces = o.ignoredNamespaces
        BY <1>1, <2>2
      <3> QED BY <1>5, <1>7, <3>1, <3>2
    <2> QED BY <2>1, <2>2
  <1>10. Decided(new, T, g)
    BY <1>1, <1>5, <1>6, <1>7, <1>8, <1>9 DEF Decided
  <1> QED BY <1>10 DEF new, T

-----------------------------------------------------------------------------
(* Every step keeps it. *)

MadeTyped ==
    /\ made \in Seq(Clients)
    /\ \A i \in DOMAIN made : clients[made[i]].stage = "made"

DecideInv == MadeTyped /\ WhoDecides

LEMMA InitDecides == Init => DecideInv
  <1> SUFFICES ASSUME Init PROVE DecideInv
    OBVIOUS
  <1>1. made = <<>> /\ DOMAIN made = {} /\ DOMAIN wsdls = {}
    BY DEF Init
  <1> QED BY <1>1 DEF DecideInv, MadeTyped, WhoDecides

\* The steps that make no client.
LEMMA OthersDecide ==
    ASSUME DecideInv, UNCHANGED <<made, wsdls>>,
           \A c \in Clients : clients[c].stage = "made" =>
               /\ clients'[c].stage = "made" /\ clients'[c].given = clients[c].given
               /\ clients'[c].wsdl = clients[c].wsdl
    PROVE  DecideInv'
  <1>1. \A i \in DOMAIN made : made[i] \in Clients
    BY LenProperties, ElementOfSeq DEF DecideInv, MadeTyped
  <1>2. \A i \in DOMAIN made : /\ clients'[made[i]].stage = "made"
                               /\ clients'[made[i]].given = clients[made[i]].given
                               /\ clients'[made[i]].wsdl = clients[made[i]].wsdl
    BY <1>1 DEF DecideInv, MadeTyped
  <1>3. MadeTyped'
    BY <1>2 DEF DecideInv, MadeTyped
  <1>4. AllGiven' = AllGiven /\ \A w : ClientsOf(w)' = ClientsOf(w)
    BY <1>2 DEF AllGiven, GivenBy, ClientsOf
  <1>5. DecidedAll
    BY DecidedIs DEF DecideInv, MadeTyped
  <1>6. DecidedAll'
    BY <1>4, <1>5 DEF DecidedAll
  <1>7. (made \in Seq(Clients) => (WhoDecides <=> DecidedAll))'
    BY DecidedIs, PTL
  <1> QED BY <1>3, <1>6, <1>7 DEF DecideInv, MadeTyped

\* The steps that make one, of the WSDL w.
LEMMA MakingDecides ==
    ASSUME IInv, DecideInv, NEW c \in Clients, clients[c].stage # "made",
           NEW w \in DOMAIN wsdls', NewClientOf(c, w),
           DOMAIN wsdls' = DOMAIN wsdls \cup {w},
           \A v \in DOMAIN wsdls : v # w => wsdls'[v] = wsdls[v],
           clients[c].given \in Given,
           IF w \in DOMAIN wsdls
           THEN /\ wsdls[w] \in WsdlType
                /\ wsdls'[w] = InitializeOptions(wsdls[w], clients[c].given)
           ELSE wsdls'[w] = InitializeOptions(WsdlOptions(clients[c].given), clients[c].given)
    PROVE  DecideInv'
  <1>0. PICK m, given, g, h : /\ m = Len(made) /\ given = clients[c].given
                              /\ g = AllGiven /\ h = AllGiven'
    OBVIOUS
  <1>1. /\ m \in Nat /\ DOMAIN made = 1..m /\ \A i \in 1..m : made[i] \in Clients
        /\ \A i \in 1..m : clients[made[i]].stage = "made" /\ made[i] # c
    BY <1>0, LenProperties, ElementOfSeq DEF DecideInv, MadeTyped
  <1>2. /\ clients' = [clients EXCEPT ![c].stage = "made", ![c].wsdl = w]
        /\ made' = Append(made, c)
    BY DEF NewClientOf
  <1>3. /\ clients'[c].stage = "made" /\ clients'[c].wsdl = w /\ clients'[c].given = given
        /\ \A d \in Clients : d # c => clients'[d] = clients[d]
    <2>1. clients[c] \in ClientType /\ clients \in [Clients -> ClientType]
      BY DEF IInv, Typed
    <2> QED BY <1>0, <1>2, <2>1 DEF ClientType
  <1>4. /\ made' \in Seq(Clients) /\ DOMAIN made' = 1..(m + 1)
        /\ \A i \in 1..m : made'[i] = made[i]
        /\ made'[m + 1] = c
    BY <1>0, <1>1, <1>2, AppendProperties, LenProperties DEF DecideInv, MadeTyped
  <1>5. /\ \A i \in 1..m : clients'[made'[i]] = clients[made[i]]
        /\ clients'[made'[m + 1]] = clients'[c]
    BY <1>1, <1>3, <1>4
  <1>6. MadeTyped'
    <2>1. \A i \in 1..(m + 1) : i \in 1..m \/ i = m + 1
      BY <1>1
    <2> QED BY <1>1, <1>3, <1>4, <1>5, <2>1 DEF MadeTyped
  <1>7. h[m + 1] = given /\ \A i \in 1..m : h[i] = g[i]
    <2>1. \A i \in 1..m : i \in 1..(m + 1)
      BY <1>1
    <2>2. m + 1 \in 1..(m + 1)
      BY <1>1
    <2>3. \A i \in 1..(m + 1) : h[i] = clients'[made'[i]].given
      BY <1>0, <1>4 DEF AllGiven, GivenBy
    <2>4. \A i \in 1..m : g[i] = clients[made[i]].given
      BY <1>0, <1>1 DEF AllGiven, GivenBy
    <2> QED BY <1>3, <1>5, <2>1, <2>2, <2>3, <2>4
  <1>8. /\ ClientsOf(w)' = ClientsOf(w) \cup {m + 1}
        /\ \A v : v # w => ClientsOf(v)' = ClientsOf(v)
        /\ \A v : ClientsOf(v) \in SUBSET (1..m)
    <2>1. 1..(m + 1) = (1..m) \cup {m + 1}
      BY <1>1
    <2>2. \A v : ClientsOf(v) = {i \in 1..m : clients[made[i]].wsdl = v}
      BY <1>1 DEF ClientsOf
    <2>3. \A v : ClientsOf(v)' = {i \in (1..m) \cup {m + 1} : clients'[made'[i]].wsdl = v}
      BY <1>4, <2>1 DEF ClientsOf
    <2> QED BY <1>3, <1>5, <2>2, <2>3
  <1>9. DecidedAll
    BY DecidedIs DEF DecideInv, MadeTyped
  <1>10. ASSUME NEW v \in DOMAIN wsdls'
         PROVE  Decided(wsdls'[v], ClientsOf(v)', h)
    <2>0. PICK S : S = ClientsOf(v)
      OBVIOUS
    <2>1. /\ m \in Nat /\ S \in SUBSET (1..m) /\ \A i \in S : g[i] = h[i]
          /\ m + 1 \in Nat /\ given \in Given
      BY <1>0, <1>1, <1>7, <1>8, <2>0
    <2>2. ASSUME v \in DOMAIN wsdls PROVE Decided(wsdls[v], S, h)
      <3>1. PICK o : o = wsdls[v]
        OBVIOUS
      <3>2. Decided(o, S, g)
        BY <1>0, <1>9, <2>0, <2>2, <3>1 DEF DecidedAll
      <3>3. Decided(o, S, h)
        BY <2>1, <3>2, DecidedSame
      <3> QED BY <3>1, <3>3
    <2>3. CASE v # w
      BY <1>8, <2>0, <2>2, <2>3
    <2>4. CASE v = w /\ w \in DOMAIN wsdls
      <3>1. PICK o \in WsdlType : o = wsdls[w]
        BY <2>4
      <3>2. Decided(InitializeOptions(o, given), S \cup {m + 1}, h)
        BY <1>7, <2>1, <2>2, <2>4, <3>1, DecidedNext
      <3> QED BY <1>0, <1>8, <2>0, <2>4, <3>1, <3>2
    <2>5. CASE v = w /\ w \notin DOMAIN wsdls
      <3>1. S = {}
        <4>1. \A i \in 1..m : clients[made[i]].wsdl \in DOMAIN wsdls
          BY <1>1, LenProperties DEF IInv, Typed, Staged
        <4> QED BY <1>1, <2>0, <2>5, <4>1 DEF ClientsOf
      <3>2. PICK k \in Nat : k = m + 1
        BY <2>1
      <3>3. Decided(InitializeOptions(WsdlOptions(given), given), {k}, h)
        BY <1>7, <2>1, <3>2, DecidedFirst
      <3> QED BY <1>0, <1>8, <2>0, <2>5, <3>1, <3>2, <3>3
    <2> QED BY <2>3, <2>4, <2>5
  <1>11. DecidedAll'
    BY <1>0, <1>10 DEF DecidedAll
  <1>12. (made \in Seq(Clients) => (WhoDecides <=> DecidedAll))'
    BY DecidedIs, PTL
  <1> QED BY <1>6, <1>11, <1>12 DEF DecideInv, MadeTyped

LEMMA LoadedDecides ==
    ASSUME IInv, DecideInv, NEW c \in Clients, Loaded(c)
    PROVE  DecideInv' /\ (Keyed => Keyed')
  <1>0. PICK n, options : /\ n = Len(wsdls)
                          /\ options = InitializeOptions(WsdlOptions(clients[c].given),
                                                         clients[c].given)
    OBVIOUS
  <1>1. /\ clients[c].stage = "loading" /\ clients[c].given \in Given
        /\ wsdls' = Append(wsdls, options) /\ NewClientOf(c, n + 1)
    BY <1>0 DEF Loaded, IInv, Staged
  <1>2. /\ wsdls \in Seq(WsdlType) /\ n \in Nat /\ DOMAIN wsdls = 1..n
        /\ options \in WsdlType
    BY <1>0, <1>1, LenProperties, LoadedOptionsType DEF IInv, Typed
  <1>3. /\ DOMAIN wsdls' = 1..(n + 1) /\ wsdls'[n + 1] = options
        /\ \A i \in 1..n : wsdls'[i] = wsdls[i]
    BY <1>0, <1>1, <1>2, AppendProperties, LenProperties
  <1>4. 1..(n + 1) = (1..n) \cup {n + 1} /\ n + 1 \notin 1..n
    BY <1>2
  <1>5. DecideInv'
    BY <1>0, <1>1, <1>2, <1>3, <1>4, MakingDecides
  <1>6. options.envelopeKey \in Keys
    BY <1>0, <1>1, LoadedKey
  <1> QED BY <1>2, <1>3, <1>4, <1>5, <1>6 DEF Keyed

LEMMA HitDecides ==
    ASSUME IInv, DecideInv, NEW c \in Clients, Hit(c)
    PROVE  DecideInv' /\ (Keyed => Keyed')
  <1>0. PICK options : options = InitializeOptions(wsdls[cached], clients[c].given)
    OBVIOUS
  <1>1. /\ clients[c].stage = "hit" /\ clients[c].given \in Given /\ cached # 0
        /\ wsdls' = [wsdls EXCEPT ![cached] = options] /\ NewClientOf(c, cached)
    BY <1>0 DEF Hit, IInv, Staged
  <1>2. cached \in DOMAIN wsdls /\ wsdls[cached] \in WsdlType
    BY <1>1, LenProperties, ElementOfSeq DEF IInv, Typed
  <1>3. /\ DOMAIN wsdls' = DOMAIN wsdls /\ wsdls'[cached] = options
        /\ \A i \in DOMAIN wsdls : i # cached => wsdls'[i] = wsdls[i]
    BY <1>1, <1>2
  <1>4. DecideInv'
    BY <1>0, <1>1, <1>2, <1>3, MakingDecides
  <1>5. options.envelopeKey \in Keys
    BY <1>0, <1>1, <1>2, KeyOfOptions
  <1> QED BY <1>3, <1>4, <1>5 DEF Keyed

-----------------------------------------------------------------------------
(* All of the invariant. *)

FullInv == IInv /\ DecideInv /\ SignInv

LEMMA NextFull == FullInv /\ [Next]_vars => FullInv'
  <1> SUFFICES ASSUME FullInv, [Next]_vars PROVE FullInv'
    OBVIOUS
  <1>1. IInv' /\ IInv /\ DecideInv /\ SignInv
    BY NextInv DEF FullInv
  <1>2. clients \in [Clients -> ClientType]
    BY <1>1 DEF IInv, Typed
  <1>3. SignInv => Keyed
    BY DEF SignInv
  <1>4. ASSUME NEW c \in Clients, NEW given \in Given, CreateClient(c, given)
        PROVE  DecideInv' /\ SignInv'
    <2>1. UNCHANGED <<wsdls, made, signers, calls>> /\ clients[c].stage = "none"
      BY <1>4 DEF CreateClient
    <2>2. \A d \in Clients : d # c => clients'[d] = clients[d]
      BY <1>2, <1>4 DEF CreateClient
    <2>3. DecideInv'
      BY <1>1, <2>1, <2>2, OthersDecide
    <2>4. Keyed'
      BY <1>1, <1>3, <2>1 DEF Keyed
    <2> QED BY <1>1, <2>1, <2>3, <2>4, OthersSign
  <1>5. ASSUME NEW c \in Clients, Loaded(c) PROVE DecideInv' /\ SignInv'
    <2>1. UNCHANGED <<signers, calls>>
      BY <1>5 DEF Loaded, NewClientOf
    <2> QED BY <1>1, <1>3, <1>5, <2>1, LoadedDecides, OthersSign
  <1>6. ASSUME NEW c \in Clients, Hit(c) PROVE DecideInv' /\ SignInv'
    <2>1. UNCHANGED <<signers, calls>>
      BY <1>6 DEF Hit, NewClientOf
    <2> QED BY <1>1, <1>3, <1>6, <2>1, HitDecides, OthersSign
  <1>7. ASSUME NEW c \in Clients, NEW s \in Signers, SetSecurity(c, s)
        PROVE  DecideInv' /\ SignInv'
    <2>1. UNCHANGED <<wsdls, made, signers, calls>>
      BY <1>7 DEF SetSecurity
    <2>2. \A d \in Clients : /\ clients'[d].stage = clients[d].stage
                             /\ clients'[d].given = clients[d].given
                             /\ clients'[d].wsdl = clients[d].wsdl
      BY <1>2, <1>7 DEF SetSecurity, ClientType
    <2>3. DecideInv'
      BY <1>1, <2>1, <2>2, OthersDecide
    <2>4. Keyed'
      BY <1>1, <1>3, <2>1 DEF Keyed
    <2> QED BY <1>1, <2>1, <2>3, <2>4, OthersSign
  <1>8. ASSUME NEW c \in Clients, NEW headers \in SUBSET Headers, Invoke(c, headers)
        PROVE  DecideInv' /\ SignInv'
    <2>1. UNCHANGED <<wsdls, clients, made>>
      BY <1>8 DEF Invoke
    <2> QED BY <1>1, <1>8, <2>1, OthersDecide, InvokeSigns
  <1>9. ASSUME UNCHANGED vars PROVE DecideInv' /\ SignInv'
    <2>1. UNCHANGED <<wsdls, clients, made, signers, calls>>
      BY <1>9 DEF vars
    <2>2. Keyed'
      BY <1>1, <1>3, <2>1 DEF Keyed
    <2> QED BY <1>1, <2>1, <2>2, OthersDecide, OthersSign
  <1> QED BY <1>1, <1>4, <1>5, <1>6, <1>7, <1>8, <1>9 DEF Next, FullInv

LEMMA FullInvariance == Spec => []FullInv
  <1>1. Init => FullInv
    BY InitInv, InitDecides, InitSigns DEF FullInv
  <1> QED BY <1>1, NextFull, PTL DEF Spec

\* Of clients that share a WSDL object, who decides about an option of it (src/client.ts:178)
\* depends on the option: the client that loaded it, the one made last, or the last that
\* gave one, however loads and cache hits interleave.
THEOREM TheOptionsAreShared == Spec => []WhoDecides
  <1>1. FullInv => WhoDecides
    BY DEF FullInv, DecideInv
  <1> QED BY <1>1, FullInvariance, PTL

-----------------------------------------------------------------------------
(* What is sent. *)

LEMMA NamesAre ==
    ASSUME NEW s \in Signers, NEW headers
    PROVE  (\A ref \in Names(s) : ref.name \in headers \cup {"Timestamp"})
             <=> ToSet(SignerOptions[s].additional) \ Excluded(s) \subseteq headers
  <1> DEFINE o == SignerOptions[s]
             time == IF o.timestamp THEN {"Timestamp"} ELSE {}
  <1>1. ToSet(o.additional) \subseteq Headers /\ "Timestamp" \notin Headers
    BY OptionsAssumption, SignerOptionsAre, ElementOfSeq, LenProperties DEF ToSet
  <1>2. /\ Names(s) = {Node(n) : n \in (ToSet(o.additional) \cup time) \ Excluded(s)}
        /\ \A n : Node(n).name = n
    BY DEF Names, Excluded, Node
  <1>3. (\A ref \in Names(s) : ref.name \in headers \cup {"Timestamp"})
          <=> \A n \in (ToSet(o.additional) \cup time) \ Excluded(s) :
                 n \in headers \cup {"Timestamp"}
    BY <1>2
  <1> QED BY <1>1, <1>3

\* A message is sent if its references are all found in it: no Body in another key.
LEMMA SentMeans ==
    ASSUME SignInv, NEW i \in DOMAIN calls
    PROVE  calls[i].sent <=>
             /\ \A j \in Adders(calls[i].signer, CallsUpTo(i)) : calls[j].key = calls[i].key
             /\ ToSet(SignerOptions[calls[i].signer].additional) \ Excluded(calls[i].signer)
                  \subseteq calls[i].headers
  <1>0. PICK m, s, A : /\ m = calls[i] /\ s = m.signer /\ A = Adders(s, CallsUpTo(i))
    OBVIOUS
  <1>1. m \in CallType /\ s \in Signers
    <2>1. m \in CallType
      BY <1>0, LenProperties, ElementOfSeq DEF SignInv, SignersTyped
    <2> QED BY <1>0, <2>1 DEF CallType
  <1>2. /\ m.sent = Signable(m.refs, m.key, m.headers)
        /\ ToSet(m.refs) = {Body(calls[j].key) : j \in A} \cup Names(s)
    BY <1>0 DEF SignInv, Recorded, After
  <1>3. ASSUME NEW key
        PROVE  Body(key) = Body(m.key) \/ Body(key).name \in m.headers \cup {"Timestamp"}
                 <=> key = m.key
    <2>1. "Body" \notin m.headers
      BY <1>1, OptionsAssumption DEF CallType
    <2>2. Body(key).name = "Body" /\ Body(key).key = key /\ Body(m.key).key = m.key
      BY DEF Body
    <2> QED BY <2>1, <2>2
  <1>4. \A ref \in Names(s) : ref # Body(m.key)
    <2>1. ASSUME NEW n PROVE Node(n).key = NoKey
      BY DEF Node
    <2>2. Body(m.key).key # NoKey
      BY <1>1, OptionsAssumption DEF Body, CallType
    <2> QED BY <2>1, <2>2 DEF Names
  <1>5. m.sent <=> /\ \A j \in A : calls[j].key = m.key
                   /\ \A ref \in Names(s) : ref.name \in m.headers \cup {"Timestamp"}
    BY <1>2, <1>3, <1>4 DEF Signable
  <1>6. (\A ref \in Names(s) : ref.name \in m.headers \cup {"Timestamp"})
          <=> ToSet(SignerOptions[s].additional) \ Excluded(s) \subseteq m.headers
    BY <1>1, NamesAre
  <1> QED BY <1>0, <1>5, <1>6

LEMMA FailsAre == SignInv => FailsForever
  <1> SUFFICES ASSUME SignInv, NEW i \in DOMAIN calls
               PROVE  LET m == calls[i]
                          o == SignerOptions[m.signer]
                          before == {j \in 1..(i - 1) : calls[j].signer = m.signer}
                          named == IF "Body" \notin o.excluded THEN before
                                   ELSE {j \in before : o.sha256 /\ \A k \in before : j <= k}
                          stale == {j \in named : calls[j].key # m.key}
                      IN  m.sent <=>
                            stale = {} /\ ToSet(o.additional) \ o.excluded \subseteq m.headers
    BY DEF FailsForever
  <1>0. PICK m, s, before : /\ m = calls[i] /\ s = m.signer
                            /\ before = {j \in 1..(i - 1) : calls[j].signer = s}
    OBVIOUS
  <1>1. i \in Nat /\ i - 1 \in Nat /\ 1..i = (1..(i - 1)) \cup {(i - 1) + 1} /\ s \in Signers
    <2>1. i \in 1..Len(calls) /\ Len(calls) \in Nat /\ m \in CallType
      BY <1>0, LenProperties, ElementOfSeq DEF SignInv, SignersTyped
    <2> QED BY <1>0, <2>1 DEF CallType
  <1>2. CallsUpTo(i) = before \cup {(i - 1) + 1} /\ before \in SUBSET (1..(i - 1))
    BY <1>0, <1>1 DEF CallsUpTo
  <1>3. Adders(s, CallsUpTo(i)) =
          Adders(s, before) \cup (IF Adds(s, before) THEN {(i - 1) + 1} ELSE {})
    <2>1. PICK n \in Nat : n = i - 1
      BY <1>1
    <2>2. s \in Signers /\ before \in SUBSET (1..n)
      BY <1>1, <1>2, <2>1
    <2>3. Adders(s, before \cup {n + 1}) =
            Adders(s, before) \cup (IF Adds(s, before) THEN {n + 1} ELSE {})
      BY <2>2, AddersNext
    <2> QED BY <1>2, <2>1, <2>3
  <1>4. (i - 1) + 1 = i /\ calls[i].key = m.key
    BY <1>0, <1>1
  <1>5. (\A j \in Adders(s, CallsUpTo(i)) : calls[j].key = m.key)
          <=> {j \in Adders(s, before) : calls[j].key # m.key} = {}
    BY <1>3, <1>4
  <1>6. m.sent <=> /\ \A j \in Adders(s, CallsUpTo(i)) : calls[j].key = m.key
                   /\ ToSet(SignerOptions[s].additional) \ Excluded(s) \subseteq m.headers
    BY <1>0, SentMeans
  <1> QED BY <1>0, <1>5, <1>6 DEF Adders, Excluded

LEMMA WholeAre == SignInv => SignedMessagesAreWhole
  <1> SUFFICES ASSUME SignInv, NEW i \in DOMAIN calls, calls[i].sent
               PROVE  LET m == calls[i]
                          o == SignerOptions[m.signer]
                          time == IF o.timestamp THEN {"Timestamp"} ELSE {}
                          due == {Body(m.key)}
                                   \cup {Node(n) : n \in ToSet(o.additional) \cup time}
                      IN  /\ {ref \in due : ref.name \notin o.excluded} \subseteq ToSet(m.refs)
                          /\ ToSet(m.refs) \subseteq due
                          /\ IsInjective(m.refs)
    BY DEF SignedMessagesAreWhole
  <1>0. PICK m, s, of : m = calls[i] /\ s = m.signer /\ of = CallsUpTo(i)
    OBVIOUS
  <1> DEFINE o == SignerOptions[s]
             named == ToSet(o.additional) \cup (IF o.timestamp THEN {"Timestamp"} ELSE {})
  <1>1. i \in of /\ of \in SUBSET Nat /\ s \in Signers
    <2>1. i \in 1..Len(calls) /\ Len(calls) \in Nat /\ m \in CallType
      BY <1>0, LenProperties, ElementOfSeq DEF SignInv, SignersTyped
    <2> QED BY <1>0, <2>1 DEF CallsUpTo, CallType
  <1>2. /\ ToSet(m.refs) = {Body(calls[j].key) : j \in Adders(s, of)} \cup Names(s)
        /\ IsInjective(m.refs)
    BY <1>0 DEF SignInv, Recorded, After
  <1>3. \A j \in Adders(s, of) : calls[j].key = m.key
    BY <1>0, SentMeans
  <1>4. Adders(s, of) = {} => "Body" \in Excluded(s)
    BY <1>1 DEF Adders
  <1>5. Names(s) = {Node(n) : n \in named \ o.excluded}
    BY DEF Names, Excluded
  <1> HIDE DEF named
  <1>6. ToSet(m.refs) \subseteq {Body(m.key)} \cup {Node(n) : n \in named}
    BY <1>2, <1>3, <1>5
  <1>7. ASSUME NEW ref \in {Body(m.key)} \cup {Node(n) : n \in named}, ref.name \notin o.excluded
        PROVE  ref \in ToSet(m.refs)
    <2>1. CASE ref = Body(m.key)
      <3>1. ref.name = "Body"
        BY <2>1 DEF Body
      <3>2. PICK j \in Adders(s, of) : calls[j].key = m.key
        BY <1>3, <1>4, <1>7, <3>1 DEF Excluded
      <3> QED BY <1>2, <2>1, <3>2
    <2>2. CASE ref # Body(m.key)
      <3>1. PICK n \in named : ref = Node(n)
        BY <1>7, <2>2
      <3>2. ref.name = n
        BY <3>1 DEF Node
      <3> QED BY <1>2, <1>5, <1>7, <3>1, <3>2
    <2> QED BY <2>1, <2>2
  <1> QED BY <1>0, <1>2, <1>6, <1>7 DEF named

\* A signer signs of a message the message's own Body, the additional headers and the
\* Timestamp, each at most once and none left out but what is excluded, whatever messages it
\* signed before and whichever clients share it (src/security/WSSecurityCert.ts:150).
THEOREM SignedWholly == Spec => []SignedMessagesAreWhole
  <1>1. FullInv => SignedMessagesAreWhole
    BY WholeAre DEF FullInv
  <1> QED BY <1>1, FullInvariance, PTL

\* A signer that added a Body in one envelope key signs no message in another, ever after
\* (src/security/WSSecurityCert.ts:199); one that has its headers and no such Body it signs.
THEOREM SignersFailForever == Spec => []FailsForever
  <1>1. FullInv => FailsForever
    BY FailsAre DEF FullInv
  <1> QED BY <1>1, FullInvariance, PTL
=============================================================================
