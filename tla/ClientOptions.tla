---------------------------- MODULE ClientOptions ----------------------------
(***************************************************************************)
(* Clients of one WSDL document (src/soap.ts, createClient; src/client.ts,  *)
(* Client._initializeOptions; src/wsdl/index.ts, WSDL._initializeOptions),  *)
(* and the security objects they sign with.  A client writes its options on *)
(* the WSDL object, and those made from the cache have that object in       *)
(* common: who shares it depends on when the first load ends.               *)
(*                                                                          *)
(* Of the options there is one of each kind: valueKey stands for those that *)
(* the WSDL takes from the call that loads it, envelopeKey for those that   *)
(* every client sets, overrideElementKey for those a client sets only if it *)
(* has them.  Loads that fail are in WsdlLoader, requests in SoapClient.    *)
(***************************************************************************)
EXTENDS WSSecurityCert

CONSTANTS
    Clients, Values, Headers,
    None,       \* an option that is not given, no client, no security object
    Given,      \* the options createClient is called with
    SoapKey,    \* the default of envelopeKey
    MaxCalls    \* bound: the methods called

GivenType ==
    [valueKey : Values \cup {None}, envelopeKey : Keys \cup {None},
     overrideElementKey : Values \cup {None},
     ignoredNamespaces : {None} \cup [override : BOOLEAN, namespaces : SUBSET Values],
     disableCache : BOOLEAN]

ASSUME OptionsAssumption ==
    /\ Given \subseteq GivenType /\ SoapKey \in Keys /\ MaxCalls \in Nat
    /\ None \notin Keys \cup Values \cup Clients \cup Signers /\ NoKey \notin Keys
    /\ {"Body", "Timestamp", "[[bodyXpath]]"} \cap Headers = {}
    /\ SignerOptions \in [Signers -> OptionsType(Headers)]

VARIABLES
    cached,     \* cache.get(url): an index in wsdls, 0 for none
    wsdls,      \* the options of the WSDL objects, in the order their loads ended
    clients,    \* [Clients -> the call of createClient and the client]
    made,       \* history: the clients in the order they were made
    signers,    \* [Signers -> signer.references]
    calls       \* history: the messages the clients built, in order

vars == <<cached, wsdls, clients, made, signers, calls>>

NewClient == [stage |-> "none", given |-> None, wsdl |-> 0, security |-> None]

Init ==
    /\ cached = 0 /\ wsdls = <<>>
    /\ clients = [c \in Clients |-> NewClient] /\ made = <<>>
    /\ signers = [s \in Signers |-> NewReferences(s)] /\ calls = <<>>

Or(option, default) == IF option = None THEN default ELSE option

\* Those ignored when there are no options: tns, targetNamespace and typedNamespace.
DefaultNamespaces == {"tns"}

IgnoredByWsdl(given) ==
    LET ig == given.ignoredNamespaces
    IN  IF ig = None THEN DefaultNamespaces
        ELSE IF ig.override THEN ig.namespaces ELSE DefaultNamespaces \cup ig.namespaces

\* WSDL._initializeOptions
WsdlOptions(given) ==
    [valueKey |-> given.valueKey, envelopeKey |-> None,
     overrideElementKey |-> given.overrideElementKey,
     ignoredNamespaces |-> IgnoredByWsdl(given)]

\* Mutant: an option that is not given is reset, too.
ClientResets(options, given) ==
    [options EXCEPT !.envelopeKey = Or(given.envelopeKey, SoapKey),
                    !.overrideElementKey = given.overrideElementKey,
                    !.ignoredNamespaces = IgnoredByWsdl(given)]

\* Client._initializeOptions: only namespaces that override are taken.
InitializeOptions(options, given) ==
    [options EXCEPT
        !.envelopeKey = Or(given.envelopeKey, SoapKey),
        !.overrideElementKey = Or(given.overrideElementKey, @),
        !.ignoredNamespaces = IF given.ignoredNamespaces # None /\ given.ignoredNamespaces.override
                              THEN given.ignoredNamespaces.namespaces ELSE @]

\* createClient, up to the return of cache.has.
CreateClient(c, given) ==
    /\ clients[c].stage = "none"
    /\ clients' = [clients EXCEPT ![c].given = given,
                       ![c].stage = IF given.disableCache \/ cached = 0 THEN "loading" ELSE "hit"]
    /\ UNCHANGED <<cached, wsdls, made, signers, calls>>

\* new Client: c gets the w-th WSDL.
NewClientOf(c, w) ==
    /\ clients' = [clients EXCEPT ![c].stage = "made", ![c].wsdl = w]
    /\ made' = Append(made, c)
    /\ UNCHANGED <<signers, calls>>

\* Mutant: what was loaded is stored whatever disableCache says.
StoreAlways(c) == cached' = Len(wsdls) + 1

\* cache.set, unless disableCache.
Store(c) == cached' = IF clients[c].given.disableCache THEN cached ELSE Len(wsdls) + 1

\* The load of c ends: others that were asked meanwhile have loads, and objects, of their own.
Loaded(c) ==
    /\ clients[c].stage = "loading"
    /\ LET given == clients[c].given
       IN  wsdls' = Append(wsdls, InitializeOptions(WsdlOptions(given), given))
    /\ Store(c)
    /\ NewClientOf(c, Len(wsdls) + 1)

\* cache.get, one tick later.
Hit(c) ==
    /\ clients[c].stage = "hit"
    /\ wsdls' = [wsdls EXCEPT ![cached] = InitializeOptions(@, clients[c].given)]
    /\ NewClientOf(c, cached)
    /\ UNCHANGED cached

\* bound: once for each client.
SetSecurity(c, s) ==
    /\ clients[c].stage = "made" /\ clients[c].security = None
    /\ clients' = [clients EXCEPT ![c].security = s]
    /\ UNCHANGED <<cached, wsdls, made, signers, calls>>

KeyOf(c) == wsdls[clients[c].wsdl].envelopeKey

\* Client._invoke up to the request, of a client that signs: the message is built and signed
\* with the options of this moment, or the exception of the signer reaches the caller.
Invoke(c, headers) ==
    /\ clients[c].stage = "made" /\ clients[c].security # None /\ Len(calls) < MaxCalls
    /\ LET s == clients[c].security
           refs == References(s, signers[s], KeyOf(c))
       IN  /\ signers' = [signers EXCEPT ![s] = refs]
           /\ calls' = Append(calls, [signer |-> s, key |-> KeyOf(c), headers |-> headers,
                                      refs |-> refs, sent |-> Signable(refs, KeyOf(c), headers)])
    /\ UNCHANGED <<cached, wsdls, clients, made>>

Next ==
    \E c \in Clients :
        \/ \E given \in Given : CreateClient(c, given)
        \/ Loaded(c)
        \/ Hit(c)
        \/ \E s \in Signers : SetSecurity(c, s)
        \/ \E headers \in SUBSET Headers : Invoke(c, headers)

Spec == Init /\ [][Next]_vars

----------------------------------------------------------------------------
(* Properties. *)

ClientsOf(w) == {i \in DOMAIN made : clients[made[i]].wsdl = w}

GivenBy(i) == clients[made[i]].given

\* The clients of w that have an overrideElementKey, and those whose namespaces override.
Naming(w) == {i \in ClientsOf(w) : GivenBy(i).overrideElementKey # None}
Ignoring(w) ==
    {i \in ClientsOf(w) : /\ GivenBy(i).ignoredNamespaces # None
                          /\ GivenBy(i).ignoredNamespaces.override}

\* Who decides about an option of clients that share a WSDL: of some the client that loaded
\* it, whatever the others give; of some the client made last, also when it gives none; of
\* some the last client that gave one.
WhoDecides ==
    \A w \in DOMAIN wsdls :
        LET loader == GivenBy(Min(ClientsOf(w)))
        IN  /\ ClientsOf(w) # {}
            /\ wsdls[w].valueKey = loader.valueKey
            /\ wsdls[w].envelopeKey = Or(GivenBy(Max(ClientsOf(w))).envelopeKey, SoapKey)
            /\ wsdls[w].overrideElementKey =
                  IF Naming(w) = {} THEN None ELSE GivenBy(Max(Naming(w))).overrideElementKey
            /\ wsdls[w].ignoredNamespaces =
                  IF Ignoring(w) = {} THEN IgnoredByWsdl(loader)
                  ELSE GivenBy(Max(Ignoring(w))).ignoredNamespaces.namespaces

\* A client with disableCache has a WSDL of its own: no other client is ever given it, so
\* that it keeps its options.
PrivateWsdlStands ==
    \A c, d \in Clients :
        /\ c # d /\ clients[c].stage = "made" /\ clients[c].given.disableCache
        => clients[d].wsdl # clients[c].wsdl

\* What a signer signs of a message is of that message: its Body, the additional headers
\* and the Timestamp, each at most once and none left out but what is excluded, however
\* many messages of whatever clients it signed before.
SignedMessagesAreWhole ==
    \A i \in DOMAIN calls :
        LET m == calls[i]
            o == SignerOptions[m.signer]
            time == IF o.timestamp THEN {"Timestamp"} ELSE {}
            due == {Body(m.key)} \cup {Node(n) : n \in ToSet(o.additional) \cup time}
        IN  m.sent => /\ {ref \in due : ref.name \notin o.excluded} \subseteq ToSet(m.refs)
                      /\ ToSet(m.refs) \subseteq due
                      /\ IsInjective(m.refs)

\* Readme, "excludeReferencesFromSigning": the elements it names are not signed.
ExcludedIsNotSigned ==
    \A i \in DOMAIN calls : \A ref \in ToSet(calls[i].refs) :
        calls[i].sent => ref.name \notin SignerOptions[calls[i].signer].excluded

\* A message is not signed if it lacks a header that has to be, and for ever if the signer
\* has signed, or tried to sign, a Body in another envelope key.
FailsForever ==
    \A i \in DOMAIN calls :
        LET m == calls[i]
            o == SignerOptions[m.signer]
            before == {j \in 1..(i - 1) : calls[j].signer = m.signer}
            named == IF "Body" \notin o.excluded THEN before
                     ELSE {j \in before : o.sha256 /\ \A k \in before : j <= k}
            stale == {j \in named : calls[j].key # m.key}
        IN  m.sent <=> stale = {} /\ ToSet(o.additional) \ o.excluded \subseteq m.headers
=============================================================================
