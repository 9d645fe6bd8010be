--------------------------- MODULE NamespaceContext ---------------------------
(***************************************************************************)
(* The namespace context that objectToXML carries (src/nscontext.ts): a     *)
(* stack of scopes, each binding prefixes to namespaces in the order in     *)
(* which JavaScript's for..in visits them.  A mapping is `declared` once an *)
(* xmlns attribute is to be written for it, and only known before.          *)
(*                                                                          *)
(* The operators take a context and return what a method leaves of it.      *)
(* The prefixes "xml" and "xmlns", which no scope has to bind, are not in   *)
(* Prefix.                                                                  *)
(***************************************************************************)
EXTENDS Integers, SequencesExt

CONSTANTS
    Prefix,      \* of the WSDL, of its schemas, and generated ones
    Uri,         \* namespaces
    Generated,   \* the prefixes "ns1", "ns2", ...; as many as a run may need
    NoUri

ASSUME PrefixAssumption == Generated \in Seq(Prefix) /\ NoUri \notin Uri

Mapping == [prefix : Prefix, uri : Uri, declared : BOOLEAN]
NoPrefix == ""
NoMapping == [prefix |-> NoPrefix, uri |-> NoUri, declared |-> FALSE]
Context == [scopes : Seq(Seq(Mapping)), prefixCount : Nat]

\* new NamespaceContext(), pushContext, popContext.
NewContext == [scopes |-> << <<>> >>, prefixCount |-> 0]
PushContext(ctx) == [ctx EXCEPT !.scopes = Append(@, <<>>)]
PopContext(ctx) == [ctx EXCEPT !.scopes = Front(@)]

\* The innermost mapping of a prefix.
NamespaceMapping(ctx, prefix) ==
    LET binding == {i \in DOMAIN ctx.scopes : \E m \in ToSet(ctx.scopes[i]) : m.prefix = prefix}
    IN  IF binding = {} THEN NoMapping
        ELSE CHOOSE m \in ToSet(ctx.scopes[Max(binding)]) : m.prefix = prefix

NamespaceURI(ctx, prefix) == NamespaceMapping(ctx, prefix).uri

\* The first prefix of the innermost scope that has one for the namespace, whether or not a
\* scope further in has given the prefix another meaning; NoPrefix for none.
PrefixOf(ctx, uri) ==
    LET having == {i \in DOMAIN ctx.scopes : \E m \in ToSet(ctx.scopes[i]) : m.uri = uri}
        scope == ctx.scopes[Max(having)]
    IN  IF having = {} THEN NoPrefix
        ELSE scope[SelectInSeq(scope, LAMBDA m : m.uri = uri)].prefix

\* this.currentScope.namespaces[prefix] = mapping: a prefix keeps its place.
Bind(ctx, prefix, uri, declared) ==
    LET m     == [prefix |-> prefix, uri |-> uri, declared |-> declared]
        scope == Last(ctx.scopes)
        at    == SelectInSeq(scope, LAMBDA n : n.prefix = prefix)
        bound == IF at = 0 THEN Append(scope, m) ELSE [scope EXCEPT ![at] = m]
    IN  [ctx EXCEPT !.scopes[Len(ctx.scopes)] = bound]

\* Mutant: the mapping passes for one that is written out.
AddNamespaceDeclared(ctx, prefix, uri) ==
    IF NamespaceURI(ctx, prefix) = uri THEN ctx ELSE Bind(ctx, prefix, uri, TRUE)

AddNamespace(ctx, prefix, uri) ==
    IF NamespaceURI(ctx, prefix) = uri THEN ctx ELSE Bind(ctx, prefix, uri, FALSE)

Unused(ctx) ==
    {n \in DOMAIN Generated : n > ctx.prefixCount /\ NamespaceURI(ctx, Generated[n]) = NoUri}

\* The loop of registerNamespace.
NextPrefix(ctx) == Min(Unused(ctx))

CanRegister(ctx, uri) == PrefixOf(ctx, uri) # NoPrefix \/ Unused(ctx) # {}

\* registerNamespace: the prefix, and the context it leaves.
RegisteredPrefix(ctx, uri) ==
    IF PrefixOf(ctx, uri) # NoPrefix THEN PrefixOf(ctx, uri) ELSE Generated[NextPrefix(ctx)]

RegisterNamespace(ctx, uri) ==
    IF PrefixOf(ctx, uri) # NoPrefix THEN ctx
    ELSE Bind([ctx EXCEPT !.prefixCount = NextPrefix(ctx)], Generated[NextPrefix(ctx)], uri, FALSE)

\* declareNamespace: whether a declaration is to be written, and the context it leaves.
Declares(ctx, prefix, uri) ==
    LET m == NamespaceMapping(ctx, prefix) IN ~(m.uri = uri /\ m.declared)

DeclareNamespace(ctx, prefix, uri) ==
    IF Declares(ctx, prefix, uri) THEN Bind(ctx, prefix, uri, TRUE) ELSE ctx
=============================================================================
