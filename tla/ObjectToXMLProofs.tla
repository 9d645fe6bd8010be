-------------------------- MODULE ObjectToXMLProofs --------------------------
(***************************************************************************)
(* Theorems about ObjectToXML, for every set of schemas and every object.   *)
(*                                                                          *)
(* The operators of NamespaceContext rebind prefixes in the innermost       *)
(* scope and leave the number of scopes alone; only Enter opens one and     *)
(* only the two returns close one.                                          *)
(*                                                                          *)
(* The parts: sequences and the balance of scopes and frames; what the      *)
(* operators of NamespaceContext find and bind; the types; and, from        *)
(* OneEach on, what prefixes mean: what the scopes take to be declared the  *)
(* tags of the open elements show, or their account of what is lacking has  *)
(* it (AllSound), which each step of the code preserves; and so every       *)
(* prefix resolves or has its declaration left out.                         *)
(***************************************************************************)
EXTENDS ObjectToXML, FoldTheorems

IsSequence(s) == s \in Seq(ToSet(s))

IsContext(c) ==
    /\ c = [scopes |-> c.scopes, prefixCount |-> c.prefixCount]
    /\ IsSequence(c.scopes)

\* d is a context with as many scopes as c.
SameDepth(c, d) == IsContext(d) /\ Len(d.scopes) = Len(c.scopes)

\* The inductive invariant.
Balanced ==
    /\ IsSequence(frames)
    /\ IsContext(ctx)
    /\ ScopesMatchFrames

-----------------------------------------------------------------------------
(* Sequences, whatever their elements. *)

\* A sequence over any set is one over its own elements.
LEMMA SequenceOfItsElements ==
    ASSUME NEW S, NEW s \in Seq(S)
    PROVE  IsSequence(s)
  <1>1. s \in [1..Len(s) -> ToSet(s)]
    BY DEF ToSet
  <1> QED  BY <1>1 DEF IsSequence

\* Append, as pushContext and the recursive call use it.
LEMMA AppendSequence ==
    ASSUME NEW s, NEW e, IsSequence(s)
    PROVE  IsSequence(Append(s, e)) /\ Len(Append(s, e)) = Len(s) + 1
  <1> DEFINE S == ToSet(s) \cup {e}
  <1>1. s \in Seq(S) /\ e \in S
    BY DEF IsSequence
  <1> HIDE DEF S
  <1>2. Append(s, e) \in Seq(S) /\ Len(Append(s, e)) = Len(s) + 1
    BY <1>1, AppendProperties
  <1> QED  BY <1>2, SequenceOfItsElements

\* Front, as popContext and the return use it.
LEMMA FrontSequence ==
    ASSUME NEW s, IsSequence(s), s # <<>>
    PROVE  IsSequence(Front(s)) /\ Len(Front(s)) = Len(s) - 1
  <1> DEFINE S == ToSet(s)
  <1>1. s \in Seq(S)
    BY DEF IsSequence
  <1> HIDE DEF S
  <1>2. Len(s) \in Nat /\ Len(s) >= 1
    BY <1>1
  <1>3. \A i \in 1..(Len(s) - 1) : s[i] \in S
    BY <1>1
  <1> DEFINE n == Len(s) - 1
  <1>4. n \in Int /\ (IF 1 <= n THEN n - 1 + 1 ELSE 0) = n
    <2>1. n \in Nat
      BY <1>2
    <2> HIDE DEF n
    <2> QED  BY <2>1
  <1>5. SubSeq(s, 1, n) \in Seq(S) /\ Len(SubSeq(s, 1, n)) = IF 1 <= n THEN n - 1 + 1 ELSE 0
    <2> HIDE DEF n
    <2> QED  BY <1>3, <1>4, SubSeqProperties DEF n
  <1>6. Front(s) \in Seq(S) /\ Len(Front(s)) = Len(s) - 1
    BY <1>4, <1>5 DEF Front
  <1> QED  BY <1>6, SequenceOfItsElements

\* Replacing an element.
LEMMA ExceptSequence ==
    ASSUME NEW s, NEW i, NEW e, IsSequence(s)
    PROVE  /\ IsSequence([s EXCEPT ![i] = e])
           /\ Len([s EXCEPT ![i] = e]) = Len(s)
  <1> DEFINE S == ToSet(s) \cup {e}
  <1>1. s \in Seq(S) /\ e \in S
    BY DEF IsSequence
  <1> HIDE DEF S
  <1>2. /\ [s EXCEPT ![i] = e] \in Seq(S)
        /\ Len([s EXCEPT ![i] = e]) = Len(s)
    <2>1. CASE i \in 1..Len(s)
      BY <1>1, <2>1, ExceptSeq
    <2>2. CASE i \notin 1..Len(s)
      <3>1. [s EXCEPT ![i] = e] = s
        BY <1>1, <2>2
      <3> QED  BY <1>1, <3>1
    <2> QED  BY <2>1, <2>2
  <1> QED  BY <1>2, SequenceOfItsElements

-----------------------------------------------------------------------------
(* The context. *)

\* A prefix is bound in the innermost scope.
LEMMA BindKeepsDepth ==
    ASSUME NEW c, NEW prefix, NEW uri, NEW declared, IsContext(c)
    PROVE  SameDepth(c, Bind(c, prefix, uri, declared))
  <1>1. PICK bound : Bind(c, prefix, uri, declared) =
                       [c EXCEPT !.scopes[Len(c.scopes)] = bound]
    BY DEF Bind
  <1> DEFINE t == [c.scopes EXCEPT ![Len(c.scopes)] = bound]
  <1>2. IsSequence(t) /\ Len(t) = Len(c.scopes)
    BY ExceptSequence DEF IsContext
  <1>3. [c EXCEPT !.scopes[Len(c.scopes)] = bound] = [scopes |-> t, prefixCount |-> c.prefixCount]
    BY DEF IsContext
  <1> HIDE DEF t
  <1> QED  BY <1>1, <1>2, <1>3 DEF SameDepth, IsContext

\* registerNamespace, declareNamespace and addNamespace.
LEMMA ContextKeepsDepth ==
    ASSUME NEW c, NEW prefix, NEW uri, IsContext(c)
    PROVE  /\ SameDepth(c, RegisterNamespace(c, uri))
           /\ SameDepth(c, DeclareNamespace(c, prefix, uri))
           /\ SameDepth(c, AddNamespace(c, prefix, uri))
  <1>1. SameDepth(c, c)
    BY DEF SameDepth
  <1>2. SameDepth(c, RegisterNamespace(c, uri))
    <2> DEFINE d == [c EXCEPT !.prefixCount = NextPrefix(c)]
    <2>1. IsContext(d) /\ d.scopes = c.scopes
      BY DEF IsContext
    <2> HIDE DEF d
    <2>2. SameDepth(d, Bind(d, Generated[NextPrefix(c)], uri, FALSE))
      BY <2>1, BindKeepsDepth
    <2>3. SameDepth(c, Bind(d, Generated[NextPrefix(c)], uri, FALSE))
      BY <2>1, <2>2 DEF SameDepth
    <2> QED  BY <1>1, <2>3 DEF RegisterNamespace, d
  <1>3. SameDepth(c, DeclareNamespace(c, prefix, uri))
    BY <1>1, BindKeepsDepth DEF DeclareNamespace
  <1>4. SameDepth(c, AddNamespace(c, prefix, uri))
    BY <1>1, BindKeepsDepth DEF AddNamespace
  <1> QED  BY <1>2, <1>3, <1>4

\* What is done to the context for the attributes, the prefix and the type of a child.
LEMMA ChildKeepsDepth ==
    ASSUME NEW f, NEW e, NEW prefix, NEW uri, NEW c, IsContext(c)
    PROVE  /\ SameDepth(c, RegisteredContext(e, c))
           /\ SameDepth(c, DeclaredContext(prefix, uri, c))
           /\ SameDepth(c, TypeContext(f, e, c))
  <1>1. SameDepth(c, c)
    BY DEF SameDepth
  <1> QED  BY <1>1, ContextKeepsDepth DEF RegisteredContext, DeclaredContext, TypeContext

-----------------------------------------------------------------------------
(* The actions. *)

\* A recursive call opens one scope for one activation.
LEMMA EnterBalances ==
    ASSUME NEW f, NEW g, NEW c, Balanced, SameDepth(ctx, c), Enter(f, g, c)
    PROVE  Balanced'
  <1> DEFINE outer == [frames EXCEPT ![Len(frames)] = f]
  <1>1. IsSequence(outer) /\ Len(outer) = Len(frames)
    BY ExceptSequence DEF Balanced
  <1>2. IsSequence(frames') /\ Len(frames') = Len(frames) + 1
    <2>1. frames' = Append(outer, g)
      BY DEF Enter
    <2> HIDE DEF outer
    <2> QED  BY <1>1, <2>1, AppendSequence
  <1> DEFINE s == Append(c.scopes, <<>>)
  <1>3. IsSequence(s) /\ Len(s) = Len(ctx.scopes) + 1
    BY AppendSequence DEF SameDepth, IsContext
  <1>4. ctx' = [scopes |-> s, prefixCount |-> c.prefixCount]
    BY DEF Enter, PushContext, SameDepth, IsContext
  <1> HIDE DEF s
  <1>5. IsContext(ctx') /\ Len(ctx'.scopes) = Len(frames')
    BY <1>2, <1>3, <1>4 DEF IsContext, Balanced, ScopesMatchFrames
  <1> QED  BY <1>2, <1>5 DEF Balanced, ScopesMatchFrames

\* A return closes one.
LEMMA ReturnBalances ==
    ASSUME Balanced, frames # <<>>, frames' = Front(frames), ctx' = PopContext(ctx)
    PROVE  Balanced'
  <1>1. IsSequence(frames') /\ Len(frames') = Len(frames) - 1
    BY FrontSequence DEF Balanced
  <1>2. ctx.scopes # <<>>
    BY DEF Balanced, ScopesMatchFrames, IsSequence
  <1> DEFINE s == Front(ctx.scopes)
  <1>3. IsSequence(s) /\ Len(s) = Len(ctx.scopes) - 1
    BY <1>2, FrontSequence DEF Balanced, IsContext
  <1>4. ctx' = [scopes |-> s, prefixCount |-> ctx.prefixCount]
    BY DEF PopContext, Balanced, IsContext
  <1> HIDE DEF s
  <1>5. IsContext(ctx') /\ Len(ctx'.scopes) = Len(frames')
    BY <1>1, <1>3, <1>4 DEF IsContext, Balanced, ScopesMatchFrames
  <1> QED  BY <1>1, <1>5 DEF Balanced, ScopesMatchFrames

\* The context the attributes of a child leave.
LEMMA AttributesKeepDepth ==
    ASSUME NEW xsi, Balanced
    PROVE  SameDepth(ctx, AttributesContext(xsi))
  <1>1. IsContext(ctx) /\ SameDepth(ctx, ctx)
    BY DEF Balanced, SameDepth
  <1> QED  BY <1>1, ContextKeepsDepth DEF AttributesContext

\* Every property of an object, known to the schema or not.
LEMMA PropertyBalances ==
    ASSUME NEW kind, NEW xsi, Balanced, Property(kind, xsi)
    PROVE  Balanced'
  <1> DEFINE x == Attributes(xsi)
             c == AttributesContext(xsi)
             f == Carrying(Top, xsi)
  <1>1. SameDepth(ctx, c)
    BY AttributesKeepDepth
  <1>2. PropertyOf(f, kind, x, c)
    BY DEF Property
  <1> HIDE DEF x, c, f
  <1>3. CASE MessageElement(f, kind, x, c)
    <2>1. PICK f1, g1 : Enter(f1, g1, c)
      BY <1>3 DEF MessageElement
    <2> QED  BY <1>1, <2>1, EnterBalances
  <1>4. CASE OtherElement(f, kind, x, c)
    <2>1. PICK f1, g1, d : Enter(f1, g1, d) /\ d \in {AddNamespace(c, f.xsi.prefix, f.xsi.uri), c}
      BY <1>4 DEF OtherElement
    <2>2. SameDepth(ctx, d)
      BY <1>1, <2>1, ContextKeepsDepth DEF SameDepth
    <2> QED  BY <2>1, <2>2, EnterBalances
  <1>5. ASSUME NEW e, SchemaElement(f, e, kind, x, c)
        PROVE  Balanced'
    <2>1. PICK prefix, uri : EnterElement(f, e, kind, x, prefix, uri, RegisteredContext(e, c))
      BY <1>5 DEF SchemaElement
    <2> DEFINE d1 == RegisteredContext(e, c)
               d2 == DeclaredContext(prefix, uri, d1)
               d3 == TypeContext(f, e, d2)
    <2>2. PICK f1, g1 : Enter(f1, g1, d3)
      BY <2>1 DEF EnterElement
    <2>3. SameDepth(ctx, d1)
      BY <1>1, ChildKeepsDepth DEF SameDepth
    <2>4. SameDepth(ctx, d2)
      <3> HIDE DEF d1
      <3> QED  BY <2>3, ChildKeepsDepth DEF SameDepth
    <2>5. SameDepth(ctx, d3)
      <3> HIDE DEF d2
      <3> QED  BY <2>4, ChildKeepsDepth DEF SameDepth
    <2> QED  BY <2>2, <2>5, EnterBalances
  <1> QED  BY <1>2, <1>3, <1>4, <1>5 DEF PropertyOf

\* Every item of an array.
LEMMA ItemBalances ==
    ASSUME NEW xsi, Balanced, Item(xsi)
    PROVE  Balanced'
  <1>1. PICK f, g : Enter(f, g, AttributesContext(xsi))
    BY DEF Item, ItemOf
  <1> QED  BY <1>1, AttributesKeepDepth, EnterBalances

\* The first activation declares the prefix of the message in the scope it opens.
LEMMA BeginBalances ==
    ASSUME NEW root, NEW typed, Begin(root, typed)
    PROVE  Balanced'
  <1>1. IsContext(NewContext) /\ Len(NewContext.scopes) = 1
    BY SequenceOfItsElements, << <<>> >> \in Seq({<<>>}) DEF NewContext, IsContext
  <1>2. SameDepth(NewContext, ctx')
    BY <1>1, ContextKeepsDepth DEF Begin
  <1>3. PICK g : frames' = <<g>>
    BY DEF Begin
  <1>4. IsSequence(frames') /\ Len(frames') = 1
    BY <1>3, SequenceOfItsElements, <<g>> \in Seq({g})
  <1> QED  BY <1>1, <1>2, <1>4 DEF SameDepth, Balanced, ScopesMatchFrames

-----------------------------------------------------------------------------
LEMMA InitBalanced == Init => Balanced
  <1> SUFFICES ASSUME Init PROVE Balanced
    OBVIOUS
  <1>1. IsSequence(<<>>)
    BY SequenceOfItsElements, <<>> \in Seq({})
  <1>2. ctx = [scopes |-> <<>>, prefixCount |-> 0]
    BY DEF Init, NewContext
  <1> QED  BY <1>1, <1>2 DEF Init, Balanced, IsContext, ScopesMatchFrames

LEMMA NextBalanced == Balanced /\ [Next]_vars => Balanced'
  <1> SUFFICES ASSUME Balanced, [Next]_vars PROVE Balanced'
    OBVIOUS
  <1>1. ASSUME NEW root \in Roots, NEW typed \in BOOLEAN, Begin(root, typed)
        PROVE  Balanced'
    BY <1>1, BeginBalances
  <1>2. ASSUME NEW kind \in {"object", "array"}, NEW xsi \in XsiTypes \cup {NoXsi},
               Property(kind, xsi)
        PROVE  Balanced'
    BY <1>2, PropertyBalances
  <1>3. ASSUME NEW xsi \in XsiTypes \cup {NoXsi}, Item(xsi)
        PROVE  Balanced'
    BY <1>3, ItemBalances
  <1>4. CASE Return
    BY <1>4, ReturnBalances DEF Return
  <1>5. CASE ReturnRaw
    BY <1>5, ReturnBalances DEF ReturnRaw
  <1>6. CASE UNCHANGED vars
    BY <1>6 DEF vars, Balanced, ScopesMatchFrames
  <1> QED  BY <1>1, <1>2, <1>3, <1>4, <1>5, <1>6 DEF Next

\* Whatever the schemas and the object, objectToXML has as many scopes open as activations:
\* each of its ways out closes what its start opened (index.ts:723, 810, 816, 986).
THEOREM ScopesAreClosed == Spec => []ScopesMatchFrames
  <1>1. Balanced => ScopesMatchFrames
    BY DEF Balanced
  <1> QED  BY InitBalanced, NextBalanced, <1>1, PTL DEF Spec

-----------------------------------------------------------------------------
(* What the operators of NamespaceContext find and bind. *)

\* The i-th scope of a context, and the mappings in it.
LEMMA ContextIs ==
    ASSUME NEW c \in Context
    PROVE  /\ c = [scopes |-> c.scopes, prefixCount |-> c.prefixCount]
           /\ c.prefixCount \in Nat
           /\ c.scopes \in Seq(Seq(Mapping))
           /\ Len(c.scopes) \in Nat /\ DOMAIN c.scopes = 1..Len(c.scopes)
           /\ \A j \in 1..Len(c.scopes) : c.scopes[j] \in Seq(Mapping)
  BY DEF Context

\* A sequence and the set of its elements.
LEMMA SequenceIs ==
    ASSUME NEW S, NEW s \in Seq(S)
    PROVE  /\ Len(s) \in Nat /\ DOMAIN s = 1..Len(s)
           /\ \A i \in 1..Len(s) : s[i] \in S /\ s[i] \in ToSet(s)
           /\ \A e \in ToSet(s) : e \in S /\ \E i \in 1..Len(s) : e = s[i]
  BY DEF ToSet

\* No scope of c has a mapping of the prefix, or one to the namespace.
Unbound(c, prefix) ==
    \A j \in 1..Len(c.scopes) : \A m \in ToSet(c.scopes[j]) : m.prefix # prefix
Unnamed(c, uri) == \A j \in 1..Len(c.scopes) : \A m \in ToSet(c.scopes[j]) : m.uri # uri

\* m is in a scope of c.
InScope(c, m) == \E j \in 1..Len(c.scopes) : m \in ToSet(c.scopes[j])

\* getNamespaceMapping returns a mapping of the prefix that is in a scope, if there is one.
LEMMA MappingIs ==
    ASSUME NEW c \in Context, NEW prefix
    PROVE  LET m == NamespaceMapping(c, prefix)
           IN  \/ Unbound(c, prefix) /\ m = NoMapping
               \/ InScope(c, m) /\ m.prefix = prefix /\ m \in Mapping
  <1> DEFINE n == Len(c.scopes)
             binding == {i \in DOMAIN c.scopes : \E m \in ToSet(c.scopes[i]) : m.prefix = prefix}
  <1>1. n \in Nat /\ binding \in SUBSET (1..n)
    BY ContextIs
  <1>2. CASE binding = {}
    <2>1. NamespaceMapping(c, prefix) = NoMapping
      BY <1>2 DEF NamespaceMapping
    <2>2. Unbound(c, prefix)
      BY <1>2, ContextIs DEF Unbound
    <2> QED BY <2>1, <2>2
  <1>3. CASE binding # {}
    <2>1. PICK j : j = Max(binding)
      OBVIOUS
    <2>2. j \in binding
      <3> HIDE DEF binding, n
      <3> QED BY <1>1, <1>3, <2>1, MaxOfNats
    <2>3. NamespaceMapping(c, prefix) = CHOOSE m \in ToSet(c.scopes[j]) : m.prefix = prefix
      BY <1>3, <2>1 DEF NamespaceMapping
    <2>4. PICK m : m = NamespaceMapping(c, prefix)
      OBVIOUS
    <2>5. m \in ToSet(c.scopes[j]) /\ m.prefix = prefix
      BY <2>2, <2>3, <2>4
    <2>6. j \in 1..n /\ c.scopes[j] \in Seq(Mapping)
      BY <1>1, <2>2, ContextIs
    <2>7. m \in Mapping
      BY <2>5, <2>6, SequenceIs
    <2> QED BY <2>4, <2>5, <2>6, <2>7 DEF InScope
  <1> QED BY <1>2, <1>3

\* getPrefix returns a prefix that a scope maps to the namespace, if there is one.
LEMMA PrefixOfIs ==
    ASSUME NEW c \in Context, NEW uri
    PROVE  \/ Unnamed(c, uri) /\ PrefixOf(c, uri) = NoPrefix
           \/ \E m \in Mapping : InScope(c, m) /\ m.uri = uri /\ PrefixOf(c, uri) = m.prefix
  <1> DEFINE n == Len(c.scopes)
             having == {i \in DOMAIN c.scopes : \E m \in ToSet(c.scopes[i]) : m.uri = uri}
  <1>1. n \in Nat /\ having \in SUBSET (1..n)
    BY ContextIs
  <1>2. CASE having = {}
    <2>1. PrefixOf(c, uri) = NoPrefix
      BY <1>2 DEF PrefixOf
    <2>2. Unnamed(c, uri)
      BY <1>2, ContextIs DEF Unnamed
    <2> QED BY <2>1, <2>2
  <1>3. CASE having # {}
    <2>1. PICK j : j = Max(having)
      OBVIOUS
    <2>2. j \in having
      <3> HIDE DEF having, n
      <3> QED BY <1>1, <1>3, <2>1, MaxOfNats
    <2>3. PICK scope : scope = c.scopes[j]
      OBVIOUS
    <2>4. j \in 1..n /\ scope \in Seq(Mapping)
      BY <1>1, <2>2, <2>3, ContextIs
    <2> DEFINE I == {i \in 1..Len(scope) : scope[i].uri = uri}
    <2>5. PrefixOf(c, uri) = scope[SelectInSeq(scope, LAMBDA m : m.uri = uri)].prefix
      BY <1>3, <2>1, <2>3 DEF PrefixOf
    <2>6. I # {} /\ I \in SUBSET Nat
      BY <2>2, <2>3, <2>4, SequenceIs
    <2>7. SelectInSeq(scope, LAMBDA m : m.uri = uri) = Min(I)
      BY <2>6 DEF SelectInSeq
    <2>8. PICK at : at = Min(I)
      OBVIOUS
    <2>9. at \in I
      <3> HIDE DEF I
      <3> QED BY <2>6, <2>8, MinOfNats
    <2>10. scope[at] \in Mapping /\ scope[at] \in ToSet(scope) /\ scope[at].uri = uri
      BY <2>4, <2>9, SequenceIs
    <2>11. PrefixOf(c, uri) = scope[at].prefix
      BY <2>5, <2>7, <2>8
    <2> QED BY <2>3, <2>4, <2>10, <2>11 DEF InScope
  <1> QED BY <1>2, <1>3

\* The scope e is the scope s with the mapping new, which takes the place of one of its prefix.
ScopeWith(s, e, new) ==
    /\ e \in Seq(Mapping)
    /\ new \in ToSet(e)
    /\ \A m \in ToSet(e) : m = new \/ m \in ToSet(s)
    /\ \A m \in ToSet(s) : m.prefix # new.prefix => m \in ToSet(e)

\* The context e is the context c with new in its innermost scope.
ContextWith(c, e, new) ==
    /\ e \in Context
    /\ Len(e.scopes) = Len(c.scopes)
    /\ \A j \in 1..(Len(c.scopes) - 1) : e.scopes[j] = c.scopes[j]
    /\ ScopeWith(c.scopes[Len(c.scopes)], e.scopes[Len(c.scopes)], new)

\* The scope that Bind leaves: a prefix keeps its place, a new one is put at the end.
Rebound(s, new) ==
    LET at == SelectInSeq(s, LAMBDA n : n.prefix = new.prefix)
    IN  IF at = 0 THEN Append(s, new) ELSE [s EXCEPT ![at] = new]

\* It differs from the one before in that mapping only.
LEMMA ScopeWithIs ==
    ASSUME NEW s \in Seq(Mapping), NEW new \in Mapping
    PROVE  ScopeWith(s, Rebound(s, new), new)
  <1> DEFINE I == {i \in 1..Len(s) : s[i].prefix = new.prefix}
  <1>1. PICK at : at = SelectInSeq(s, LAMBDA n : n.prefix = new.prefix)
    OBVIOUS
  <1>2. at = IF I # {} THEN Min(I) ELSE 0
    BY <1>1 DEF SelectInSeq
  <1>3. PICK e : e = Rebound(s, new) /\ e = IF at = 0 THEN Append(s, new) ELSE [s EXCEPT ![at] = new]
    BY <1>1 DEF Rebound
  <1>4. Len(s) \in Nat /\ DOMAIN s = 1..Len(s) /\ \A i \in 1..Len(s) : s[i] \in Mapping
    BY SequenceIs
  <1>5. CASE I = {}
    <2>1. at = 0 /\ e = Append(s, new)
      BY <1>2, <1>3, <1>5
    <2>2. /\ e \in Seq(Mapping) /\ Len(e) = Len(s) + 1 /\ e[Len(s) + 1] = new
          /\ \A i \in 1..Len(s) : e[i] = s[i]
      BY <2>1, AppendProperties
    <2>3. new \in ToSet(e)
      <3>1. Len(s) + 1 \in 1..Len(e)
        BY <1>4, <2>2
      <3> QED BY <2>2, <3>1, SequenceIs
    <2>4. \A m \in ToSet(e) : m = new \/ m \in ToSet(s)
      <3>1. ASSUME NEW i \in 1..Len(e) PROVE e[i] = new \/ e[i] \in ToSet(s)
        <4>1. i = Len(s) + 1 \/ i \in 1..Len(s)
          BY <1>4, <2>2
        <4> QED BY <2>2, <4>1, SequenceIs
      <3> QED BY <2>2, <3>1, SequenceIs
    <2>5. \A m \in ToSet(s) : m \in ToSet(e)
      <3>1. ASSUME NEW i \in 1..Len(s) PROVE s[i] \in ToSet(e)
        <4>1. i \in 1..Len(e)
          BY <1>4, <2>2
        <4> QED BY <2>2, <4>1, SequenceIs
      <3> QED BY <3>1, SequenceIs
    <2> QED BY <1>3, <2>2, <2>3, <2>4, <2>5 DEF ScopeWith
  <1>6. CASE I # {}
    <2>1. at \in I /\ at # 0
      <3>1. I \in SUBSET Nat /\ 0 \notin I
        BY <1>4
      <3>2. Min(I) \in I
        <4> HIDE DEF I
        <4> QED BY <1>6, <3>1, MinOfNats
      <3> QED BY <1>2, <1>6, <3>1, <3>2
    <2>2. e = [s EXCEPT ![at] = new]
      BY <1>3, <2>1
    <2>3. /\ e \in Seq(Mapping) /\ Len(e) = Len(s) /\ e[at] = new
          /\ \A i \in 1..Len(s) : i # at => e[i] = s[i]
      BY <1>4, <2>1, <2>2, ExceptSeq
    <2>4. new \in ToSet(e)
      BY <2>1, <2>3, SequenceIs
    <2>5. \A m \in ToSet(e) : m = new \/ m \in ToSet(s)
      <3>1. ASSUME NEW i \in 1..Len(e) PROVE e[i] = new \/ e[i] \in ToSet(s)
        BY <2>3, SequenceIs
      <3> QED BY <2>3, <3>1, SequenceIs
    <2>6. ASSUME NEW m \in ToSet(s), m.prefix # new.prefix PROVE m \in ToSet(e)
      <3>1. PICK i \in 1..Len(s) : m = s[i]
        BY SequenceIs
      <3>2. i # at
        BY <2>1, <2>6, <3>1
      <3> QED BY <2>3, <3>1, <3>2, SequenceIs
    <2> QED BY <1>3, <2>3, <2>4, <2>5, <2>6 DEF ScopeWith
  <1> QED BY <1>5, <1>6

\* Bind writes in the innermost scope, and only there.
LEMMA BindIs ==
    ASSUME NEW c \in Context, Len(c.scopes) # 0,
           NEW prefix \in Prefix, NEW uri \in Uri, NEW declared \in BOOLEAN
    PROVE  ContextWith(c, Bind(c, prefix, uri, declared),
                       [prefix |-> prefix, uri |-> uri, declared |-> declared])
  <1> DEFINE n == Len(c.scopes)
  <1>1. PICK new : new = [prefix |-> prefix, uri |-> uri, declared |-> declared]
    OBVIOUS
  <1>2. new \in Mapping /\ new.prefix = prefix
    BY <1>1 DEF Mapping
  <1>3. PICK s : s = c.scopes[n]
    OBVIOUS
  <1>4. s \in Seq(Mapping) /\ n \in Nat /\ n \in 1..n /\ Last(c.scopes) = s
    BY <1>3, ContextIs DEF Last
  <1>5. PICK e : e = Rebound(s, new)
    OBVIOUS
  <1>6. ScopeWith(s, e, new)
    BY <1>2, <1>4, <1>5, ScopeWithIs
  <1>7. Bind(c, prefix, uri, declared) = [c EXCEPT !.scopes[n] = e]
    BY <1>1, <1>2, <1>4, <1>5 DEF Bind, Rebound
  <1>8. PICK t : t = [c.scopes EXCEPT ![n] = e]
    OBVIOUS
  <1>9. e \in Seq(Mapping)
    BY <1>6 DEF ScopeWith
  <1>10. /\ t \in Seq(Seq(Mapping)) /\ Len(t) = n /\ t[n] = e
         /\ \A j \in 1..(n - 1) : t[j] = c.scopes[j]
    BY <1>4, <1>8, <1>9, ContextIs, ExceptSeq
  <1>11. Bind(c, prefix, uri, declared) = [scopes |-> t, prefixCount |-> c.prefixCount]
    BY <1>7, <1>8, ContextIs
  <1> QED BY <1>1, <1>3, <1>6, <1>10, <1>11, ContextIs DEF ContextWith, Context

\* A mapping of a prefix to a namespace, declared or not.
Maps(c, prefix, uri) ==
    \E m \in Mapping : InScope(c, m) /\ m.prefix = prefix /\ m.uri = uri

\* declareNamespace: what is not declared before is afterwards.
LEMMA DeclareIs ==
    ASSUME NEW c \in Context, Len(c.scopes) # 0, NEW prefix \in Prefix, NEW uri \in Uri
    PROVE  LET new == [prefix |-> prefix, uri |-> uri, declared |-> TRUE]
           IN  IF Declares(c, prefix, uri)
               THEN ContextWith(c, DeclareNamespace(c, prefix, uri), new)
               ELSE DeclareNamespace(c, prefix, uri) = c /\ InScope(c, new)
  <1>1. CASE Declares(c, prefix, uri)
    <2>1. DeclareNamespace(c, prefix, uri) = Bind(c, prefix, uri, TRUE)
      BY <1>1 DEF DeclareNamespace
    <2>2. TRUE \in BOOLEAN
      OBVIOUS
    <2> QED BY <1>1, <2>1, <2>2, BindIs
  <1>2. CASE ~Declares(c, prefix, uri)
    <2>1. PICK m : m = NamespaceMapping(c, prefix)
      OBVIOUS
    <2>2. m.uri = uri /\ m.declared
      BY <1>2, <2>1 DEF Declares
    <2>3. m # NoMapping
      <3>1. NoMapping.uri = NoUri /\ uri # NoUri
        BY PrefixAssumption DEF NoMapping
      <3> QED BY <2>2, <3>1
    <2>4. InScope(c, m) /\ m.prefix = prefix /\ m \in Mapping
      BY <2>1, <2>3, MappingIs
    <2>5. m = [prefix |-> prefix, uri |-> uri, declared |-> TRUE]
      BY <2>2, <2>4 DEF Mapping
    <2> QED BY <1>2, <2>4, <2>5 DEF DeclareNamespace
  <1> QED BY <1>1, <1>2

\* addNamespace.
LEMMA AddIs ==
    ASSUME NEW c \in Context, Len(c.scopes) # 0, NEW prefix \in Prefix, NEW uri \in Uri
    PROVE  \/ AddNamespace(c, prefix, uri) = c /\ Maps(c, prefix, uri)
           \/ ContextWith(c, AddNamespace(c, prefix, uri),
                          [prefix |-> prefix, uri |-> uri, declared |-> FALSE])
  <1>1. CASE NamespaceURI(c, prefix) = uri
    <2>1. PICK m : m = NamespaceMapping(c, prefix)
      OBVIOUS
    <2>2. m.uri = uri
      BY <1>1, <2>1 DEF NamespaceURI
    <2>3. m # NoMapping
      <3>1. NoMapping.uri = NoUri /\ uri # NoUri
        BY PrefixAssumption DEF NoMapping
      <3> QED BY <2>2, <3>1
    <2>4. InScope(c, m) /\ m.prefix = prefix /\ m \in Mapping
      BY <2>1, <2>3, MappingIs
    <2> QED BY <1>1, <2>2, <2>4 DEF AddNamespace, Maps
  <1>2. CASE NamespaceURI(c, prefix) # uri
    <2>1. AddNamespace(c, prefix, uri) = Bind(c, prefix, uri, FALSE)
      BY <1>2 DEF AddNamespace
    <2>2. FALSE \in BOOLEAN
      OBVIOUS
    <2> QED BY <2>1, <2>2, BindIs
  <1> QED BY <1>1, <1>2

\* A prefix that NamespaceURI does not find is in no scope.
LEMMA UnboundIs ==
    ASSUME NEW c \in Context, NEW prefix, NamespaceURI(c, prefix) = NoUri
    PROVE  Unbound(c, prefix)
  <1>1. PICK m : m = NamespaceMapping(c, prefix)
    OBVIOUS
  <1>2. m.uri = NoUri
    BY <1>1 DEF NamespaceURI
  <1>3. m \notin Mapping
    BY <1>2, PrefixAssumption DEF Mapping
  <1> QED BY <1>1, <1>3, MappingIs

\* registerNamespace: a prefix that maps to the namespace, or one that is generated and new.
LEMMA RegisterIs ==
    ASSUME NEW c \in Context, Len(c.scopes) # 0, NEW uri \in Uri, CanRegister(c, uri)
    PROVE  \E p \in Prefix :
              /\ RegisteredPrefix(c, uri) = p
              /\ \/ RegisterNamespace(c, uri) = c /\ Maps(c, p, uri)
                 \/ /\ \E n \in DOMAIN Generated : p = Generated[n]
                    /\ Unbound(c, p)
                    /\ ContextWith(c, RegisterNamespace(c, uri),
                                   [prefix |-> p, uri |-> uri, declared |-> FALSE])
  <1>1. \A p \in Prefix : p # NoPrefix
    BY SchemaAssumption
  <1>2. CASE PrefixOf(c, uri) # NoPrefix
    <2>1. PICK m \in Mapping : InScope(c, m) /\ m.uri = uri /\ PrefixOf(c, uri) = m.prefix
      BY <1>2, PrefixOfIs
    <2>2. m.prefix \in Prefix
      BY DEF Mapping
    <2> QED BY <1>2, <2>1, <2>2 DEF RegisteredPrefix, RegisterNamespace, Maps
  <1>3. CASE PrefixOf(c, uri) = NoPrefix
    <2>1. Unused(c) # {} /\ Unused(c) \in SUBSET DOMAIN Generated
      BY <1>3 DEF CanRegister, Unused
    <2>2. DOMAIN Generated \in SUBSET Nat /\ Generated \in [DOMAIN Generated -> Prefix]
      <3>1. Len(Generated) \in Nat /\ DOMAIN Generated = 1..Len(Generated)
            /\ \A i \in 1..Len(Generated) : Generated[i] \in Prefix
        BY PrefixAssumption, SequenceIs
      <3>2. Generated \in [1..Len(Generated) -> Prefix]
        BY PrefixAssumption
      <3> QED BY <3>1, <3>2
    <2>3. PICK n : n = NextPrefix(c)
      OBVIOUS
    <2>4. n \in Unused(c)
      <3>1. Unused(c) \in SUBSET Nat
        BY <2>1, <2>2
      <3> QED BY <2>1, <2>3, <3>1, MinOfNats DEF NextPrefix
    <2>5. PICK p : p = Generated[n]
      OBVIOUS
    <2>6. n \in DOMAIN Generated /\ n \in Nat /\ p \in Prefix /\ NamespaceURI(c, p) = NoUri
      BY <2>1, <2>2, <2>4, <2>5 DEF Unused
    <2>7. Unbound(c, p)
      BY <2>6, UnboundIs
    <2>8. PICK d : d = [c EXCEPT !.prefixCount = n]
      OBVIOUS
    <2>9. d \in Context /\ d.scopes = c.scopes
      <3>1. d = [scopes |-> c.scopes, prefixCount |-> n]
        BY <2>8, ContextIs
      <3> QED BY <2>6, <3>1, ContextIs DEF Context
    <2>10. RegisterNamespace(c, uri) = Bind(d, p, uri, FALSE)
      BY <1>3, <2>3, <2>5, <2>8 DEF RegisterNamespace
    <2>11. ContextWith(d, Bind(d, p, uri, FALSE), [prefix |-> p, uri |-> uri, declared |-> FALSE])
      <3>1. Len(d.scopes) # 0 /\ FALSE \in BOOLEAN
        BY <2>9
      <3> QED BY <2>6, <2>9, <3>1, BindIs
    <2>12. ContextWith(c, RegisterNamespace(c, uri), [prefix |-> p, uri |-> uri, declared |-> FALSE])
      BY <2>9, <2>10, <2>11 DEF ContextWith
    <2>13. RegisteredPrefix(c, uri) = p
      BY <1>3, <2>3, <2>5 DEF RegisteredPrefix
    <2> QED BY <2>5, <2>6, <2>7, <2>12, <2>13
  <1> QED BY <1>2, <1>3

-----------------------------------------------------------------------------
(* The types. *)

\* The contexts with as many scopes as c.
Under(c) == {d \in Context : Len(d.scopes) = Len(c.scopes)}

\* What a frame may have for a prefix and for a namespace.
AnyPrefix == Prefix \cup {NoPrefix}
AnyUri == Uri \cup {NoUri}

\* registerNamespace, declareNamespace and addNamespace return contexts.
LEMMA OperatorsTyped ==
    ASSUME NEW c \in Context, Len(c.scopes) # 0, NEW uri \in Uri
    PROVE  /\ CanRegister(c, uri) =>
                 RegisteredPrefix(c, uri) \in Prefix /\ RegisterNamespace(c, uri) \in Under(c)
           /\ \A prefix \in Prefix : /\ DeclareNamespace(c, prefix, uri) \in Under(c)
                                     /\ AddNamespace(c, prefix, uri) \in Under(c)
  <1>1. c \in Under(c) /\ \A d, new : ContextWith(c, d, new) => d \in Under(c)
    BY DEF Under, ContextWith
  <1>2. ASSUME CanRegister(c, uri)
        PROVE  RegisteredPrefix(c, uri) \in Prefix /\ RegisterNamespace(c, uri) \in Under(c)
    BY <1>1, <1>2, RegisterIs
  <1>3. ASSUME NEW prefix \in Prefix PROVE DeclareNamespace(c, prefix, uri) \in Under(c)
    <2>1. \/ DeclareNamespace(c, prefix, uri) = c
          \/ \E new : ContextWith(c, DeclareNamespace(c, prefix, uri), new)
      BY DeclareIs
    <2> QED BY <1>1, <2>1
  <1>4. ASSUME NEW prefix \in Prefix PROVE AddNamespace(c, prefix, uri) \in Under(c)
    <2>1. \/ AddNamespace(c, prefix, uri) = c
          \/ \E new : ContextWith(c, AddNamespace(c, prefix, uri), new)
      BY AddIs
    <2> QED BY <1>1, <2>1
  <1> QED BY <1>2, <1>3, <1>4

\* The context an element leaves, one step after the other.
LEMMA ElementContextTyped ==
    ASSUME NEW c \in Context, Len(c.scopes) # 0, NEW f, f.uri \in Schemas, NEW e \in Elements[f.uri],
           NEW prefix \in AnyPrefix, NEW uri \in AnyUri
    PROVE  /\ (e.prefix = Tns => CanRegister(c, e.target)) => RegisteredContext(e, c) \in Under(c)
           /\ DeclaredContext(prefix, uri, c) \in Under(c)
           /\ TypeContext(f, e, c) \in Under(c)
  <1>1. c \in Under(c) /\ e \in ElementType
    BY SchemaAssumption DEF Under
  <1>2. e.target \in Uri /\ e.type \in Prefix \cup {Tns, NoType}
    BY <1>1 DEF ElementType
  <1>3. ASSUME e.prefix = Tns => CanRegister(c, e.target)
        PROVE  RegisteredContext(e, c) \in Under(c)
    BY <1>1, <1>2, <1>3, OperatorsTyped DEF RegisteredContext
  <1>4. DeclaredContext(prefix, uri, c) \in Under(c)
    BY <1>1, OperatorsTyped DEF DeclaredContext, AnyPrefix, AnyUri
  <1>5. TypeContext(f, e, c) \in Under(c)
    <2>1. CASE e.type \in {NoType, Tns} \/ Lookup(f.uri, e.type) = Xsd
      BY <1>1, <2>1 DEF TypeContext
    <2>2. CASE ~(e.type \in {NoType, Tns} \/ Lookup(f.uri, e.type) = Xsd)
      <3>1. e.type \in Prefix /\ e.type # NoPrefix
        BY <1>2, <2>2, SchemaAssumption
      <3>2. Lookup(f.uri, e.type) \in Uri
        BY <3>1, <2>2, XmlnsAssumption DEF Lookup
      <3>3. TypeContext(f, e, c) = AddNamespace(c, e.type, Lookup(f.uri, e.type))
        BY <2>2 DEF TypeContext
      <3> QED BY <3>1, <3>2, <3>3, OperatorsTyped
    <2> QED BY <2>1, <2>2
  <1> QED BY <1>3, <1>4, <1>5

\* The prefix and the namespaces of an element.
LEMMA ElementTyped ==
    ASSUME NEW c \in Context, Len(c.scopes) # 0,
           NEW f, f.uri \in Schemas, f.prefix \in AnyPrefix, NEW e \in Elements[f.uri],
           e.prefix = Tns => CanRegister(c, e.target)
    PROVE  /\ ElementPrefix(f, e, c) \in AnyPrefix
           /\ ElementUri(f, e, c) \in AnyUri
           /\ \A uri \in AnyUri : ContentUri(f, e, uri) \in AnyUri
  <1>1. e \in ElementType
    BY SchemaAssumption
  <1>2. /\ e.target \in Uri /\ e.type \in Prefix \cup {Tns, NoType}
        /\ e.prefix \in Prefix \cup {Tns}
    BY <1>1 DEF ElementType
  <1>3. ElementPrefix(f, e, c) \in AnyPrefix
    BY <1>2, OperatorsTyped DEF ElementPrefix, AnyPrefix
  <1>4. \A p \in Prefix \cup {Tns, NoPrefix} : Lookup(f.uri, p) \in AnyUri
    BY XmlnsAssumption DEF Lookup, AnyUri
  <1> QED BY <1>2, <1>3, <1>4 DEF ElementUri, ContentUri, AnyUri, AnyPrefix

\* A start tag, from its parts.
LEMMA TagTyped ==
    ASSUME NEW prefix \in AnyPrefix, NEW uri \in AnyUri, NEW decls \in SUBSET Declaration,
           NEW omitted \in SUBSET Prefix
    PROVE  /\ [prefix |-> prefix, uri |-> uri, decls |-> decls, omitted |-> omitted] \in Tag
           /\ [NoTag EXCEPT !.prefix = prefix, !.uri = uri, !.decls = decls] \in Tag
           /\ [NoTag EXCEPT !.prefix = prefix, !.decls = decls] \in Tag
           /\ [NoTag EXCEPT !.decls = decls] \in Tag
           /\ NoTag \in Tag
  BY DEF Tag, NoTag, AnyPrefix, AnyUri

\* A frame, from its fields.
LEMMA FrameIs ==
    Frame = [kind : {"object", "array"}, first : BOOLEAN, typed : BOOLEAN, prefix : AnyPrefix,
             uri : AnyUri, parent : AnyPrefix, means : AnyUri, xsi : Declaration \cup {NoXsi},
             ns : AnyPrefix, decls : Seq(Declaration), childDecl : Seq(Declaration),
             omitted : SUBSET Prefix, tag : Tag]
  BY DEF Frame, AnyPrefix, AnyUri

\* A new activation.
LEMMA ActivationTyped ==
    ASSUME NEW kind \in {"object", "array"}, NEW first \in BOOLEAN, NEW typed \in BOOLEAN,
           NEW prefix \in AnyPrefix, NEW uri \in AnyUri, NEW tag \in Tag,
           first => prefix \in Prefix /\ uri \in Uri
    PROVE  Activation(kind, first, typed, prefix, uri, tag) \in Frame
  <1>1. PICK ns : ns = IF first \/ uri \in Qualified \/ uri \notin Schemas THEN Unignored(prefix) ELSE NoPrefix
    OBVIOUS
  <1>2. ns \in AnyPrefix
    BY <1>1 DEF Unignored, AnyPrefix
  <1>3. PICK decls : decls = IF first /\ prefix \notin Ignored
                             THEN <<[prefix |-> prefix, uri |-> uri]>> ELSE <<>>
    OBVIOUS
  <1>4. decls \in Seq(Declaration)
    <2>1. CASE first /\ prefix \notin Ignored
      <3>1. [prefix |-> prefix, uri |-> uri] \in Declaration
        BY <2>1 DEF Declaration
      <3> QED BY <1>3, <2>1, <3>1
    <2>2. CASE ~(first /\ prefix \notin Ignored)
      BY <1>3, <2>2
    <2> QED BY <2>1, <2>2
  <1>5. <<>> \in Seq(Declaration)
    OBVIOUS
  <1>6. Activation(kind, first, typed, prefix, uri, tag) =
          [kind |-> kind, first |-> first, typed |-> typed, prefix |-> prefix, uri |-> uri,
           parent |-> NoPrefix, means |-> NoUri, xsi |-> NoXsi, ns |-> ns, decls |-> decls,
           childDecl |-> <<>>, omitted |-> {}, tag |-> tag]
    BY <1>1, <1>3 DEF Activation
  <1>7. /\ NoPrefix \in AnyPrefix /\ NoUri \in AnyUri /\ NoXsi \in Declaration \cup {NoXsi}
        /\ {} \in SUBSET Prefix
    BY DEF AnyPrefix, AnyUri
  <1>8. [kind |-> kind, first |-> first, typed |-> typed, prefix |-> prefix, uri |-> uri,
         parent |-> NoPrefix, means |-> NoUri, xsi |-> NoXsi, ns |-> ns, decls |-> decls,
         childDecl |-> <<>>, omitted |-> {}, tag |-> tag] \in Frame
    BY <1>2, <1>4, <1>5, <1>7, FrameIs
  <1> QED BY <1>6, <1>8

\* A frame, with some of its fields replaced.
LEMMA FrameExcept ==
    ASSUME NEW f \in Frame
    PROVE  /\ \A ns \in AnyPrefix : [f EXCEPT !.ns = ns] \in Frame
           /\ \A xsi \in Declaration \cup {NoXsi} : [f EXCEPT !.xsi = xsi] \in Frame
           /\ \A decls \in Seq(Declaration) : [f EXCEPT !.decls = decls] \in Frame
           /\ \A childDecl \in Seq(Declaration) : [f EXCEPT !.childDecl = childDecl] \in Frame
           /\ \A parent \in AnyPrefix : [f EXCEPT !.parent = parent] \in Frame
           /\ \A means \in AnyUri : [f EXCEPT !.means = means] \in Frame
           /\ \A omitted \in SUBSET Prefix : [f EXCEPT !.omitted = omitted] \in Frame
           /\ [f EXCEPT !.tag = NoTag] \in Frame
  <1>1. NoTag \in Tag
    BY DEF Tag, NoTag
  <1> QED BY <1>1, FrameIs

\* The prefixes of declarations.
LEMMA DeclsTyped ==
    ASSUME NEW decls \in Seq(Declaration), NEW xsi \in Declaration \cup {NoXsi}
    PROVE  /\ ToSet(decls) \cup AttributeDecls(xsi) \in SUBSET Declaration
           /\ \A S : PrefixesOf(ToSet(decls) \ S) \in SUBSET Prefix
           /\ PrefixesOf(ToSet(decls)) \in SUBSET Prefix
  <1>1. ToSet(decls) \in SUBSET Declaration
    BY SequenceIs
  <1>2. AttributeDecls(xsi) \in SUBSET Declaration
    BY DEF AttributeDecls
  <1>3. \A D \in SUBSET Declaration : PrefixesOf(D) \in SUBSET Prefix
    BY DEF PrefixesOf, Declaration
  <1> QED BY <1>1, <1>2, <1>3

\* The types, and a scope for each activation.
Typed == TypeOK /\ ScopesMatchFrames

LEMMA TopTyped ==
    ASSUME Typed, frames # <<>>
    PROVE  /\ Top \in Frame /\ ctx \in Context /\ Len(ctx.scopes) # 0
           /\ Len(frames) \in Nat /\ Len(frames) # 0 /\ frames[Len(frames)] = Top
  <1>1. frames \in Seq(Frame) /\ ctx \in Context /\ Len(ctx.scopes) = Len(frames)
    BY DEF Typed, TypeOK, ScopesMatchFrames
  <1>2. Len(frames) \in Nat /\ Len(frames) # 0
    BY <1>1
  <1>3. Top = frames[Len(frames)] /\ Len(frames) \in 1..Len(frames)
    BY <1>2 DEF Top, Last
  <1> QED BY <1>1, <1>2, <1>3, SequenceIs

\* What the attributes of a child leave.
LEMMA AttributesTyped ==
    ASSUME Typed, frames # <<>>, NEW kind, NEW xsi \in XsiTypes \cup {NoXsi}, MayCarry(kind, xsi)
    PROVE  /\ AttributesContext(xsi) \in Under(ctx)
           /\ Attributes(xsi) \in Declaration \cup {NoXsi}
  <1>1. ctx \in Context /\ Len(ctx.scopes) # 0 /\ ctx \in Under(ctx)
    BY TopTyped DEF Under
  <1>2. CASE xsi = NoXsi
    BY <1>1, <1>2 DEF AttributesContext, Attributes
  <1>3. CASE xsi # NoXsi
    <2>1. xsi \in [prefix : Prefix \cup {NoPrefix}, uri : Uri] /\ CanRegister(ctx, xsi.uri)
      BY <1>3, ObjectAssumption DEF MayCarry
    <2>2. xsi.uri \in Uri /\ xsi.prefix \in Prefix \cup {NoPrefix}
      BY <2>1
    <2>3. CASE xsi.prefix # NoPrefix
      <3>1. xsi \in Declaration
        BY <2>1, <2>2, <2>3 DEF Declaration
      <3> QED BY <1>1, <1>3, <2>2, <2>3, <3>1, OperatorsTyped DEF AttributesContext, Attributes
    <2>4. CASE xsi.prefix = NoPrefix
      <3>1. PICK p : p = RegisteredPrefix(ctx, xsi.uri)
        OBVIOUS
      <3>2. p \in Prefix /\ RegisterNamespace(ctx, xsi.uri) \in Under(ctx)
        BY <1>1, <2>1, <2>2, <3>1, OperatorsTyped
      <3>3. Attributes(xsi) = [xsi EXCEPT !.prefix = p]
        BY <1>3, <2>4, <3>1 DEF Attributes
      <3>4. [xsi EXCEPT !.prefix = p] \in Declaration
        BY <2>1, <3>2 DEF Declaration
      <3> QED BY <1>3, <2>4, <3>2, <3>3, <3>4 DEF AttributesContext
    <2> QED BY <2>3, <2>4
  <1> QED BY <1>2, <1>3

\* A recursive call.
LEMMA EnterTyped ==
    ASSUME Typed, frames # <<>>, NEW f \in Frame, NEW g \in Frame, NEW c \in Under(ctx),
           Enter(f, g, c)
    PROVE  TypeOK'
  <1>1. frames \in Seq(Frame) /\ elements \in 0..MaxElements /\ MaxElements \in Nat
    BY ObjectAssumption DEF Typed, TypeOK
  <1>2. Len(frames) \in 1..Len(frames)
    BY TopTyped
  <1>3. PICK outer : outer = [frames EXCEPT ![Len(frames)] = f]
    OBVIOUS
  <1>4. outer \in Seq(Frame)
    BY <1>1, <1>2, <1>3, ExceptSeq
  <1>5. frames' = Append(outer, g)
    BY <1>3 DEF Enter
  <1>6. frames' \in Seq(Frame)
    BY <1>4, <1>5, AppendProperties
  <1>7. elements' \in 0..MaxElements
    BY <1>1 DEF Enter
  <1>8. c \in Context /\ <<>> \in Seq(Mapping)
    BY DEF Under
  <1>9. PICK s : s = Append(c.scopes, <<>>)
    OBVIOUS
  <1>10. s \in Seq(Seq(Mapping))
    BY <1>8, <1>9, ContextIs, AppendProperties
  <1>11. ctx' = [scopes |-> s, prefixCount |-> c.prefixCount]
    <2>1. ctx' = PushContext(c)
      BY DEF Enter
    <2>2. c = [scopes |-> c.scopes, prefixCount |-> c.prefixCount]
      BY <1>8, ContextIs
    <2> QED BY <1>9, <2>1, <2>2 DEF PushContext
  <1>12. ctx' \in Context
    BY <1>8, <1>10, <1>11, ContextIs DEF Context
  <1> QED BY <1>6, <1>7, <1>12 DEF TypeOK

\* Attributes without an xsi_type have no prefix.
LEMMA NoXsiIs == NoXsi.prefix = NoPrefix
  BY DEF NoXsi

\* A start tag, and the activation that goes on when a child has attributes of the user's.
LEMMA StartTagTyped ==
    ASSUME NEW f \in Frame, NEW prefix \in AnyPrefix, NEW uri \in AnyUri,
           NEW xsi \in Declaration \cup {NoXsi}, NEW c
    PROVE  StartTag(f, prefix, uri, xsi, c) \in Tag
  <1>1. f.decls \in Seq(Declaration) /\ f.omitted \in SUBSET Prefix
    BY FrameIs
  <1>2. PICK decls : decls = ToSet(f.decls) \cup AttributeDecls(xsi)
    OBVIOUS
  <1>3. PICK clash : clash = Clash(xsi, prefix, uri, ToSet(f.decls), c)
    OBVIOUS
  <1>4. clash \in SUBSET Prefix
    <2>1. clash = {} \/ (xsi # NoXsi /\ clash = {xsi.prefix})
      BY <1>3 DEF Clash
    <2> QED BY <2>1 DEF Declaration
  <1>5. PICK omitted : omitted = (f.omitted \ {xsi.prefix}) \cup clash
    OBVIOUS
  <1>6. decls \in SUBSET Declaration /\ omitted \in SUBSET Prefix
    BY <1>1, <1>2, <1>4, <1>5, DeclsTyped
  <1>7. StartTag(f, prefix, uri, xsi, c) =
          [prefix |-> prefix, uri |-> uri, decls |-> decls, omitted |-> omitted]
    BY <1>2, <1>3, <1>5 DEF StartTag
  <1>8. [prefix |-> prefix, uri |-> uri, decls |-> decls, omitted |-> omitted] \in Tag
    BY <1>6, TagTyped
  <1> QED BY <1>7, <1>8

LEMMA CarryingTyped ==
    ASSUME NEW f \in Frame, NEW xsi \in XsiTypes \cup {NoXsi}
    PROVE  Carrying(f, xsi) \in Frame
  <1>1. CASE Carrying(f, xsi) = f
    BY <1>1
  <1>2. CASE Carrying(f, xsi) # f
    <2>1. xsi.prefix # NoPrefix /\ Carrying(f, xsi) = [f EXCEPT !.omitted = @ \cup {xsi.prefix}]
      BY <1>2 DEF Carrying
    <2>2. xsi # NoXsi
      BY <2>1, NoXsiIs
    <2>3. xsi.prefix \in Prefix
      BY <2>1, <2>2, ObjectAssumption
    <2>4. PICK omitted : omitted = f.omitted \cup {xsi.prefix}
      OBVIOUS
    <2>5. omitted \in SUBSET Prefix
      BY <2>3, <2>4, FrameIs
    <2>6. Carrying(f, xsi) = [f EXCEPT !.omitted = omitted]
      BY <2>1, <2>4
    <2> QED BY <2>5, <2>6, FrameExcept
  <1> QED BY <1>1, <1>2

LEMMA MessageElementTyped ==
    ASSUME Typed, frames # <<>>, NEW f \in Frame, NEW kind \in {"object", "array"},
           NEW xsi \in Declaration \cup {NoXsi}, NEW known \in Under(ctx),
           MessageElement(f, kind, xsi, known)
    PROVE  TypeOK'
  <1>1. /\ f.prefix \in AnyPrefix /\ f.uri \in AnyUri /\ f.ns \in AnyPrefix
        /\ f.decls \in Seq(Declaration) /\ f.typed \in BOOLEAN /\ f.omitted \in SUBSET Prefix
    BY FrameIs
  <1>2. PICK ns : ns = IF f.uri \in Qualified THEN f.ns ELSE f.prefix
    OBVIOUS
  <1>3. ns \in AnyPrefix
    BY <1>1, <1>2
  <1>4. PICK tag : tag = StartTag(f, ns, f.uri, xsi, known)
    OBVIOUS
  <1>5. tag \in Tag
    BY <1>1, <1>3, <1>4, StartTagTyped
  <1>6. PICK g : g = Activation(kind, FALSE, f.typed, f.prefix, f.uri, tag)
    OBVIOUS
  <1>7. g \in Frame
    BY <1>1, <1>5, <1>6, ActivationTyped
  <1>8. PICK omitted : omitted = f.omitted \cup PrefixesOf(ToSet(f.decls))
    OBVIOUS
  <1>9. PICK items : items = [g EXCEPT !.means = f.uri, !.tag = NoTag, !.omitted = omitted]
    OBVIOUS
  <1>10. items \in Frame
    <2>1. PICK g1 : g1 = [g EXCEPT !.means = f.uri]
      OBVIOUS
    <2>2. PICK g2 : g2 = [g1 EXCEPT !.tag = NoTag]
      OBVIOUS
    <2>3. g2 \in Frame /\ omitted \in SUBSET Prefix
      BY <1>1, <1>7, <1>8, <2>1, <2>2, DeclsTyped, FrameExcept
    <2>4. items = [g2 EXCEPT !.omitted = omitted]
      BY <1>9, <2>1, <2>2
    <2> QED BY <2>3, <2>4, FrameExcept
  <1>11. [g EXCEPT !.xsi = xsi] \in Frame /\ [f EXCEPT !.ns = ns] \in Frame
    BY <1>3, <1>7, FrameExcept
  <1>12. Enter([f EXCEPT !.ns = ns], IF kind = "array" THEN items ELSE [g EXCEPT !.xsi = xsi], known)
    BY <1>2, <1>4, <1>6, <1>8, <1>9 DEF MessageElement
  <1> QED BY <1>10, <1>11, <1>12, EnterTyped

LEMMA OtherElementTyped ==
    ASSUME Typed, frames # <<>>, NEW f \in Frame, NEW kind \in {"object", "array"},
           NEW xsi \in Declaration \cup {NoXsi}, NEW known \in Under(ctx),
           OtherElement(f, kind, xsi, known)
    PROVE  TypeOK'
  <1>1. /\ f.prefix \in AnyPrefix /\ f.uri \in AnyUri /\ f.ns \in AnyPrefix
        /\ f.decls \in Seq(Declaration) /\ f.xsi \in Declaration \cup {NoXsi}
        /\ f.omitted \in SUBSET Prefix
    BY FrameIs
  <1>2. PICK typed : typed = (f.xsi # NoXsi /\ f.uri \in Schemas)
    OBVIOUS
  <1>3. typed => f.xsi.prefix \in Prefix /\ f.xsi.uri \in Uri
    BY <1>1, <1>2 DEF Declaration
  <1>4. PICK prefix : prefix = IF typed THEN f.xsi.prefix ELSE Unignored(f.ns)
    OBVIOUS
  <1>5. prefix \in AnyPrefix /\ Unignored(f.ns) \in AnyPrefix /\ NoUri \in AnyUri
    BY <1>1, <1>3, <1>4 DEF AnyPrefix, Unignored, AnyUri
  <1>6. PICK tag : tag = StartTag(f, prefix, NoUri, xsi, known)
    OBVIOUS
  <1>7. tag \in Tag
    BY <1>5, <1>6, StartTagTyped
  <1>8. PICK g : g = Activation(kind, FALSE, FALSE, IF typed THEN f.xsi.prefix ELSE f.prefix,
                                 IF typed THEN f.xsi.uri ELSE f.uri, tag)
    OBVIOUS
  <1>9. g \in Frame
    <2>1. /\ (IF typed THEN f.xsi.prefix ELSE f.prefix) \in AnyPrefix
          /\ (IF typed THEN f.xsi.uri ELSE f.uri) \in AnyUri
      BY <1>1, <1>3 DEF AnyPrefix, AnyUri
    <2> QED BY <1>7, <1>8, <2>1, ActivationTyped
  <1>10. PICK omitted : omitted = f.omitted \cup PrefixesOf(ToSet(f.decls))
    OBVIOUS
  <1>11. PICK items : items = [g EXCEPT !.tag = NoTag, !.omitted = omitted]
    OBVIOUS
  <1>12. items \in Frame
    <2>1. PICK g1 : g1 = [g EXCEPT !.tag = NoTag]
      OBVIOUS
    <2>2. g1 \in Frame /\ omitted \in SUBSET Prefix
      BY <1>1, <1>9, <1>10, <2>1, DeclsTyped, FrameExcept
    <2>3. items = [g1 EXCEPT !.omitted = omitted]
      BY <1>11, <2>1
    <2> QED BY <2>2, <2>3, FrameExcept
  <1>13. [g EXCEPT !.xsi = xsi] \in Frame /\ [f EXCEPT !.ns = Unignored(@)] \in Frame
    BY <1>5, <1>9, FrameExcept
  <1>14. PICK c : c = IF typed THEN AddNamespace(known, f.xsi.prefix, f.xsi.uri) ELSE known
    OBVIOUS
  <1>15. c \in Under(ctx)
    <2>1. known \in Context /\ Len(known.scopes) # 0
      BY TopTyped DEF Under
    <2> QED BY <1>3, <1>14, <2>1, OperatorsTyped DEF Under
  <1>16. Enter([f EXCEPT !.ns = Unignored(@)],
               IF kind = "array" THEN items ELSE [g EXCEPT !.xsi = xsi], c)
    BY <1>2, <1>4, <1>6, <1>8, <1>10, <1>11, <1>14 DEF OtherElement
  <1> QED BY <1>12, <1>13, <1>15, <1>16, EnterTyped

\* The activation that goes on when a declaration is written, or lost.
LEMMA WriteTyped ==
    ASSUME NEW f \in Frame, NEW decl \in Declaration
    PROVE  Write(f, decl) \in Frame
  <1>1. f.decls \in Seq(Declaration) /\ f.omitted \in SUBSET Prefix /\ decl.prefix \in Prefix
    BY FrameIs DEF Declaration
  <1>2. PICK f1, f2 : f1 = [f EXCEPT !.decls = Append(f.decls, decl)] /\ f2 = [f1 EXCEPT !.childDecl = <<decl>>]
    OBVIOUS
  <1>3. f2 \in Frame
    <2>1. Append(f.decls, decl) \in Seq(Declaration) /\ <<decl>> \in Seq(Declaration)
      BY <1>1, AppendProperties
    <2> QED BY <1>2, <2>1, FrameExcept
  <1>4. PICK less, more : less = f.omitted \ {decl.prefix} /\ more = f.omitted \cup {decl.prefix}
    OBVIOUS
  <1>5. less \in SUBSET Prefix /\ more \in SUBSET Prefix
    BY <1>1, <1>4
  <1>6. Write(f, decl) \in {[f2 EXCEPT !.omitted = less], f, [f EXCEPT !.omitted = more]}
    BY <1>2, <1>4 DEF Write
  <1> QED BY <1>3, <1>5, <1>6, FrameExcept

LEMMA EnterElementTyped ==
    ASSUME Typed, frames # <<>>, NEW f \in Frame, NEW kind \in {"object", "array"},
           NEW xsi \in Declaration \cup {NoXsi}, NEW named \in Under(ctx),
           f.uri \in Schemas, NEW e \in Elements[f.uri],
           NEW prefix \in AnyPrefix, NEW uri \in AnyUri,
           EnterElement(f, e, kind, xsi, prefix, uri, named)
    PROVE  TypeOK'
  <1>1. PICK new : new = (prefix # NoPrefix /\ uri # NoUri /\ Declares(named, prefix, uri))
    OBVIOUS
  <1>2. PICK decl : decl = [prefix |-> prefix, uri |-> uri]
    OBVIOUS
  <1>3. new => decl \in Declaration /\ <<decl>> \in Seq(Declaration)
    <2>1. new => [prefix |-> prefix, uri |-> uri] \in Declaration
      BY <1>1 DEF Declaration, AnyPrefix, AnyUri
    <2>2. \A d \in Declaration : <<d>> \in Seq(Declaration)
      OBVIOUS
    <2> QED BY <1>2, <2>1, <2>2
  <1>4. PICK after : after = IF new THEN Write(f, decl) ELSE f
    OBVIOUS
  <1>5. after \in Frame
    BY <1>3, <1>4, WriteTyped
  <1>6. after.decls \in Seq(Declaration) /\ after.omitted \in SUBSET Prefix /\ f.childDecl \in Seq(Declaration)
    BY <1>5, FrameIs
  <1>7. PICK own : own = IF new THEN <<decl>> ELSE f.childDecl
    OBVIOUS
  <1>8. own \in Seq(Declaration)
    BY <1>3, <1>6, <1>7
  <1>9. PICK ns, means : ns = Unignored(prefix) /\ means = IF ns = NoPrefix THEN NoUri ELSE uri
    OBVIOUS
  <1>10. ns \in AnyPrefix /\ means \in AnyUri
    BY <1>9 DEF Unignored, AnyPrefix, AnyUri
  <1>11. PICK d : d = DeclaredContext(prefix, uri, named)
    OBVIOUS
  <1>12. PICK tag : tag = StartTag(after, ns, means, xsi, d)
    OBVIOUS
  <1>13. tag \in Tag
    BY <1>5, <1>10, <1>12, StartTagTyped
  <1>14. PICK g : g = Activation(kind, FALSE, TRUE, prefix, ContentUri(f, e, uri), tag)
    OBVIOUS
  <1>15. g \in Frame
    <2>1. ContentUri(f, e, uri) \in AnyUri
      <3>1. e.type # NoType => Lookup(f.uri, e.type) \in AnyUri
        <4>1. e.type \in Prefix \cup {Tns, NoType}
          BY SchemaAssumption DEF ElementType
        <4> QED BY <4>1, XmlnsAssumption DEF Lookup, AnyUri
      <3> QED BY <3>1 DEF ContentUri
    <2> QED BY <1>13, <1>14, <2>1, ActivationTyped
  <1>16. PICK missed : missed = after.omitted \cup PrefixesOf(ToSet(after.decls) \ ToSet(own))
    OBVIOUS
  <1>17. PICK omitted : omitted = missed \ (IF new THEN {prefix} ELSE {})
    OBVIOUS
  <1>18. omitted \in SUBSET Prefix
    BY <1>6, <1>16, <1>17, DeclsTyped
  <1>19. PICK items : items = [g EXCEPT !.parent = ns, !.means = means, !.decls = own, !.tag = NoTag,
                                        !.omitted = omitted]
    OBVIOUS
  <1>20. items \in Frame
    <2>1. PICK g1 : g1 = [g EXCEPT !.parent = ns]
      OBVIOUS
    <2>2. PICK g2 : g2 = [g1 EXCEPT !.means = means]
      OBVIOUS
    <2>3. PICK g3 : g3 = [g2 EXCEPT !.decls = own]
      OBVIOUS
    <2>4. PICK g4 : g4 = [g3 EXCEPT !.tag = NoTag]
      OBVIOUS
    <2>5. g1 \in Frame
      BY <1>10, <1>15, <2>1, FrameExcept
    <2>6. g2 \in Frame
      BY <1>10, <2>2, <2>5, FrameExcept
    <2>7. g3 \in Frame
      BY <1>8, <2>3, <2>6, FrameExcept
    <2>8. g4 \in Frame
      BY <2>4, <2>7, FrameExcept
    <2>9. items = [g4 EXCEPT !.omitted = omitted]
      BY <1>19, <2>1, <2>2, <2>3, <2>4
    <2> QED BY <1>18, <2>8, <2>9, FrameExcept
  <1>21. [g EXCEPT !.xsi = xsi] \in Frame /\ [after EXCEPT !.ns = ns] \in Frame
    BY <1>5, <1>10, <1>15, FrameExcept
  <1>22. PICK c : c = TypeContext(f, e, d)
    OBVIOUS
  <1>23. c \in Under(ctx)
    <2>1. named \in Context /\ Len(named.scopes) # 0
      BY TopTyped DEF Under
    <2>2. d \in Under(named)
      BY <1>11, <2>1, ElementContextTyped
    <2>3. d \in Context /\ Len(d.scopes) # 0
      BY <2>1, <2>2 DEF Under
    <2>4. TypeContext(f, e, d) \in Under(d)
      BY <2>3, ElementContextTyped
    <2> QED BY <1>22, <2>2, <2>4 DEF Under
  <1>24. Enter([after EXCEPT !.ns = ns], IF kind = "array" THEN items ELSE [g EXCEPT !.xsi = xsi], c)
    BY <1>1, <1>2, <1>4, <1>7, <1>9, <1>11, <1>12, <1>14, <1>16, <1>17, <1>19, <1>22 DEF EnterElement
  <1> QED BY <1>20, <1>21, <1>23, <1>24, EnterTyped

\* The prefix, the namespace and the context an element of the schema is entered with.
LEMMA SchemaElementIs ==
    ASSUME NEW f \in Frame, NEW e, f.uri \in Schemas, e \in Elements[f.uri], NEW kind, NEW x,
           NEW known \in Context, Len(known.scopes) # 0, SchemaElement(f, e, kind, x, known)
    PROVE  \E prefix \in AnyPrefix, uri \in AnyUri, named \in Under(known) :
              /\ e.prefix = Tns => CanRegister(known, e.target)
              /\ prefix = IF Unqualified(f.uri, e) THEN NoPrefix ELSE ElementPrefix(f, e, known)
              /\ uri = ElementUri(f, e, known)
              /\ named = RegisteredContext(e, known)
              /\ EnterElement(f, e, kind, x, prefix, uri, named)
  <1>1. f.prefix \in AnyPrefix
    BY FrameIs
  <1>2. e.prefix = Tns => CanRegister(known, e.target)
    BY DEF SchemaElement
  <1>3. PICK prefix : prefix = IF Unqualified(f.uri, e) THEN NoPrefix ELSE ElementPrefix(f, e, known)
    OBVIOUS
  <1>4. PICK uri, named : uri = ElementUri(f, e, known) /\ named = RegisteredContext(e, known)
    OBVIOUS
  <1>5. prefix \in AnyPrefix /\ uri \in AnyUri
    BY <1>1, <1>2, <1>3, <1>4, ElementTyped DEF AnyPrefix
  <1>6. named \in Under(known)
    BY <1>2, <1>4, <1>5, ElementContextTyped
  <1>7. EnterElement(f, e, kind, x, prefix, uri, named)
    BY <1>3, <1>4 DEF SchemaElement
  <1> QED BY <1>2, <1>3, <1>4, <1>5, <1>6, <1>7

LEMMA PropertyTyped ==
    ASSUME Typed, NEW kind \in {"object", "array"}, NEW xsi \in XsiTypes \cup {NoXsi},
           Property(kind, xsi)
    PROVE  TypeOK'
  <1>1. frames # <<>> /\ MayCarry(kind, xsi)
    BY DEF Property
  <1>2. PICK f, x, known : f = Carrying(Top, xsi) /\ x = Attributes(xsi) /\ known = AttributesContext(xsi)
    OBVIOUS
  <1>3. x \in Declaration \cup {NoXsi} /\ known \in Under(ctx) /\ PropertyOf(f, kind, x, known)
    BY <1>1, <1>2, AttributesTyped DEF Property
  <1>4. f \in Frame
    BY <1>1, <1>2, TopTyped, CarryingTyped
  <1>5. CASE MessageElement(f, kind, x, known)
    BY <1>1, <1>3, <1>4, <1>5, MessageElementTyped
  <1>6. CASE OtherElement(f, kind, x, known)
    BY <1>1, <1>3, <1>4, <1>6, OtherElementTyped
  <1>7. ASSUME f.uri \in Schemas, NEW e \in Elements[f.uri], SchemaElement(f, e, kind, x, known)
        PROVE  TypeOK'
    <2>1. known \in Context /\ Len(known.scopes) # 0
      BY <1>1, <1>3, TopTyped DEF Under
    <2>2. PICK prefix \in AnyPrefix, uri \in AnyUri, named \in Under(known) :
             EnterElement(f, e, kind, x, prefix, uri, named)
      BY <1>4, <1>7, <2>1, SchemaElementIs
    <2>3. named \in Under(ctx)
      BY <1>3, <2>2 DEF Under
    <2> QED BY <1>1, <1>3, <1>4, <1>7, <2>2, <2>3, EnterElementTyped
  <1> QED BY <1>3, <1>5, <1>6, <1>7 DEF PropertyOf

LEMMA ItemTyped ==
    ASSUME Typed, NEW xsi \in XsiTypes \cup {NoXsi}, Item(xsi)
    PROVE  TypeOK'
  <1>1. frames # <<>> /\ MayCarry("object", xsi)
    BY DEF Item
  <1>2. PICK f, x, known : f = Carrying(Top, xsi) /\ x = Attributes(xsi) /\ known = AttributesContext(xsi)
    OBVIOUS
  <1>3. x \in Declaration \cup {NoXsi} /\ known \in Under(ctx) /\ ItemOf(f, x, known)
    BY <1>1, <1>2, AttributesTyped DEF Item
  <1>4. f \in Frame
    BY <1>1, <1>2, TopTyped, CarryingTyped
  <1>5. /\ f.parent \in AnyPrefix /\ f.ns \in AnyPrefix /\ f.means \in AnyUri /\ f.uri \in AnyUri
        /\ f.prefix \in AnyPrefix /\ f.typed \in BOOLEAN
    BY <1>4, FrameIs
  <1>6. PICK prefix : prefix = IF f.parent # NoPrefix THEN f.parent ELSE f.ns
    OBVIOUS
  <1>7. PICK tag : tag = StartTag(f, prefix, f.means, x, known)
    OBVIOUS
  <1>8. tag \in Tag
    BY <1>3, <1>4, <1>5, <1>6, <1>7, StartTagTyped
  <1>9. PICK g : g = Activation("object", FALSE, f.typed, f.prefix, f.uri, tag)
    OBVIOUS
  <1>10. g \in Frame
    BY <1>5, <1>8, <1>9, ActivationTyped
  <1>11. [g EXCEPT !.xsi = x] \in Frame
    BY <1>3, <1>10, FrameExcept
  <1>12. Enter(f, [g EXCEPT !.xsi = x], known)
    BY <1>3, <1>6, <1>7, <1>9 DEF ItemOf
  <1> QED BY <1>1, <1>3, <1>4, <1>11, <1>12, EnterTyped

LEMMA BeginTyped ==
    ASSUME NEW root \in Roots, NEW typed \in BOOLEAN, Begin(root, typed)
    PROVE  TypeOK'
  <1>1. root.prefix \in Prefix /\ root.uri \in Uri /\ root.prefix \in AnyPrefix /\ root.uri \in AnyUri
    BY ObjectAssumption DEF Declaration, AnyPrefix, AnyUri
  <1>2. PICK omitted : omitted = IF root.prefix \in Ignored /\ {d \in Envelope : d.prefix = root.prefix} # {root}
                                  THEN {root.prefix} ELSE {}
    OBVIOUS
  <1>3. PICK tag : tag = [NoTag EXCEPT !.decls = Envelope, !.omitted = omitted]
    OBVIOUS
  <1>4. tag \in Tag
    <2>1. omitted \in SUBSET Prefix
      BY <1>1, <1>2
    <2>2. Envelope \in SUBSET Declaration
      BY ObjectAssumption
    <2> QED BY <1>3, <2>1, <2>2 DEF Tag, NoTag
  <1>5. PICK g : g = Activation("object", TRUE, typed, root.prefix, root.uri, tag)
    OBVIOUS
  <1>6. g \in Frame
    BY <1>1, <1>4, <1>5, ActivationTyped
  <1>7. frames' = <<g>> /\ elements' = 0 /\ ctx' = DeclareNamespace(NewContext, root.prefix, root.uri)
    BY <1>2, <1>5, <1>3 DEF Begin
  <1>8. frames' \in Seq(Frame) /\ elements' \in 0..MaxElements
    <2>1. <<g>> \in Seq(Frame)
      BY <1>6
    <2>2. MaxElements \in Nat
      BY ObjectAssumption
    <2>3. elements' \in 0..MaxElements
      BY <1>7, <2>2
    <2> QED BY <1>7, <2>1, <2>3
  <1>9. NewContext \in Context /\ Len(NewContext.scopes) # 0
    <2>1. << <<>> >> \in Seq(Seq(Mapping)) /\ Len(<< <<>> >>) = 1
      OBVIOUS
    <2> QED BY <2>1 DEF NewContext, Context
  <1>10. ctx' \in Context
    BY <1>1, <1>7, <1>9, OperatorsTyped DEF Under
  <1> QED BY <1>8, <1>10 DEF TypeOK

LEMMA ReturnTyped ==
    ASSUME Typed, frames # <<>>, frames' = Front(frames), ctx' = PopContext(ctx), UNCHANGED elements
    PROVE  TypeOK'
  <1>1. frames \in Seq(Frame) /\ ctx \in Context /\ elements \in 0..MaxElements
    BY DEF Typed, TypeOK
  <1>2. \A S : \A s \in Seq(S) : Len(s) # 0 => Front(s) \in Seq(S)
    <2>1. ASSUME NEW S, NEW s \in Seq(S), Len(s) # 0 PROVE Front(s) \in Seq(S)
      <3>1. Len(s) - 1 \in Int /\ \A i \in 1..(Len(s) - 1) : s[i] \in S
        OBVIOUS
      <3> QED BY <3>1, SubSeqProperties DEF Front
    <2> QED BY <2>1
  <1>3. Len(frames) # 0 /\ Len(ctx.scopes) # 0
    BY TopTyped
  <1>4. frames' \in Seq(Frame)
    BY <1>1, <1>2, <1>3
  <1>5. PICK s : s = Front(ctx.scopes)
    OBVIOUS
  <1>6. s \in Seq(Seq(Mapping))
    BY <1>1, <1>2, <1>3, <1>5, ContextIs
  <1>7. ctx' = [scopes |-> s, prefixCount |-> ctx.prefixCount]
    BY <1>1, <1>5, ContextIs DEF PopContext
  <1>8. ctx' \in Context
    BY <1>1, <1>6, <1>7, ContextIs DEF Context
  <1> QED BY <1>1, <1>4, <1>8 DEF TypeOK

LEMMA NextTyped == Typed /\ Balanced /\ [Next]_vars => Typed'
  <1> SUFFICES ASSUME Typed, Balanced, [Next]_vars PROVE Typed'
    OBVIOUS
  <1>1. ScopesMatchFrames'
    BY NextBalanced DEF Balanced
  <1>2. ASSUME NEW root \in Roots, NEW typed \in BOOLEAN, Begin(root, typed)
        PROVE  TypeOK'
    BY <1>2, BeginTyped
  <1>3. ASSUME NEW kind \in {"object", "array"}, NEW xsi \in XsiTypes \cup {NoXsi},
               Property(kind, xsi)
        PROVE  TypeOK'
    BY <1>3, PropertyTyped
  <1>4. ASSUME NEW xsi \in XsiTypes \cup {NoXsi}, Item(xsi)
        PROVE  TypeOK'
    BY <1>4, ItemTyped
  <1>5. ASSUME Return PROVE TypeOK'
    BY <1>5, ReturnTyped DEF Return
  <1>6. ASSUME ReturnRaw PROVE TypeOK'
    BY <1>6, ReturnTyped DEF ReturnRaw
  <1>7. ASSUME UNCHANGED vars PROVE TypeOK'
    BY <1>7 DEF vars, Typed, TypeOK
  <1> QED BY <1>1, <1>2, <1>3, <1>4, <1>5, <1>6, <1>7 DEF Next, Typed

LEMMA InitTyped == Init => Typed
  <1> SUFFICES ASSUME Init PROVE Typed
    OBVIOUS
  <1>1. ctx = [scopes |-> <<>>, prefixCount |-> 0] /\ frames = <<>> /\ elements = 0
    BY DEF Init, NewContext
  <1>2. \A S : <<>> \in Seq(S)
    OBVIOUS
  <1>3. ctx \in Context
    BY <1>1, <1>2 DEF Context
  <1>4. elements \in 0..MaxElements
    <2>1. MaxElements \in Nat
      BY ObjectAssumption
    <2> QED BY <1>1, <2>1
  <1> QED BY <1>1, <1>2, <1>3, <1>4 DEF Typed, TypeOK, ScopesMatchFrames

\* Every activation has the fields it should: what is written as a prefix is one, or none, and
\* what is declared is a prefix and a namespace; a prefix that was generated has reached the
\* xsi_type it is for.
THEOREM TypeCorrect == Spec => []TypeOK
  <1>1. Typed => TypeOK
    BY DEF Typed
  <1> QED BY InitBalanced, NextBalanced, InitTyped, NextTyped, <1>1, PTL DEF Spec
-----------------------------------------------------------------------------
(* What is in force. *)

\* A scope has one mapping of a prefix; so has every scope.
OneEach(s) == \A i, j \in 1..Len(s) : s[i].prefix = s[j].prefix => i = j
Tidy(s) == \A j \in 1..Len(s) : OneEach(s[j])

\* The mapping is the innermost of its prefix in the first i scopes.
InForce(s, i, m) ==
    \E j \in 1..i : /\ m \in ToSet(s[j])
                    /\ \A k \in (j + 1)..i : \A o \in ToSet(s[k]) : o.prefix # m.prefix

\* The prefix is taken to be declared as the namespace.
Believed(s, i, p, u) == InForce(s, i, [prefix |-> p, uri |-> u, declared |-> TRUE])

LEMMA OneEachIs ==
    ASSUME NEW s \in Seq(Mapping), OneEach(s), NEW m \in ToSet(s), NEW o \in ToSet(s),
           m.prefix = o.prefix
    PROVE  m = o
  <1>1. PICK i \in 1..Len(s), j \in 1..Len(s) : m = s[i] /\ o = s[j]
    BY SequenceIs
  <1> QED BY <1>1 DEF OneEach

\* Bind keeps it so.
LEMMA ReboundOneEach ==
    ASSUME NEW s \in Seq(Mapping), NEW new \in Mapping, OneEach(s)
    PROVE  OneEach(Rebound(s, new))
  <1> DEFINE I == {i \in 1..Len(s) : s[i].prefix = new.prefix}
  <1>1. PICK at : at = SelectInSeq(s, LAMBDA n : n.prefix = new.prefix)
    OBVIOUS
  <1>2. at = IF I # {} THEN Min(I) ELSE 0
    BY <1>1 DEF SelectInSeq
  <1>3. PICK e : e = Rebound(s, new) /\ e = IF at = 0 THEN Append(s, new) ELSE [s EXCEPT ![at] = new]
    BY <1>1 DEF Rebound
  <1>4. Len(s) \in Nat /\ \A i \in 1..Len(s) : s[i] \in Mapping
    BY SequenceIs
  <1>5. CASE I = {}
    <2>1. e = Append(s, new)
      BY <1>2, <1>3, <1>5
    <2>2. Len(e) = Len(s) + 1 /\ e[Len(s) + 1] = new /\ \A i \in 1..Len(s) : e[i] = s[i]
      BY <2>1, AppendProperties
    <2>3. \A i \in 1..Len(s) : e[i].prefix # new.prefix
      BY <1>5, <2>2
    <2>4. \A i \in 1..Len(e) : i = Len(s) + 1 \/ i \in 1..Len(s)
      BY <1>4, <2>2
    <2> QED BY <1>3, <2>2, <2>3, <2>4 DEF OneEach
  <1>6. CASE I # {}
    <2>1. at \in I
      <3>1. I \in SUBSET Nat
        BY <1>4
      <3>2. Min(I) \in I
        <4> HIDE DEF I
        <4> QED BY <1>6, <3>1, MinOfNats
      <3> QED BY <1>2, <1>6, <3>2
    <2>2. at # 0
      BY <1>4, <2>1
    <2>3. Len(e) = Len(s) /\ e[at] = new /\ \A i \in 1..Len(s) : i # at => e[i] = s[i]
      BY <1>3, <1>4, <2>1, <2>2, ExceptSeq
    <2>4. \A i \in 1..Len(s) : e[i].prefix = s[i].prefix
      BY <2>1, <2>3
    <2> QED BY <1>3, <2>3, <2>4 DEF OneEach
  <1> QED BY <1>5, <1>6

\* In tidy scopes one mapping of a prefix is in force.
LEMMA InForceOnce ==
    ASSUME NEW s \in Seq(Seq(Mapping)), Tidy(s), NEW i \in 0..Len(s), NEW m, NEW o,
           InForce(s, i, m), InForce(s, i, o), m.prefix = o.prefix
    PROVE  m = o
  <1>1. PICK j \in 1..i : /\ m \in ToSet(s[j])
                          /\ \A k \in (j + 1)..i : \A q \in ToSet(s[k]) : q.prefix # m.prefix
    BY DEF InForce
  <1>2. PICK l \in 1..i : /\ o \in ToSet(s[l])
                          /\ \A k \in (l + 1)..i : \A q \in ToSet(s[k]) : q.prefix # o.prefix
    BY DEF InForce
  <1>3. j = l
    <2>1. ~(l \in (j + 1)..i) /\ ~(j \in (l + 1)..i)
      BY <1>1, <1>2
    <2> QED BY <2>1
  <1>4. j \in 1..Len(s)
    OBVIOUS
  <1>5. s[j] \in Seq(Mapping) /\ OneEach(s[j])
    BY <1>4, SequenceIs DEF Tidy
  <1> QED BY <1>1, <1>2, <1>3, <1>5, OneEachIs

\* getNamespaceMapping returns the mapping in force.
LEMMA MappingInForce ==
    ASSUME NEW c \in Context, NEW p, NEW m, m = NamespaceMapping(c, p), m # NoMapping
    PROVE  InForce(c.scopes, Len(c.scopes), m) /\ m.prefix = p /\ m \in Mapping
  <1> DEFINE n == Len(c.scopes)
             binding == {i \in DOMAIN c.scopes : \E q \in ToSet(c.scopes[i]) : q.prefix = p}
  <1>1. n \in Nat /\ binding \in SUBSET (1..n) /\ DOMAIN c.scopes = 1..n
    BY ContextIs
  <1>2. binding # {}
    BY DEF NamespaceMapping
  <1>3. PICK j : j = Max(binding)
    OBVIOUS
  <1>4. j \in binding /\ \A k \in binding : k <= j
    <2> HIDE DEF binding, n
    <2> QED BY <1>1, <1>2, <1>3, MaxOfNats
  <1>5. m = CHOOSE q \in ToSet(c.scopes[j]) : q.prefix = p
    BY <1>2, <1>3 DEF NamespaceMapping
  <1>6. m \in ToSet(c.scopes[j]) /\ m.prefix = p
    BY <1>4, <1>5
  <1>7. j \in 1..n /\ c.scopes[j] \in Seq(Mapping)
    BY <1>1, <1>4, ContextIs
  <1>8. m \in Mapping
    BY <1>6, <1>7, SequenceIs
  <1>9. \A k \in (j + 1)..n : \A q \in ToSet(c.scopes[k]) : q.prefix # m.prefix
    <2>1. ASSUME NEW k \in (j + 1)..n PROVE k \notin binding /\ k \in 1..n
      BY <1>1, <1>4, <1>7
    <2> QED BY <1>1, <1>6, <2>1
  <1> QED BY <1>6, <1>7, <1>8, <1>9 DEF InForce

\* What is declared is found, and the other way round.
LEMMA DeclaresIs ==
    ASSUME NEW c \in Context, NEW p \in Prefix, NEW u \in Uri
    PROVE  /\ ~Declares(c, p, u) => Believed(c.scopes, Len(c.scopes), p, u)
           /\ Tidy(c.scopes) /\ Believed(c.scopes, Len(c.scopes), p, u) => NamespaceURI(c, p) = u
  <1>1. PICK m : m = NamespaceMapping(c, p)
    OBVIOUS
  <1>2. ASSUME ~Declares(c, p, u)
        PROVE  Believed(c.scopes, Len(c.scopes), p, u)
    <2>1. m.uri = u /\ m.declared
      BY <1>1, <1>2 DEF Declares
    <2>2. m # NoMapping
      BY <2>1, PrefixAssumption DEF NoMapping
    <2>3. InForce(c.scopes, Len(c.scopes), m) /\ m.prefix = p /\ m \in Mapping
      BY <1>1, <2>2, MappingInForce
    <2>4. m = [prefix |-> p, uri |-> u, declared |-> TRUE]
      BY <2>1, <2>3 DEF Mapping
    <2> QED BY <2>3, <2>4 DEF Believed
  <1>3. ASSUME Tidy(c.scopes), Believed(c.scopes, Len(c.scopes), p, u)
        PROVE  NamespaceURI(c, p) = u
    <2>1. PICK new : new = [prefix |-> p, uri |-> u, declared |-> TRUE]
      OBVIOUS
    <2>2. InForce(c.scopes, Len(c.scopes), new) /\ new.prefix = p /\ new.uri = u
      BY <1>3, <2>1 DEF Believed
    <2>3. m # NoMapping
      <3>1. PICK j \in 1..Len(c.scopes) : new \in ToSet(c.scopes[j])
        BY <2>2 DEF InForce
      <3>2. ~Unbound(c, p)
        BY <2>2, <3>1 DEF Unbound
      <3>3. m \in Mapping
        BY <1>1, <3>2, MappingIs
      <3> QED BY <3>3, PrefixAssumption DEF Mapping, NoMapping
    <2>4. InForce(c.scopes, Len(c.scopes), m) /\ m.prefix = p
      BY <1>1, <2>3, MappingInForce
    <2>5. c.scopes \in Seq(Seq(Mapping)) /\ Len(c.scopes) \in 0..Len(c.scopes)
      BY ContextIs
    <2>6. m = new
      BY <1>3, <2>2, <2>4, <2>5, InForceOnce
    <2> QED BY <1>1, <2>2, <2>6 DEF NamespaceURI
  <1> QED BY <1>2, <1>3

\* e comes of c by a binding that puts the mapping in force, and nothing else.
Binds(c, e, new) ==
    /\ e \in Under(c)
    /\ \A j \in 1..(Len(c.scopes) - 1) : e.scopes[j] = c.scopes[j]
    /\ Tidy(e.scopes)
    /\ InForce(e.scopes, Len(c.scopes), new)
    /\ \A m : InForce(e.scopes, Len(c.scopes), m) => m = new \/ InForce(c.scopes, Len(c.scopes), m)

LEMMA BindInForce ==
    ASSUME NEW c \in Context, Len(c.scopes) # 0, Tidy(c.scopes),
           NEW p \in Prefix, NEW u \in Uri, NEW declared \in BOOLEAN,
           NEW new, new = [prefix |-> p, uri |-> u, declared |-> declared],
           NEW e, e = Bind(c, p, u, declared)
    PROVE  Binds(c, e, new)
  <1>1. PICK n : n = Len(c.scopes)
    OBVIOUS
  <1>2. PICK s, t : s = c.scopes[n] /\ t = e.scopes[n]
    OBVIOUS
  <1>3. n \in Nat /\ n \in 1..n /\ s \in Seq(Mapping) /\ OneEach(s) /\ Last(c.scopes) = s
    BY <1>1, <1>2, ContextIs DEF Last, Tidy
  <1>4. /\ e \in Context /\ Len(e.scopes) = n
        /\ \A j \in 1..(n - 1) : e.scopes[j] = c.scopes[j]
        /\ ScopeWith(s, t, new)
    BY <1>1, <1>2, BindIs DEF ContextWith
  <1>5. new \in Mapping /\ new.prefix = p
    BY DEF Mapping
  <1>6. t = Rebound(s, new)
    <2>1. Bind(c, p, u, declared) = [c EXCEPT !.scopes[n] = Rebound(s, new)]
      BY <1>1, <1>3, <1>5 DEF Bind, Rebound
    <2>2. c = [scopes |-> c.scopes, prefixCount |-> c.prefixCount] /\ n \in DOMAIN c.scopes
      BY <1>1, <1>3, ContextIs
    <2> QED BY <1>2, <2>1, <2>2
  <1>7. t \in Seq(Mapping) /\ OneEach(t)
    BY <1>3, <1>4, <1>5, <1>6, ReboundOneEach DEF ScopeWith
  <1>8. Tidy(e.scopes)
    <2>1. ASSUME NEW j \in 1..n PROVE OneEach(e.scopes[j])
      <3>1. CASE j = n
        BY <1>2, <1>7, <3>1
      <3>2. CASE j # n
        <4>1. j \in 1..(n - 1)
          BY <1>3, <3>2
        <4> QED BY <1>1, <1>4, <4>1 DEF Tidy
      <3> QED BY <3>1, <3>2
    <2> QED BY <1>4, <2>1 DEF Tidy
  <1>9. InForce(e.scopes, n, new)
    <2>1. new \in ToSet(e.scopes[n]) /\ \A k \in (n + 1)..n : FALSE
      BY <1>2, <1>3, <1>4 DEF ScopeWith
    <2> QED BY <1>3, <2>1 DEF InForce
  <1>10. ASSUME NEW m, InForce(e.scopes, n, m), m # new PROVE InForce(c.scopes, n, m)
    <2>1. PICK j \in 1..n : /\ m \in ToSet(e.scopes[j])
                            /\ \A k \in (j + 1)..n : \A o \in ToSet(e.scopes[k]) : o.prefix # m.prefix
      BY <1>10 DEF InForce
    <2>2. m.prefix # new.prefix
      <3>1. CASE j = n
        <4>1. m \in ToSet(t) /\ new \in ToSet(t)
          BY <1>2, <1>4, <2>1, <3>1 DEF ScopeWith
        <4> QED BY <1>7, <1>10, <4>1, OneEachIs
      <3>2. CASE j # n
        <4>1. n \in (j + 1)..n /\ new \in ToSet(e.scopes[n])
          BY <1>2, <1>3, <1>4, <3>2 DEF ScopeWith
        <4> QED BY <2>1, <4>1
      <3> QED BY <3>1, <3>2
    <2>3. m \in ToSet(c.scopes[j])
      <3>1. CASE j = n
        BY <1>2, <1>4, <1>10, <2>1, <3>1 DEF ScopeWith
      <3>2. CASE j # n
        <4>1. j \in 1..(n - 1)
          BY <1>3, <3>2
        <4> QED BY <1>4, <2>1, <4>1
      <3> QED BY <3>1, <3>2
    <2>4. ASSUME NEW k \in (j + 1)..n, NEW o \in ToSet(c.scopes[k]) PROVE o.prefix # m.prefix
      <3>1. CASE k = n
        <4>1. o.prefix # new.prefix => o \in ToSet(t)
          BY <1>2, <1>4, <2>4, <3>1 DEF ScopeWith
        <4> QED BY <1>2, <2>1, <2>2, <2>4, <3>1, <4>1
      <3>2. CASE k # n
        <4>1. k \in 1..(n - 1)
          BY <1>3, <3>2
        <4> QED BY <1>4, <2>1, <2>4, <4>1
      <3> QED BY <3>1, <3>2
    <2> QED BY <2>3, <2>4 DEF InForce
  <1> QED BY <1>1, <1>4, <1>8, <1>9, <1>10 DEF Binds, Under

\* e comes of c by bindings in the innermost scope; what it takes to be declared c did, or is in D.
Follows(c, e, D) ==
    /\ e \in Under(c)
    /\ \A j \in 1..(Len(c.scopes) - 1) : e.scopes[j] = c.scopes[j]
    /\ Tidy(e.scopes)
    /\ \A p \in Prefix, u \in Uri :
          Believed(e.scopes, Len(c.scopes), p, u) =>
              Believed(c.scopes, Len(c.scopes), p, u) \/ [prefix |-> p, uri |-> u] \in D

LEMMA FollowsOn ==
    ASSUME NEW c \in Context, Tidy(c.scopes)
    PROVE  /\ Follows(c, c, {})
           /\ \A d, e, D, E : Follows(c, d, D) /\ Follows(d, e, E) => Follows(c, e, D \cup E)
  BY DEF Follows, Under

\* declareNamespace, addNamespace and registerNamespace.
LEMMA DeclareFollows ==
    ASSUME NEW c \in Context, Len(c.scopes) # 0, Tidy(c.scopes), NEW p \in Prefix, NEW u \in Uri,
           NEW e, e = DeclareNamespace(c, p, u)
    PROVE  /\ Follows(c, e, IF Declares(c, p, u) THEN {[prefix |-> p, uri |-> u]} ELSE {})
           /\ Believed(e.scopes, Len(e.scopes), p, u)
  <1>1. CASE Declares(c, p, u)
    <2>1. PICK new : new = [prefix |-> p, uri |-> u, declared |-> TRUE]
      OBVIOUS
    <2>2. PICK declared \in BOOLEAN : declared = TRUE
      OBVIOUS
    <2>3. e = Bind(c, p, u, declared) /\ new = [prefix |-> p, uri |-> u, declared |-> declared]
      BY <1>1, <2>1, <2>2 DEF DeclareNamespace
    <2>4. /\ e \in Under(c) /\ \A j \in 1..(Len(c.scopes) - 1) : e.scopes[j] = c.scopes[j]
          /\ Tidy(e.scopes)
          /\ InForce(e.scopes, Len(c.scopes), new)
          /\ \A m : InForce(e.scopes, Len(c.scopes), m) => m = new \/ InForce(c.scopes, Len(c.scopes), m)
      <3>1. Binds(c, e, new)
        BY <2>3, BindInForce
      <3> QED BY <3>1 DEF Binds
    <2>5. ASSUME NEW q \in Prefix, NEW v \in Uri, Believed(e.scopes, Len(c.scopes), q, v)
          PROVE  Believed(c.scopes, Len(c.scopes), q, v) \/ (q = p /\ v = u)
      <3>1. PICK m : m = [prefix |-> q, uri |-> v, declared |-> TRUE]
        OBVIOUS
      <3>2. m = new => q = p /\ v = u
        BY <2>1, <3>1
      <3> QED BY <2>4, <2>5, <3>1, <3>2 DEF Believed
    <2>6. PICK D : D = {[prefix |-> p, uri |-> u]}
      OBVIOUS
    <2>7. \A q \in Prefix, v \in Uri : Believed(e.scopes, Len(c.scopes), q, v) =>
             Believed(c.scopes, Len(c.scopes), q, v) \/ [prefix |-> q, uri |-> v] \in D
      BY <2>5, <2>6
    <2>8. Follows(c, e, D)
      BY <2>4, <2>7 DEF Follows
    <2>9. Believed(e.scopes, Len(e.scopes), p, u)
      BY <2>1, <2>4 DEF Believed, Under
    <2> QED BY <1>1, <2>6, <2>8, <2>9
  <1>2. CASE ~Declares(c, p, u)
    <2>1. e = c
      BY <1>2 DEF DeclareNamespace
    <2> QED BY <1>2, <2>1, DeclaresIs, FollowsOn
  <1> QED BY <1>1, <1>2

\* A binding that is not declared.
LEMMA BindFollows ==
    ASSUME NEW c \in Context, Len(c.scopes) # 0, Tidy(c.scopes), NEW p \in Prefix, NEW u \in Uri
    PROVE  Follows(c, Bind(c, p, u, FALSE), {})
  <1>1. PICK new, e : new = [prefix |-> p, uri |-> u, declared |-> FALSE] /\ e = Bind(c, p, u, FALSE)
    OBVIOUS
  <1>2. PICK declared \in BOOLEAN : declared = FALSE
    OBVIOUS
  <1>3. /\ e = Bind(c, p, u, declared)
        /\ new = [prefix |-> p, uri |-> u, declared |-> declared]
    BY <1>1, <1>2
  <1>4. /\ e \in Under(c) /\ \A j \in 1..(Len(c.scopes) - 1) : e.scopes[j] = c.scopes[j]
        /\ Tidy(e.scopes)
        /\ \A m : InForce(e.scopes, Len(c.scopes), m) => m = new \/ InForce(c.scopes, Len(c.scopes), m)
    BY <1>3, BindInForce DEF Binds
  <1>5. ASSUME NEW q \in Prefix, NEW v \in Uri, Believed(e.scopes, Len(c.scopes), q, v)
        PROVE  Believed(c.scopes, Len(c.scopes), q, v)
    <2>1. PICK m : m = [prefix |-> q, uri |-> v, declared |-> TRUE]
      OBVIOUS
    <2>2. m.declared /\ ~new.declared
      BY <1>1, <2>1
    <2> QED BY <1>4, <1>5, <2>1, <2>2 DEF Believed
  <1>6. \A q \in Prefix, v \in Uri : Believed(e.scopes, Len(c.scopes), q, v) =>
           Believed(c.scopes, Len(c.scopes), q, v) \/ [prefix |-> q, uri |-> v] \in {}
    BY <1>5
  <1>7. Follows(c, e, {})
    BY <1>4, <1>6 DEF Follows
  <1> QED BY <1>1, <1>7

LEMMA AddFollows ==
    ASSUME NEW c \in Context, Len(c.scopes) # 0, Tidy(c.scopes), NEW p \in Prefix, NEW u \in Uri
    PROVE  Follows(c, AddNamespace(c, p, u), {})
  BY BindFollows, FollowsOn DEF AddNamespace

LEMMA RegisterFollows ==
    ASSUME NEW c \in Context, Len(c.scopes) # 0, Tidy(c.scopes), NEW u \in Uri, CanRegister(c, u)
    PROVE  Follows(c, RegisterNamespace(c, u), {})
  <1>1. CASE PrefixOf(c, u) # NoPrefix
    BY <1>1, FollowsOn DEF RegisterNamespace
  <1>2. CASE PrefixOf(c, u) = NoPrefix
    <2>1. PICK n, p : n = NextPrefix(c) /\ p = Generated[n]
      OBVIOUS
    <2>2. n \in Unused(c)
      <3>1. Unused(c) # {} /\ Unused(c) \in SUBSET Nat
        BY <1>2, PrefixAssumption DEF CanRegister, Unused
      <3> QED BY <2>1, <3>1, MinOfNats DEF NextPrefix
    <2>3. n \in Nat /\ p \in Prefix
      BY <2>1, <2>2, PrefixAssumption DEF Unused
    <2>4. PICK d : d = [c EXCEPT !.prefixCount = n]
      OBVIOUS
    <2>5. d \in Context /\ d.scopes = c.scopes
      <3>1. d = [scopes |-> c.scopes, prefixCount |-> n]
        BY <2>4, ContextIs
      <3> QED BY <2>3, <3>1, ContextIs DEF Context
    <2>6. RegisterNamespace(c, u) = Bind(d, p, u, FALSE)
      BY <1>2, <2>1, <2>4 DEF RegisterNamespace
    <2>7. Follows(d, Bind(d, p, u, FALSE), {})
      BY <2>3, <2>5, BindFollows
    <2> QED BY <2>5, <2>6, <2>7 DEF Follows, Under
  <1> QED BY <1>1, <1>2

-----------------------------------------------------------------------------
(* What the tags show: the activations fs from the outermost to the i-th, and then a tag t, or    *)
(* what an activation has declared.                                                               *)

Concerns(t, p) == p \in t.omitted \/ p \in PrefixesOf(t.decls)

Agrees(t, p, u) ==
    p \in t.omitted \/ {d \in t.decls : d.prefix = p} = {[prefix |-> p, uri |-> u]}

\* The nearest tag that has to do with the prefix declares it as the namespace, or lacks that.
Given(fs, i, p, u) ==
    \E j \in 1..i : /\ Agrees(fs[j].tag, p, u)
                    /\ \A k \in (j + 1)..i : ~Concerns(fs[k].tag, p)

Shows(fs, i, t, p, u) == IF Concerns(t, p) THEN Agrees(t, p, u) ELSE Given(fs, i, p, u)

\* The prefix is on a tag.
Notes(fs, i, t, p) == Concerns(t, p) \/ \E j \in 1..i : Concerns(fs[j].tag, p)

\* The prefix may be written, for the namespace; or for one no schema says.
Named(fs, i, t, p) == p = NoPrefix \/ p \in Ignored \/ Notes(fs, i, t, p)

Meant(fs, i, t, p, u) ==
    p # NoPrefix => IF u = NoUri THEN Notes(fs, i, t, p) ELSE Shows(fs, i, t, p, u)

\* What the activation has declared, or should have, since its own tag.
Own(f) == [decls |-> ToSet(f.decls), omitted |-> f.omitted]

ItemPrefix(f) == IF f.parent # NoPrefix THEN f.parent ELSE f.ns

\* The activation f in the place of the i-th: what it may write is shown.
Kept(fs, i, f) ==
    /\ Named(fs, i, Own(f), f.prefix)
    /\ Named(fs, i, Own(f), f.ns)
    /\ f.xsi # NoXsi => f.xsi \in f.tag.decls
    /\ ToSet(f.childDecl) \subseteq ToSet(f.decls)
    /\ \A d, e \in ToSet(f.decls) : d.prefix = e.prefix => d = e
    /\ f.first => /\ Meant(fs, i, Own(f), f.prefix, f.uri)
                  /\ f.ns \in {NoPrefix, f.prefix}
    /\ f.kind = "array" => Meant(fs, i, Own(f), ItemPrefix(f), f.means)

\* What the scopes s take to be declared there is.
Claimed(fs, i, f, s) ==
    \A p \in Prefix, u \in Uri : Believed(s, i, p, u) => Shows(fs, i, Own(f), p, u)

\* The i-th activation, and the tag it has.
Sound(fs, s, i) ==
    /\ Meant(fs, i, NoTag, fs[i].tag.prefix, fs[i].tag.uri)
    /\ Kept(fs, i, fs[i])
    /\ Claimed(fs, i, fs[i], s)

\* The inductive invariant.
AllSound == Tidy(ctx.scopes) /\ \A i \in 1..Len(frames) : Sound(frames, ctx.scopes, i)

\* What is declared with a prefix has to do with it.
LEMMA AgreesConcerns ==
    ASSUME NEW t, NEW p, NEW u, Agrees(t, p, u)
    PROVE  Concerns(t, p)
  BY DEF Agrees, Concerns, PrefixesOf

LEMMA NoTagIs == NoTag.prefix = NoPrefix /\ NoTag.uri = NoUri /\ \A p : ~Concerns(NoTag, p)
  <1>1. NoTag.prefix = NoPrefix /\ NoTag.uri = NoUri /\ NoTag.decls = {} /\ NoTag.omitted = {}
    BY DEF NoTag
  <1>2. PrefixesOf({}) = {}
    BY DEF PrefixesOf
  <1> QED BY <1>1, <1>2 DEF Concerns

\* A prefix that is shown is on a tag.
LEMMA ShownIsNoted ==
    ASSUME NEW fs, NEW i, NEW t, NEW p, NEW u
    PROVE  /\ Shows(fs, i, t, p, u) => Notes(fs, i, t, p)
           /\ Meant(fs, i, t, p, u) => p = NoPrefix \/ Notes(fs, i, t, p)
  <1>1. Shows(fs, i, t, p, u) => Notes(fs, i, t, p)
    BY AgreesConcerns DEF Shows, Notes, Given
  <1> QED BY <1>1 DEF Meant

\* Activations with the same tags show the same.
LEMMA SameShown ==
    ASSUME NEW fs, NEW ks, NEW n \in Nat, \A j \in 1..n : ks[j].tag = fs[j].tag,
           NEW i \in 0..n, NEW t, NEW p
    PROVE  /\ \A u : Shows(ks, i, t, p, u) <=> Shows(fs, i, t, p, u)
           /\ \A u : Meant(ks, i, t, p, u) <=> Meant(fs, i, t, p, u)
           /\ Notes(ks, i, t, p) <=> Notes(fs, i, t, p)
           /\ Named(ks, i, t, p) <=> Named(fs, i, t, p)
  <1>1. \A j \in 1..i : ks[j].tag = fs[j].tag /\ \A k \in (j + 1)..i : ks[k].tag = fs[k].tag
    OBVIOUS
  <1>2. \A u : Given(ks, i, p, u) <=> Given(fs, i, p, u)
    BY <1>1 DEF Given
  <1>3. Notes(ks, i, t, p) <=> Notes(fs, i, t, p)
    BY <1>1 DEF Notes
  <1>4. \A u : Shows(ks, i, t, p, u) <=> Shows(fs, i, t, p, u)
    BY <1>2 DEF Shows
  <1> QED BY <1>3, <1>4 DEF Meant, Named

LEMMA SameKept ==
    ASSUME NEW fs, NEW ks, NEW n \in Nat, \A j \in 1..n : ks[j].tag = fs[j].tag,
           NEW i \in 0..n, NEW f
    PROVE  /\ Kept(ks, i, f) <=> Kept(fs, i, f)
           /\ \A s : Claimed(ks, i, f, s) <=> Claimed(fs, i, f, s)
  BY SameShown DEF Kept, Claimed

\* One tag more: what was shown with it is shown by it.
LEMMA NextShown ==
    ASSUME NEW fs, NEW ks, NEW n \in Nat, \A j \in 1..n : ks[j].tag = fs[j].tag,
           NEW t, \A p : Concerns(ks[n + 1].tag, p) <=> Concerns(t, p),
           NEW p
    PROVE  /\ \A u : (Agrees(t, p, u) => Agrees(ks[n + 1].tag, p, u)) /\ Shows(fs, n, t, p, u)
                        => Given(ks, n + 1, p, u)
           /\ Notes(fs, n, t, p) => \E j \in 1..(n + 1) : Concerns(ks[j].tag, p)
  <1>1. n + 1 \in 1..(n + 1) /\ \A k \in ((n + 1) + 1)..(n + 1) : FALSE
    OBVIOUS
  <1>2. ASSUME NEW u, Agrees(t, p, u) => Agrees(ks[n + 1].tag, p, u), Shows(fs, n, t, p, u)
        PROVE  Given(ks, n + 1, p, u)
    <2>1. CASE Concerns(t, p)
      BY <1>1, <1>2, <2>1 DEF Shows, Given
    <2>2. CASE ~Concerns(t, p)
      <3>1. PICK j \in 1..n : /\ Agrees(fs[j].tag, p, u)
                              /\ \A k \in (j + 1)..n : ~Concerns(fs[k].tag, p)
        BY <1>2, <2>2 DEF Shows, Given
      <3>2. j \in 1..(n + 1) /\ Agrees(ks[j].tag, p, u)
        BY <3>1
      <3>3. ASSUME NEW k \in (j + 1)..(n + 1) PROVE ~Concerns(ks[k].tag, p)
        <4>1. CASE k = n + 1
          BY <2>2, <4>1
        <4>2. CASE k # n + 1
          <5>1. k \in (j + 1)..n /\ k \in 1..n
            BY <4>2
          <5> QED BY <3>1, <5>1
        <4> QED BY <4>1, <4>2
      <3> QED BY <3>2, <3>3 DEF Given
    <2> QED BY <2>1, <2>2
  <1>3. ASSUME Notes(fs, n, t, p) PROVE \E j \in 1..(n + 1) : Concerns(ks[j].tag, p)
    <2>1. CASE Concerns(t, p)
      BY <1>1, <2>1
    <2>2. CASE ~Concerns(t, p)
      <3>1. PICK j \in 1..n : Concerns(fs[j].tag, p)
        BY <1>3, <2>2 DEF Notes
      <3>2. j \in 1..(n + 1) /\ ks[j].tag = fs[j].tag
        BY <3>1
      <3> QED BY <3>1, <3>2
    <2> QED BY <2>1, <2>2
  <1> QED BY <1>2, <1>3

-----------------------------------------------------------------------------
(* The steps in general. *)

\* What is in force in a scope depends on the scopes around it only, and no new one changes that.
LEMMA SameInForce ==
    ASSUME NEW s, NEW e, NEW i \in Nat, \A j \in 1..i : e[j] = s[j]
    PROVE  /\ \A p, u : Believed(e, i, p, u) <=> Believed(s, i, p, u)
           /\ e[i + 1] = <<>> => \A p, u : Believed(e, i + 1, p, u) => Believed(s, i, p, u)
  <1>1. ASSUME NEW m PROVE InForce(e, i, m) <=> InForce(s, i, m)
    <2>1. \A j \in 1..i : \A k \in (j + 1)..i : e[j] = s[j] /\ e[k] = s[k]
      OBVIOUS
    <2> QED BY <2>1 DEF InForce
  <1>2. ASSUME e[i + 1] = <<>>, NEW m, InForce(e, i + 1, m) PROVE InForce(e, i, m)
    <2>1. PICK j \in 1..(i + 1) : /\ m \in ToSet(e[j])
                                  /\ \A k \in (j + 1)..(i + 1) : \A o \in ToSet(e[k]) : o.prefix # m.prefix
      BY <1>2 DEF InForce
    <2>2. ToSet(<<>>) = {}
      BY DEF ToSet
    <2>3. j \in 1..i /\ \A k \in (j + 1)..i : k \in (j + 1)..(i + 1)
      BY <1>2, <2>1, <2>2
    <2> QED BY <2>1, <2>3 DEF InForce
  <1> QED BY <1>1, <1>2 DEF Believed

\* f may go on in the place of the innermost activation, with the namespaces c.
Resumed(f, c) ==
    /\ f \in Frame
    /\ f.tag = Top.tag
    /\ Follows(ctx, c, Declaration)
    /\ Kept(frames, Len(frames), f)
    /\ Claimed(frames, Len(frames), f, c.scopes)

Nothing == [decls |-> {}, omitted |-> {}]

\* g may be entered from it: t is what it adds to the tags that are seen.
Opened(g, t, c) ==
    /\ g \in Frame
    /\ ~g.first
    /\ IF g.kind = "object" THEN g.tag = t /\ Own(g) = Nothing ELSE g.tag = NoTag /\ Own(g) = t
    /\ g.kind = "object" => Meant(frames, Len(frames), t, g.tag.prefix, g.tag.uri)
    /\ g.kind = "array" => Meant(frames, Len(frames), t, ItemPrefix(g), g.means)
    /\ Named(frames, Len(frames), t, g.prefix)
    /\ Named(frames, Len(frames), t, g.ns)
    /\ g.xsi # NoXsi => g.xsi \in g.tag.decls
    /\ ToSet(g.childDecl) \subseteq ToSet(g.decls)
    /\ \A d, e \in ToSet(g.decls) : d.prefix = e.prefix => d = e
    /\ \A p \in Prefix, u \in Uri :
          Believed(c.scopes, Len(frames), p, u) => Shows(frames, Len(frames), t, p, u)

\* What is shown as the innermost activation is entered it sees.
LEMMA OpenedShown ==
    ASSUME NEW fs, NEW ks, NEW n \in Nat, \A j \in 1..n : ks[j].tag = fs[j].tag,
           NEW g, g = ks[n + 1], NEW t,
           IF g.kind = "object" THEN g.tag = t /\ Own(g) = Nothing ELSE g.tag = NoTag /\ Own(g) = t,
           NEW p
    PROVE  /\ \A u : Shows(fs, n, t, p, u) => Shows(ks, n + 1, Own(g), p, u)
           /\ \A u : Meant(fs, n, t, p, u) => Meant(ks, n + 1, Own(g), p, u)
           /\ Named(fs, n, t, p) => Named(ks, n + 1, Own(g), p)
  <1>1. ~Concerns(Nothing, p) /\ ~Concerns(NoTag, p)
    BY NoTagIs DEF Nothing, Concerns, PrefixesOf
  <1>2. PICK b : b = g.tag /\ b = ks[n + 1].tag
    OBVIOUS
  <1>3. /\ \A u : Shows(fs, n, b, p, u) => Given(ks, n + 1, p, u)
        /\ Notes(fs, n, b, p) => \E j \in 1..(n + 1) : Concerns(ks[j].tag, p)
    BY <1>2, NextShown
  <1>4. CASE g.kind = "object"
    <2>1. \A u : Shows(fs, n, t, p, u) => Shows(ks, n + 1, Own(g), p, u)
      BY <1>1, <1>2, <1>3, <1>4 DEF Shows
    <2>2. Notes(fs, n, t, p) => Notes(ks, n + 1, Own(g), p)
      BY <1>2, <1>3, <1>4 DEF Notes
    <2> QED BY <2>1, <2>2 DEF Meant, Named
  <1>5. CASE g.kind # "object"
    <2>1. \A u : Shows(fs, n, t, p, u) => Shows(ks, n + 1, Own(g), p, u)
      BY <1>1, <1>2, <1>3, <1>5 DEF Shows
    <2>2. Notes(fs, n, t, p) => Notes(ks, n + 1, Own(g), p)
      <3>1. ASSUME NEW j \in 1..n, Concerns(fs[j].tag, p)
            PROVE  \E k \in 1..(n + 1) : Concerns(ks[k].tag, p)
        BY <3>1
      <3> QED BY <1>5, <3>1 DEF Notes
    <2> QED BY <2>1, <2>2 DEF Meant, Named
  <1> QED BY <1>4, <1>5

\* A recursive call.
LEMMA EnterSound ==
    ASSUME Typed, AllSound, frames # <<>>, NEW f, NEW c, Resumed(f, c), NEW g, NEW t, Opened(g, t, c),
           NEW d, Follows(c, d, {}), Enter(f, g, d)
    PROVE  AllSound'
  <1>1. PICK n, s : n = Len(frames) /\ s = ctx.scopes
    OBVIOUS
  <1>2. /\ n \in Nat /\ n # 0 /\ Len(s) = n /\ Top = frames[n] /\ ctx \in Context
        /\ frames \in Seq(Frame)
    BY <1>1, TopTyped DEF Typed, TypeOK, ScopesMatchFrames
  <1>3. /\ c \in Context /\ Len(c.scopes) = n /\ \A j \in 1..(n - 1) : c.scopes[j] = s[j]
        /\ d \in Context /\ Len(d.scopes) = n /\ \A j \in 1..(n - 1) : d.scopes[j] = s[j]
        /\ Tidy(d.scopes)
        /\ \A p \in Prefix, u \in Uri : Believed(d.scopes, n, p, u) => Believed(c.scopes, n, p, u)
    BY <1>1, <1>2 DEF Resumed, Follows, Under
  <1>4. PICK ks : ks = frames'
    OBVIOUS
  <1>5. /\ Len(ks) = n + 1 /\ ks[n] = f /\ ks[n + 1] = g
        /\ \A j \in 1..n : j # n => ks[j] = frames[j]
    <2>1. PICK hs : hs = [frames EXCEPT ![n] = f]
      OBVIOUS
    <2>2. ks = Append(hs, g)
      BY <1>1, <1>4, <2>1 DEF Enter
    <2>3. f \in Frame /\ g \in Frame /\ n \in 1..n
      BY <1>2 DEF Resumed, Opened
    <2>4. hs \in Seq(Frame) /\ Len(hs) = n /\ \A j \in 1..n : hs[j] = IF j = n THEN f ELSE frames[j]
      BY <1>1, <1>2, <2>1, <2>3, ExceptSeq
    <2>5. Len(ks) = n + 1 /\ ks[n + 1] = g /\ \A j \in 1..n : ks[j] = hs[j]
      BY <2>2, <2>3, <2>4, AppendProperties
    <2> QED BY <2>3, <2>4, <2>5
  <1>6. \A j \in 1..n : ks[j].tag = frames[j].tag
    BY <1>2, <1>5 DEF Resumed
  <1>7. PICK e : e = ctx'.scopes
    OBVIOUS
  <1>8. Len(e) = n + 1 /\ e[n + 1] = <<>> /\ \A j \in 1..n : e[j] = d.scopes[j]
    <2>1. e = Append(d.scopes, <<>>)
      <3>1. ctx' = PushContext(d) /\ d = [scopes |-> d.scopes, prefixCount |-> d.prefixCount]
        BY <1>3, ContextIs DEF Enter
      <3> QED BY <1>7, <3>1 DEF PushContext
    <2>2. d.scopes \in Seq(Seq(Mapping)) /\ <<>> \in Seq(Mapping)
      BY <1>3, ContextIs
    <2> QED BY <1>3, <2>1, <2>2, AppendProperties
  <1>9. Tidy(e)
    <2>1. OneEach(<<>>)
      BY DEF OneEach
    <2>2. \A j \in 1..(n + 1) : j = n + 1 \/ j \in 1..n
      BY <1>2
    <2> QED BY <1>3, <1>8, <2>1, <2>2 DEF Tidy
  <1>10. ASSUME NEW i \in 1..n, i # n PROVE Sound(ks, e, i)
    <2>1. Sound(frames, s, i) /\ i \in 0..n /\ ks[i] = frames[i]
      BY <1>1, <1>5, <1>10 DEF AllSound
    <2>2. \A p, u : Believed(e, i, p, u) <=> Believed(s, i, p, u)
      <3>1. i \in Nat /\ \A j \in 1..i : e[j] = s[j]
        BY <1>3, <1>8, <1>10
      <3> QED BY <3>1, SameInForce
    <2>3. Claimed(frames, i, frames[i], e)
      BY <2>1, <2>2 DEF Sound, Claimed
    <2>4. Meant(ks, i, NoTag, ks[i].tag.prefix, ks[i].tag.uri)
      BY <1>2, <1>6, <2>1, SameShown DEF Sound
    <2>5. Kept(ks, i, ks[i]) /\ Claimed(ks, i, ks[i], e)
      BY <1>2, <1>6, <2>1, <2>3, SameKept DEF Sound
    <2> QED BY <2>4, <2>5 DEF Sound
  <1>11. Sound(ks, e, n)
    <2>1. Sound(frames, s, n) /\ n \in 0..n
      BY <1>1, <1>2 DEF AllSound
    <2>2. \A p, u : Believed(e, n, p, u) <=> Believed(d.scopes, n, p, u)
      BY <1>2, <1>8, SameInForce
    <2>3. Kept(frames, n, f) /\ Claimed(frames, n, f, e)
      BY <1>1, <1>3, <2>2 DEF Resumed, Claimed
    <2>4. Meant(ks, n, NoTag, ks[n].tag.prefix, ks[n].tag.uri)
      <3>1. ks[n].tag = frames[n].tag
        BY <1>2, <1>6
      <3> QED BY <1>2, <1>6, <2>1, <3>1, SameShown DEF Sound
    <2>5. Kept(ks, n, f) /\ Claimed(ks, n, f, e)
      BY <1>2, <1>6, <2>1, <2>3, SameKept
    <2> QED BY <1>5, <2>4, <2>5 DEF Sound
  <1>12. Sound(ks, e, n + 1)
    <2>1. /\ \A p, u : Shows(frames, n, t, p, u) => Shows(ks, n + 1, Own(g), p, u)
          /\ \A p, u : Meant(frames, n, t, p, u) => Meant(ks, n + 1, Own(g), p, u)
          /\ \A p : Named(frames, n, t, p) => Named(ks, n + 1, Own(g), p)
      BY <1>2, <1>5, <1>6, OpenedShown DEF Opened
    <2>2. Kept(ks, n + 1, g)
      BY <1>1, <2>1 DEF Opened, Kept
    <2>3. Claimed(ks, n + 1, g, e)
      <3>1. \A p, u : Believed(e, n + 1, p, u) => Believed(d.scopes, n, p, u)
        BY <1>2, <1>8, SameInForce
      <3>2. \A p \in Prefix, u \in Uri : Believed(e, n + 1, p, u) => Shows(frames, n, t, p, u)
        BY <1>1, <1>3, <3>1 DEF Opened
      <3> QED BY <2>1, <3>2 DEF Claimed
    <2>4. Meant(ks, n + 1, NoTag, g.tag.prefix, g.tag.uri)
      <3>1. CASE g.kind = "object"
        <4>1. Meant(ks, n + 1, Nothing, g.tag.prefix, g.tag.uri)
          BY <1>1, <2>1, <3>1 DEF Opened
        <4>2. \A p : ~Concerns(Nothing, p) /\ ~Concerns(NoTag, p)
          BY NoTagIs DEF Nothing, Concerns, PrefixesOf
        <4> QED BY <4>1, <4>2 DEF Meant, Notes, Shows
      <3>2. CASE g.kind # "object"
        BY <3>2, NoTagIs DEF Opened, Meant
      <3> QED BY <3>1, <3>2
    <2> QED BY <1>5, <2>2, <2>3, <2>4 DEF Sound
  <1>13. \A i \in 1..(n + 1) : i = n + 1 \/ i \in 1..n
    BY <1>2
  <1> QED BY <1>4, <1>5, <1>7, <1>9, <1>10, <1>11, <1>12, <1>13 DEF AllSound

\* A return.
LEMMA ReturnSound ==
    ASSUME Typed, AllSound, frames # <<>>, frames' = Front(frames), ctx' = PopContext(ctx)
    PROVE  AllSound'
  <1>1. PICK n, s : n = Len(frames) /\ s = ctx.scopes
    OBVIOUS
  <1>2. /\ n \in Nat /\ n # 0 /\ Len(s) = n /\ ctx \in Context
        /\ frames \in Seq(Frame) /\ s \in Seq(Seq(Mapping))
    BY <1>1, TopTyped, ContextIs DEF Typed, TypeOK, ScopesMatchFrames
  <1>3. ASSUME NEW S, NEW q \in Seq(S), Len(q) = n
        PROVE  Len(Front(q)) = n - 1 /\ \A i \in 1..(n - 1) : Front(q)[i] = q[i]
    <2>1. n - 1 \in Int /\ \A i \in 1..(n - 1) : q[i] \in S
      BY <1>2, <1>3
    <2>2. PICK r : r = SubSeq(q, 1, n - 1)
      OBVIOUS
    <2>3. /\ Len(r) = IF 1 <= n - 1 THEN (n - 1) - 1 + 1 ELSE 0
          /\ \A i \in 1..((n - 1) - 1 + 1) : r[i] = q[1 + i - 1]
      BY <2>1, <2>2, SubSeqProperties
    <2>4. Len(r) = n - 1 /\ \A i \in 1..(n - 1) : r[i] = q[i]
      BY <1>2, <2>3
    <2> QED BY <1>3, <2>2, <2>4 DEF Front
  <1>4. PICK ks, e : ks = frames' /\ e = ctx'.scopes
    OBVIOUS
  <1>5. e = Front(s)
    <2>1. ctx = [scopes |-> s, prefixCount |-> ctx.prefixCount]
      BY <1>1, <1>2, ContextIs
    <2> QED BY <1>1, <1>4, <2>1 DEF PopContext
  <1>6. /\ Len(ks) = n - 1 /\ \A i \in 1..(n - 1) : ks[i] = frames[i]
        /\ Len(e) = n - 1 /\ \A i \in 1..(n - 1) : e[i] = s[i]
    BY <1>1, <1>2, <1>3, <1>4, <1>5
  <1>7. Tidy(e)
    BY <1>1, <1>2, <1>6 DEF Tidy, AllSound
  <1>8. ASSUME NEW i \in 1..(n - 1) PROVE Sound(ks, e, i)
    <2>1. Sound(frames, s, i) /\ i \in 0..(n - 1) /\ n - 1 \in Nat /\ ks[i] = frames[i]
      BY <1>1, <1>2, <1>6 DEF AllSound
    <2>2. \A p, u : Believed(e, i, p, u) <=> Believed(s, i, p, u)
      <3>1. i \in Nat /\ \A j \in 1..i : e[j] = s[j]
        BY <1>6
      <3> QED BY <3>1, SameInForce
    <2>3. Claimed(frames, i, frames[i], e)
      BY <2>1, <2>2 DEF Sound, Claimed
    <2>4. \A j \in 1..(n - 1) : ks[j].tag = frames[j].tag
      BY <1>6
    <2>5. Meant(ks, i, NoTag, ks[i].tag.prefix, ks[i].tag.uri)
      BY <2>1, <2>4, SameShown DEF Sound
    <2>6. Kept(ks, i, ks[i]) /\ Claimed(ks, i, ks[i], e)
      BY <2>1, <2>3, <2>4, SameKept DEF Sound
    <2> QED BY <2>5, <2>6 DEF Sound
  <1> QED BY <1>4, <1>6, <1>7, <1>8 DEF AllSound

-----------------------------------------------------------------------------
(* The activation that goes on, and the tag of a child. *)

LEMMA ResumedIs ==
    ASSUME Typed, frames # <<>>, NEW f, NEW c, Resumed(f, c)
    PROVE  /\ c \in Context /\ c \in Under(ctx) /\ Len(c.scopes) = Len(frames) /\ Len(c.scopes) # 0
           /\ Tidy(c.scopes) /\ Len(frames) \in Nat /\ Len(frames) # 0
           /\ f \in Frame /\ f.prefix \in AnyPrefix /\ f.uri \in AnyUri /\ f.ns \in AnyPrefix
           /\ f.decls \in Seq(Declaration) /\ ToSet(f.decls) \in SUBSET Declaration
           /\ f.omitted \in SUBSET Prefix /\ f.xsi \in Declaration \cup {NoXsi}
           /\ f.typed \in BOOLEAN /\ f.means \in AnyUri /\ f.parent \in AnyPrefix
           /\ f.kind \in {"object", "array"}
  <1>1. f \in Frame /\ c \in Under(ctx) /\ Tidy(c.scopes)
    BY DEF Resumed, Follows
  <1>2. Len(ctx.scopes) = Len(frames) /\ Len(frames) \in Nat /\ Len(frames) # 0
    BY TopTyped DEF Typed, ScopesMatchFrames
  <1>3. f.decls \in Seq(Declaration)
    BY <1>1, FrameIs
  <1>4. ToSet(f.decls) \in SUBSET Declaration
    BY <1>3, SequenceIs
  <1> QED BY <1>1, <1>2, <1>3, <1>4, FrameIs DEF Under

\* It may go on with other namespaces that follow, and with more in its account.
LEMMA ResumedOn ==
    ASSUME Typed, frames # <<>>, NEW f, NEW c, Resumed(f, c),
           NEW h \in Frame, h.tag = f.tag, Kept(frames, Len(frames), h),
           NEW d, NEW D, Follows(c, d, D), Claimed(frames, Len(frames), h, d.scopes)
    PROVE  Resumed(h, d)
  <1>1. Len(c.scopes) = Len(frames) /\ Len(ctx.scopes) = Len(frames)
    BY ResumedIs DEF Typed, ScopesMatchFrames
  <1>2. Follows(ctx, c, Declaration)
    BY DEF Resumed
  <1>3. d \in Under(ctx) /\ Tidy(d.scopes) /\ \A j \in 1..(Len(ctx.scopes) - 1) : d.scopes[j] = ctx.scopes[j]
    BY <1>1, <1>2 DEF Follows, Under
  <1>4. \A p \in Prefix, u \in Uri : [prefix |-> p, uri |-> u] \in Declaration
    BY DEF Declaration
  <1>5. Follows(ctx, d, Declaration)
    BY <1>3, <1>4 DEF Follows
  <1> QED BY <1>5 DEF Resumed

\* The activation that has the innermost scope.
LEMMA TopResumed ==
    ASSUME Typed, AllSound, frames # <<>>
    PROVE  Resumed(Top, ctx)
  <1>1. PICK n : n = Len(frames)
    OBVIOUS
  <1>2. n \in 1..n /\ Top = frames[n] /\ Top \in Frame /\ ctx \in Context
    BY <1>1, TopTyped
  <1>3. Sound(frames, ctx.scopes, n) /\ Tidy(ctx.scopes)
    BY <1>1, <1>2 DEF AllSound
  <1>4. \A p \in Prefix, u \in Uri : [prefix |-> p, uri |-> u] \in Declaration
    BY DEF Declaration
  <1>5. Follows(ctx, ctx, Declaration)
    BY <1>2, <1>3, <1>4 DEF Follows, Under
  <1> QED BY <1>1, <1>2, <1>3, <1>5 DEF Resumed, Sound

\* With a prefix more that is left out, all that was shown is, and so is every meaning of it.
LEMMA MoreOmitted ==
    ASSUME NEW fs, NEW i, NEW f \in Frame, NEW q \in Prefix, NEW h, h = [f EXCEPT !.omitted = @ \cup {q}]
    PROVE  /\ \A p, u : Shows(fs, i, Own(f), p, u) => Shows(fs, i, Own(h), p, u)
           /\ \A u : Shows(fs, i, Own(h), q, u)
           /\ Kept(fs, i, f) => Kept(fs, i, h)
  <1>1. /\ h.omitted = f.omitted \cup {q} /\ h.decls = f.decls /\ h.prefix = f.prefix /\ h.ns = f.ns
        /\ h.xsi = f.xsi /\ h.tag = f.tag /\ h.childDecl = f.childDecl /\ h.first = f.first
        /\ h.uri = f.uri /\ h.kind = f.kind /\ h.means = f.means /\ h.parent = f.parent
    BY DEF Frame
  <1>2. PICK o, w : o = Own(f) /\ w = Own(h)
    OBVIOUS
  <1>3. w.omitted = o.omitted \cup {q} /\ w.decls = o.decls
    BY <1>1, <1>2 DEF Own
  <1>4. /\ \A p : Concerns(w, p) <=> Concerns(o, p) \/ p = q
        /\ \A p, u : Agrees(o, p, u) => Agrees(w, p, u)
        /\ \A u : Agrees(w, q, u)
    BY <1>3 DEF Concerns, Agrees
  <1>5. \A p, u : Shows(fs, i, o, p, u) => Shows(fs, i, w, p, u)
    BY <1>4 DEF Shows
  <1>6. \A u : Shows(fs, i, w, q, u)
    BY <1>4 DEF Shows
  <1>7. \A p : Notes(fs, i, o, p) => Notes(fs, i, w, p)
    BY <1>4 DEF Notes
  <1>8. \A p, u : (Named(fs, i, o, p) => Named(fs, i, w, p)) /\ (Meant(fs, i, o, p, u) => Meant(fs, i, w, p, u))
    BY <1>5, <1>7 DEF Named, Meant
  <1>9. ItemPrefix(h) = ItemPrefix(f)
    BY <1>1 DEF ItemPrefix
  <1>10. ASSUME Kept(fs, i, f) PROVE Kept(fs, i, h)
    BY <1>1, <1>2, <1>8, <1>9, <1>10 DEF Kept
  <1> QED BY <1>2, <1>5, <1>6, <1>10

\* Once the attributes of a child are processed.
LEMMA CarryingResumed ==
    ASSUME Typed, AllSound, frames # <<>>, NEW kind, NEW xsi \in XsiTypes \cup {NoXsi}, MayCarry(kind, xsi)
    PROVE  Resumed(Carrying(Top, xsi), AttributesContext(xsi))
  <1>1. PICK f, c : f = Carrying(Top, xsi) /\ c = AttributesContext(xsi)
    OBVIOUS
  <1>2. Resumed(Top, ctx)
    BY TopResumed
  <1>3. /\ ctx \in Context /\ Len(ctx.scopes) # 0 /\ Tidy(ctx.scopes) /\ Top \in Frame
        /\ Len(ctx.scopes) = Len(frames)
    BY <1>2, ResumedIs
  <1>4. f \in Frame
    BY <1>1, <1>3, CarryingTyped
  <1>5. Kept(frames, Len(frames), Top) /\ Claimed(frames, Len(frames), Top, ctx.scopes)
    BY <1>2 DEF Resumed
  <1>6. CASE xsi = NoXsi
    <2>1. f = Top /\ c = ctx
      BY <1>1, <1>6, NoXsiIs DEF Carrying, AttributesContext
    <2> QED BY <1>1, <1>2, <2>1
  <1>7. CASE xsi # NoXsi /\ xsi.prefix = NoPrefix
    <2>1. f = Top /\ c = RegisterNamespace(ctx, xsi.uri)
      BY <1>1, <1>7 DEF Carrying, AttributesContext
    <2>2. xsi.uri \in Uri /\ CanRegister(ctx, xsi.uri)
      BY <1>7, ObjectAssumption DEF MayCarry
    <2>3. Follows(ctx, c, {})
      BY <1>3, <2>1, <2>2, RegisterFollows
    <2>4. Claimed(frames, Len(frames), Top, c.scopes)
      BY <1>3, <1>5, <2>3 DEF Follows, Claimed
    <2>5. Resumed(Top, c)
      BY <1>2, <1>3, <1>5, <2>3, <2>4, ResumedOn
    <2> QED BY <1>1, <2>1, <2>5
  <1>8. CASE xsi # NoXsi /\ xsi.prefix # NoPrefix
    <2>1. PICK q, v : q = xsi.prefix /\ v = xsi.uri
      OBVIOUS
    <2>2. q \in Prefix /\ v \in Uri
      BY <1>8, <2>1, ObjectAssumption
    <2>3. c = DeclareNamespace(ctx, q, v)
      BY <1>1, <1>8, <2>1 DEF AttributesContext
    <2>4. PICK D : D = IF Declares(ctx, q, v) THEN {[prefix |-> q, uri |-> v]} ELSE {}
      OBVIOUS
    <2>5. Follows(ctx, c, D)
      BY <1>3, <2>2, <2>3, <2>4, DeclareFollows
    <2>6. CASE Declares(ctx, q, v)
      <3>1. f = [Top EXCEPT !.omitted = @ \cup {q}]
        BY <1>1, <1>8, <2>1, <2>6 DEF Carrying
      <3>2. /\ \A p, u : Shows(frames, Len(frames), Own(Top), p, u) => Shows(frames, Len(frames), Own(f), p, u)
            /\ \A u : Shows(frames, Len(frames), Own(f), q, u)
            /\ Kept(frames, Len(frames), f)
        BY <1>3, <1>5, <2>2, <3>1, MoreOmitted
      <3>3. ASSUME NEW p \in Prefix, NEW u \in Uri, Believed(c.scopes, Len(frames), p, u)
            PROVE  Shows(frames, Len(frames), Own(f), p, u)
        <4>1. Believed(ctx.scopes, Len(frames), p, u) \/ [prefix |-> p, uri |-> u] \in D
          BY <1>3, <2>5, <3>3 DEF Follows
        <4>2. [prefix |-> p, uri |-> u] \in D => p = q
          BY <2>4
        <4> QED BY <1>5, <3>2, <4>1, <4>2 DEF Claimed
      <3>4. Claimed(frames, Len(frames), f, c.scopes)
        BY <3>3 DEF Claimed
      <3>5. f.tag = Top.tag
        BY <1>3, <3>1 DEF Frame
      <3>6. Resumed(f, c)
        BY <1>2, <1>4, <2>5, <3>2, <3>4, <3>5, ResumedOn
      <3> QED BY <1>1, <3>6
    <2>7. CASE ~Declares(ctx, q, v)
      <3>1. f = Top /\ c = ctx
        BY <1>1, <2>1, <2>3, <2>7 DEF Carrying, DeclareNamespace
      <3> QED BY <1>1, <1>2, <3>1
    <2> QED BY <2>6, <2>7
  <1> QED BY <1>6, <1>7, <1>8

\* With the prefix of a property.
LEMMA NsResumed ==
    ASSUME Typed, frames # <<>>, NEW f, NEW c, Resumed(f, c), f.kind = "object", NEW ns \in AnyPrefix,
           Named(frames, Len(frames), Own(f), ns), f.first => ns \in {NoPrefix, f.prefix}
    PROVE  Resumed([f EXCEPT !.ns = ns], c)
  <1>1. PICK h : h = [f EXCEPT !.ns = ns]
    OBVIOUS
  <1>2. f \in Frame /\ c \in Context /\ Tidy(c.scopes)
    BY ResumedIs
  <1>3. /\ h.omitted = f.omitted /\ h.decls = f.decls /\ h.prefix = f.prefix /\ h.ns = ns
        /\ h.xsi = f.xsi /\ h.tag = f.tag /\ h.childDecl = f.childDecl /\ h.first = f.first
        /\ h.uri = f.uri /\ h.kind = f.kind
    BY <1>1, <1>2 DEF Frame
  <1>4. Own(h) = Own(f)
    BY <1>3 DEF Own
  <1>5. Kept(frames, Len(frames), f) /\ Claimed(frames, Len(frames), f, c.scopes)
    BY DEF Resumed
  <1>6. Kept(frames, Len(frames), h)
    BY <1>3, <1>4, <1>5 DEF Kept
  <1>7. Claimed(frames, Len(frames), h, c.scopes)
    BY <1>4, <1>5 DEF Claimed
  <1>8. h \in Frame
    BY <1>1, <1>2, FrameExcept
  <1>9. Resumed(h, c)
    BY <1>3, <1>6, <1>7, <1>8 DEF Resumed
  <1> QED BY <1>1, <1>9

\* The tag of a child shows what the activation has declared, where the namespaces have it so.
LEMMA StartTagShows ==
    ASSUME Typed, frames # <<>>, NEW f, NEW c, Resumed(f, c), NEW prefix \in AnyPrefix, NEW uri \in AnyUri,
           NEW xsi \in Declaration \cup {NoXsi}, NEW t, t = StartTag(f, prefix, uri, xsi, c)
    PROVE  /\ t.prefix = prefix /\ t.uri = uri /\ t \in Tag
           /\ xsi # NoXsi => xsi \in t.decls
           /\ \A p : Notes(frames, Len(frames), Own(f), p) => Notes(frames, Len(frames), t, p)
           /\ \A p \in Prefix, u \in Uri :
                 /\ Shows(frames, Len(frames), Own(f), p, u)
                 /\ Believed(c.scopes, Len(frames), p, u) \/ (p = prefix /\ u = uri)
                 => Shows(frames, Len(frames), t, p, u)
  <1>1. PICK o, D, q, K : /\ o = Own(f) /\ D = ToSet(f.decls) /\ q = xsi.prefix
                          /\ K = Clash(xsi, prefix, uri, D, c)
    OBVIOUS
  <1>2. f \in Frame /\ D \in SUBSET Declaration /\ f.omitted \in SUBSET Prefix /\ c \in Context /\ Tidy(c.scopes)
        /\ Len(c.scopes) = Len(frames)
    BY <1>1, ResumedIs
  <1>3. /\ t.prefix = prefix /\ t.uri = uri /\ t.decls = D \cup ({xsi} \ {NoXsi})
        /\ t.omitted = (f.omitted \ {q}) \cup K
    BY <1>1 DEF StartTag, AttributeDecls
  <1>4. o.decls = D /\ o.omitted = f.omitted
    BY <1>1 DEF Own
  <1>5. t \in Tag
    BY <1>2, StartTagTyped
  <1>6. CASE xsi = NoXsi
    <2>1. K = {} /\ q \notin f.omitted
      <3>1. K = {}
        BY <1>1, <1>6 DEF Clash
      <3>2. q = NoPrefix /\ NoPrefix \notin Prefix
        BY <1>1, <1>6, NoXsiIs, SchemaAssumption
      <3> QED BY <1>2, <3>1, <3>2
    <2>2. t.decls = o.decls /\ t.omitted = o.omitted
      BY <1>3, <1>4, <1>6, <2>1
    <2>3. \A p, u : (Concerns(t, p) <=> Concerns(o, p)) /\ (Agrees(t, p, u) <=> Agrees(o, p, u))
      BY <2>2 DEF Concerns, Agrees
    <2> QED BY <1>1, <1>3, <1>5, <1>6, <2>3 DEF Notes, Shows
  <1>7. CASE xsi # NoXsi
    <2>1. xsi \in Declaration /\ q \in Prefix /\ xsi.uri \in Uri /\ xsi = [prefix |-> q, uri |-> xsi.uri]
      BY <1>1, <1>7 DEF Declaration
    <2>2. t.decls = D \cup {xsi} /\ K \subseteq {q}
      <3>1. K = {} \/ K = {q}
        BY <1>1 DEF Clash
      <3> QED BY <1>3, <1>7, <3>1
    <2>3. ASSUME NEW p, p # q
          PROVE  (Concerns(t, p) <=> Concerns(o, p)) /\ \A u : Agrees(t, p, u) <=> Agrees(o, p, u)
      <3>1. p \in t.omitted <=> p \in o.omitted
        BY <1>3, <1>4, <2>2, <2>3
      <3>2. {d \in t.decls : d.prefix = p} = {d \in o.decls : d.prefix = p}
        BY <1>1, <1>4, <2>2, <2>3
      <3>3. p \in PrefixesOf(t.decls) <=> p \in PrefixesOf(o.decls)
        BY <3>2 DEF PrefixesOf
      <3> QED BY <3>1, <3>2, <3>3 DEF Concerns, Agrees
    <2>4. Concerns(t, q)
      BY <1>1, <2>2 DEF Concerns, PrefixesOf
    <2>5. ASSUME NEW u \in Uri, Believed(c.scopes, Len(frames), q, u) \/ (q = prefix /\ u = uri)
          PROVE  Agrees(t, q, u)
      <3>1. CASE K = {q}
        BY <1>3, <3>1 DEF Agrees
      <3>2. CASE K # {q}
        <4>1. PICK others, own : /\ others = {d.uri : d \in {d \in D : d.prefix = xsi.prefix}}
                                 /\ own = IF prefix = xsi.prefix THEN {uri} \ {NoUri} ELSE {}
          OBVIOUS
        <4>2. K = IF xsi = NoXsi \/ others \cup own \cup {NamespaceURI(c, xsi.prefix)} = {xsi.uri}
                  THEN {} ELSE {xsi.prefix}
          BY <1>1, <4>1 DEF Clash
        <4>3. others \cup own \cup {NamespaceURI(c, q)} = {xsi.uri}
          BY <1>1, <1>7, <3>2, <4>2
        <4>4. Believed(c.scopes, Len(frames), q, u) => u = xsi.uri
          BY <1>2, <2>1, <4>3, DeclaresIs
        <4>5. q = prefix /\ u = uri => u = xsi.uri
          BY <1>1, <4>1, <4>3, PrefixAssumption
        <4>6. \A d \in D : d.prefix = q => d = xsi
          <5>1. ASSUME NEW d \in D, d.prefix = q PROVE d = xsi
            <6>1. d.uri \in others
              BY <1>1, <4>1, <5>1
            <6>2. d.uri = xsi.uri /\ d \in Declaration
              BY <1>2, <4>3, <6>1
            <6> QED BY <1>1, <2>1, <5>1, <6>2 DEF Declaration
          <5> QED BY <5>1
        <4>7. {d \in t.decls : d.prefix = q} = {xsi}
          BY <1>1, <2>2, <4>6
        <4> QED BY <2>1, <2>5, <4>4, <4>5, <4>7 DEF Agrees
      <3> QED BY <3>1, <3>2
    <2>6. \A p : Notes(frames, Len(frames), o, p) => Notes(frames, Len(frames), t, p)
      BY <2>3, <2>4 DEF Notes
    <2>7. ASSUME NEW p \in Prefix, NEW u \in Uri, Shows(frames, Len(frames), o, p, u),
                 Believed(c.scopes, Len(frames), p, u) \/ (p = prefix /\ u = uri)
          PROVE  Shows(frames, Len(frames), t, p, u)
      <3>1. CASE p = q
        BY <2>4, <2>5, <2>7, <3>1 DEF Shows
      <3>2. CASE p # q
        BY <2>3, <2>7, <3>2 DEF Shows
      <3> QED BY <3>1, <3>2
    <2> QED BY <1>1, <1>3, <1>5, <2>2, <2>6, <2>7
  <1> QED BY <1>6, <1>7

\* The activation of a child that is an object.
LEMMA ObjectOpened ==
    ASSUME Typed, frames # <<>>, NEW f, NEW c, Resumed(f, c),
           NEW ns \in AnyPrefix, NEW means \in AnyUri, Meant(frames, Len(frames), Own(f), ns, means),
           NEW xsi \in Declaration \cup {NoXsi}, NEW t, t = StartTag(f, ns, means, xsi, c),
           NEW typed \in BOOLEAN, NEW prefix \in AnyPrefix, NEW uri \in AnyUri,
           Named(frames, Len(frames), Own(f), prefix),
           NEW h, h = [Activation("object", FALSE, typed, prefix, uri, t) EXCEPT !.xsi = xsi]
    PROVE  Opened(h, t, c)
  <1>1. /\ t.prefix = ns /\ t.uri = means /\ t \in Tag
        /\ xsi # NoXsi => xsi \in t.decls
        /\ \A p : Notes(frames, Len(frames), Own(f), p) => Notes(frames, Len(frames), t, p)
        /\ \A p \in Prefix, u \in Uri :
              /\ Shows(frames, Len(frames), Own(f), p, u)
              /\ Believed(c.scopes, Len(frames), p, u) \/ (p = ns /\ u = means)
              => Shows(frames, Len(frames), t, p, u)
    BY StartTagShows
  <1>2. PICK g : g = Activation("object", FALSE, typed, prefix, uri, t)
    OBVIOUS
  <1>3. g \in Frame
    BY <1>1, <1>2, ActivationTyped
  <1>4. h \in Frame
    BY <1>2, <1>3, FrameExcept
  <1>5. /\ h.kind = "object" /\ h.first = FALSE /\ h.prefix = prefix /\ h.xsi = xsi
        /\ h.ns \in {NoPrefix, Unignored(prefix)} /\ h.decls = <<>> /\ h.childDecl = <<>>
        /\ h.omitted = {} /\ h.tag = t
    BY DEF Activation
  <1>6. Own(h) = Nothing /\ ToSet(h.decls) = {} /\ ToSet(h.childDecl) = {}
    <2>1. ToSet(<<>>) = {}
      BY DEF ToSet
    <2> QED BY <1>5, <2>1 DEF Own, Nothing
  <1>7. \A p : Named(frames, Len(frames), Own(f), p) => Named(frames, Len(frames), t, p)
    BY <1>1 DEF Named
  <1>8. Named(frames, Len(frames), t, h.prefix) /\ Named(frames, Len(frames), t, h.ns)
    <2>1. Named(frames, Len(frames), t, prefix)
      BY <1>7
    <2>2. Unignored(prefix) \in {NoPrefix, prefix}
      BY DEF Unignored
    <2>3. Named(frames, Len(frames), t, NoPrefix)
      BY DEF Named
    <2> QED BY <1>5, <2>1, <2>2, <2>3
  <1>9. Meant(frames, Len(frames), t, ns, means)
    <2>1. ns # NoPrefix /\ means # NoUri => ns \in Prefix /\ means \in Uri
      BY DEF AnyPrefix, AnyUri
    <2> QED BY <1>1, <2>1 DEF Meant
  <1>10. Claimed(frames, Len(frames), f, c.scopes)
    BY DEF Resumed
  <1>11. \A p \in Prefix, u \in Uri :
            Believed(c.scopes, Len(frames), p, u) => Shows(frames, Len(frames), t, p, u)
    BY <1>1, <1>10 DEF Claimed
  <1> QED BY <1>1, <1>4, <1>5, <1>6, <1>8, <1>9, <1>11 DEF Opened

\* What an array lacks of what the activation has declared.
LEMMA AllOmitted ==
    ASSUME NEW fs, NEW i, NEW f, NEW g, ToSet(g.decls) = {},
           g.omitted = f.omitted \cup PrefixesOf(ToSet(f.decls))
    PROVE  /\ \A p, u : Shows(fs, i, Own(f), p, u) => Shows(fs, i, Own(g), p, u)
           /\ \A p, u : Meant(fs, i, Own(f), p, u) => Meant(fs, i, Own(g), p, u)
           /\ \A p : Named(fs, i, Own(f), p) => Named(fs, i, Own(g), p)
  <1>1. PICK o, w : o = Own(f) /\ w = Own(g)
    OBVIOUS
  <1>2. w.decls = {} /\ w.omitted = o.omitted \cup PrefixesOf(o.decls)
    BY <1>1 DEF Own
  <1>3. PrefixesOf({}) = {}
    BY DEF PrefixesOf
  <1>4. \A p : (Concerns(w, p) <=> Concerns(o, p)) /\ (Concerns(w, p) => \A u : Agrees(w, p, u))
    BY <1>2, <1>3 DEF Concerns, Agrees
  <1>5. \A p, u : Shows(fs, i, o, p, u) => Shows(fs, i, w, p, u)
    BY <1>4 DEF Shows
  <1>6. \A p : Notes(fs, i, o, p) => Notes(fs, i, w, p)
    BY <1>4 DEF Notes
  <1> QED BY <1>1, <1>5, <1>6 DEF Meant, Named

\* The activation of an array that has no declarations of its own.
LEMMA ArrayOpened ==
    ASSUME Typed, frames # <<>>, NEW f, NEW c, Resumed(f, c),
           NEW typed \in BOOLEAN, NEW prefix \in AnyPrefix, NEW uri \in AnyUri, NEW means \in AnyUri, NEW tag \in Tag,
           Named(frames, Len(frames), Own(f), prefix),
           Meant(frames, Len(frames), Own(f), Unignored(prefix), means),
           NEW g, g = Activation("array", FALSE, typed, prefix, uri, tag),
           NEW h, h = [g EXCEPT !.means = means, !.tag = NoTag,
                                !.omitted = f.omitted \cup PrefixesOf(ToSet(f.decls))]
    PROVE  Opened(h, Own(h), c)
  <1>1. /\ g.kind = "array" /\ g.first = FALSE /\ g.prefix = prefix /\ g.xsi = NoXsi /\ g.parent = NoPrefix
        /\ g.ns \in {NoPrefix, Unignored(prefix)} /\ g.decls = <<>> /\ g.childDecl = <<>>
    BY DEF Activation
  <1>2. g \in Frame
    BY ActivationTyped
  <1>3. /\ h.kind = "array" /\ h.first = FALSE /\ h.prefix = prefix /\ h.xsi = NoXsi /\ h.parent = NoPrefix
        /\ h.ns \in {NoPrefix, Unignored(prefix)} /\ h.decls = <<>> /\ h.childDecl = <<>>
        /\ h.means = means /\ h.tag = NoTag /\ h.omitted = f.omitted \cup PrefixesOf(ToSet(f.decls))
    BY <1>1, <1>2 DEF Frame
  <1>4. h \in Frame
    <2>1. f.omitted \cup PrefixesOf(ToSet(f.decls)) \in SUBSET Prefix
      <3>1. PrefixesOf(ToSet(f.decls)) \in SUBSET Prefix
        BY ResumedIs, DeclsTyped
      <3> QED BY <3>1, ResumedIs
    <2>2. PICK omitted : omitted = f.omitted \cup PrefixesOf(ToSet(f.decls))
      OBVIOUS
    <2>3. PICK g1 : g1 = [g EXCEPT !.means = means]
      OBVIOUS
    <2>4. PICK g2 : g2 = [g1 EXCEPT !.tag = NoTag]
      OBVIOUS
    <2>5. g1 \in Frame
      BY <1>2, <2>3, FrameExcept
    <2>6. g2 \in Frame
      BY <2>4, <2>5, FrameExcept
    <2>7. h = [g2 EXCEPT !.omitted = omitted]
      BY <2>2, <2>3, <2>4
    <2>8. omitted \in SUBSET Prefix
      BY <2>1, <2>2
    <2>9. PICK g3 : g3 = [g2 EXCEPT !.omitted = omitted]
      OBVIOUS
    <2>10. g3 \in Frame
      BY <2>6, <2>8, <2>9, FrameExcept
    <2> QED BY <2>7, <2>9, <2>10
  <1>5. ToSet(h.decls) = {} /\ ToSet(h.childDecl) = {}
    <2>1. ToSet(<<>>) = {}
      BY DEF ToSet
    <2> QED BY <1>3, <2>1
  <1>6. /\ \A p, u : Shows(frames, Len(frames), Own(f), p, u) => Shows(frames, Len(frames), Own(h), p, u)
        /\ \A p, u : Meant(frames, Len(frames), Own(f), p, u) => Meant(frames, Len(frames), Own(h), p, u)
        /\ \A p : Named(frames, Len(frames), Own(f), p) => Named(frames, Len(frames), Own(h), p)
    BY <1>3, <1>5, AllOmitted
  <1>7. Named(frames, Len(frames), Own(h), h.prefix) /\ Named(frames, Len(frames), Own(h), h.ns)
    <2>1. Unignored(prefix) \in {NoPrefix, prefix}
      BY DEF Unignored
    <2>2. Named(frames, Len(frames), Own(h), prefix) /\ Named(frames, Len(frames), Own(h), NoPrefix)
      BY <1>6 DEF Named
    <2> QED BY <1>3, <2>1, <2>2
  <1>8. Meant(frames, Len(frames), Own(h), ItemPrefix(h), means)
    <2>1. ItemPrefix(h) \in {NoPrefix, Unignored(prefix)}
      BY <1>3 DEF ItemPrefix
    <2>2. Meant(frames, Len(frames), Own(h), Unignored(prefix), means)
      BY <1>6
    <2>3. Meant(frames, Len(frames), Own(h), NoPrefix, means)
      BY DEF Meant
    <2> QED BY <2>1, <2>2, <2>3
  <1>9. Claimed(frames, Len(frames), f, c.scopes)
    BY DEF Resumed
  <1>10. \A p \in Prefix, u \in Uri :
            Believed(c.scopes, Len(frames), p, u) => Shows(frames, Len(frames), Own(h), p, u)
    BY <1>6, <1>9 DEF Claimed
  <1> QED BY <1>3, <1>4, <1>5, <1>7, <1>8, <1>10 DEF Opened

\* One kind or the other.
LEMMA EitherOpened ==
    ASSUME NEW kind \in {"object", "array"}, NEW g, NEW h, NEW t, NEW c,
           kind = "object" => Opened(h, t, c), kind = "array" => Opened(g, Own(g), c)
    PROVE  \E w : Opened(IF kind = "array" THEN g ELSE h, w, c)
  <1>1. CASE kind = "array"
    BY <1>1
  <1>2. CASE kind = "object"
    BY <1>2
  <1> QED BY <1>1, <1>2

LEMMA MessageElementSound ==
    ASSUME Typed, AllSound, frames # <<>>, NEW f, NEW c, Resumed(f, c), f.kind = "object",
           NEW kind \in {"object", "array"}, NEW xsi \in Declaration \cup {NoXsi},
           MessageElement(f, kind, xsi, c)
    PROVE  AllSound'
  <1>1. PICK ns : ns = IF f.uri \in Qualified THEN f.ns ELSE f.prefix
    OBVIOUS
  <1>2. /\ f.first /\ Kept(frames, Len(frames), f)
        /\ Meant(frames, Len(frames), Own(f), f.prefix, f.uri)
        /\ Named(frames, Len(frames), Own(f), f.prefix) /\ f.ns \in {NoPrefix, f.prefix}
    BY DEF MessageElement, Resumed, Kept
  <1>3. /\ f.prefix \in AnyPrefix /\ f.ns \in AnyPrefix /\ f.uri \in AnyUri /\ f.typed \in BOOLEAN
        /\ c \in Context /\ Tidy(c.scopes)
    BY ResumedIs
  <1>4. ns \in AnyPrefix /\ ns \in {NoPrefix, f.prefix}
    BY <1>1, <1>2, <1>3
  <1>5. \A p \in {NoPrefix, f.prefix} : /\ Meant(frames, Len(frames), Own(f), p, f.uri)
                                        /\ Named(frames, Len(frames), Own(f), p)
    BY <1>2 DEF Meant, Named
  <1>6. PICK h : h = [f EXCEPT !.ns = ns]
    OBVIOUS
  <1>7. Resumed(h, c)
    BY <1>4, <1>5, <1>6, NsResumed
  <1>8. PICK t : t = StartTag(f, ns, f.uri, xsi, c)
    OBVIOUS
  <1>9. t \in Tag
    BY <1>3, <1>4, <1>8, StartTagShows
  <1>10. PICK g : g = Activation(kind, FALSE, f.typed, f.prefix, f.uri, t)
    OBVIOUS
  <1>11. PICK object, items : /\ object = [g EXCEPT !.xsi = xsi]
                              /\ items = [g EXCEPT !.means = f.uri, !.tag = NoTag,
                                                   !.omitted = f.omitted \cup PrefixesOf(ToSet(f.decls))]
    OBVIOUS
  <1>12. ASSUME kind = "object" PROVE Opened(object, t, c)
    <2>1. object = [Activation("object", FALSE, f.typed, f.prefix, f.uri, t) EXCEPT !.xsi = xsi]
      BY <1>10, <1>11, <1>12
    <2>2. Meant(frames, Len(frames), Own(f), ns, f.uri)
      BY <1>4, <1>5
    <2>3. /\ f.typed \in BOOLEAN /\ f.prefix \in AnyPrefix /\ f.uri \in AnyUri /\ ns \in AnyPrefix
          /\ Named(frames, Len(frames), Own(f), f.prefix)
      BY <1>2, <1>3, <1>4
    <2> QED BY <1>8, <2>1, <2>2, <2>3, ObjectOpened
  <1>13. ASSUME kind = "array" PROVE Opened(items, Own(items), c)
    <2>1. g = Activation("array", FALSE, f.typed, f.prefix, f.uri, t)
      BY <1>10, <1>13
    <2>2. Unignored(f.prefix) \in {NoPrefix, f.prefix}
      BY DEF Unignored
    <2>3. Meant(frames, Len(frames), Own(f), Unignored(f.prefix), f.uri)
      BY <1>5, <2>2
    <2> QED BY <1>2, <1>3, <1>9, <1>11, <2>1, <2>3, ArrayOpened
  <1>14. Enter(h, IF kind = "array" THEN items ELSE object, c)
    BY <1>1, <1>6, <1>8, <1>10, <1>11 DEF MessageElement
  <1>15. PICK w : Opened(IF kind = "array" THEN items ELSE object, w, c)
    BY <1>12, <1>13, EitherOpened
  <1>16. Follows(c, c, {})
    BY <1>3, FollowsOn
  <1> QED BY <1>7, <1>14, <1>15, <1>16, EnterSound

\* What an activation may write as the prefix of a tag that no schema has a namespace for.
LEMMA UnignoredMeant ==
    ASSUME NEW fs, NEW i, NEW t, NEW p, Named(fs, i, t, p)
    PROVE  Meant(fs, i, t, Unignored(p), NoUri) /\ Named(fs, i, t, Unignored(p))
  BY DEF Named, Meant, Unignored

LEMMA OtherElementSound ==
    ASSUME Typed, AllSound, frames # <<>>, NEW f, NEW c, Resumed(f, c), f.kind = "object",
           NEW kind \in {"object", "array"}, NEW xsi \in Declaration \cup {NoXsi},
           OtherElement(f, kind, xsi, c)
    PROVE  AllSound'
  <1>1. /\ ~f.first /\ f.tag = Top.tag
        /\ Named(frames, Len(frames), Own(f), f.prefix) /\ Named(frames, Len(frames), Own(f), f.ns)
        /\ f.xsi # NoXsi => f.xsi \in f.tag.decls
    BY DEF OtherElement, Resumed, Kept
  <1>2. /\ f.prefix \in AnyPrefix /\ f.ns \in AnyPrefix /\ f.uri \in AnyUri /\ f.xsi \in Declaration \cup {NoXsi}
        /\ c \in Context /\ Tidy(c.scopes) /\ Len(c.scopes) # 0 /\ Len(frames) \in 1..Len(frames)
    BY ResumedIs
  <1>3. PICK typed \in BOOLEAN : typed = (f.xsi # NoXsi /\ f.uri \in Schemas)
    OBVIOUS
  <1>4. PICK ns, prefix, uri : /\ ns = IF typed THEN f.xsi.prefix ELSE Unignored(f.ns)
                               /\ prefix = IF typed THEN f.xsi.prefix ELSE f.prefix
                               /\ uri = IF typed THEN f.xsi.uri ELSE f.uri
    OBVIOUS
  <1>5. typed => f.xsi \in Declaration /\ f.xsi.prefix \in Prefix /\ f.xsi.uri \in Uri
    BY <1>2, <1>3 DEF Declaration
  <1>6. ns \in AnyPrefix /\ prefix \in AnyPrefix /\ uri \in AnyUri /\ Unignored(f.ns) \in AnyPrefix
        /\ NoUri \in AnyUri
    BY <1>2, <1>4, <1>5 DEF AnyPrefix, AnyUri, Unignored
  <1>7. typed => Notes(frames, Len(frames), Own(f), f.xsi.prefix)
    <2>1. typed => f.xsi \in frames[Len(frames)].tag.decls
      BY <1>1, <1>3, TopTyped
    <2>2. typed => Concerns(frames[Len(frames)].tag, f.xsi.prefix)
      BY <2>1 DEF Concerns, PrefixesOf
    <2> QED BY <1>2, <2>2 DEF Notes
  <1>8. Meant(frames, Len(frames), Own(f), ns, NoUri) /\ Named(frames, Len(frames), Own(f), prefix)
    <2>1. CASE typed
      BY <1>4, <1>7, <2>1 DEF Meant, Named
    <2>2. CASE ~typed
      BY <1>1, <1>4, <2>2, UnignoredMeant
    <2> QED BY <2>1, <2>2
  <1>9. PICK h : h = [f EXCEPT !.ns = Unignored(@)]
    OBVIOUS
  <1>10. Resumed(h, c)
    <2>1. h = [f EXCEPT !.ns = Unignored(f.ns)]
      BY <1>9
    <2>2. Named(frames, Len(frames), Own(f), Unignored(f.ns))
      BY <1>1, UnignoredMeant
    <2> QED BY <1>1, <1>6, <2>1, <2>2, NsResumed
  <1>11. PICK t : t = StartTag(f, ns, NoUri, xsi, c)
    OBVIOUS
  <1>12. t \in Tag
    BY <1>6, <1>11, StartTagShows
  <1>13. PICK g : g = Activation(kind, FALSE, FALSE, prefix, uri, t)
    OBVIOUS
  <1>14. PICK object, items : /\ object = [g EXCEPT !.xsi = xsi]
                              /\ items = [g EXCEPT !.tag = NoTag,
                                                   !.omitted = f.omitted \cup PrefixesOf(ToSet(f.decls))]
    OBVIOUS
  <1>15. PICK no \in BOOLEAN : no = FALSE
    OBVIOUS
  <1>16. ASSUME kind = "object" PROVE Opened(object, t, c)
    <2>1. object = [Activation("object", FALSE, no, prefix, uri, t) EXCEPT !.xsi = xsi]
      BY <1>13, <1>14, <1>15, <1>16
    <2> QED BY <1>6, <1>8, <1>11, <2>1, ObjectOpened
  <1>17. ASSUME kind = "array" PROVE Opened(items, Own(items), c)
    <2>1. g = Activation("array", FALSE, no, prefix, uri, t)
      BY <1>13, <1>15, <1>17
    <2>2. Meant(frames, Len(frames), Own(f), Unignored(prefix), NoUri)
      BY <1>8, UnignoredMeant
    <2>3. items = [g EXCEPT !.means = NoUri, !.tag = NoTag,
                            !.omitted = f.omitted \cup PrefixesOf(ToSet(f.decls))]
      <3>1. g \in Frame
        BY <1>6, <1>12, <2>1, ActivationTyped
      <3>2. g.means = NoUri
        BY <2>1 DEF Activation
      <3>3. [g EXCEPT !.means = NoUri] = g
        BY <3>1, <3>2 DEF Frame
      <3> QED BY <1>14, <3>3
    <2> QED BY <1>6, <1>8, <1>12, <2>1, <2>2, <2>3, ArrayOpened
  <1>18. PICK d : d = IF typed THEN AddNamespace(c, f.xsi.prefix, f.xsi.uri) ELSE c
    OBVIOUS
  <1>19. Follows(c, d, {})
    BY <1>2, <1>5, <1>18, AddFollows, FollowsOn
  <1>20. Enter(h, IF kind = "array" THEN items ELSE object, d)
    BY <1>3, <1>4, <1>9, <1>11, <1>13, <1>14, <1>18 DEF OtherElement
  <1>21. PICK w : Opened(IF kind = "array" THEN items ELSE object, w, c)
    BY <1>16, <1>17, EitherOpened
  <1> QED BY <1>10, <1>19, <1>20, <1>21, EnterSound

LEMMA ItemSound ==
    ASSUME Typed, AllSound, NEW xsi \in XsiTypes \cup {NoXsi}, Item(xsi)
    PROVE  AllSound'
  <1>1. frames # <<>> /\ MayCarry("object", xsi) /\ Top.kind = "array"
    BY DEF Item
  <1>2. PICK f, x, c : f = Carrying(Top, xsi) /\ x = Attributes(xsi) /\ c = AttributesContext(xsi)
    OBVIOUS
  <1>3. Resumed(f, c) /\ x \in Declaration \cup {NoXsi} /\ ItemOf(f, x, c)
    BY <1>1, <1>2, CarryingResumed, AttributesTyped DEF Item
  <1>4. f.kind = "array"
    <2>1. Top \in Frame
      BY <1>1, TopTyped
    <2> QED BY <1>1, <1>2, <2>1 DEF Carrying, Frame
  <1>5. /\ f.parent \in AnyPrefix /\ f.ns \in AnyPrefix /\ f.means \in AnyUri /\ f.uri \in AnyUri
        /\ f.prefix \in AnyPrefix /\ f.typed \in BOOLEAN /\ c \in Context /\ Tidy(c.scopes)
    BY <1>1, <1>3, ResumedIs
  <1>6. PICK ns : ns = ItemPrefix(f)
    OBVIOUS
  <1>7. /\ Meant(frames, Len(frames), Own(f), ns, f.means) /\ Named(frames, Len(frames), Own(f), f.prefix)
        /\ ns \in AnyPrefix
    BY <1>3, <1>4, <1>5, <1>6 DEF Resumed, Kept, ItemPrefix
  <1>8. PICK t : t = StartTag(f, ns, f.means, x, c)
    OBVIOUS
  <1>9. PICK g : g = [Activation("object", FALSE, f.typed, f.prefix, f.uri, t) EXCEPT !.xsi = x]
    OBVIOUS
  <1>10. Opened(g, t, c)
    BY <1>1, <1>3, <1>5, <1>7, <1>8, <1>9, ObjectOpened
  <1>11. Enter(f, g, c)
    BY <1>3, <1>6, <1>8, <1>9 DEF ItemOf, ItemPrefix
  <1>12. Follows(c, c, {})
    BY <1>5, FollowsOn
  <1> QED BY <1>1, <1>3, <1>10, <1>11, <1>12, EnterSound

\* A declaration that is to be written: it is, or it is lost and in the account.
LEMMA WriteShows ==
    ASSUME NEW fs, NEW i, NEW f \in Frame, NEW decl \in Declaration, NEW h, h = Write(f, decl),
           \A d, e \in ToSet(f.decls) : d.prefix = e.prefix => d = e
    PROVE  /\ Concerns(Own(h), decl.prefix) /\ Agrees(Own(h), decl.prefix, decl.uri)
           /\ \A p : p # decl.prefix =>
                 \A u : Shows(fs, i, Own(f), p, u) => Shows(fs, i, Own(h), p, u)
           /\ Kept(fs, i, f) /\ f.kind = "object" /\ ~f.first => Kept(fs, i, h)
           /\ h.tag = f.tag /\ h.prefix = f.prefix /\ h.first = f.first /\ h.kind = f.kind
  <1>1. PICK o, w, q : o = Own(f) /\ w = Own(h) /\ q = decl.prefix
    OBVIOUS
  <1>2. f.decls \in Seq(Declaration) /\ ToSet(f.decls) \in SUBSET Declaration /\ q \in Prefix
        /\ decl = [prefix |-> q, uri |-> decl.uri]
    <2>1. f.decls \in Seq(Declaration)
      BY FrameIs
    <2>2. ToSet(f.decls) \in SUBSET Declaration
      BY <2>1, SequenceIs
    <2>3. q \in Prefix /\ decl = [prefix |-> q, uri |-> decl.uri]
      BY <1>1 DEF Declaration
    <2> QED BY <2>1, <2>2, <2>3
  <1>3. o.decls = ToSet(f.decls) /\ o.omitted = f.omitted
    BY <1>1 DEF Own
  <1>4. /\ h.tag = f.tag /\ h.prefix = f.prefix /\ h.first = f.first /\ h.kind = f.kind
        /\ h.ns = f.ns /\ h.xsi = f.xsi
    BY DEF Write, Frame
  <1>5. /\ Concerns(w, q) /\ Agrees(w, q, decl.uri)
        /\ \A p : p # q => (Concerns(w, p) <=> Concerns(o, p)) /\ \A u : Agrees(w, p, u) <=> Agrees(o, p, u)
        /\ \A d, e \in ToSet(h.decls) : d.prefix = e.prefix => d = e
        /\ ToSet(f.childDecl) \subseteq ToSet(f.decls) => ToSet(h.childDecl) \subseteq ToSet(h.decls)
    <2>1. CASE ~Includes(f.decls, q)
      <3>1. h = [f EXCEPT !.decls = Append(f.decls, decl), !.childDecl = <<decl>>, !.omitted = f.omitted \ {q}]
        BY <1>1, <2>1 DEF Write
      <3>2. h.decls = Append(f.decls, decl) /\ h.childDecl = <<decl>> /\ h.omitted = f.omitted \ {q}
        BY <3>1 DEF Frame
      <3>3. ToSet(h.decls) = ToSet(f.decls) \cup {decl} /\ ToSet(h.childDecl) = {decl}
        <4>1. ASSUME NEW s \in Seq(Declaration) PROVE ToSet(Append(s, decl)) = ToSet(s) \cup {decl}
          <5>1. PICK r : r = Append(s, decl)
            OBVIOUS
          <5>2. /\ r \in Seq(Declaration) /\ Len(r) = Len(s) + 1 /\ r[Len(s) + 1] = decl
                /\ \A j \in 1..Len(s) : r[j] = s[j]
            BY <5>1, AppendProperties
          <5>3. Len(s) \in Nat /\ \A j \in 1..Len(r) : j = Len(s) + 1 \/ j \in 1..Len(s)
            BY <5>2
          <5>4. \A d : d \in ToSet(r) => d \in ToSet(s) \cup {decl}
            BY <5>2, <5>3, SequenceIs
          <5>5. \A d : d \in ToSet(s) \cup {decl} => d \in ToSet(r)
            <6>1. Len(s) + 1 \in 1..Len(r) /\ \A j \in 1..Len(s) : j \in 1..Len(r)
              BY <5>2, <5>3
            <6>2. decl \in ToSet(r)
              BY <5>2, <6>1, SequenceIs
            <6>3. \A j \in 1..Len(s) : s[j] \in ToSet(r)
              BY <5>2, <6>1, SequenceIs
            <6> QED BY <6>2, <6>3, SequenceIs
          <5> QED BY <5>1, <5>4, <5>5
        <4>2. <<>> \in Seq(Declaration)
          OBVIOUS
        <4>3. PICK s \in Seq(Declaration) : s = <<>>
          BY <4>2
        <4>4. ToSet(s) = {} /\ <<decl>> = Append(s, decl)
          BY <4>3 DEF ToSet
        <4> QED BY <1>2, <3>2, <4>1, <4>4
      <3>4. \A d \in ToSet(f.decls) : d.prefix # q
        BY <2>1 DEF Includes
      <3>5. w.decls = o.decls \cup {decl} /\ w.omitted = o.omitted \ {q}
        BY <1>1, <1>3, <3>2, <3>3 DEF Own
      <3>6. {d \in w.decls : d.prefix = q} = {decl} /\ q \in PrefixesOf(w.decls)
        BY <1>1, <1>3, <3>4, <3>5 DEF PrefixesOf
      <3>7. ASSUME NEW p, p # q
            PROVE  /\ {d \in w.decls : d.prefix = p} = {d \in o.decls : d.prefix = p}
                   /\ p \in PrefixesOf(w.decls) <=> p \in PrefixesOf(o.decls)
                   /\ p \in w.omitted <=> p \in o.omitted
        BY <1>1, <3>5, <3>7 DEF PrefixesOf
      <3>8. Concerns(w, q) /\ Agrees(w, q, decl.uri)
        BY <1>2, <3>6 DEF Concerns, Agrees
      <3>9. \A p : p # q => (Concerns(w, p) <=> Concerns(o, p)) /\ \A u : Agrees(w, p, u) <=> Agrees(o, p, u)
        BY <3>7 DEF Concerns, Agrees
      <3>10. \A d, e \in ToSet(h.decls) : d.prefix = e.prefix => d = e
        BY <1>1, <3>3, <3>4
      <3> QED BY <3>3, <3>8, <3>9, <3>10
    <2>2. CASE Includes(f.decls, q) /\ decl \in ToSet(f.decls)
      <3>1. h = f
        BY <1>1, <2>2 DEF Write
      <3>2. {d \in o.decls : d.prefix = q} = {decl} /\ q \in PrefixesOf(o.decls)
        BY <1>1, <1>3, <2>2 DEF PrefixesOf
      <3>3. Concerns(o, q) /\ Agrees(o, q, decl.uri)
        BY <1>2, <3>2 DEF Concerns, Agrees
      <3> QED BY <1>1, <3>1, <3>3
    <2>3. CASE Includes(f.decls, q) /\ decl \notin ToSet(f.decls)
      <3>1. h = [f EXCEPT !.omitted = f.omitted \cup {q}]
        BY <1>1, <2>3 DEF Write
      <3>2. h.decls = f.decls /\ h.childDecl = f.childDecl /\ h.omitted = f.omitted \cup {q}
        BY <3>1 DEF Frame
      <3>3. w.decls = o.decls /\ w.omitted = o.omitted \cup {q}
        BY <1>1, <1>3, <3>2 DEF Own
      <3>4. Concerns(w, q) /\ Agrees(w, q, decl.uri)
        BY <3>3 DEF Concerns, Agrees
      <3>5. \A p : p # q => (Concerns(w, p) <=> Concerns(o, p)) /\ \A u : Agrees(w, p, u) <=> Agrees(o, p, u)
        BY <3>3 DEF Concerns, Agrees
      <3> QED BY <3>2, <3>4, <3>5
    <2> QED BY <2>1, <2>2, <2>3
  <1>6. \A p : p # q => \A u : Shows(fs, i, o, p, u) => Shows(fs, i, w, p, u)
    BY <1>5 DEF Shows
  <1>7. \A p : Named(fs, i, o, p) => Named(fs, i, w, p)
    <2>1. \A p : Concerns(o, p) => Concerns(w, p)
      BY <1>5
    <2> QED BY <2>1 DEF Named, Notes
  <1>8. ASSUME Kept(fs, i, f), f.kind = "object", ~f.first PROVE Kept(fs, i, h)
    BY <1>1, <1>4, <1>5, <1>7, <1>8 DEF Kept
  <1> QED BY <1>1, <1>4, <1>5, <1>6, <1>8

\* The activation and the namespaces once the prefix of an element is declared.
LEMMA DeclaredResumed ==
    ASSUME Typed, frames # <<>>, NEW f, NEW named, Resumed(f, named), f.kind = "object", ~f.first,
           NEW prefix \in AnyPrefix, NEW uri \in AnyUri,
           NEW new, new = (prefix # NoPrefix /\ uri # NoUri /\ Declares(named, prefix, uri)),
           NEW after, after = IF new THEN Write(f, [prefix |-> prefix, uri |-> uri]) ELSE f,
           NEW c, c = DeclaredContext(prefix, uri, named)
    PROVE  /\ Resumed(after, c) /\ after.first = f.first /\ after.kind = f.kind /\ after.prefix = f.prefix
           /\ prefix # NoPrefix /\ uri # NoUri => Believed(c.scopes, Len(frames), prefix, uri)
           /\ new => Concerns(Own(after), prefix)
  <1>1. /\ named \in Context /\ Len(named.scopes) # 0 /\ Tidy(named.scopes) /\ f \in Frame
        /\ Len(named.scopes) = Len(frames)
    BY ResumedIs
  <1>2. Kept(frames, Len(frames), f) /\ Claimed(frames, Len(frames), f, named.scopes)
    BY DEF Resumed
  <1>3. CASE prefix = NoPrefix \/ uri = NoUri
    <2>1. after = f /\ c = named
      BY <1>3 DEF DeclaredContext
    <2> QED BY <1>3, <2>1
  <1>4. CASE prefix # NoPrefix /\ uri # NoUri
    <2>1. prefix \in Prefix /\ uri \in Uri /\ c = DeclareNamespace(named, prefix, uri)
      BY <1>4 DEF AnyPrefix, AnyUri, DeclaredContext
    <2>2. PICK D : D = IF Declares(named, prefix, uri) THEN {[prefix |-> prefix, uri |-> uri]} ELSE {}
      OBVIOUS
    <2>3. Follows(named, c, D) /\ Believed(c.scopes, Len(c.scopes), prefix, uri)
      BY <1>1, <2>1, <2>2, DeclareFollows
    <2>4. /\ Believed(c.scopes, Len(frames), prefix, uri) /\ Tidy(c.scopes) /\ c \in Context
          /\ Len(c.scopes) = Len(frames)
      BY <1>1, <2>3 DEF Follows, Under
    <2>5. CASE ~Declares(named, prefix, uri)
      <3>1. after = f /\ c = named /\ ~new
        BY <2>1, <2>5 DEF DeclareNamespace
      <3> QED BY <2>4, <3>1
    <2>6. CASE Declares(named, prefix, uri)
      <3>1. PICK decl : decl = [prefix |-> prefix, uri |-> uri]
        OBVIOUS
      <3>2. after = Write(f, decl) /\ decl \in Declaration /\ decl.prefix = prefix /\ decl.uri = uri
        BY <1>4, <2>1, <2>6, <3>1 DEF Declaration
      <3>3. \A d, e \in ToSet(f.decls) : d.prefix = e.prefix => d = e
        BY <1>2 DEF Kept
      <3>4. /\ Concerns(Own(after), prefix) /\ Agrees(Own(after), prefix, uri)
            /\ \A p : p # prefix =>
                  \A u : Shows(frames, Len(frames), Own(f), p, u) => Shows(frames, Len(frames), Own(after), p, u)
            /\ Kept(frames, Len(frames), after)
            /\ after.tag = f.tag /\ after.prefix = f.prefix /\ after.first = f.first /\ after.kind = f.kind
        BY <1>1, <1>2, <3>2, <3>3, WriteShows
      <3>5. after \in Frame
        BY <1>1, <3>2, WriteTyped
      <3>6. ASSUME NEW p \in Prefix, NEW u \in Uri, Believed(c.scopes, Len(frames), p, u)
            PROVE  Shows(frames, Len(frames), Own(after), p, u)
        <4>1. CASE p = prefix
          <5>1. NamespaceURI(c, prefix) = u /\ NamespaceURI(c, prefix) = uri
            BY <2>1, <2>4, <3>6, <4>1, DeclaresIs
          <5> QED BY <3>4, <4>1, <5>1 DEF Shows
        <4>2. CASE p # prefix
          <5>1. [prefix |-> p, uri |-> u] \notin D
            BY <2>2, <4>2
          <5>2. Believed(named.scopes, Len(frames), p, u)
            BY <1>1, <2>3, <3>6, <5>1 DEF Follows
          <5> QED BY <1>2, <3>4, <4>2, <5>2 DEF Claimed
        <4> QED BY <4>1, <4>2
      <3>7. Resumed(after, c)
        <4>1. Claimed(frames, Len(frames), after, c.scopes)
          BY <3>6 DEF Claimed
        <4> QED BY <2>3, <3>4, <3>5, <4>1, ResumedOn
      <3> QED BY <2>4, <3>4, <3>7
    <2> QED BY <2>5, <2>6
  <1> QED BY <1>3, <1>4

\* What t shows w does, as far as the namespaces c have it so.
Keeps(t, w, c) ==
    /\ \A p : Notes(frames, Len(frames), t, p) => Notes(frames, Len(frames), w, p)
    /\ \A p \in Prefix, u \in Uri :
          Shows(frames, Len(frames), t, p, u) /\ Believed(c.scopes, Len(frames), p, u)
          => Shows(frames, Len(frames), w, p, u)

\* The items of an array get the declarations own only, and lack the others.
HandsOn(f, c, prefix, uri, own, omitted) ==
    \/ /\ prefix \in Prefix /\ uri \in Uri /\ Concerns(Own(f), prefix)
       /\ Believed(c.scopes, Len(frames), prefix, uri)
       /\ own = <<[prefix |-> prefix, uri |-> uri]>>
       /\ omitted = (f.omitted \cup PrefixesOf(ToSet(f.decls) \ ToSet(own))) \ {prefix}
    \/ /\ own = f.childDecl
       /\ omitted = f.omitted \cup PrefixesOf(ToSet(f.decls) \ ToSet(own))

\* The items of an array get one declaration: what they lack of the others is in the account.
LEMMA ItemsShow ==
    ASSUME Typed, frames # <<>>, NEW f, NEW c, Resumed(f, c), ~f.first, f.kind = "object",
           NEW prefix, NEW uri, NEW own, NEW omitted,
           HandsOn(f, c, prefix, uri, own, omitted),
           NEW w, w = [decls |-> ToSet(own), omitted |-> omitted]
    PROVE  /\ \A d, e \in ToSet(own) : d.prefix = e.prefix => d = e
           /\ Keeps(Own(f), w, c)
  <1>1. PICK o, decl : o = Own(f) /\ decl = [prefix |-> prefix, uri |-> uri]
    OBVIOUS
  <1>2. o.decls = ToSet(f.decls) /\ o.omitted = f.omitted /\ w.decls = ToSet(own) /\ w.omitted = omitted
    BY <1>1 DEF Own
  <1>3. /\ ToSet(f.childDecl) \subseteq ToSet(f.decls)
        /\ \A d, e \in ToSet(f.decls) : d.prefix = e.prefix => d = e
    BY DEF Resumed, Kept
  <1>4. c \in Context /\ Tidy(c.scopes) /\ Len(c.scopes) = Len(frames)
    BY ResumedIs
  <1>5. CASE /\ prefix \in Prefix /\ uri \in Uri /\ Concerns(Own(f), prefix)
             /\ Believed(c.scopes, Len(frames), prefix, uri)
             /\ own = <<[prefix |-> prefix, uri |-> uri]>>
             /\ omitted = (f.omitted \cup PrefixesOf(ToSet(f.decls) \ ToSet(own))) \ {prefix}
    <2>1. ToSet(own) = {decl} /\ decl.prefix = prefix
      <3>1. \A d : ToSet(<<d>>) = {d}
        BY DEF ToSet
      <3> QED BY <1>1, <1>5, <3>1
    <2>2. w.decls = {decl} /\ w.omitted = (o.omitted \cup PrefixesOf(o.decls \ {decl})) \ {prefix}
      BY <1>2, <1>5, <2>1
    <2>3. ASSUME NEW p, p # prefix
          PROVE  (Concerns(w, p) <=> Concerns(o, p)) /\ (Concerns(w, p) => p \in w.omitted)
      <3>1. p \in PrefixesOf(o.decls \ {decl}) <=> p \in PrefixesOf(o.decls)
        BY <2>1, <2>3 DEF PrefixesOf
      <3>2. p \notin PrefixesOf(w.decls)
        BY <2>1, <2>2, <2>3 DEF PrefixesOf
      <3> QED BY <2>2, <2>3, <3>1, <3>2 DEF Concerns
    <2>4. Concerns(w, prefix) /\ Agrees(w, prefix, uri)
      <3>1. {d \in w.decls : d.prefix = prefix} = {decl} /\ prefix \in PrefixesOf(w.decls)
        BY <2>1, <2>2 DEF PrefixesOf
      <3> QED BY <1>1, <3>1 DEF Concerns, Agrees
    <2>5. \A p : Notes(frames, Len(frames), o, p) => Notes(frames, Len(frames), w, p)
      BY <2>3, <2>4 DEF Notes
    <2>6. ASSUME NEW p \in Prefix, NEW u \in Uri, Shows(frames, Len(frames), o, p, u),
                 Believed(c.scopes, Len(frames), p, u)
          PROVE  Shows(frames, Len(frames), w, p, u)
      <3>1. CASE p = prefix
        <4>1. NamespaceURI(c, prefix) = u /\ NamespaceURI(c, prefix) = uri
          BY <1>4, <1>5, <2>6, <3>1, DeclaresIs
        <4> QED BY <2>4, <3>1, <4>1 DEF Shows
      <3>2. CASE p # prefix
        BY <2>3, <2>6, <3>2 DEF Shows, Agrees
      <3> QED BY <3>1, <3>2
    <2> QED BY <1>1, <2>1, <2>5, <2>6 DEF Keeps
  <1>6. CASE own = f.childDecl /\ omitted = f.omitted \cup PrefixesOf(ToSet(f.decls) \ ToSet(own))
    <2>1. PICK K : K = ToSet(f.childDecl)
      OBVIOUS
    <2>2. w.decls = K /\ K \subseteq o.decls /\ w.omitted = o.omitted \cup PrefixesOf(o.decls \ K)
          /\ ToSet(own) = K
      BY <1>2, <1>3, <1>6, <2>1
    <2>3. \A p : Concerns(w, p) <=> Concerns(o, p)
      BY <2>2 DEF Concerns, PrefixesOf
    <2>4. ASSUME NEW p, NEW u, Agrees(o, p, u) PROVE Agrees(w, p, u)
      <3>1. CASE p \in w.omitted
        BY <3>1 DEF Agrees
      <3>2. CASE p \notin w.omitted
        <4>1. {d \in o.decls : d.prefix = p} = {[prefix |-> p, uri |-> u]}
          BY <2>2, <2>4, <3>2 DEF Agrees
        <4>2. \A d \in o.decls : d.prefix = p => d \in K
          BY <2>2, <3>2 DEF PrefixesOf
        <4>3. {d \in w.decls : d.prefix = p} = {d \in o.decls : d.prefix = p}
          BY <2>2, <4>2
        <4> QED BY <4>1, <4>3 DEF Agrees
      <3> QED BY <3>1, <3>2
    <2>5. \A p, u : Shows(frames, Len(frames), o, p, u) => Shows(frames, Len(frames), w, p, u)
      BY <2>3, <2>4 DEF Shows
    <2>6. \A p : Notes(frames, Len(frames), o, p) => Notes(frames, Len(frames), w, p)
      BY <2>3 DEF Notes
    <2> QED BY <1>1, <1>3, <2>1, <2>2, <2>5, <2>6 DEF Keeps
  <1> QED BY <1>5, <1>6 DEF HandsOn

\* The activation of such an array.
Items(prefix, content, tag, ns, means, own, omitted) ==
    [Activation("array", FALSE, TRUE, prefix, content, tag)
        EXCEPT !.parent = ns, !.means = means, !.decls = own, !.tag = NoTag, !.omitted = omitted]

LEMMA ItemsOpened ==
    ASSUME Typed, frames # <<>>, NEW f, NEW c, Resumed(f, c),
           NEW prefix \in AnyPrefix, NEW uri \in AnyUri,
           prefix # NoPrefix /\ uri # NoUri => Believed(c.scopes, Len(frames), prefix, uri),
           NEW ns, NEW means, ns = Unignored(prefix), means = IF ns = NoPrefix THEN NoUri ELSE uri,
           Named(frames, Len(frames), Own(f), prefix), Meant(frames, Len(frames), Own(f), ns, means),
           NEW own, \A d, e \in ToSet(own) : d.prefix = e.prefix => d = e,
           NEW omitted, Keeps(Own(f), [decls |-> ToSet(own), omitted |-> omitted], c),
           NEW content, NEW tag, Activation("array", FALSE, TRUE, prefix, content, tag) \in Frame,
           NEW h \in Frame, h = Items(prefix, content, tag, ns, means, own, omitted)
    PROVE  Opened(h, Own(h), c)
  <1>1. PICK g \in Frame : g = Activation("array", FALSE, TRUE, prefix, content, tag)
    OBVIOUS
  <1>2. /\ g.kind = "array" /\ g.first = FALSE /\ g.prefix = prefix /\ g.xsi = NoXsi
        /\ g.ns \in {NoPrefix, ns} /\ g.childDecl = <<>>
    BY <1>1 DEF Activation
  <1>3. /\ h.kind = "array" /\ h.first = FALSE /\ h.prefix = prefix /\ h.xsi = NoXsi /\ h.parent = ns
        /\ h.ns \in {NoPrefix, ns} /\ h.childDecl = <<>> /\ h.means = means /\ h.decls = own
        /\ h.tag = NoTag /\ h.omitted = omitted
    <2>1. /\ h.kind = g.kind /\ h.first = g.first /\ h.prefix = g.prefix /\ h.xsi = g.xsi
          /\ h.ns = g.ns /\ h.childDecl = g.childDecl
          /\ h.parent = ns /\ h.means = means /\ h.decls = own /\ h.tag = NoTag /\ h.omitted = omitted
      <3>1. g \in Frame /\ h = [g EXCEPT !.parent = ns, !.means = means, !.decls = own, !.tag = NoTag,
                                         !.omitted = omitted]
        BY <1>1 DEF Items
      <3> QED BY <3>1 DEF Frame
    <2> QED BY <1>2, <2>1
  <1>4. Own(h) = [decls |-> ToSet(own), omitted |-> omitted]
    BY <1>3 DEF Own
  <1>5. /\ \A p : Notes(frames, Len(frames), Own(f), p) => Notes(frames, Len(frames), Own(h), p)
        /\ \A p \in Prefix, u \in Uri :
              Shows(frames, Len(frames), Own(f), p, u) /\ Believed(c.scopes, Len(frames), p, u)
              => Shows(frames, Len(frames), Own(h), p, u)
    BY <1>4 DEF Keeps
  <1>6. ns \in {NoPrefix, prefix}
    BY DEF Unignored
  <1>7. Named(frames, Len(frames), Own(h), h.prefix) /\ Named(frames, Len(frames), Own(h), h.ns)
    <2>1. Named(frames, Len(frames), Own(h), prefix) /\ Named(frames, Len(frames), Own(h), NoPrefix)
      BY <1>5 DEF Named
    <2> QED BY <1>3, <1>6, <2>1
  <1>8. Meant(frames, Len(frames), Own(h), ItemPrefix(h), h.means)
    <2>1. ItemPrefix(h) = ns
      BY <1>3 DEF ItemPrefix
    <2>2. CASE ns = NoPrefix
      BY <2>1, <2>2 DEF Meant
    <2>3. CASE ns # NoPrefix
      <3>1. ns = prefix /\ means = uri
        BY <1>6, <2>3
      <3>2. CASE uri = NoUri
        <4>1. Notes(frames, Len(frames), Own(f), prefix)
          BY <2>3, <3>1, <3>2 DEF Meant
        <4>2. Notes(frames, Len(frames), Own(h), prefix)
          BY <1>5, <4>1
        <4> QED BY <1>3, <2>1, <3>1, <3>2, <4>2 DEF Meant
      <3>3. CASE uri # NoUri
        <4>1. prefix \in Prefix /\ uri \in Uri
          BY <2>3, <3>1, <3>3 DEF AnyPrefix, AnyUri
        <4>2. Shows(frames, Len(frames), Own(f), prefix, uri)
          BY <2>3, <3>1, <3>3 DEF Meant
        <4>3. Shows(frames, Len(frames), Own(h), prefix, uri)
          BY <1>5, <2>3, <3>1, <3>3, <4>1, <4>2
        <4> QED BY <1>3, <2>1, <3>1, <3>3, <4>3 DEF Meant
      <3> QED BY <3>2, <3>3
    <2> QED BY <2>2, <2>3
  <1>9. Claimed(frames, Len(frames), f, c.scopes)
    BY DEF Resumed
  <1>10. \A p \in Prefix, u \in Uri :
           Believed(c.scopes, Len(frames), p, u) => Shows(frames, Len(frames), Own(h), p, u)
    BY <1>5, <1>9 DEF Claimed
  <1>11. ToSet(h.childDecl) \subseteq ToSet(h.decls)
    <2>1. ToSet(<<>>) = {}
      BY DEF ToSet
    <2> QED BY <1>3, <2>1
  <1> QED BY <1>3, <1>5, <1>7, <1>8, <1>10, <1>11 DEF Opened

\* Without a namespace for an element, its prefix is that of the activation.
LEMMA ElementNames ==
    ASSUME NEW f, NEW c, f.uri \in Schemas, NEW e \in Elements[f.uri],
           ElementUri(f, e, c) = NoUri, ElementPrefix(f, e, c) # NoPrefix
    PROVE  ElementPrefix(f, e, c) = f.prefix
  <1>1. e.target \in Uri /\ e.prefix \in Prefix \cup {Tns}
    BY SchemaAssumption DEF ElementType
  <1>2. PICK own : own = IF e.prefix = Tns THEN RegisteredPrefix(c, e.target) ELSE e.prefix
    OBVIOUS
  <1>3. ElementPrefix(f, e, c) = IF own \in Ignored THEN f.prefix ELSE own
    BY <1>2 DEF ElementPrefix
  <1>4. e.prefix # Tns
    BY <1>1, PrefixAssumption DEF ElementUri
  <1>5. CASE own \in Ignored
    BY <1>3, <1>5
  <1>6. CASE own \notin Ignored
    <2>1. ElementPrefix(f, e, c) = e.prefix /\ e.prefix \in Prefix /\ e.prefix # NoPrefix
      BY <1>1, <1>2, <1>3, <1>4, <1>6
    <2>2. e.prefix # NoType
      BY <2>1, SchemaAssumption
    <2>3. Xmlns[f.uri][e.prefix] # NoUri
      BY <2>2, XmlnsAssumption
    <2>4. ElementUri(f, e, c) = Xmlns[f.uri][e.prefix]
      BY <1>4, <2>1 DEF ElementUri, Lookup
    <2> QED BY <2>3, <2>4
  <1> QED BY <1>5, <1>6

\* The prefix of an element and that of its type are known, and not taken to be declared.
LEMMA ElementFollows ==
    ASSUME NEW c \in Context, Len(c.scopes) # 0, Tidy(c.scopes),
           NEW f, f.uri \in Schemas, NEW e \in Elements[f.uri]
    PROVE  /\ (e.prefix = Tns => CanRegister(c, e.target)) => Follows(c, RegisteredContext(e, c), {})
           /\ Follows(c, TypeContext(f, e, c), {})
  <1>1. e.target \in Uri /\ e.type \in Prefix \cup {Tns, NoType}
    BY SchemaAssumption DEF ElementType
  <1>2. Follows(c, c, {})
    BY FollowsOn
  <1>3. ASSUME e.prefix = Tns => CanRegister(c, e.target)
        PROVE  Follows(c, RegisteredContext(e, c), {})
    BY <1>1, <1>2, <1>3, RegisterFollows DEF RegisteredContext
  <1>4. Follows(c, TypeContext(f, e, c), {})
    <2>1. CASE e.type \in {NoType, Tns} \/ Lookup(f.uri, e.type) = Xsd
      BY <1>2, <2>1 DEF TypeContext
    <2>2. CASE ~(e.type \in {NoType, Tns} \/ Lookup(f.uri, e.type) = Xsd)
      <3>1. e.type \in Prefix /\ e.type # NoPrefix
        BY <1>1, <2>2, SchemaAssumption
      <3>2. Lookup(f.uri, e.type) \in Uri
        BY <2>2, <3>1, XmlnsAssumption DEF Lookup
      <3>3. TypeContext(f, e, c) = AddNamespace(c, e.type, Lookup(f.uri, e.type))
        BY <2>2 DEF TypeContext
      <3> QED BY <3>1, <3>2, <3>3, AddFollows
    <2> QED BY <2>1, <2>2
  <1> QED BY <1>3, <1>4

\* What may be written of an element, once its prefix is declared.
LEMMA ElementMeant ==
    ASSUME Typed, frames # <<>>, NEW f, NEW c, Resumed(f, c),
           NEW prefix \in AnyPrefix, NEW uri \in AnyUri,
           prefix # NoPrefix /\ uri # NoUri => Believed(c.scopes, Len(frames), prefix, uri),
           prefix # NoPrefix /\ uri = NoUri => prefix = f.prefix,
           NEW ns, NEW means, ns = Unignored(prefix), means = IF ns = NoPrefix THEN NoUri ELSE uri
    PROVE  /\ Named(frames, Len(frames), Own(f), prefix) /\ Named(frames, Len(frames), Own(f), ns)
           /\ Meant(frames, Len(frames), Own(f), ns, means)
  <1>1. Kept(frames, Len(frames), f) /\ Claimed(frames, Len(frames), f, c.scopes)
    BY DEF Resumed
  <1>2. ASSUME prefix # NoPrefix, uri # NoUri
        PROVE  /\ Shows(frames, Len(frames), Own(f), prefix, uri)
               /\ Notes(frames, Len(frames), Own(f), prefix)
    <2>1. prefix \in Prefix /\ uri \in Uri
      BY <1>2 DEF AnyPrefix, AnyUri
    <2>2. Shows(frames, Len(frames), Own(f), prefix, uri)
      BY <1>1, <1>2, <2>1 DEF Claimed
    <2> QED BY <2>2, ShownIsNoted
  <1>3. Named(frames, Len(frames), Own(f), prefix)
    <2>1. Named(frames, Len(frames), Own(f), f.prefix)
      BY <1>1 DEF Kept
    <2> QED BY <1>2, <2>1 DEF Named
  <1>4. ns = NoPrefix \/ (ns = prefix /\ ns \notin Ignored)
    BY DEF Unignored
  <1>5. Named(frames, Len(frames), Own(f), ns)
    BY <1>3, <1>4 DEF Named
  <1>6. Meant(frames, Len(frames), Own(f), ns, means)
    <2>1. CASE ns = NoPrefix
      BY <2>1 DEF Meant
    <2>2. CASE ns # NoPrefix
      <3>1. ns = prefix /\ ns \notin Ignored /\ means = uri
        BY <1>4, <2>2
      <3>2. uri # NoUri => Shows(frames, Len(frames), Own(f), ns, means)
        BY <1>2, <2>2, <3>1
      <3>3. Notes(frames, Len(frames), Own(f), ns)
        BY <1>5, <2>2, <3>1 DEF Named
      <3> QED BY <3>1, <3>2, <3>3 DEF Meant
    <2> QED BY <2>1, <2>2
  <1> QED BY <1>3, <1>5, <1>6

LEMMA ItemsTyped ==
    ASSUME NEW g \in Frame, NEW ns \in AnyPrefix, NEW means \in AnyUri, NEW own \in Seq(Declaration),
           NEW omitted \in SUBSET Prefix
    PROVE  [g EXCEPT !.parent = ns, !.means = means, !.decls = own, !.tag = NoTag, !.omitted = omitted] \in Frame
  <1>1. PICK g1, g2 : g1 = [g EXCEPT !.parent = ns] /\ g2 = [g1 EXCEPT !.means = means]
    OBVIOUS
  <1>2. PICK g3, g4 : g3 = [g2 EXCEPT !.decls = own] /\ g4 = [g3 EXCEPT !.tag = NoTag]
    OBVIOUS
  <1>3. g1 \in Frame
    BY <1>1, FrameExcept
  <1>4. g2 \in Frame
    BY <1>1, <1>3, FrameExcept
  <1>5. g3 \in Frame
    BY <1>2, <1>4, FrameExcept
  <1>6. g4 \in Frame
    BY <1>2, <1>5, FrameExcept
  <1>7. [g EXCEPT !.parent = ns, !.means = means, !.decls = own, !.tag = NoTag, !.omitted = omitted]
          = [g4 EXCEPT !.omitted = omitted]
    BY <1>1, <1>2
  <1> QED BY <1>6, <1>7, FrameExcept

LEMMA EnterElementSound ==
    ASSUME Typed, AllSound, frames # <<>>, NEW f, NEW named, Resumed(f, named), f.kind = "object", ~f.first,
           NEW kind \in {"object", "array"}, NEW xsi \in Declaration \cup {NoXsi},
           f.uri \in Schemas, NEW e \in Elements[f.uri],
           NEW prefix \in AnyPrefix, NEW uri \in AnyUri,
           prefix # NoPrefix /\ uri = NoUri => prefix = f.prefix,
           EnterElement(f, e, kind, xsi, prefix, uri, named)
    PROVE  AllSound'
  <1>1. PICK new \in BOOLEAN : new = (prefix # NoPrefix /\ uri # NoUri /\ Declares(named, prefix, uri))
    OBVIOUS
  <1>2. PICK decl : decl = [prefix |-> prefix, uri |-> uri]
    OBVIOUS
  <1>3. PICK after, c : /\ after = IF new THEN Write(f, decl) ELSE f
                        /\ c = DeclaredContext(prefix, uri, named)
    OBVIOUS
  <1>4. /\ Resumed(after, c) /\ after.first = f.first /\ after.kind = f.kind /\ after.prefix = f.prefix
        /\ prefix # NoPrefix /\ uri # NoUri => Believed(c.scopes, Len(frames), prefix, uri)
        /\ new => Concerns(Own(after), prefix)
    BY <1>1, <1>2, <1>3, DeclaredResumed
  <1>5. /\ after \in Frame /\ c \in Context /\ Len(c.scopes) # 0 /\ Tidy(c.scopes)
        /\ after.kind = "object" /\ ~after.first
        /\ after.decls \in Seq(Declaration) /\ after.omitted \in SUBSET Prefix
        /\ after.childDecl \in Seq(Declaration)
    <2>1. /\ after \in Frame /\ c \in Context /\ Len(c.scopes) # 0 /\ Tidy(c.scopes)
      BY <1>4, ResumedIs
    <2> QED BY <1>4, <2>1, FrameIs
  <1>6. new => prefix \in Prefix /\ uri \in Uri
    BY <1>1 DEF AnyPrefix, AnyUri
  <1>7. PICK own : own = IF new THEN <<decl>> ELSE f.childDecl
    OBVIOUS
  <1>8. own = IF new THEN <<[prefix |-> prefix, uri |-> uri]>> ELSE after.childDecl
    BY <1>2, <1>3, <1>7
  <1>9. own \in Seq(Declaration)
    <2>1. new => [prefix |-> prefix, uri |-> uri] \in Declaration
      BY <1>6 DEF Declaration
    <2>2. \A d \in Declaration : <<d>> \in Seq(Declaration)
      OBVIOUS
    <2> QED BY <1>5, <1>8, <2>1, <2>2
  <1>10. PICK omitted : omitted = (after.omitted \cup PrefixesOf(ToSet(after.decls) \ ToSet(own)))
                                    \ (IF new THEN {prefix} ELSE {})
    OBVIOUS
  <1>11. omitted \in SUBSET Prefix
    <2>1. PrefixesOf(ToSet(after.decls) \ ToSet(own)) \in SUBSET Prefix
      BY <1>5, DeclsTyped
    <2> QED BY <1>5, <1>10, <2>1
  <1>12. PICK ns, means : ns = Unignored(prefix) /\ means = IF ns = NoPrefix THEN NoUri ELSE uri
    OBVIOUS
  <1>13. ns \in AnyPrefix /\ means \in AnyUri
    BY <1>12 DEF Unignored, AnyPrefix, AnyUri
  <1>14. /\ Named(frames, Len(frames), Own(after), prefix) /\ Named(frames, Len(frames), Own(after), ns)
         /\ Meant(frames, Len(frames), Own(after), ns, means)
    <2>1. prefix # NoPrefix /\ uri = NoUri => prefix = after.prefix
      BY <1>4
    <2> QED BY <1>4, <1>12, <2>1, ElementMeant
  <1>15. PICK h : h = [after EXCEPT !.ns = ns]
    OBVIOUS
  <1>16. Resumed(h, c)
    BY <1>4, <1>5, <1>13, <1>14, <1>15, NsResumed
  <1>17. PICK t : t = StartTag(after, ns, means, xsi, c)
    OBVIOUS
  <1>18. t \in Tag
    BY <1>5, <1>13, <1>17, StartTagTyped
  <1>19. PICK content : content = ContentUri(f, e, uri)
    OBVIOUS
  <1>20. content \in AnyUri
    <2>1. e.type # NoType => Lookup(f.uri, e.type) \in AnyUri
      <3>1. e.type \in Prefix \cup {Tns, NoType}
        BY SchemaAssumption DEF ElementType
      <3> QED BY <3>1, XmlnsAssumption DEF Lookup, AnyUri
    <2> QED BY <1>19, <2>1 DEF ContentUri
  <1>21. PICK yes \in BOOLEAN : yes = TRUE
    OBVIOUS
  <1>22. PICK g : g = Activation(kind, FALSE, TRUE, prefix, content, t)
    OBVIOUS
  <1>23. PICK object, items : /\ object = [g EXCEPT !.xsi = xsi]
                              /\ items = [g EXCEPT !.parent = ns, !.means = means, !.decls = own,
                                                   !.tag = NoTag, !.omitted = omitted]
    OBVIOUS
  <1>24. ASSUME kind = "object" PROVE Opened(object, t, c)
    <2>1. object = [Activation("object", FALSE, yes, prefix, content, t) EXCEPT !.xsi = xsi]
      BY <1>21, <1>22, <1>23, <1>24
    <2> QED BY <1>4, <1>13, <1>14, <1>17, <1>20, <2>1, ObjectOpened
  <1>25. ASSUME kind = "array" PROVE Opened(items, Own(items), c)
    <2>1. g = Activation("array", FALSE, TRUE, prefix, content, t)
      BY <1>22, <1>25
    <2>2. g \in Frame
      <3>1. g = Activation("array", FALSE, yes, prefix, content, t)
        BY <1>21, <2>1
      <3> QED BY <1>18, <1>20, <3>1, ActivationTyped
    <2>3. items \in Frame
      BY <1>9, <1>11, <1>13, <1>23, <2>2, ItemsTyped
    <2>4. /\ \A d, o \in ToSet(own) : d.prefix = o.prefix => d = o
          /\ Keeps(Own(after), [decls |-> ToSet(own), omitted |-> omitted], c)
      <3>1. HandsOn(after, c, prefix, uri, own, omitted)
        BY <1>1, <1>4, <1>6, <1>8, <1>10 DEF HandsOn
      <3>2. PICK missing : missing = [decls |-> ToSet(own), omitted |-> omitted]
        OBVIOUS
      <3>3. /\ \A d, o \in ToSet(own) : d.prefix = o.prefix => d = o
            /\ Keeps(Own(after), missing, c)
        BY <1>4, <1>5, <3>1, <3>2, ItemsShow
      <3> QED BY <3>2, <3>3
    <2>5. items = Items(prefix, content, t, ns, means, own, omitted)
      BY <1>23, <2>1 DEF Items
    <2> QED BY <1>4, <1>12, <1>14, <2>1, <2>2, <2>3, <2>4, <2>5, ItemsOpened
  <1>26. PICK d : d = TypeContext(f, e, c)
    OBVIOUS
  <1>27. Follows(c, d, {})
    BY <1>5, <1>26, ElementFollows
  <1>28. Enter(h, IF kind = "array" THEN items ELSE object, d)
    BY <1>1, <1>2, <1>3, <1>7, <1>10, <1>12, <1>15, <1>17, <1>19, <1>22, <1>23, <1>26 DEF EnterElement
  <1>29. PICK w : Opened(IF kind = "array" THEN items ELSE object, w, c)
    BY <1>24, <1>25, EitherOpened
  <1> QED BY <1>16, <1>27, <1>28, <1>29, EnterSound

LEMMA SchemaElementSound ==
    ASSUME Typed, AllSound, frames # <<>>, NEW f, NEW c, Resumed(f, c), f.kind = "object",
           NEW kind \in {"object", "array"}, NEW xsi \in Declaration \cup {NoXsi},
           f.uri \in Schemas, NEW e \in Elements[f.uri], SchemaElement(f, e, kind, xsi, c)
    PROVE  AllSound'
  <1>1. ~f.first
    BY DEF SchemaElement
  <1>2. f \in Frame /\ c \in Context /\ Len(c.scopes) # 0 /\ Tidy(c.scopes) /\ Len(c.scopes) = Len(frames)
    BY ResumedIs
  <1>3. PICK prefix \in AnyPrefix, uri \in AnyUri, named \in Under(c) :
           /\ e.prefix = Tns => CanRegister(c, e.target)
           /\ prefix = IF Unqualified(f.uri, e) THEN NoPrefix ELSE ElementPrefix(f, e, c)
           /\ uri = ElementUri(f, e, c)
           /\ named = RegisteredContext(e, c)
           /\ EnterElement(f, e, kind, xsi, prefix, uri, named)
    BY <1>2, SchemaElementIs
  <1>4. Follows(c, named, {})
    BY <1>2, <1>3, ElementFollows
  <1>5. Kept(frames, Len(frames), f) /\ Claimed(frames, Len(frames), f, c.scopes)
    BY DEF Resumed
  <1>6. Claimed(frames, Len(frames), f, named.scopes)
    BY <1>2, <1>4, <1>5 DEF Follows, Claimed
  <1>7. Resumed(f, named)
    BY <1>2, <1>4, <1>5, <1>6, ResumedOn
  <1>8. prefix # NoPrefix /\ uri = NoUri => prefix = f.prefix
    BY <1>3, ElementNames
  <1> QED BY <1>1, <1>3, <1>7, <1>8, EnterElementSound

LEMMA PropertySound ==
    ASSUME Typed, AllSound, NEW kind \in {"object", "array"}, NEW xsi \in XsiTypes \cup {NoXsi},
           Property(kind, xsi)
    PROVE  AllSound'
  <1>1. frames # <<>> /\ MayCarry(kind, xsi) /\ Top.kind = "object"
    BY DEF Property
  <1>2. PICK f, x, c : f = Carrying(Top, xsi) /\ x = Attributes(xsi) /\ c = AttributesContext(xsi)
    OBVIOUS
  <1>3. Resumed(f, c) /\ x \in Declaration \cup {NoXsi} /\ PropertyOf(f, kind, x, c)
    BY <1>1, <1>2, CarryingResumed, AttributesTyped DEF Property
  <1>4. f.kind = "object"
    <2>1. Top \in Frame
      BY <1>1, TopTyped
    <2> QED BY <1>1, <1>2, <2>1 DEF Carrying, Frame
  <1>5. ASSUME MessageElement(f, kind, x, c) PROVE AllSound'
    BY <1>1, <1>3, <1>4, <1>5, MessageElementSound
  <1>6. ASSUME OtherElement(f, kind, x, c) PROVE AllSound'
    BY <1>1, <1>3, <1>4, <1>6, OtherElementSound
  <1>7. ASSUME f.uri \in Schemas, NEW e \in Elements[f.uri], SchemaElement(f, e, kind, x, c)
        PROVE  AllSound'
    BY <1>1, <1>3, <1>4, <1>7, SchemaElementSound
  <1> QED BY <1>3, <1>5, <1>6, <1>7 DEF PropertyOf

\* The call from outside: the envelope is the tag, and the prefix of the message is declared in
\* the first activation, or should be in the envelope.
LEMMA BeginSound ==
    ASSUME NEW root \in Roots, NEW typed \in BOOLEAN, Begin(root, typed)
    PROVE  AllSound'
  <1>1. PICK p, u : p = root.prefix /\ u = root.uri
    OBVIOUS
  <1>2. p \in Prefix /\ u \in Uri /\ root = [prefix |-> p, uri |-> u] /\ p # NoPrefix /\ u # NoUri
    BY <1>1, ObjectAssumption, SchemaAssumption, PrefixAssumption DEF Declaration
  <1>3. PICK declared, omitted : /\ declared = {d \in Envelope : d.prefix = p}
                                 /\ omitted = IF p \in Ignored /\ declared # {root} THEN {p} ELSE {}
    OBVIOUS
  <1>4. PICK t : t = [NoTag EXCEPT !.decls = Envelope, !.omitted = omitted]
    OBVIOUS
  <1>5. t.prefix = NoPrefix /\ t.uri = NoUri /\ t.decls = Envelope /\ t.omitted = omitted
    BY <1>4 DEF NoTag
  <1>6. PICK g : g = Activation("object", TRUE, typed, p, u, t)
    OBVIOUS
  <1>7. frames' = <<g>> /\ ctx' = DeclareNamespace(NewContext, p, u)
    BY <1>1, <1>3, <1>4, <1>6 DEF Begin
  <1>8. PICK ks, e : ks = frames' /\ e = ctx'
    OBVIOUS
  <1>9. Len(ks) = 1 /\ ks[1] = g
    BY <1>7, <1>8
  <1>10. PICK c : c = NewContext
    OBVIOUS
  <1>11. c \in Context /\ Len(c.scopes) = 1 /\ c.scopes[1] = <<>> /\ ToSet(<<>>) = {}
    <2>1. << <<>> >> \in Seq(Seq(Mapping)) /\ Len(<< <<>> >>) = 1 /\ << <<>> >>[1] = <<>>
      OBVIOUS
    <2>2. ToSet(<<>>) = {}
      BY DEF ToSet
    <2> QED BY <1>10, <2>1, <2>2 DEF NewContext, Context
  <1>12. Tidy(c.scopes)
    BY <1>11 DEF Tidy, OneEach
  <1>13. PICK D : D = IF Declares(c, p, u) THEN {[prefix |-> p, uri |-> u]} ELSE {}
    OBVIOUS
  <1>14. Follows(c, e, D)
    <2>1. e = DeclareNamespace(c, p, u) /\ Len(c.scopes) # 0
      BY <1>7, <1>8, <1>10, <1>11
    <2> QED BY <1>2, <1>11, <1>12, <1>13, <2>1, DeclareFollows
  <1>15. Tidy(e.scopes)
    BY <1>14 DEF Follows
  <1>16. ASSUME NEW q \in Prefix, NEW v \in Uri, Believed(e.scopes, 1, q, v) PROVE q = p /\ v = u
    <2>1. ~Believed(c.scopes, 1, q, v)
      <3>1. PICK m : m = [prefix |-> q, uri |-> v, declared |-> TRUE]
        OBVIOUS
      <3>2. \A j \in 1..1 : m \notin ToSet(c.scopes[j])
        BY <1>11
      <3> QED BY <3>1, <3>2 DEF Believed, InForce
    <2>2. [prefix |-> q, uri |-> v] \in D
      BY <1>11, <1>14, <1>16, <2>1 DEF Follows
    <2> QED BY <1>13, <2>2
  <1>17. /\ g.tag = t /\ g.prefix = p /\ g.uri = u /\ g.xsi = NoXsi /\ g.kind = "object"
         /\ g.ns \in {NoPrefix, p} /\ g.childDecl = <<>> /\ g.omitted = {}
         /\ g.decls = IF p \notin Ignored THEN <<root>> ELSE <<>>
    BY <1>2, <1>6 DEF Activation, Unignored
  <1>18. PICK o : o = Own(g)
    OBVIOUS
  <1>19. o.omitted = {} /\ o.decls = (IF p \notin Ignored THEN {root} ELSE {}) /\ ToSet(g.decls) = o.decls
    <2>1. ToSet(<<root>>) = {root}
      BY DEF ToSet
    <2> QED BY <1>11, <1>17, <1>18, <2>1 DEF Own
  <1>20. Shows(ks, 1, o, p, u)
    <2>1. CASE p \notin Ignored
      <3>1. p \in PrefixesOf(o.decls) /\ {d \in o.decls : d.prefix = p} = {root}
        BY <1>1, <1>19, <2>1 DEF PrefixesOf
      <3> QED BY <1>2, <3>1 DEF Shows, Concerns, Agrees
    <2>2. CASE p \in Ignored
      <3>1. ~Concerns(o, p)
        BY <1>19, <2>2 DEF Concerns, PrefixesOf
      <3>2. Agrees(t, p, u)
        BY <1>2, <1>3, <1>5, <2>2 DEF Agrees
      <3>3. Given(ks, 1, p, u)
        <4>1. 1 \in 1..1 /\ \A k \in (1 + 1)..1 : FALSE
          OBVIOUS
        <4> QED BY <1>9, <1>17, <3>2, <4>1 DEF Given
      <3> QED BY <3>1, <3>3 DEF Shows
    <2> QED BY <2>1, <2>2
  <1>21. Notes(ks, 1, o, p)
    BY <1>20, ShownIsNoted
  <1>22. Kept(ks, 1, g)
    <2>1. Named(ks, 1, o, p) /\ Named(ks, 1, o, g.ns) /\ Meant(ks, 1, o, p, u)
      BY <1>2, <1>17, <1>20, <1>21 DEF Named, Meant
    <2>2. \A d, b \in o.decls : d = b
      BY <1>19
    <2>3. ToSet(g.childDecl) = {}
      BY <1>11, <1>17
    <2> QED BY <1>17, <1>18, <1>19, <2>1, <2>2, <2>3 DEF Kept
  <1>23. Claimed(ks, 1, g, e.scopes)
    BY <1>16, <1>18, <1>20 DEF Claimed
  <1>24. Meant(ks, 1, NoTag, g.tag.prefix, g.tag.uri)
    BY <1>5, <1>17 DEF Meant
  <1>25. Sound(ks, e.scopes, 1)
    BY <1>9, <1>22, <1>23, <1>24 DEF Sound
  <1>26. \A i \in 1..Len(ks) : i = 1
    BY <1>9
  <1> QED BY <1>8, <1>15, <1>25, <1>26 DEF AllSound

-----------------------------------------------------------------------------
LEMMA InitSound == Init => AllSound
  <1> SUFFICES ASSUME Init PROVE AllSound
    OBVIOUS
  <1>1. frames = <<>> /\ ctx.scopes = <<>>
    BY DEF Init, NewContext
  <1> QED BY <1>1 DEF AllSound, Tidy

LEMMA NextSound == Typed /\ AllSound /\ [Next]_vars => AllSound'
  <1> SUFFICES ASSUME Typed, AllSound, [Next]_vars PROVE AllSound'
    OBVIOUS
  <1>1. ASSUME NEW root \in Roots, NEW typed \in BOOLEAN, Begin(root, typed)
        PROVE  AllSound'
    BY <1>1, BeginSound
  <1>2. ASSUME NEW kind \in {"object", "array"}, NEW xsi \in XsiTypes \cup {NoXsi},
               Property(kind, xsi)
        PROVE  AllSound'
    BY <1>2, PropertySound
  <1>3. ASSUME NEW xsi \in XsiTypes \cup {NoXsi}, Item(xsi)
        PROVE  AllSound'
    BY <1>3, ItemSound
  <1>4. ASSUME Return PROVE AllSound'
    BY <1>4, ReturnSound DEF Return
  <1>5. ASSUME ReturnRaw PROVE AllSound'
    BY <1>5, ReturnSound DEF ReturnRaw
  <1>6. ASSUME UNCHANGED vars PROVE AllSound'
    BY <1>6 DEF vars, AllSound
  <1> QED BY <1>1, <1>2, <1>3, <1>4, <1>5, <1>6 DEF Next

\* From the innermost tag that has to do with a prefix to what a parser finds.
LEMMA SoundResolves == Typed /\ AllSound => PrefixesResolve
  <1> SUFFICES ASSUME Typed, AllSound, NEW i \in DOMAIN frames, frames[i].tag.prefix # NoPrefix
               PROVE  LeftOut(i) \/ Resolves(i)
    BY DEF PrefixesResolve
  <1>1. PICK p, u : p = frames[i].tag.prefix /\ u = frames[i].tag.uri
    OBVIOUS
  <1>2. i \in 1..Len(frames) /\ i \in Nat
    BY DEF Typed, TypeOK
  <1>3. Meant(frames, i, NoTag, p, u) /\ p # NoPrefix
    BY <1>1, <1>2 DEF AllSound, Sound
  <1>4. PICK J : J = Declaring(i, p)
    OBVIOUS
  <1>5. /\ J \in SUBSET (1..i)
        /\ \A j \in 1..i : j \in J <=> p \in PrefixesOf(frames[j].tag.decls)
    BY <1>4 DEF Declaring
  <1>6. PICK nearest : nearest = {d \in frames[Max(J)].tag.decls : d.prefix = p}
    OBVIOUS
  <1>7. Resolves(i) <=> J # {} /\ (u # NoUri => nearest = {[prefix |-> p, uri |-> u]})
    BY <1>1, <1>4, <1>6 DEF Resolves
  <1>8. ASSUME NEW j \in 1..i, p \in frames[j].tag.omitted, \A k \in (j + 1)..i : k \notin J
        PROVE  LeftOut(i)
    <2>1. \A k \in (j + 1)..i : k \in 1..i
      BY <1>2
    <2> QED BY <1>1, <1>5, <1>8, <2>1 DEF LeftOut
  <1>9. CASE u = NoUri
    <2>1. PICK j \in 1..i : Concerns(frames[j].tag, p)
      BY <1>3, <1>9, NoTagIs DEF Meant, Notes
    <2>2. CASE J # {}
      BY <1>7, <1>9, <2>2
    <2>3. CASE J = {}
      <3>1. p \in frames[j].tag.omitted
        BY <1>5, <2>1, <2>3 DEF Concerns
      <3> QED BY <1>8, <2>3, <3>1
    <2> QED BY <2>2, <2>3
  <1>10. CASE u # NoUri
    <2>1. PICK j \in 1..i : /\ Agrees(frames[j].tag, p, u)
                            /\ \A k \in (j + 1)..i : ~Concerns(frames[k].tag, p)
      BY <1>3, <1>10, NoTagIs DEF Meant, Shows, Given
    <2>2. \A k \in (j + 1)..i : k \notin J
      BY <1>5, <2>1 DEF Concerns
    <2>3. CASE p \in frames[j].tag.omitted
      BY <1>8, <2>2, <2>3
    <2>4. CASE p \notin frames[j].tag.omitted
      <3>1. {d \in frames[j].tag.decls : d.prefix = p} = {[prefix |-> p, uri |-> u]}
        BY <2>1, <2>4 DEF Agrees
      <3>2. j \in J
        BY <1>5, <3>1 DEF PrefixesOf
      <3>3. Max(J) = j
        <4>1. J \in SUBSET (1..i) /\ J # {} /\ i \in Nat
          BY <1>2, <1>5, <3>2
        <4>2. Max(J) \in J /\ \A k \in J : k <= Max(J)
          BY <4>1, MaxOfNats
        <4>3. ~(Max(J) \in (j + 1)..i) /\ Max(J) >= j /\ Max(J) \in 1..i
          BY <2>2, <3>2, <4>1, <4>2
        <4> QED BY <4>3
      <3> QED BY <1>6, <1>7, <3>1, <3>2, <3>3
    <2> QED BY <2>3, <2>4
  <1> QED BY <1>9, <1>10

\* Whatever the schemas, the prefixes they use for their namespaces, the prefixes that are ignored,
\* the object and its xsi_types: a parser that reads the message finds the namespace of the schema
\* for every prefix of an element, or the nearest tag that has to do with the prefix lacks its
\* declaration in one of the five ways of PrefixesResolve.  The context objectToXML takes along
\* (index.ts:722, nscontext.ts) never has it believe in a declaration that is out of scope or
\* that another one hides.
THEOREM PrefixesMeanTheirNamespaces == Spec => []PrefixesResolve
  <1> QED BY InitBalanced, NextBalanced, InitTyped, NextTyped, InitSound, NextSound, SoundResolves,
             PTL DEF Spec
=============================================================================
