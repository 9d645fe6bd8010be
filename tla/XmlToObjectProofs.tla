--------------------------- MODULE XmlToObjectProofs ---------------------------
(***************************************************************************)
(* Theorems about XmlToObject, for every WSDL, every set of messages and    *)
(* however the parser cuts their texts: that no text is lost, that types    *)
(* are those of their scope, that children keep their order and that        *)
(* references are joined; and about the WsdlDefinitions it looks messages   *)
(* up in: that operations keep their messages, methods the details of one   *)
(* binding, and messages their types.                                       *)
(*                                                                          *)
(* Each action is restated as what it does to the open elements, the        *)
(* objects and the references (StepsAre), so that what a conjunct of the    *)
(* invariant asks of a step is no more than that.  Shaped says that the     *)
(* open elements are nested and have their objects.  On it rest, one after  *)
(* the other: Bare, for texts; ScopesKnown, for prefixes; RefsKnown, that   *)
(* an object is an href of the one id it refers to; and TargetsKnown, that  *)
(* an element with an id has settled its object by the time it has ended.   *)
(*                                                                          *)
(* Join is a fold.  FoldChain makes it a run over the references, and       *)
(* JoinSweeps says of every object what was done to it on the way.          *)
(*                                                                          *)
(* So is the post-processing of a portType (PostRuns).  Defs says what the  *)
(* tables of a WSDL are at any time: what operations name is in them, under *)
(* its own name or its element's, and a body is read when they are          *)
(* complete.  Aliases that a document adds take the place of nothing.       *)
(***************************************************************************)
EXTENDS XmlToObject, FoldTheorems

(* Types. *)

\* The names of elements, and what ids may be.
AllNames == Names \cup {"root", "Envelope", "Body"}

Ids == STRING \cup {NoId}

\* Tags, with or without everything they may have.
AnyTag == [name : AllNames, id : Ids, href : Ids, nil : BOOLEAN, type : BOOLEAN,
           decl : Uri \cup {NoUri}]

Texts == [kind : {"text"}, text : Seq(Piece)]
Contents == {NoValue, Number, Date} \cup Texts

\* What children leave, and what properties are: only properties are arrays and attributes.
KidValues == {Null, Number, Date} \cup Texts \cup [kind : {"object"}, object : Nat]
Items == KidValues \cup [kind : {"attributes"}, id : Ids, href : Ids]
Values == Items \cup [kind : {"array"}, items : Seq(Items)]
Keys == AllNames \cup {AttributesKey, ValueKey}
Properties == UNION {[D -> Values] : D \in SUBSET Keys}

\* Objects, and what open elements and references are.
Node == [props : Properties, tag : AnyTag, kids : Seq(AllNames \X KidValues),
         words : Seq(Piece), white : Seq(Piece)]

\* The schemas S are whatever the WSDL has.
FrameOf(S) == [tag : AnyTag, obj : Nat, value : Contents, schema : S, scope : Uri]

RefEntry == [id : Ids, hrefs : Seq(Nat), obj : Nat]

\* The open elements are among the objects, and newer ones are inside older ones.
Nested ==
    /\ \A i \in DOMAIN stack : /\ stack[i].obj \in DOMAIN heap
                               /\ stack[i].tag = heap[stack[i].obj].tag
    /\ \A i, j \in DOMAIN stack : i < j => stack[i].obj < stack[j].obj

ParseTyped ==
    /\ heap \in Seq(Node)
    /\ \E S : stack \in Seq(FrameOf(S))
    /\ refs \in Seq(RefEntry)
    /\ xmlns \in Uri

\* A function on some keys is an object's properties.
LEMMA PropertiesAre ==
    ASSUME NEW p, NEW D \in SUBSET Keys, p \in [D -> Values]
    PROVE  p \in Properties
  BY DEF Properties

\* What an object's properties are.
LEMMA PropertiesHave ==
    ASSUME NEW p \in Properties
    PROVE  DOMAIN p \in SUBSET Keys /\ p \in [DOMAIN p -> Values]
  <1>1. PICK D \in SUBSET Keys : p \in [D -> Values]
    BY DEF Properties
  <1> QED BY <1>1

\* Properties stay such when a value is entered ...
LEMMA EnteredTypes ==
    ASSUME NEW p \in Properties, NEW k \in Keys, NEW v \in Values
    PROVE  Entered(p, k, v) \in Properties
  <1>1. DOMAIN p \in SUBSET Keys /\ p \in [DOMAIN p -> Values]
    BY PropertiesHave
  <1>2. Entered(p, k, v) \in [DOMAIN p \cup {k} -> Values] /\ DOMAIN p \cup {k} \in SUBSET Keys
    BY <1>1 DEF Entered
  <1> QED BY <1>2, PropertiesAre

\* ... when others are laid under them ...
LEMMA OverlayTypes ==
    ASSUME NEW p \in Properties, NEW q \in Properties
    PROVE  Overlay(p, q) \in Properties
  <1>1. /\ DOMAIN p \in SUBSET Keys /\ p \in [DOMAIN p -> Values]
        /\ DOMAIN q \in SUBSET Keys /\ q \in [DOMAIN q -> Values]
    BY PropertiesHave
  <1>2. /\ Overlay(p, q) \in [DOMAIN p \cup DOMAIN q -> Values]
        /\ DOMAIN p \cup DOMAIN q \in SUBSET Keys
    BY <1>1 DEF Overlay
  <1> QED BY <1>2, PropertiesAre

\* ... and there may be none.
LEMMA NoProperties == <<>> \in Properties
  <1>1. <<>> \in [{} -> Values]
    OBVIOUS
  <1> QED BY <1>1, PropertiesAre

\* The tags of the documents are typed.
LEMMA TagsAre == Tag \subseteq AnyTag
  BY DEF Tag, AnyTag, AllNames, Ids

\* The elements of an envelope are typed, and have no attributes.
LEMMA PlainTypes ==
    ASSUME NEW name \in {"root", "Envelope", "Body"}
    PROVE  Plain(name) \in AnyTag /\ ~HasAttributes(Plain(name))
  <1>1. NoId \in Ids /\ name \in AllNames
    BY DEF Ids, AllNames
  <1>2. Plain(name) \in AnyTag
    BY <1>1 DEF Plain, AnyTag
  <1>3. /\ Plain(name).id = NoId /\ Plain(name).href = NoId
        /\ ~Plain(name).nil /\ ~Plain(name).type
    BY DEF Plain
  <1> QED BY <1>2, <1>3 DEF HasAttributes

\* What a start tag makes is an object.
LEMMA NewObjectTypes ==
    ASSUME NEW tag \in AnyTag
    PROVE  NewObject(tag) \in Node
  <1>1. Attributes(tag) \in Values /\ AttributesKey \in Keys
    BY DEF Attributes, Values, Items, Keys, AnyTag
  <1>2. (IF HasAttributes(tag) THEN Entered(<<>>, AttributesKey, Attributes(tag)) ELSE <<>>)
           \in Properties
    BY <1>1, NoProperties, EnteredTypes
  <1>3. <<>> \in Seq(AllNames \X KidValues) /\ <<>> \in Seq(Piece)
    BY EmptySeq
  <1> QED BY <1>2, <1>3 DEF NewObject, Node

\* What is kept of a piece is a piece.
LEMMA KeptIs ==
    ASSUME NEW piece \in Pieces
    PROVE  /\ AsKept(piece) \in Piece /\ AsKept(piece).word = piece.word
           /\ wsdl.preserveWhitespace => AsKept(piece) = piece
  <1>1. piece \in Piece
    BY UnmarshalAssumption
  <1> QED BY <1>1 DEF AsKept, Piece

\* A text has the kind of one, and its pieces.
LEMMA TextHas ==
    ASSUME NEW s
    PROVE  Text(s).kind = "text" /\ Text(s).text = s /\ (s \in Seq(Piece) => Text(s) \in Texts)
  BY DEF Text, Texts

\* What is neither a word nor whitespace of an element is no text.
LEMMA NoTexts == NoValue.kind # "text" /\ Number.kind # "text" /\ Date.kind # "text"
  BY DEF NoValue, Number, Date

\* What a piece of text makes of the value of an element.
LEMMA ReadTextTypes ==
    ASSUME NEW S, NEW f \in FrameOf(S), NEW piece \in Pieces
    PROVE  ReadText(f, piece) \in Contents /\ ReadText(f, piece) \in Values
  <1>1. CASE f.schema \in Scalars \cup Dates
    BY <1>1 DEF ReadText, Contents, Values, Items, KidValues
  <1>2. CASE f.schema \notin Scalars \cup Dates
    <2>1. f.value \in Contents
      BY DEF FrameOf
    <2>2. ASSUME f.value.kind = "text" PROVE f.value.text \in Seq(Piece)
      BY <2>1, <2>2, NoTexts DEF Contents, Texts
    <2>3. PICK k \in Piece : k = AsKept(piece)
      BY KeptIs
    <2>4. PICK s \in Seq(Piece) : ReadText(f, piece) = Text(s)
      <3>1. CASE f.value.kind = "text"
        <4>1. Append(f.value.text, k) \in Seq(Piece)
          BY <2>2, <3>1, AppendProperties
        <4> QED BY <1>2, <2>3, <3>1, <4>1 DEF ReadText
      <3>2. CASE f.value.kind # "text"
        <4>1. <<k>> \in Seq(Piece)
          OBVIOUS
        <4> QED BY <1>2, <2>3, <3>2, <4>1 DEF ReadText
      <3> QED BY <3>1, <3>2
    <2> QED BY <2>4, TextHas DEF Contents, Values, Items, KidValues
  <1> QED BY <1>1, <1>2

\* What an end tag leaves is one value.
LEMMA ValueTypes ==
    ASSUME NEW S, NEW f \in FrameOf(S), heap \in Seq(Node), f.obj \in DOMAIN heap
    PROVE  Value(f) \in KidValues
  <1>1. f.value \in Contents /\ f.obj \in Nat
    BY DEF FrameOf
  <1>2. Null \in KidValues /\ (f.value # NoValue => f.value \in KidValues)
    BY <1>1 DEF KidValues, Contents
  <1>3. Object(f.obj) \in KidValues
    BY <1>1 DEF KidValues, Object
  <1>4. EmptyText \in KidValues /\ Text(heap[f.obj].white) \in KidValues
    <2>1. heap[f.obj] \in Node
      OBVIOUS
    <2>2. <<>> \in Seq(Piece) /\ heap[f.obj].white \in Seq(Piece)
      BY <2>1, EmptySeq DEF Node
    <2> QED BY <2>2, TextHas DEF EmptyText, KidValues
  <1> QED BY <1>2, <1>3, <1>4 DEF Value

\* Properties stay such when a child is put into them.
LEMMA PutTypes ==
    ASSUME NEW p \in Properties, NEW name \in AllNames, NEW v \in KidValues, NEW many
    PROVE  Put(p, name, v, many) \in Properties
  <1>1. v \in Items /\ v \in Values /\ name \in Keys
    BY DEF Items, Values, Keys
  <1>2. ASSUME NEW l \in Seq(Items)
        PROVE  Array(l) \in Values
    BY <1>2 DEF Array, Values
  <1>3. CASE name \notin DOMAIN p
    <2>1. <<v>> \in Seq(Items)
      BY <1>1
    <2>2. (IF many THEN Array(<<v>>) ELSE v) \in Values
      BY <1>1, <1>2, <2>1
    <2> QED BY <1>1, <1>3, <2>2, EnteredTypes DEF Put
  <1>4. CASE name \in DOMAIN p
    <2>1. DOMAIN p \in SUBSET Keys /\ p \in [DOMAIN p -> Values] /\ p[name] \in Values
      BY <1>4, PropertiesHave
    <2>2. CASE p[name].kind = "array"
      <3>1. p[name] \in [kind : {"array"}, items : Seq(Items)]
        BY <2>1, <2>2 DEF Values, Items, KidValues, Texts, Null, Number, Date
      <3>2. Append(p[name].items, v) \in Seq(Items)
        BY <1>1, <3>1, AppendProperties
      <3>3. [p[name] EXCEPT !.items = Append(@, v)] \in Values
        BY <3>1, <3>2 DEF Values
      <3>4. [p EXCEPT ![name].items = Append(@, v)] \in [DOMAIN p -> Values]
        BY <1>4, <2>1, <3>3
      <3> QED BY <1>4, <2>1, <2>2, <3>4, PropertiesAre DEF Put
    <2>3. CASE p[name].kind # "array"
      <3>1. p[name] \in Items
        BY <2>1, <2>3 DEF Values
      <3>2. <<p[name], v>> \in Seq(Items)
        BY <1>1, <3>1
      <3>3. Array(<<p[name], v>>) \in Values
        BY <1>2, <3>2
      <3>4. [p EXCEPT ![name] = Array(<<@, v>>)] \in [DOMAIN p -> Values]
        BY <1>4, <2>1, <3>3
      <3> QED BY <1>4, <2>1, <2>3, <3>4, PropertiesAre DEF Put
    <2> QED BY <2>2, <2>3
  <1> QED BY <1>3, <1>4

\* it takes step after step as long as it stays in X.
Steps(it, X, step, n) ==
    \A T \in SUBSET (1..n) :
       T # {} /\ it[T \ {Max(T)}] \in X => it[T] = step[<<it[T \ {Max(T)}], Max(T)>>]

\* p goes from first to last, position by position.
Runs(p, first, last, step, n) ==
    p[0] = first /\ p[n] = last /\ \A k \in 1..n : p[k] = step[<<p[k - 1], k>>]

\* What a fold yields, position by position: step is what it does, it the function on the
\* sets of positions.
LEMMA FoldChain ==
    ASSUME NEW X, NEW n \in Nat, NEW base \in X, NEW step \in [X \X (1..n) -> X], NEW it,
           it[{}] = base, Steps(it, X, step, n)
    PROVE  \E p \in [0..n -> X] : Runs(p, base, it[1..n], step, n)
  <1>1. ASSUME NEW j \in Nat, j + 1 <= n, it[1..j] \in X
        PROVE  it[1..(j + 1)] = step[<<it[1..j], j + 1>>] /\ it[1..(j + 1)] \in X
    <2>1. 1..(j + 1) \in SUBSET (1..n) /\ j + 1 \in 1..n
      BY <1>1
    <2>2. /\ Max(1..(j + 1)) = j + 1 /\ (1..(j + 1)) \ {j + 1} = 1..j
          /\ 1..(j + 1) # {}
      BY FoldStep
    <2>3. it[1..(j + 1)] = step[<<it[1..j], j + 1>>]
      BY <1>1, <2>1, <2>2 DEF Steps
    <2> QED BY <1>1, <2>1, <2>3
  <1>2. it[1..0] = base
    BY FoldStep
  <1>3. ASSUME NEW k \in 0..n PROVE it[1..k] \in X
    <2> DEFINE Z == {j \in Nat : j <= n => it[1..j] \in X}
    <2>1. 0 \in Z
      BY <1>2
    <2>2. ASSUME NEW j \in Z PROVE j + 1 \in Z
      <3> SUFFICES ASSUME j + 1 <= n PROVE it[1..(j + 1)] \in X
        OBVIOUS
      <3>1. j \in Nat /\ it[1..j] \in X
        OBVIOUS
      <3> QED BY <1>1, <3>1
    <2> HIDE DEF Z
    <2>3. Z = Nat
      <3>1. Z \in SUBSET Nat
        BY DEF Z
      <3> QED BY <2>1, <2>2, <3>1, NatSet
    <2>4. k \in Z /\ k <= n
      BY <2>3
    <2> QED BY <2>4 DEF Z
  <1> DEFINE p == [k \in 0..n |-> it[1..k]]
  <1>4. p \in [0..n -> X]
    BY <1>3
  <1>5. p[0] = base /\ p[n] = it[1..n]
    BY <1>2
  <1>6. ASSUME NEW k \in 1..n
        PROVE  p[k] = step[<<p[k - 1], k>>]
    <2>1. PICK j \in Nat : j = k - 1 /\ j + 1 = k /\ j + 1 <= n /\ j \in 0..n
      OBVIOUS
    <2>2. it[1..k] = step[<<it[1..j], k>>]
      BY <1>1, <1>3, <2>1
    <2> QED BY <2>1, <2>2
  <1> HIDE DEF p
  <1> QED BY <1>4, <1>5, <1>6 DEF Runs

\* The references, joined one after the other.
LEMMA JoinRefTypes ==
    ASSUME NEW D, NEW h \in [D -> Node], NEW ref \in RefEntry, ref.obj \in D \cup {0}
    PROVE  JoinRef(h, ref) \in [D -> Node]
  <1> SUFFICES ASSUME NEW o \in D, ref.obj # 0
               PROVE  [h[o] EXCEPT !.props = Overlay(h[ref.obj].props, @)] \in Node
    BY DEF JoinRef
  <1>1. h[o] \in Node /\ h[ref.obj] \in Node
    OBVIOUS
  <1>2. Overlay(h[ref.obj].props, h[o].props) \in Properties
    BY <1>1, OverlayTypes DEF Node
  <1> QED BY <1>1, <1>2 DEF Node

\* Join as iterated over the positions of the references.
JoinAlong(h, rs) ==
    CHOOSE it : it = [T \in SUBSET DOMAIN rs |->
        IF T = {} THEN h ELSE JoinRef(it[T \ {Max(T)}], rs[Max(T)])]

\* Join, as the fold FoldChain speaks of.
LEMMA JoinIs ==
    ASSUME NEW h, NEW rs
    PROVE  Join(h, rs) = JoinAlong(h, rs)[DOMAIN rs]
  BY DEF Join, FoldLeft, MapThenFoldSet, JoinAlong

\* p goes from h to all references joined.
JoinsUp(p, h, rs, n) ==
    /\ p[0] = h /\ p[n] = Join(h, rs)
    /\ \A k \in 1..n : p[k] = JoinRef(p[k - 1], rs[k])

\* The references are joined one after the other.
LEMMA JoinRuns ==
    ASSUME NEW D, NEW h \in [D -> Node], NEW n \in Nat, NEW rs \in [1..n -> RefEntry],
           \A k \in 1..n : rs[k].obj \in D \cup {0}
    PROVE  \E p \in [0..n -> [D -> Node]] : JoinsUp(p, h, rs, n)
  <1> DEFINE X == [D -> Node]
             step == [q \in X \X (1..n) |-> JoinRef(q[1], rs[q[2]])]
  <1>1. ASSUME NEW g \in X, NEW k \in 1..n
        PROVE  JoinRef(g, rs[k]) \in X /\ step[<<g, k>>] = JoinRef(g, rs[k])
    <2>1. JoinRef(g, rs[k]) \in X
      BY JoinRefTypes
    <2> QED BY <2>1
  <1>2. step \in [X \X (1..n) -> X]
    BY <1>1
  <1>3. h \in X
    OBVIOUS
  <1> HIDE DEF step, X
  <1>4. PICK f \in [SUBSET (1..n) -> X] : FoldsTo(f, h, step, n)
    BY <1>2, <1>3, FoldRuns
  <1>5. ASSUME NEW T \in SUBSET (1..n), T # {}
        PROVE  Max(T) \in 1..n /\ T \ {Max(T)} \in SUBSET (1..n)
    BY <1>5, MaxOfNats
  <1>6. ASSUME NEW T \in SUBSET (1..n)
        PROVE  f[T] = IF T = {} THEN h ELSE JoinRef(f[T \ {Max(T)}], rs[Max(T)])
    <2>1. f[T] = IF T = {} THEN h ELSE step[<<f[T \ {Max(T)}], Max(T)>>]
      BY <1>4 DEF FoldsTo
    <2>2. CASE T # {}
      <3>1. Max(T) \in 1..n /\ f[T \ {Max(T)}] \in X
        BY <1>4, <1>5, <2>2
      <3> QED BY <1>1, <2>1, <2>2, <3>1
    <2> QED BY <2>1, <2>2
  <1>7. DOMAIN rs = 1..n
    OBVIOUS
  <1>8. f = [T \in SUBSET DOMAIN rs |->
               IF T = {} THEN h ELSE JoinRef(f[T \ {Max(T)}], rs[Max(T)])]
    BY <1>4, <1>6, <1>7
  <1>9. PICK it : it = JoinAlong(h, rs) /\ it = [T \in SUBSET DOMAIN rs |->
               IF T = {} THEN h ELSE JoinRef(it[T \ {Max(T)}], rs[Max(T)])]
    <2>1. JoinAlong(h, rs) = [T \in SUBSET DOMAIN rs |->
             IF T = {} THEN h ELSE JoinRef(JoinAlong(h, rs)[T \ {Max(T)}], rs[Max(T)])]
      BY <1>8 DEF JoinAlong
    <2> QED BY <2>1
  <1>10. Join(h, rs) = it[1..n]
    BY <1>7, <1>9, JoinIs
  <1>11. it[{}] = h
    BY <1>7, <1>9
  <1>12. ASSUME NEW T \in SUBSET (1..n), T # {}, it[T \ {Max(T)}] \in X
         PROVE  it[T] = step[<<it[T \ {Max(T)}], Max(T)>>]
    <2>1. it[T] = JoinRef(it[T \ {Max(T)}], rs[Max(T)])
      BY <1>7, <1>9, <1>12
    <2> QED BY <1>1, <1>5, <1>12, <2>1
  <1>13. PICK p \in [0..n -> X] :
              /\ p[0] = h /\ p[n] = it[1..n]
              /\ \A k \in 1..n : p[k] = step[<<p[k - 1], k>>]
    <2>1. Steps(it, X, step, n)
      BY <1>12 DEF Steps
    <2>2. \E p \in [0..n -> X] : Runs(p, h, it[1..n], step, n)
      BY <1>2, <1>3, <1>11, <2>1, FoldChain
    <2> QED BY <2>2 DEF Runs
  <1>14. ASSUME NEW k \in 1..n PROVE p[k] = JoinRef(p[k - 1], rs[k])
    <2>1. p[k - 1] \in X
      BY <1>13
    <2> QED BY <1>1, <1>13, <2>1
  <1> QED BY <1>10, <1>13, <1>14 DEF X, JoinsUp

-----------------------------------------------------------------------------
(* What the actions do to the open elements and to the objects. *)

\* What a sequence is without its last element.
LEMMA FrontIs ==
    ASSUME NEW S, NEW s \in Seq(S), Len(s) > 1
    PROVE  /\ Front(s) \in Seq(S) /\ Len(Front(s)) = Len(s) - 1
           /\ \A i \in 1..(Len(s) - 1) : Front(s)[i] = s[i]
  <1>1. Len(s) \in Nat
    BY LenProperties
  <1>2. PICK n \in Nat : n = Len(s) - 1 /\ n >= 1 /\ n <= Len(s)
    <2>1. PICK m \in Nat : m = Len(s)
      BY <1>1
    <2>2. m - 1 \in Nat /\ m - 1 >= 1 /\ m - 1 <= m
      BY <2>1
    <2> QED BY <2>1, <2>2
  <1>3. Front(s) = SubSeq(s, 1, n)
    BY <1>2 DEF Front
  <1>4. \A i \in 1..n : s[i] \in S
    BY <1>2
  <1>5. SubSeq(s, 1, n) \in Seq(S) /\ Len(SubSeq(s, 1, n)) = n
        /\ \A i \in 1..n : SubSeq(s, 1, n)[i] = s[i]
    BY <1>2, <1>4, SubSeqProperties
  <1> QED BY <1>2, <1>3, <1>5

\* The last element of a sequence.
LEMMA LastIs ==
    ASSUME NEW S, NEW s \in Seq(S), Len(s) > 0
    PROVE  Last(s) = s[Len(s)] /\ Last(s) \in S
  BY DEF Last

\* Only the object o is another one in g.
Changed(h, g, o) == DOMAIN g = DOMAIN h /\ \A x \in DOMAIN h : x # o => g[x] = h[x]

\* One object replaced by another.
LEMMA ChangedIs ==
    ASSUME NEW S, NEW h \in Seq(S), NEW o \in DOMAIN h, NEW q \in S
    PROVE  /\ [h EXCEPT ![o] = q] \in Seq(S)
           /\ Changed(h, [h EXCEPT ![o] = q], o) /\ [h EXCEPT ![o] = q][o] = q
  <1>1. o \in 1..Len(h) /\ DOMAIN h = 1..Len(h)
    OBVIOUS
  <1>2. [h EXCEPT ![o] = q] \in Seq(S)
    BY <1>1, ExceptSeq
  <1> QED BY <1>2 DEF Changed

\* A child was put into the object o.
PutInto(h, g, o, name, v, many) ==
    /\ Changed(h, g, o)
    /\ g[o].tag = h[o].tag /\ g[o].words = h[o].words
    /\ g[o].props = Put(h[o].props, name, v, many)
    /\ g[o].kids = Append(h[o].kids, <<name, v>>)

\* The end of an element puts a child into the object around.
LEMMA PutIntoIs ==
    ASSUME NEW h \in Seq(Node), NEW o \in DOMAIN h, NEW name \in AllNames, NEW v \in KidValues,
           NEW many, NEW g,
           g = [h EXCEPT ![o].props = Put(@, name, v, many), ![o].kids = Append(@, <<name, v>>)]
    PROVE  g \in Seq(Node) /\ PutInto(h, g, o, name, v, many)
  <1>1. h[o] \in Node /\ DOMAIN h = 1..Len(h) /\ h \in [1..Len(h) -> Node]
    OBVIOUS
  <1>2. PICK p \in Properties : p = Put(h[o].props, name, v, many)
    BY <1>1, PutTypes DEF Node
  <1>3. PICK k \in Seq(AllNames \X KidValues) : k = Append(h[o].kids, <<name, v>>)
    BY <1>1, AppendProperties DEF Node
  <1>4. PICK r : r = [h[o] EXCEPT !.props = p]
    OBVIOUS
  <1>5. r \in Node /\ r.props = p /\ r.kids = h[o].kids /\ r.tag = h[o].tag
        /\ r.words = h[o].words
    BY <1>1, <1>4 DEF Node
  <1>6. PICK q : q = [r EXCEPT !.kids = k]
    OBVIOUS
  <1>7. q \in Node /\ q.props = p /\ q.kids = k /\ q.tag = h[o].tag /\ q.words = h[o].words
    BY <1>5, <1>6 DEF Node
  <1>8. g = [h EXCEPT ![o] = q]
    <2>1. PICK f : f = [h EXCEPT ![o].props = Put(@, name, v, many)]
      OBVIOUS
    <2>2. f = [h EXCEPT ![o] = r]
      BY <1>1, <1>2, <1>4, <2>1
    <2>3. f[o] = r /\ DOMAIN f = DOMAIN h
      BY <1>1, <2>2
    <2>4. g = [f EXCEPT ![o].kids = Append(@, <<name, v>>)]
      BY <2>1
    <2>5. g = [f EXCEPT ![o] = q]
      BY <1>3, <1>5, <1>6, <2>3, <2>4
    <2> QED BY <1>1, <2>2, <2>5
  <1>9. g \in Seq(Node) /\ Changed(h, g, o) /\ g[o] = q
    <2>1. q \in Node
      BY <1>7
    <2>2. PICK f : f = [h EXCEPT ![o] = q]
      OBVIOUS
    <2>3. f \in Seq(Node) /\ Changed(h, f, o) /\ f[o] = q
      BY <2>1, <2>2, ChangedIs
    <2> QED BY <2>2, <2>3, <1>8
  <1> QED BY <1>2, <1>3, <1>7, <1>9 DEF PutInto

\* The piece of text was noted at the object o, whose properties are now p.
Counted(h, g, o, p, piece) ==
    /\ Changed(h, g, o)
    /\ g[o].tag = h[o].tag /\ g[o].kids = h[o].kids
    /\ g[o].words = Append(h[o].words, piece)
    /\ g[o].props = p

\* A piece of text is noted, whatever it makes of the properties.
LEMMA CountedIs ==
    ASSUME NEW h \in Seq(Node), NEW o \in DOMAIN h, NEW p \in Properties, NEW g,
           NEW piece \in Piece, g = [h EXCEPT ![o].words = Append(@, piece), ![o].props = p]
    PROVE  g \in Seq(Node) /\ Counted(h, g, o, p, piece)
  <1>1. h[o] \in Node /\ DOMAIN h = 1..Len(h) /\ h \in [1..Len(h) -> Node]
    OBVIOUS
  <1>2. PICK n \in Seq(Piece) : n = Append(h[o].words, piece)
    BY <1>1, AppendProperties DEF Node
  <1>3. PICK r : r = [h[o] EXCEPT !.words = n]
    OBVIOUS
  <1>4. r \in Node /\ r.words = n /\ r.kids = h[o].kids /\ r.tag = h[o].tag
        /\ r.props = h[o].props
    BY <1>1, <1>3 DEF Node
  <1>5. PICK q : q = [r EXCEPT !.props = p]
    OBVIOUS
  <1>6. q \in Node /\ q.props = p /\ q.kids = h[o].kids /\ q.tag = h[o].tag /\ q.words = n
    BY <1>4, <1>5 DEF Node
  <1>7. g = [h EXCEPT ![o] = q]
    <2>1. PICK f : f = [h EXCEPT ![o].words = Append(@, piece)]
      OBVIOUS
    <2>2. f = [h EXCEPT ![o] = r]
      BY <1>1, <1>2, <1>3, <2>1
    <2>3. f[o] = r /\ DOMAIN f = DOMAIN h
      BY <1>1, <2>2
    <2>4. g = [f EXCEPT ![o].props = p]
      BY <2>1
    <2>5. g = [f EXCEPT ![o] = q]
      BY <1>5, <2>3, <2>4
    <2> QED BY <1>1, <2>2, <2>5
  <1>8. g \in Seq(Node) /\ Changed(h, g, o) /\ g[o] = q
    <2>1. q \in Node
      BY <1>6
    <2>2. PICK f : f = [h EXCEPT ![o] = q]
      OBVIOUS
    <2>3. f \in Seq(Node) /\ Changed(h, f, o) /\ f[o] = q
      BY <2>1, <2>2, ChangedIs
    <2> QED BY <2>2, <2>3, <1>7
  <1> QED BY <1>2, <1>6, <1>8 DEF Counted

\* Nothing changed but the whitespace.
Blank(h, g) ==
    /\ DOMAIN g = DOMAIN h
    /\ \A o \in DOMAIN h : /\ g[o].tag = h[o].tag /\ g[o].kids = h[o].kids
                           /\ g[o].words = h[o].words /\ g[o].props = h[o].props

\* A piece of whitespace is noted.
LEMMA BlankIs ==
    ASSUME NEW h \in Seq(Node), NEW o \in DOMAIN h, NEW piece \in Piece, NEW g,
           g = [h EXCEPT ![o].white = Append(@, piece)]
    PROVE  g \in Seq(Node) /\ Blank(h, g)
  <1>1. h[o] \in Node /\ DOMAIN h = 1..Len(h) /\ h \in [1..Len(h) -> Node]
    OBVIOUS
  <1>2. PICK w \in Seq(Piece) : w = Append(h[o].white, piece)
    BY <1>1, AppendProperties DEF Node
  <1>3. PICK q : q = [h[o] EXCEPT !.white = w]
    OBVIOUS
  <1>4. q \in Node /\ q.tag = h[o].tag /\ q.kids = h[o].kids /\ q.words = h[o].words
        /\ q.props = h[o].props
    BY <1>1, <1>3 DEF Node
  <1>5. g = [h EXCEPT ![o] = q]
    BY <1>1, <1>2, <1>3
  <1>6. PICK f : f = [h EXCEPT ![o] = q]
    OBVIOUS
  <1>7. f \in Seq(Node) /\ Changed(h, f, o) /\ f[o] = q
    BY <1>4, <1>6, ChangedIs
  <1> QED BY <1>4, <1>5, <1>6, <1>7 DEF Blank, Changed

\* What the references point to is there.
Pointing(rs, h) == \A i \in DOMAIN rs : rs[i].obj \in DOMAIN h \cup {0}

\* The typed and nested state.
Shaped == ParseTyped /\ Nested /\ Pointing(refs, heap)

\* Entry finds the reference to an id, if there is one.
LEMMA EntryIs ==
    ASSUME NEW rs \in Seq(RefEntry), NEW id
    PROVE  IF \E i \in DOMAIN rs : rs[i].id = id
           THEN Entry(rs, id) \in DOMAIN rs /\ rs[Entry(rs, id)].id = id
           ELSE Entry(rs, id) = 0
  <1> DEFINE I == {i \in 1..Len(rs) : rs[i].id = id}
  <1>1. Entry(rs, id) = IF I # {} THEN Min(I) ELSE 0
    BY DEF Entry, SelectInSeq
  <1>2. DOMAIN rs = 1..Len(rs) /\ I \in SUBSET Nat
    OBVIOUS
  <1>3. ASSUME I # {} PROVE Min(I) \in I
    <2> HIDE DEF I
    <2> QED BY <1>2, <1>3, MinOfNats
  <1> QED BY <1>1, <1>2, <1>3

\* A reference to id is noted: only one without anything may be new.
LEMMA NotedIs ==
    ASSUME NEW rs \in Seq(RefEntry), NEW id \in Ids
    PROVE  /\ Noted(rs, id) \in Seq(RefEntry) /\ Len(rs) <= Len(Noted(rs, id))
           /\ \A i \in DOMAIN rs : Noted(rs, id)[i] = rs[i]
           /\ \A i \in DOMAIN Noted(rs, id) :
                 i \in DOMAIN rs \/ (Noted(rs, id)[i] = [id |-> id, hrefs |-> <<>>, obj |-> 0]
                                     /\ id # NoId /\ (\A j \in DOMAIN rs : rs[j].id # id)
                                     /\ i = Len(rs) + 1)
           /\ id = NoId \/ \E i \in DOMAIN Noted(rs, id) : Noted(rs, id)[i].id = id
  <1>1. CASE id = NoId \/ \E i \in DOMAIN rs : rs[i].id = id
    BY <1>1 DEF Noted
  <1>2. CASE ~(id = NoId \/ \E i \in DOMAIN rs : rs[i].id = id)
    <2>1. PICK e : e = [id |-> id, hrefs |-> <<>>, obj |-> 0]
      OBVIOUS
    <2>2. e \in RefEntry /\ e.id = id
      <3>1. <<>> \in Seq(Nat)
        BY EmptySeq
      <3> QED BY <2>1, <3>1 DEF RefEntry
    <2>3. Noted(rs, id) = Append(rs, e)
      BY <1>2, <2>1 DEF Noted
    <2>4. PICK l : l = Append(rs, e)
      OBVIOUS
    <2>5. /\ l \in Seq(RefEntry) /\ Len(l) = Len(rs) + 1 /\ l[Len(rs) + 1] = e
          /\ \A i \in 1..Len(rs) : l[i] = rs[i]
      BY <2>2, <2>4, AppendProperties
    <2>6. DOMAIN rs = 1..Len(rs) /\ DOMAIN l = 1..(Len(rs) + 1) /\ Len(rs) \in Nat
      BY <2>5
    <2> QED BY <1>2, <2>1, <2>2, <2>3, <2>4, <2>5, <2>6
  <1> QED BY <1>1, <1>2

\* The references rs with one more href, and with an object, at e.
WithHref(rs, e, o) == [rs EXCEPT ![e].hrefs = Append(@, o)]

WithObj(rs, e, o) == [rs EXCEPT ![e].obj = o]

\* A reference that was noted is there.
LEMMA NotedHas ==
    ASSUME NEW rs \in Seq(RefEntry), NEW id \in Ids, id # NoId
    PROVE  \E i \in DOMAIN Noted(rs, id) : Noted(rs, id)[i].id = id
  BY NotedIs

\* The reference to id gets another href.
LEMMA HrefIs ==
    ASSUME NEW rs \in Seq(RefEntry), NEW e \in DOMAIN rs, NEW o \in Nat, NEW g,
           g = WithHref(rs, e, o)
    PROVE  /\ g \in Seq(RefEntry) /\ Changed(rs, g, e)
           /\ g[e].id = rs[e].id /\ g[e].obj = rs[e].obj
           /\ g[e].hrefs = Append(rs[e].hrefs, o)
  <1>1. rs[e] \in RefEntry
    OBVIOUS
  <1>2. PICK l \in Seq(Nat) : l = Append(rs[e].hrefs, o)
    BY <1>1, AppendProperties DEF RefEntry
  <1>3. PICK r : r = [rs[e] EXCEPT !.hrefs = l]
    OBVIOUS
  <1>4. r \in RefEntry
    BY <1>1, <1>2, <1>3 DEF RefEntry
  <1>5. r.id = rs[e].id /\ r.obj = rs[e].obj /\ r.hrefs = l
    BY <1>1, <1>3 DEF RefEntry
  <1>6. g = [rs EXCEPT ![e] = r]
    BY <1>2, <1>3 DEF WithHref
  <1>7. PICK f : f = [rs EXCEPT ![e] = r]
    OBVIOUS
  <1>8. f \in Seq(RefEntry) /\ Changed(rs, f, e) /\ f[e] = r
    BY <1>4, <1>7, ChangedIs
  <1> QED BY <1>2, <1>5, <1>6, <1>7, <1>8

\* g is rs with the object o at e.
Registered(rs, g, e, o) ==
    /\ Changed(rs, g, e)
    /\ g[e].id = rs[e].id /\ g[e].hrefs = rs[e].hrefs /\ g[e].obj = o

\* The end of an element with an id registers its object.
LEMMA ObjIs ==
    ASSUME NEW rs \in Seq(RefEntry), NEW e \in DOMAIN rs, NEW o \in Nat, NEW g,
           g = WithObj(rs, e, o)
    PROVE  g \in Seq(RefEntry) /\ Registered(rs, g, e, o)
  <1>1. rs[e] \in RefEntry
    OBVIOUS
  <1>2. PICK r : r = [rs[e] EXCEPT !.obj = o]
    OBVIOUS
  <1>3. r \in RefEntry
    BY <1>1, <1>2 DEF RefEntry
  <1>4. r.id = rs[e].id /\ r.obj = o /\ r.hrefs = rs[e].hrefs
    BY <1>1, <1>2 DEF RefEntry
  <1>5. g = [rs EXCEPT ![e] = r]
    BY <1>2 DEF WithObj
  <1>6. PICK f : f = [rs EXCEPT ![e] = r]
    OBVIOUS
  <1>7. f \in Seq(RefEntry) /\ Changed(rs, f, e) /\ f[e] = r
    BY <1>3, <1>6, ChangedIs
  <1> QED BY <1>4, <1>5, <1>6, <1>7 DEF Registered

\* The references after a start tag, in three steps.
LEMMA NoteRefsIs ==
    ASSUME NEW tag \in AnyTag, NEW o \in Nat, refs \in Seq(RefEntry)
    PROVE  \E rs, us \in Seq(RefEntry) :
              /\ rs = Noted(refs, tag.href) /\ NoteRefs(tag, o) = Noted(us, tag.id)
              /\ IF tag.href = NoId THEN us = rs
                 ELSE \E e \in DOMAIN rs :
                         /\ rs[e].id = tag.href /\ Changed(rs, us, e)
                         /\ us[e].id = rs[e].id /\ us[e].obj = rs[e].obj
                         /\ us[e].hrefs = Append(rs[e].hrefs, o)
  <1>1. tag.href \in Ids /\ tag.id \in Ids
    BY DEF AnyTag
  <1>2. PICK rs \in Seq(RefEntry) : rs = Noted(refs, tag.href)
    BY <1>1, NotedIs
  <1>3. CASE tag.href = NoId
    <2>1. NoteRefs(tag, o) = Noted(rs, tag.id)
      BY <1>2, <1>3 DEF NoteRefs
    <2> QED BY <1>2, <1>3, <2>1
  <1>4. CASE tag.href # NoId
    <2>1. \E i \in DOMAIN rs : rs[i].id = tag.href
      <3>1. PICK id \in Ids : id = tag.href /\ id # NoId
        BY <1>1, <1>4
      <3>2. \E i \in DOMAIN Noted(refs, id) : Noted(refs, id)[i].id = id
        BY <3>1, NotedHas
      <3> QED BY <1>2, <3>1, <3>2
    <2>2. PICK e \in DOMAIN rs : e = Entry(rs, tag.href) /\ rs[e].id = tag.href
      BY <2>1, EntryIs
    <2>3. PICK us : us = WithHref(rs, e, o)
      OBVIOUS
    <2>4. NoteRefs(tag, o) = Noted(us, tag.id)
      BY <1>2, <1>4, <2>2, <2>3 DEF NoteRefs, WithHref
    <2>5. /\ us \in Seq(RefEntry) /\ Changed(rs, us, e)
          /\ us[e].id = rs[e].id /\ us[e].obj = rs[e].obj
          /\ us[e].hrefs = Append(rs[e].hrefs, o)
      BY <2>3, HrefIs
    <2> QED BY <1>2, <1>4, <2>2, <2>4, <2>5
  <1> QED BY <1>3, <1>4

-----------------------------------------------------------------------------
(* The actions, as what they do to the shape. *)

\* What steps do: nothing but read, throw, open an element, ...
Parsing == phase = "parsing" /\ phase' = phase

Thrown == phase = "parsing" /\ phase' = "threw" /\ UNCHANGED <<heap, stack, refs, xmlns>>

Opened(tag, schema) ==
    /\ Parsing /\ Len(stack) > 1
    /\ heap' = Append(heap, NewObject(tag))
    /\ stack' = Append(stack, Frame(tag, Len(heap) + 1, schema,
                                    IF tag.decl = NoUri THEN Last(stack).scope ELSE tag.decl))
    /\ refs' = NoteRefs(tag, Len(heap) + 1)
    /\ xmlns' = UriAfter(tag)
    /\ tag.type /\ TypeNamed[UriAfter(tag)] # NoSchema => schema = TypeNamed[UriAfter(tag)]
    /\ tag.id = NoId \/ \A o \in DOMAIN heap : heap[o].tag.id # tag.id

\* The element that ends, and the one around it.
Cur == stack[Len(stack)]
Top == stack[Len(stack) - 1]

Popped == Parsing /\ Len(stack) > 1 /\ stack' = Front(stack) /\ xmlns' = xmlns

\* ... end one that is nil, ...
ClosedNil == Popped /\ Cur.tag.nil /\ UNCHANGED <<heap, refs>>

\* What the end of an element does to the references, unless it is nil.
Settling ==
    refs' = IF Cur.tag.id = NoId THEN refs
            ELSE [refs EXCEPT ![Entry(refs, Cur.tag.id)].obj =
                     IF Value(Cur) = Null THEN 0 ELSE Cur.obj]

\* ... end one that is lost in a Date, ...
ClosedLost == Popped /\ heap' = heap /\ Settling

\* ... end one whose value goes to the one around, ...
ClosedInto ==
    /\ Popped
    /\ heap' = [heap EXCEPT ![Top.obj].props =
                               Put(@, Cur.tag.name, Value(Cur), IsMany(Top.schema, Cur.tag.name)),
                            ![Top.obj].kids = Append(@, <<Cur.tag.name, Value(Cur)>>)]
    /\ ~(IsMany(Top.schema, Cur.tag.name) /\ Cur.tag.name \in DOMAIN heap[Top.obj].props
           /\ heap[Top.obj].props[Cur.tag.name].kind # "array")
    /\ Settling

\* ... read a piece of text, whose value may be a property, ...
Keyed ==
    /\ Cur.value = NoValue /\ AttributesKey \in DOMAIN heap[Cur.obj].props
    /\ heap[Cur.obj].props[AttributesKey] \notin {Null, EmptyText}

TextRead(piece) ==
    /\ Parsing /\ Len(stack) > 1 /\ UNCHANGED <<refs, xmlns>>
    /\ heap' = [heap EXCEPT ![Cur.obj].words = Append(@, piece),
                            ![Cur.obj].props =
                               IF Keyed THEN Entered(@, ValueKey, ReadText(Cur, piece)) ELSE @]
    /\ stack' = IF Keyed THEN stack
                ELSE [stack EXCEPT ![Len(stack)].value = ReadText(Cur, piece)]

\* ... and note some whitespace.
Spaced ==
    /\ Parsing /\ Len(stack) > 1 /\ UNCHANGED <<stack, refs, xmlns>>
    /\ heap' \in Seq(Node) /\ Blank(heap, heap')

\* A start tag throws or opens an element.
LEMMA OpenIs ==
    ASSUME NEW tag, OpenTag(tag)
    PROVE  Thrown \/ \E schema : Opened(tag, schema)
  <1>1. Len(stack) > 1 /\ phase = "parsing"
    BY DEF OpenTag
  <1>2. ASSUME Throw PROVE Thrown
    BY <1>1, <1>2 DEF Throw, Thrown
  <1> QED BY <1>1, <1>2 DEF OpenTag, Opened, Parsing

\* An end tag throws, or drops an element, or puts a value into the element around.
LEMMA CloseIs ==
    ASSUME CloseTag, Len(stack) \in Nat
    PROVE  Thrown \/ ClosedNil \/ ClosedLost \/ ClosedInto
  <1>1. Last(stack) = Cur
    BY DEF Last, Cur
  <1>2. Len(stack) > 1 /\ xmlns' = xmlns /\ phase = "parsing"
    BY DEF CloseTag
  <1> QED BY <1>1, <1>2
         DEF CloseTag, Thrown, ClosedNil, ClosedLost, ClosedInto, Settling, Popped, Top, Parsing

\* What a piece of text does.
LEMMA TextIs ==
    ASSUME NEW piece, OnText(piece), Len(stack) \in Nat
    PROVE  TextRead(piece)
  <1>1. Len(stack) > 1
    BY DEF OnText
  <1> QED BY <1>1 DEF OnText, TextRead, Keyed, Cur, Parsing

\* Inside the Body there is an element that is read, and one around it.
LEMMA Ends ==
    ASSUME Shaped, Len(stack) > 1
    PROVE  /\ Len(stack) \in Nat /\ DOMAIN stack = 1..Len(stack)
           /\ Len(stack) \in DOMAIN stack /\ Len(stack) - 1 \in DOMAIN stack
           /\ Cur.obj \in DOMAIN heap /\ Cur.tag = heap[Cur.obj].tag /\ Cur.tag \in AnyTag
           /\ Top.obj \in DOMAIN heap /\ Top.tag = heap[Top.obj].tag /\ Top.obj < Cur.obj
           /\ \E S : stack \in Seq(FrameOf(S)) /\ Cur \in FrameOf(S) /\ Top \in FrameOf(S)
           /\ DOMAIN heap = 1..Len(heap) /\ Len(heap) \in Nat
  <1>1. PICK S : stack \in Seq(FrameOf(S))
    BY DEF Shaped, ParseTyped
  <1>2. PICK n \in Nat : n = Len(stack) /\ n > 1 /\ DOMAIN stack = 1..n
    BY <1>1
  <1>3. n \in 1..n /\ n - 1 \in 1..n /\ n - 1 < n
    BY <1>2
  <1>4. Cur = stack[n] /\ Top = stack[n - 1]
    BY <1>2 DEF Cur, Top
  <1>5. stack[n] \in FrameOf(S) /\ stack[n - 1] \in FrameOf(S)
    BY <1>1, <1>2, <1>3
  <1>6. /\ stack[n].obj \in DOMAIN heap /\ stack[n].tag = heap[stack[n].obj].tag
        /\ stack[n - 1].obj \in DOMAIN heap /\ stack[n - 1].tag = heap[stack[n - 1].obj].tag
        /\ stack[n - 1].obj < stack[n].obj
    BY <1>2, <1>3 DEF Shaped, Nested
  <1>7. stack[n].tag \in AnyTag
    BY <1>5 DEF FrameOf
  <1>8. DOMAIN heap = 1..Len(heap) /\ Len(heap) \in Nat
    BY DEF Shaped, ParseTyped
  <1> QED BY <1>1, <1>2, <1>3, <1>4, <1>5, <1>6, <1>7, <1>8

\* What follows from a longer stack and a longer heap.
LEMMA OpenedIs ==
    ASSUME Shaped, NEW tag \in AnyTag, NEW schema, Opened(tag, schema)
    PROVE  /\ Len(stack') = Len(stack) + 1 /\ \A i \in DOMAIN stack : stack'[i] = stack[i]
           /\ stack'[Len(stack) + 1] = Frame(tag, Len(heap) + 1, schema,
                                    IF tag.decl = NoUri THEN Cur.scope ELSE tag.decl)
           /\ Len(heap') = Len(heap) + 1 /\ \A o \in DOMAIN heap : heap'[o] = heap[o]
           /\ heap'[Len(heap) + 1] = NewObject(tag)
           /\ DOMAIN stack' = 1..(Len(stack) + 1) /\ DOMAIN heap' = 1..(Len(heap) + 1)
           /\ heap' \in Seq(Node) /\ xmlns' \in Uri /\ \E S : stack' \in Seq(FrameOf(S))
  <1>1. Len(stack) > 1
    BY DEF Opened
  <1>2. PICK S : stack \in Seq(FrameOf(S)) /\ Cur \in FrameOf(S)
    BY <1>1, Ends
  <1>3. PICK scope : scope = IF tag.decl = NoUri THEN Cur.scope ELSE tag.decl
    OBVIOUS
  <1>4. scope \in Uri /\ xmlns' \in Uri
    <2>1. Cur.scope \in Uri
      BY <1>2 DEF FrameOf
    <2>2. tag.decl \in Uri \cup {NoUri}
      BY DEF AnyTag
    <2>3. xmlns \in Uri
      BY DEF Shaped, ParseTyped
    <2> QED BY <1>3, <2>1, <2>2, <2>3 DEF Opened, UriAfter
  <1>5. PICK f : f = Frame(tag, Len(heap) + 1, schema, scope)
    OBVIOUS
  <1>6. DOMAIN heap = 1..Len(heap) /\ Len(heap) \in Nat /\ heap \in Seq(Node)
    BY <1>1, Ends DEF Shaped, ParseTyped
  <1>7. f \in FrameOf(S \cup {schema})
    <2>1. Len(heap) + 1 \in Nat /\ NoValue \in Contents
      BY <1>6 DEF Contents
    <2> QED BY <1>4, <1>5, <2>1 DEF Frame, FrameOf
  <1>8. PICK T : T = FrameOf(S \cup {schema}) /\ stack \in Seq(T) /\ f \in T
    <2>1. FrameOf(S) \subseteq FrameOf(S \cup {schema})
      BY DEF FrameOf
    <2>2. stack \in Seq(FrameOf(S \cup {schema}))
      BY <1>2, <2>1, SeqMonotonic
    <2> QED BY <1>7, <2>2
  <1>9. stack' = Append(stack, f)
    BY <1>3, <1>5 DEF Opened, Last, Cur
  <1>10. /\ stack' \in Seq(T) /\ Len(stack') = Len(stack) + 1 /\ stack'[Len(stack) + 1] = f
         /\ \A i \in 1..Len(stack) : stack'[i] = stack[i]
    BY <1>8, <1>9, AppendProperties
  <1>11. PICK q \in Node : q = NewObject(tag)
    BY NewObjectTypes
  <1>12. /\ heap' \in Seq(Node) /\ Len(heap') = Len(heap) + 1 /\ heap'[Len(heap) + 1] = q
         /\ \A o \in 1..Len(heap) : heap'[o] = heap[o]
    <2>1. heap' = Append(heap, q)
      BY <1>11 DEF Opened
    <2> QED BY <1>6, <2>1, AppendProperties
  <1>13. DOMAIN stack' = 1..(Len(stack) + 1) /\ DOMAIN heap' = 1..(Len(heap) + 1)
    BY <1>10, <1>12
  <1>14. DOMAIN stack = 1..Len(stack)
    BY <1>8
  <1> QED BY <1>3, <1>4, <1>5, <1>6, <1>8, <1>10, <1>11, <1>12, <1>13, <1>14

\* A start tag keeps the shape.
LEMMA OpenShapes ==
    ASSUME Shaped, NEW tag \in AnyTag, NEW schema, Opened(tag, schema)
    PROVE  Shaped'
  <1>1. PICK n \in Nat, m \in Nat : n = Len(stack) /\ m = Len(heap) /\ n > 1
    BY Ends DEF Opened
  <1>2. DOMAIN stack = 1..n /\ DOMAIN heap = 1..m
    BY <1>1, Ends
  <1>3. /\ DOMAIN stack' = 1..(n + 1) /\ DOMAIN heap' = 1..(m + 1)
        /\ \A i \in 1..n : stack'[i] = stack[i]
        /\ \A o \in 1..m : heap'[o] = heap[o]
        /\ stack'[n + 1].obj = m + 1 /\ stack'[n + 1].tag = tag
        /\ heap'[m + 1].tag = tag
    <2>1. /\ stack'[n + 1] = Frame(tag, m + 1, schema,
                                   IF tag.decl = NoUri THEN Cur.scope ELSE tag.decl)
          /\ heap'[m + 1] = NewObject(tag)
          /\ DOMAIN stack' = 1..(n + 1) /\ DOMAIN heap' = 1..(m + 1)
          /\ \A i \in 1..n : stack'[i] = stack[i]
          /\ \A o \in 1..m : heap'[o] = heap[o]
      BY <1>1, <1>2, OpenedIs
    <2>2. NewObject(tag).tag = tag
      BY DEF NewObject
    <2>3. \A o, s, c : Frame(tag, o, s, c).obj = o /\ Frame(tag, o, s, c).tag = tag
      BY DEF Frame
    <2> QED BY <2>1, <2>2, <2>3
  <1>4. heap' \in Seq(Node) /\ xmlns' \in Uri /\ \E S : stack' \in Seq(FrameOf(S))
    BY OpenedIs
  <1>5. Nested'
    <2>1. \A i \in 1..n : stack[i].obj \in 1..m /\ stack[i].tag = heap[stack[i].obj].tag
      BY <1>2 DEF Shaped, Nested
    <2>2. \A i, j \in 1..n : i < j => stack[i].obj < stack[j].obj
      BY <1>2 DEF Shaped, Nested
    <2>3. ASSUME NEW i \in 1..(n + 1)
          PROVE  stack'[i].obj \in 1..(m + 1) /\ stack'[i].tag = heap'[stack'[i].obj].tag
      <3>1. CASE i \in 1..n
        BY <1>3, <2>1, <3>1
      <3>2. CASE i = n + 1
        BY <1>3, <3>2
      <3> QED BY <3>1, <3>2
    <2>4. ASSUME NEW i \in 1..(n + 1), NEW j \in 1..(n + 1), i < j
          PROVE  stack'[i].obj < stack'[j].obj
      <3>1. i \in 1..n
        BY <2>4
      <3>2. CASE j \in 1..n
        BY <1>3, <2>2, <2>4, <3>1, <3>2
      <3>3. CASE j = n + 1
        <4>1. stack'[i].obj \in 1..m
          BY <1>3, <2>1, <3>1
        <4> QED BY <1>3, <3>3, <4>1
      <3> QED BY <3>2, <3>3
    <2> QED BY <1>3, <2>3, <2>4 DEF Nested
  <1>6. refs' \in Seq(RefEntry) /\ Pointing(refs, heap)' 
    <2>1. refs \in Seq(RefEntry) /\ m + 1 \in Nat
      BY DEF Shaped, ParseTyped
    <2>2. PICK rs \in Seq(RefEntry) :
            /\ rs = Noted(refs, tag.href)
            /\ \E us \in Seq(RefEntry) :
                 /\ NoteRefs(tag, m + 1) = Noted(us, tag.id)
                 /\ IF tag.href = NoId THEN us = rs
                    ELSE \E e \in DOMAIN rs :
                         /\ rs[e].id = tag.href /\ Changed(rs, us, e)
                         /\ us[e].id = rs[e].id /\ us[e].obj = rs[e].obj
                         /\ us[e].hrefs = Append(rs[e].hrefs, m + 1)
      BY <2>1, NoteRefsIs
    <2>3. PICK us \in Seq(RefEntry) :
                 /\ NoteRefs(tag, m + 1) = Noted(us, tag.id)
                 /\ IF tag.href = NoId THEN us = rs
                    ELSE \E e \in DOMAIN rs :
                         /\ rs[e].id = tag.href /\ Changed(rs, us, e)
                         /\ us[e].id = rs[e].id /\ us[e].obj = rs[e].obj
                         /\ us[e].hrefs = Append(rs[e].hrefs, m + 1)
      BY <2>2
    <2>4. tag.href \in Ids /\ tag.id \in Ids
      BY DEF AnyTag
    <2>5. ASSUME NEW l \in Seq(RefEntry), NEW id \in Ids, \A i \in DOMAIN l : l[i].obj \in 0..m
          PROVE  \A i \in DOMAIN Noted(l, id) : Noted(l, id)[i].obj \in 0..m
      <3>1. ASSUME NEW i \in DOMAIN Noted(l, id)
            PROVE  Noted(l, id)[i].obj \in 0..m
        <4>1. CASE i \in DOMAIN l
          BY <2>5, <4>1, NotedIs
        <4>2. CASE i \notin DOMAIN l
          <5>1. Noted(l, id)[i] = [id |-> id, hrefs |-> <<>>, obj |-> 0]
            BY <4>2, NotedIs
          <5>2. Noted(l, id)[i].obj = 0
            BY <5>1
          <5> QED BY <5>2
        <4> QED BY <4>1, <4>2
      <3> QED BY <3>1
    <2>6. \A i \in DOMAIN refs : refs[i].obj \in 0..m
      BY <1>2 DEF Shaped, Pointing
    <2>7. \A i \in DOMAIN rs : rs[i].obj \in 0..m
      BY <2>1, <2>2, <2>4, <2>5, <2>6
    <2>8. \A i \in DOMAIN us : us[i].obj \in 0..m
      BY <2>3, <2>7 DEF Changed
    <2>9. refs' = Noted(us, tag.id)
      BY <1>1, <2>3 DEF Opened
    <2>10. refs' \in Seq(RefEntry)
      BY <2>4, <2>9, NotedIs
    <2>11. \A i \in DOMAIN refs' : refs'[i].obj \in 0..m
      BY <2>4, <2>5, <2>8, <2>9
    <2> QED BY <1>3, <2>10, <2>11 DEF Pointing
  <1> QED BY <1>4, <1>5, <1>6 DEF Shaped, ParseTyped

\* What follows from one element less.
LEMMA PoppedIs ==
    ASSUME Shaped, Popped
    PROVE  /\ Len(stack') = Len(stack) - 1 /\ DOMAIN stack' = 1..(Len(stack) - 1)
           /\ DOMAIN stack' \subseteq DOMAIN stack
           /\ \A i \in DOMAIN stack' : stack'[i] = stack[i]
           /\ \E S : stack' \in Seq(FrameOf(S))
  <1>1. Len(stack) > 1 /\ stack' = Front(stack)
    BY DEF Popped
  <1>2. PICK S : stack \in Seq(FrameOf(S))
    BY DEF Shaped, ParseTyped
  <1>3. PICK T : T = FrameOf(S) /\ stack \in Seq(T)
    BY <1>2
  <1>4. /\ stack' \in Seq(T) /\ Len(stack') = Len(stack) - 1
        /\ \A i \in 1..(Len(stack) - 1) : stack'[i] = stack[i]
    BY <1>1, <1>3, FrontIs
  <1>5. PICK n \in Nat : n = Len(stack) /\ DOMAIN stack = 1..n
    BY <1>3
  <1>6. DOMAIN stack' = 1..(n - 1) /\ 1..(n - 1) \subseteq 1..n
    BY <1>4, <1>5
  <1> QED BY <1>3, <1>4, <1>5, <1>6

\* The references after an end tag.
Settled(rs, us, id, o) ==
    IF \E i \in DOMAIN rs : rs[i].id = id /\ id # NoId
    THEN \E e \in DOMAIN rs : /\ e = Entry(rs, id) /\ rs[e].id = id
                              /\ Registered(rs, us, e, o)
    ELSE us = rs

\* The object of an id is settled where the id is known.
LEMMA ObjSettles ==
    ASSUME NEW rs \in Seq(RefEntry), NEW id, id # NoId, NEW o \in Nat, NEW e \in DOMAIN rs,
           e = Entry(rs, id), rs[e].id = id
    PROVE  \E us \in Seq(RefEntry) : us = WithObj(rs, e, o) /\ Settled(rs, us, id, o)
  <1>1. PICK us : us = WithObj(rs, e, o)
    OBVIOUS
  <1>2. us \in Seq(RefEntry) /\ Registered(rs, us, e, o)
    BY <1>1, ObjIs
  <1> QED BY <1>1, <1>2 DEF Settled

\* What an end tag does to the references.
LEMMA SettledIs ==
    ASSUME NEW rs \in Seq(RefEntry), NEW id, NEW o \in Nat, NEW us,
           us = IF id = NoId THEN rs ELSE WithObj(rs, Entry(rs, id), o)
    PROVE  us \in Seq(RefEntry) /\ Settled(rs, us, id, o)
  <1>1. CASE id = NoId
    BY <1>1 DEF Settled
  <1>2. CASE id # NoId /\ \E i \in DOMAIN rs : rs[i].id = id
    <2>1. PICK e \in DOMAIN rs : e = Entry(rs, id) /\ rs[e].id = id
      BY <1>2, EntryIs
    <2>2. us = WithObj(rs, e, o)
      BY <1>2, <2>1
    <2>3. \E g \in Seq(RefEntry) : g = WithObj(rs, e, o) /\ Settled(rs, g, id, o)
      BY <1>2, <2>1, ObjSettles
    <2> QED BY <2>2, <2>3
  <1>3. CASE id # NoId /\ ~\E i \in DOMAIN rs : rs[i].id = id
    <2>1. Entry(rs, id) = 0
      BY <1>3, EntryIs
    <2>2. 0 \notin DOMAIN rs /\ rs = [i \in DOMAIN rs |-> rs[i]]
      <3>1. PICK n \in Nat : DOMAIN rs = 1..n
        BY LenProperties
      <3>2. 0 \notin 1..n
        OBVIOUS
      <3>3. rs \in [1..Len(rs) -> RefEntry]
        BY LenProperties
      <3> QED BY <3>1, <3>2, <3>3
    <2>3. us = rs
      BY <1>3, <2>1, <2>2 DEF WithObj
    <2> QED BY <1>3, <2>3 DEF Settled
  <1> QED BY <1>1, <1>2, <1>3

\* What an element that ends does to the references.
LEMMA SettlingIs ==
    ASSUME Shaped, Len(stack) > 1, Settling
    PROVE  /\ refs' \in Seq(RefEntry) /\ Value(Cur) \in KidValues
           /\ Settled(refs, refs', Cur.tag.id, IF Value(Cur) = Null THEN 0 ELSE Cur.obj)
           /\ \A i \in DOMAIN refs' : refs'[i].obj \in DOMAIN heap \cup {0}
  <1>1. PICK S : stack \in Seq(FrameOf(S)) /\ Cur \in FrameOf(S)
    BY Ends
  <1>2. Cur.obj \in DOMAIN heap /\ heap \in Seq(Node) /\ refs \in Seq(RefEntry)
    BY Ends DEF Shaped, ParseTyped
  <1>3. PICK v : v = Value(Cur) /\ v \in KidValues
    BY <1>1, <1>2, ValueTypes
  <1>4. PICK id, q : id = Cur.tag.id /\ q = IF v = Null THEN 0 ELSE Cur.obj
    OBVIOUS
  <1>5. q \in Nat /\ q \in DOMAIN heap \cup {0}
    BY <1>1, <1>2, <1>4 DEF FrameOf
  <1>6. refs' = IF id = NoId THEN refs ELSE WithObj(refs, Entry(refs, id), q)
    BY <1>3, <1>4 DEF Settling, WithObj
  <1>7. PICK us : us = refs'
    OBVIOUS
  <1>8. us \in Seq(RefEntry) /\ Settled(refs, us, id, q)
    BY <1>2, <1>5, <1>6, <1>7, SettledIs
  <1>9. ASSUME NEW i \in DOMAIN us PROVE us[i].obj \in DOMAIN heap \cup {0}
    <2>1. \A j \in DOMAIN refs : refs[j].obj \in DOMAIN heap \cup {0}
      BY DEF Shaped, Pointing
    <2>2. CASE us = refs
      BY <2>1, <2>2
    <2>3. CASE us # refs
      <3>1. PICK e \in DOMAIN refs : Changed(refs, us, e) /\ us[e].obj = q
        BY <1>8, <2>3 DEF Settled, Registered
      <3> QED BY <1>5, <2>1, <3>1 DEF Changed
    <2> QED BY <2>2, <2>3
  <1> QED BY <1>3, <1>4, <1>7, <1>8, <1>9

\* What follows from a value put into the element around.
LEMMA ClosedIs ==
    ASSUME Shaped, ClosedInto
    PROVE  /\ heap' \in Seq(Node) /\ Value(Cur) \in KidValues
           /\ PutInto(heap, heap', Top.obj, Cur.tag.name, Value(Cur),
                      IsMany(Top.schema, Cur.tag.name))
  <1>1. Len(stack) > 1 /\ Settling
    BY DEF ClosedInto, Popped
  <1>2. PICK v : v = Value(Cur) /\ v \in KidValues
    BY <1>1, SettlingIs
  <1>3. PICK name, many, o : name = Cur.tag.name /\ o = Top.obj
                             /\ many = IsMany(Top.schema, Cur.tag.name)
    OBVIOUS
  <1>4. o \in DOMAIN heap /\ Cur.tag \in AnyTag /\ heap \in Seq(Node)
    BY <1>1, <1>3, Ends DEF Shaped, ParseTyped
  <1>5. name \in AllNames
    BY <1>3, <1>4 DEF AnyTag
  <1>6. heap' = [heap EXCEPT ![o].props = Put(@, name, v, many), ![o].kids = Append(@, <<name, v>>)]
    BY <1>2, <1>3 DEF ClosedInto
  <1>7. PICK g : g = heap'
    OBVIOUS
  <1>8. g \in Seq(Node) /\ PutInto(heap, g, o, name, v, many)
    BY <1>2, <1>4, <1>5, <1>6, <1>7, PutIntoIs
  <1> QED BY <1>2, <1>3, <1>7, <1>8

\* The shape does not mind one open element less.
LEMMA PoppedShapes ==
    ASSUME Shaped, Popped, heap' \in Seq(Node), refs' \in Seq(RefEntry),
           DOMAIN heap' = DOMAIN heap, \A o \in DOMAIN heap : heap'[o].tag = heap[o].tag,
           \A i \in DOMAIN refs' : refs'[i].obj \in DOMAIN heap' \cup {0}
    PROVE  Shaped'
  <1>1. ParseTyped'
    BY PoppedIs DEF ParseTyped, Shaped, Popped
  <1>2. Nested'
    BY PoppedIs DEF Nested, Shaped
  <1> QED BY <1>1, <1>2 DEF Shaped, Pointing

\* An end tag keeps the shape.
LEMMA CloseShapes ==
    ASSUME Shaped, ClosedNil \/ ClosedLost \/ ClosedInto
    PROVE  Shaped'
  <1>1. CASE ClosedNil
    BY <1>1, PoppedShapes DEF ClosedNil, Shaped, ParseTyped, Pointing
  <1>2. CASE ClosedLost
    <2>1. Popped /\ heap' = heap /\ Settling /\ Len(stack) > 1
      BY <1>2 DEF ClosedLost, Popped
    <2>2. heap \in Seq(Node)
      BY DEF Shaped, ParseTyped
    <2> QED BY <2>1, <2>2, SettlingIs, PoppedShapes
  <1>3. CASE ClosedInto
    <2>1. Popped /\ Settling /\ Len(stack) > 1
      BY <1>3 DEF ClosedInto, Popped
    <2>2. PICK o : o = Top.obj /\ o \in DOMAIN heap
      BY <2>1, Ends
    <2>3. heap' \in Seq(Node) /\ Changed(heap, heap', o) /\ heap'[o].tag = heap[o].tag
      BY <1>3, <2>2, ClosedIs DEF PutInto
    <2>4. DOMAIN heap' = DOMAIN heap /\ \A x \in DOMAIN heap : heap'[x].tag = heap[x].tag
      BY <2>3 DEF Changed
    <2> QED BY <2>1, <2>3, <2>4, SettlingIs, PoppedShapes
  <1> QED BY <1>1, <1>2, <1>3

\* The value v was given to the open element n.
Revalued(s, g, n, v) ==
    /\ Changed(s, g, n) /\ g[n].value = v /\ g[n].tag = s[n].tag /\ g[n].obj = s[n].obj
    /\ g[n].schema = s[n].schema /\ g[n].scope = s[n].scope

\* An open element with another value.
LEMMA RevaluedIs ==
    ASSUME NEW S, NEW s \in Seq(FrameOf(S)), NEW n \in DOMAIN s, NEW v \in Contents, NEW g,
           g = [s EXCEPT ![n].value = v]
    PROVE  g \in Seq(FrameOf(S)) /\ Revalued(s, g, n, v)
  <1>1. s[n] \in FrameOf(S)
    OBVIOUS
  <1>2. PICK r : r = [s[n] EXCEPT !.value = v]
    OBVIOUS
  <1>3. /\ r \in FrameOf(S) /\ r.value = v /\ r.tag = s[n].tag /\ r.obj = s[n].obj
        /\ r.schema = s[n].schema /\ r.scope = s[n].scope
    BY <1>1, <1>2 DEF FrameOf
  <1>4. PICK T : T = FrameOf(S) /\ s \in Seq(T) /\ r \in T
    BY <1>3
  <1>5. PICK f : f = [s EXCEPT ![n] = r]
    OBVIOUS
  <1>6. f \in Seq(T) /\ Changed(s, f, n) /\ f[n] = r
    BY <1>4, <1>5, ChangedIs
  <1>7. g = f
    BY <1>2, <1>5
  <1> QED BY <1>3, <1>4, <1>6, <1>7 DEF Revalued

\* What follows from a piece of text.
LEMMA TextReadIs ==
    ASSUME Shaped, NEW piece \in Pieces, TextRead(piece)
    PROVE  /\ heap' \in Seq(Node)
           /\ Counted(heap, heap', Cur.obj,
                      IF Keyed THEN Entered(heap[Cur.obj].props, ValueKey, ReadText(Cur, piece))
                      ELSE heap[Cur.obj].props, piece)
           /\ Keyed => stack' = stack
           /\ ~Keyed => Revalued(stack, stack', Len(stack), ReadText(Cur, piece))
           /\ \E S : stack' \in Seq(FrameOf(S))
  <1>1. Len(stack) > 1
    BY DEF TextRead
  <1>2. PICK S : stack \in Seq(FrameOf(S)) /\ Cur \in FrameOf(S)
    BY <1>1, Ends
  <1>3. PICK o, v : o = Cur.obj /\ v = ReadText(Cur, piece) /\ o \in DOMAIN heap
    BY <1>1, Ends
  <1>4. v \in Contents /\ v \in Values
    BY <1>2, <1>3, ReadTextTypes
  <1>5. heap \in Seq(Node) /\ heap[o].props \in Properties
    <2>1. heap \in Seq(Node)
      BY DEF Shaped, ParseTyped
    <2>2. heap[o] \in Node
      BY <1>3, <2>1
    <2> QED BY <2>1, <2>2 DEF Node
  <1>6. ValueKey \in Keys
    BY DEF Keys
  <1>7. PICK p \in Properties : p = IF Keyed THEN Entered(heap[o].props, ValueKey, v)
                                    ELSE heap[o].props
    BY <1>4, <1>5, <1>6, EnteredTypes
  <1>8. heap' = [heap EXCEPT ![o].words = Append(@, piece), ![o].props = p]
    BY <1>3, <1>7 DEF TextRead
  <1>9. PICK g : g = heap'
    OBVIOUS
  <1>10. g \in Seq(Node) /\ Counted(heap, g, o, p, piece)
    BY <1>3, <1>5, <1>8, <1>9, CountedIs, UnmarshalAssumption
  <1>11. PICK n : n = Len(stack) /\ n \in DOMAIN stack
    BY <1>1, Ends
  <1>12. CASE Keyed
    <2>1. stack' = stack
      BY <1>12 DEF TextRead
    <2> QED BY <1>2, <1>3, <1>7, <1>9, <1>10, <1>12, <2>1
  <1>13. CASE ~Keyed
    <2>1. PICK f : f = [stack EXCEPT ![n].value = v]
      OBVIOUS
    <2>2. f \in Seq(FrameOf(S)) /\ Revalued(stack, f, n, v)
      BY <1>2, <1>4, <1>11, <2>1, RevaluedIs
    <2>3. stack' = f
      BY <1>3, <1>11, <1>13, <2>1 DEF TextRead
    <2> QED BY <1>3, <1>7, <1>9, <1>10, <1>11, <1>13, <2>2, <2>3
  <1> QED BY <1>12, <1>13

\* A piece of text keeps the shape.
LEMMA TextShapes ==
    ASSUME Shaped, NEW piece \in Pieces, TextRead(piece)
    PROVE  Shaped'
  <1>1. PICK p : heap' \in Seq(Node) /\ Counted(heap, heap', Cur.obj, p, piece)
    BY TextReadIs
  <1>2. DOMAIN heap' = DOMAIN heap /\ \A x \in DOMAIN heap : heap'[x].tag = heap[x].tag
    BY <1>1 DEF Counted, Changed
  <1>3. DOMAIN stack' = DOMAIN stack
        /\ \A i \in DOMAIN stack : stack'[i].tag = stack[i].tag /\ stack'[i].obj = stack[i].obj
    BY TextReadIs DEF Revalued, Changed
  <1>4. Nested'
    BY <1>2, <1>3 DEF Nested, Shaped
  <1>5. refs' = refs /\ xmlns' = xmlns
    BY DEF TextRead
  <1>6. ParseTyped' /\ Pointing(refs, heap)'
    BY <1>1, <1>2, <1>5, TextReadIs DEF ParseTyped, Pointing, Shaped
  <1> QED BY <1>4, <1>6 DEF Shaped

\* Whitespace is noted at the element that is open.
LEMMA SpaceIs ==
    ASSUME Shaped, NEW piece \in Pieces, OnWhitespace(piece)
    PROVE  Spaced
  <1>1. Len(stack) > 1 /\ Len(stack) \in Nat /\ Parsing /\ UNCHANGED <<stack, refs, xmlns>>
    <2>1. Len(stack) \in Nat
      BY LenProperties DEF Shaped, ParseTyped
    <2> QED BY <2>1 DEF OnWhitespace, Parsing
  <1>2. PICK o : o = Cur.obj /\ o \in DOMAIN heap
    BY <1>1, Ends
  <1>3. heap \in Seq(Node) /\ piece \in Piece
    BY UnmarshalAssumption DEF Shaped, ParseTyped
  <1>4. PICK g : g = heap'
    OBVIOUS
  <1>5. g = heap \/ g = [heap EXCEPT ![o].white = Append(@, piece)]
    BY <1>2, <1>4 DEF OnWhitespace, Last, Cur
  <1>6. g \in Seq(Node) /\ Blank(heap, g)
    <2>1. CASE g = heap
      BY <1>3, <2>1 DEF Blank
    <2>2. CASE g = [heap EXCEPT ![o].white = Append(@, piece)]
      BY <1>2, <1>3, <2>2, BlankIs
    <2> QED BY <1>5, <2>1, <2>2
  <1> QED BY <1>1, <1>4, <1>6 DEF Spaced

\* It keeps the shape.
LEMMA SpaceShapes ==
    ASSUME Shaped, Spaced
    PROVE  Shaped'
  <1>1. ParseTyped' /\ Pointing(refs, heap)'
    BY DEF Spaced, Blank, ParseTyped, Pointing, Shaped
  <1>2. Nested'
    BY DEF Spaced, Blank, Nested, Shaped
  <1> QED BY <1>1, <1>2 DEF Shaped

\* Joining changes nothing but properties.
Kept(h, g) ==
    /\ DOMAIN g = DOMAIN h
    /\ \A o \in DOMAIN h : /\ g[o].tag = h[o].tag /\ g[o].kids = h[o].kids
                           /\ g[o].words = h[o].words

\* What JoinRef(h, ref) does to the object o.
RefJoined(h, g, ref, o) ==
    IF ref.obj = 0 \/ o \notin ToSet(ref.hrefs) THEN g[o] = h[o]
    ELSE g[o].props = Overlay(h[ref.obj].props, h[o].props)

\* Joining one reference changes the objects that refer to it.
LEMMA JoinRefIs ==
    ASSUME NEW D, NEW h \in [D -> Node], NEW ref
    PROVE  Kept(h, JoinRef(h, ref)) /\ \A o \in D : RefJoined(h, JoinRef(h, ref), ref, o)
  <1>1. ASSUME NEW o \in D
        PROVE  /\ JoinRef(h, ref)[o].tag = h[o].tag /\ JoinRef(h, ref)[o].kids = h[o].kids
               /\ JoinRef(h, ref)[o].words = h[o].words
               /\ RefJoined(h, JoinRef(h, ref), ref, o)
    <2>1. h[o] \in Node /\ DOMAIN h = D
      OBVIOUS
    <2>2. PICK p : p = Overlay(h[ref.obj].props, h[o].props)
      OBVIOUS
    <2>3. PICK r : r = [h[o] EXCEPT !.props = p]
      OBVIOUS
    <2>4. r.props = p /\ r.tag = h[o].tag /\ r.kids = h[o].kids /\ r.words = h[o].words
      BY <2>1, <2>3 DEF Node
    <2>5. JoinRef(h, ref)[o] = IF ref.obj = 0 \/ o \notin ToSet(ref.hrefs) THEN h[o] ELSE r
      BY <2>1, <2>2, <2>3 DEF JoinRef
    <2> QED BY <2>2, <2>4, <2>5 DEF RefJoined
  <1>2. DOMAIN JoinRef(h, ref) = D
    BY DEF JoinRef
  <1> QED BY <1>1, <1>2 DEF Kept

\* Kept is transitive.
LEMMA KeptFurther ==
    ASSUME NEW h, NEW g, NEW f, Kept(h, g), Kept(g, f)
    PROVE  Kept(h, f)
  BY DEF Kept

Swept(p, D, h, g, rs, n) ==
    /\ p[0] = h /\ p[n] = g
    /\ \A k \in 1..n : /\ p[k - 1] \in [D -> Node] /\ Kept(h, p[k]) /\ Kept(p[k - 1], p[k])
                       /\ \A o \in D : RefJoined(p[k - 1], p[k], rs[k], o)

\* The joins of multiRef, one reference after the other.
LEMMA JoinSweeps ==
    ASSUME NEW D, NEW h \in [D -> Node], NEW n \in Nat, NEW rs \in [1..n -> RefEntry],
           \A k \in 1..n : rs[k].obj \in D \cup {0}
    PROVE  /\ Join(h, rs) \in [D -> Node] /\ Kept(h, Join(h, rs))
           /\ \E p \in [0..n -> [D -> Node]] : Swept(p, D, h, Join(h, rs), rs, n)
  <1>1. PICK p \in [0..n -> [D -> Node]] :
              /\ p[0] = h /\ p[n] = Join(h, rs)
              /\ \A k \in 1..n : p[k] = JoinRef(p[k - 1], rs[k])
    <2>1. \E p \in [0..n -> [D -> Node]] : JoinsUp(p, h, rs, n)
      BY JoinRuns
    <2> QED BY <2>1 DEF JoinsUp
  <1>2. ASSUME NEW k \in 1..n
        PROVE  /\ p[k - 1] \in [D -> Node] /\ Kept(p[k - 1], p[k])
               /\ \A o \in D : RefJoined(p[k - 1], p[k], rs[k], o)
    <2>1. PICK q \in [D -> Node] : q = p[k - 1]
      <3>1. k - 1 \in 0..n
        OBVIOUS
      <3> QED BY <3>1
    <2>2. PICK ref : ref = rs[k] /\ p[k] = JoinRef(q, ref)
      BY <1>1, <2>1
    <2> QED BY <2>1, <2>2, JoinRefIs
  <1> DEFINE Z == {k \in Nat : k <= n => Kept(h, p[k])}
  <1>3. 0 \in Z
    BY <1>1 DEF Kept
  <1>4. ASSUME NEW k \in Z PROVE k + 1 \in Z
    <2> SUFFICES ASSUME k + 1 <= n PROVE Kept(h, p[k + 1])
      OBVIOUS
    <2>1. PICK j \in 1..n : j = k + 1 /\ j - 1 = k
      OBVIOUS
    <2>2. Kept(h, p[k])
      OBVIOUS
    <2>3. Kept(p[j - 1], p[j])
      BY <1>2
    <2>4. Kept(p[k], p[k + 1])
      BY <2>1, <2>3
    <2> HIDE DEF Z
    <2> QED BY <2>2, <2>4, KeptFurther
  <1> HIDE DEF Z
  <1>5. Z = Nat
    <2>1. Z \in SUBSET Nat
      BY DEF Z
    <2> QED BY <1>3, <1>4, <2>1, NatSet
  <1>6. ASSUME NEW k \in 0..n PROVE Kept(h, p[k])
    <2>1. k \in Z /\ k <= n
      BY <1>5
    <2> QED BY <2>1 DEF Z
  <1>7. Join(h, rs) \in [D -> Node] /\ Kept(h, Join(h, rs))
    <2>1. n \in 0..n
      OBVIOUS
    <2> QED BY <1>1, <1>6, <2>1
  <1>8. Swept(p, D, h, Join(h, rs), rs, n)
    <2>1. ASSUME NEW k \in 1..n PROVE Kept(h, p[k])
      <3>1. k \in 0..n
        OBVIOUS
      <3> QED BY <1>6, <3>1
    <2> QED BY <1>1, <1>2, <2>1 DEF Swept
  <1> QED BY <1>7, <1>8

\* The references are finitely many, and an order of them has them all.
LEMMA OrderIs ==
    ASSUME NEW rs \in Seq(RefEntry), NEW order \in SetToSeqs(ToSet(rs))
    PROVE  \E n \in Nat : /\ order \in [1..n -> RefEntry]
                          /\ \A k \in 1..n : \E i \in DOMAIN rs : order[k] = rs[i]
                          /\ \A i \in DOMAIN rs : \E k \in 1..n : order[k] = rs[i]
  <1> DEFINE R == ToSet(rs)
             f == [i \in 1..Len(rs) |-> rs[i]]
             n == Cardinality(R)
  <1>1. Len(rs) \in Nat /\ DOMAIN rs = 1..Len(rs) /\ R = {rs[i] : i \in 1..Len(rs)}
    BY LenProperties DEF ToSet
  <1>2. f \in Surjection(1..Len(rs), R)
    BY <1>1 DEF Surjection
  <1>3. IsFiniteSet(1..Len(rs))
    BY <1>1, FS_Interval
  <1> HIDE DEF f
  <1>4. IsFiniteSet(R)
    BY <1>2, <1>3, FS_Surjection
  <1>5. n \in Nat
    BY <1>4, FS_CardinalityType
  <1>6. order \in [1..n -> R] /\ \A i, j \in 1..n : i # j => order[i] # order[j]
    BY DEF SetToSeqs
  <1>7. order \in Injection(1..n, R)
    BY <1>6 DEF Injection, IsInjective
  <1>8. Cardinality(1..n) = n
    BY <1>5, FS_Interval
  <1>9. order \in Surjection(1..n, R)
    BY <1>4, <1>7, <1>8, FS_Injection
  <1>10. \A r \in R : \E k \in 1..n : order[k] = r
    BY <1>9 DEF Surjection
  <1>11. \A i \in DOMAIN rs : rs[i] \in R /\ rs[i] \in RefEntry
    BY <1>1, LenProperties
  <1>12. \A k \in 1..n : \E i \in DOMAIN rs : order[k] = rs[i]
    BY <1>1, <1>6
  <1> HIDE DEF n, R
  <1>13. order \in [1..n -> RefEntry]
    <2>1. \A k \in 1..n : order[k] \in RefEntry
      BY <1>11, <1>12
    <2> QED BY <1>6, <2>1
  <1> QED BY <1>5, <1>10, <1>11, <1>12, <1>13

\* The elements a document begins with.
Opening == <<"root", "Envelope", "Body">>

Begun ==
    /\ phase' = "parsing" /\ DOMAIN heap' = 1..3 /\ DOMAIN stack' = 1..3 /\ Len(stack') = 3
    /\ \A i \in 1..3 : /\ heap'[i] = NewObject(Plain(Opening[i]))
                       /\ stack'[i] = Frame(Plain(Opening[i]), i, NoSchema, OuterUri)
    /\ refs' = <<>> /\ xmlns' = OuterUri

Bounds == heap' \in Seq(Node) /\ \E S : stack' \in Seq(FrameOf(S))

\* A document begins with the three elements of its envelope, which are typed.
LEMMA BeginIs ==
    ASSUME Begin
    PROVE  Begun /\ Bounds
  <1> DEFINE open == <<Plain("root"), Plain("Envelope"), Plain("Body")>>
  <1>1. /\ heap' = [i \in 1..3 |-> NewObject(open[i])]
        /\ stack' = [i \in 1..3 |-> Frame(open[i], i, NoSchema, OuterUri)]
        /\ phase' = "parsing" /\ refs' = <<>> /\ xmlns' = OuterUri
    BY DEF Begin
  <1>2. \A i \in 1..3 : open[i] = Plain(Opening[i]) /\ Plain(Opening[i]) \in AnyTag
    BY PlainTypes DEF Opening
  <1> HIDE DEF open
  <1>3. \A i \in 1..3 : NewObject(open[i]) \in Node
    BY <1>2, NewObjectTypes
  <1>4. OuterUri \in Uri
    BY UnmarshalAssumption
  <1>5. \A i \in 1..3 : Frame(open[i], i, NoSchema, OuterUri) \in FrameOf({NoSchema})
    <2>1. ASSUME NEW i \in 1..3
          PROVE  Frame(open[i], i, NoSchema, OuterUri) \in FrameOf({NoSchema})
      <3>1. open[i] \in AnyTag /\ i \in Nat /\ NoValue \in Contents
        BY <1>2 DEF Contents
      <3> QED BY <1>4, <3>1 DEF Frame, FrameOf
    <2> QED BY <2>1
  <1>6. heap' \in Seq(Node)
    <2>1. \A i \in 1..3 : heap'[i] \in Node
      BY <1>1, <1>3
    <2>2. heap' \in [1..3 -> Node]
      BY <1>1, <1>3
    <2> QED BY <2>2, SeqDef
  <1>7. stack' \in Seq(FrameOf({NoSchema})) /\ Len(stack') = 3
    <2>1. stack' \in [1..3 -> FrameOf({NoSchema})]
      BY <1>1, <1>5
    <2>2. PICK s, T : s = stack' /\ T = FrameOf({NoSchema}) /\ s \in [1..3 -> T]
      BY <2>1
    <2>3. s \in Seq(T) /\ DOMAIN s = 1..3
      BY <2>2, SeqDef
    <2>4. Len(s) \in Nat /\ DOMAIN s = 1..Len(s)
      BY <2>3, LenProperties
    <2>5. Len(s) = 3
      BY <2>3, <2>4
    <2> QED BY <2>2, <2>5, <2>3
  <1>8. /\ DOMAIN heap' = 1..3 /\ DOMAIN stack' = 1..3
        /\ \A i \in 1..3 : /\ heap'[i] = NewObject(open[i])
                           /\ stack'[i] = Frame(open[i], i, NoSchema, OuterUri)
    BY <1>1
  <1> QED BY <1>1, <1>2, <1>6, <1>7, <1>8 DEF Begun, Bounds

\* A document begins in shape.
LEMMA BeginShapes ==
    ASSUME Begun, Bounds
    PROVE  Shaped'
  <1>1. Begun /\ Bounds
    OBVIOUS
  <1>2. /\ \A i \in 1..3 : stack'[i].obj = i /\ stack'[i].tag = heap'[i].tag
        /\ DOMAIN heap' = 1..3 /\ DOMAIN stack' = 1..3
    <2>1. \A t, o, s, c : Frame(t, o, s, c).obj = o /\ Frame(t, o, s, c).tag = t
      BY DEF Frame
    <2>2. \A t : NewObject(t).tag = t
      BY DEF NewObject
    <2> QED BY <1>1, <2>1, <2>2 DEF Begun
  <1>3. Nested'
    BY <1>2 DEF Nested
  <1>4. refs' \in Seq(RefEntry) /\ Pointing(refs, heap)' /\ xmlns' \in Uri
    <2>1. refs' = <<>> /\ xmlns' = OuterUri
      BY <1>1 DEF Begun
    <2> QED BY <2>1, UnmarshalAssumption DEF Pointing
  <1> QED BY <1>1, <1>3, <1>4 DEF Shaped, ParseTyped, Bounds

\* order has the references rs, and no others.
Ordered(order, rs, n) ==
    /\ order \in [1..n -> RefEntry]
    /\ \A k \in 1..n : \E i \in DOMAIN rs : order[k] = rs[i]
    /\ \A i \in DOMAIN rs : \E k \in 1..n : order[k] = rs[i]

\* All references are joined, in some order.
Finished ==
    /\ phase = "parsing" /\ phase' # "parsing" /\ Len(stack) = 1
    /\ UNCHANGED <<stack, refs, xmlns>>
    /\ heap' \in Seq(Node) /\ Kept(heap, heap')
    /\ \E n \in Nat : \E order, p :
          /\ Ordered(order, refs, n)
          /\ p \in [0..n -> [DOMAIN heap -> Node]]
          /\ Swept(p, DOMAIN heap, heap, heap', order, n)

\* The end of a document joins every reference.
LEMMA FinishIs ==
    ASSUME Shaped, Finish
    PROVE  Finished
  <1>1. /\ phase = "parsing" /\ phase' # "parsing" /\ Len(stack) = 1
        /\ UNCHANGED <<stack, refs, xmlns>>
    BY DEF Finish
  <1>2. PICK order \in SetToSeqs(ToSet(refs)) : heap' = Join(heap, order)
    BY DEF Finish
  <1>3. refs \in Seq(RefEntry) /\ heap \in Seq(Node)
    BY DEF Shaped, ParseTyped
  <1>4. PICK n \in Nat : /\ order \in [1..n -> RefEntry]
                         /\ \A k \in 1..n : \E i \in DOMAIN refs : order[k] = refs[i]
                         /\ \A i \in DOMAIN refs : \E k \in 1..n : order[k] = refs[i]
    BY <1>3, OrderIs
  <1>5. PICK D : D = DOMAIN heap /\ heap \in [D -> Node]
    BY <1>3
  <1>6. \A k \in 1..n : order[k].obj \in D \cup {0}
    BY <1>4, <1>5 DEF Shaped, Pointing
  <1>7. PICK g : g = Join(heap, order)
    OBVIOUS
  <1>8. /\ g \in [D -> Node] /\ Kept(heap, g)
        /\ \E p \in [0..n -> [D -> Node]] : Swept(p, D, heap, g, order, n)
    BY <1>4, <1>5, <1>6, <1>7, JoinSweeps
  <1>9. g \in Seq(Node)
    <2>1. PICK m \in Nat : D = 1..m
      BY <1>3, <1>5, LenProperties
    <2> QED BY <1>8, <2>1, SeqDef
  <1>10. Ordered(order, refs, n)
    BY <1>4 DEF Ordered
  <1> QED BY <1>1, <1>2, <1>5, <1>7, <1>8, <1>9, <1>10 DEF Finished

\* The end of a document keeps the shape.
LEMMA FinishShapes ==
    ASSUME Shaped, Finished
    PROVE  Shaped'
  <1>1. /\ UNCHANGED <<stack, refs, xmlns>> /\ heap' \in Seq(Node)
        /\ DOMAIN heap' = DOMAIN heap /\ \A o \in DOMAIN heap : heap'[o].tag = heap[o].tag
    BY DEF Finished, Kept
  <1>2. ParseTyped' /\ Pointing(refs, heap)'
    BY <1>1 DEF ParseTyped, Shaped, Pointing
  <1>3. Nested'
    BY <1>1 DEF Nested, Shaped
  <1> QED BY <1>2, <1>3 DEF Shaped

\* Nothing happens here.
Idle == UNCHANGED <<phase, heap, stack, refs, xmlns>>

\* Every step is one of these.
LEMMA StepsAre ==
    ASSUME Shaped, [Next]_vars
    PROVE  \/ Idle
           \/ Thrown
           \/ Begun /\ Bounds
           \/ \E tag \in Tag : \E schema : Opened(tag, schema)
           \/ ClosedNil
           \/ ClosedLost
           \/ ClosedInto
           \/ \E piece \in Pieces : TextRead(piece)
           \/ Spaced
           \/ Finished
  <1>1. Len(stack) \in Nat
    <2>1. PICK S : stack \in Seq(FrameOf(S))
      BY DEF Shaped, ParseTyped
    <2> QED BY <2>1, LenProperties
  <1>2. CASE UNCHANGED vars
    BY <1>2 DEF vars, parseVars, Idle
  <1>3. CASE PostProcessPort /\ UNCHANGED parseVars
    BY <1>3 DEF parseVars, Idle
  <1>4. CASE Begin
    BY <1>4, BeginIs
  <1>5. ASSUME NEW tag \in UNION Vocabularies, OpenTag(tag)
        PROVE  Thrown \/ \E t \in Tag : \E schema : Opened(t, schema)
    <2>1. tag \in Tag
      BY UnmarshalAssumption
    <2> QED BY <1>5, <2>1, OpenIs
  <1>6. CASE CloseTag
    BY <1>1, <1>6, CloseIs
  <1>7. ASSUME NEW piece \in Pieces, OnText(piece) PROVE TextRead(piece)
    BY <1>1, <1>7, TextIs
  <1>8. ASSUME NEW piece \in Pieces, OnWhitespace(piece) PROVE Spaced
    BY <1>8, SpaceIs
  <1>9. CASE Finish
    BY <1>9, FinishIs
  <1> QED BY <1>2, <1>3, <1>4, <1>5, <1>6, <1>7, <1>8, <1>9 DEF Next

\* The state is in shape at the start ...
LEMMA ShapedInit ==
    ASSUME Init
    PROVE  Shaped
  <1>1. heap = <<>> /\ stack = <<>> /\ refs = <<>> /\ xmlns = OuterUri
    BY DEF Init
  <1>2. stack \in Seq(FrameOf({}))
    BY <1>1
  <1>3. ParseTyped
    BY <1>1, <1>2, UnmarshalAssumption DEF ParseTyped
  <1> QED BY <1>1, <1>3 DEF Shaped, Nested, Pointing

\* ... and after every step.
LEMMA ShapedNext ==
    ASSUME Shaped, [Next]_vars
    PROVE  Shaped'
  <1>1. CASE Idle
    BY <1>1 DEF Idle, Shaped, ParseTyped, Nested, Pointing
  <1>2. CASE Thrown
    BY <1>2 DEF Thrown, Shaped, ParseTyped, Nested, Pointing
  <1>3. CASE Begun /\ Bounds
    BY <1>3, BeginShapes
  <1>4. ASSUME NEW tag \in Tag, NEW schema, Opened(tag, schema)
        PROVE  Shaped'
    <2>1. tag \in AnyTag
      BY TagsAre
    <2> QED BY <1>4, <2>1, OpenShapes
  <1>5. CASE ClosedNil \/ ClosedLost \/ ClosedInto
    BY <1>5, CloseShapes
  <1>6. ASSUME NEW piece \in Pieces, TextRead(piece) PROVE Shaped'
    BY <1>6, TextShapes
  <1>7. CASE Spaced
    BY <1>7, SpaceShapes
  <1>8. CASE Finished
    BY <1>8, FinishShapes
  <1> QED BY <1>1, <1>2, <1>3, <1>4, <1>5, <1>6, <1>7, <1>8, StepsAre

-----------------------------------------------------------------------------
(* Texts. *)

\* An object without attributes has no properties before it has a child.
Bare ==
    phase = "parsing" =>
      \A o \in DOMAIN heap :
         ~HasAttributes(heap[o].tag) /\ heap[o].kids = <<>> => DOMAIN heap[o].props = {}

\* What is known of a new object.
LEMMA NewIs ==
    ASSUME NEW tag
    PROVE  /\ NewObject(tag).tag = tag /\ NewObject(tag).kids = <<>> /\ NewObject(tag).words = <<>>
           /\ ~HasAttributes(tag) => DOMAIN NewObject(tag).props = {}
           /\ HasAttributes(tag) =>
                NewObject(tag).props = Entered(<<>>, AttributesKey, Attributes(tag))
  BY DEF NewObject

\* An object that got a child has one.
LEMMA ParentHasKids ==
    ASSUME Shaped, NEW g, NEW o \in DOMAIN heap, NEW name, NEW v, NEW many,
           PutInto(heap, g, o, name, v, many)
    PROVE  g[o].kids # <<>>
  <1>1. heap[o] \in Node
    <2>1. heap \in Seq(Node)
      BY DEF Shaped, ParseTyped
    <2> QED BY <2>1
  <1>2. PICK s, e : s = heap[o].kids /\ e = <<name, v>>
    OBVIOUS
  <1>3. s \in Seq(AllNames \X KidValues)
    BY <1>1, <1>2 DEF Node
  <1>4. PICK X : X = (AllNames \X KidValues) \cup {e}
    OBVIOUS
  <1>5. s \in Seq(X)
    <2>1. AllNames \X KidValues \subseteq X
      BY <1>4
    <2> QED BY <1>3, <2>1, SeqMonotonic
  <1>6. PICK l : l = Append(s, e)
    OBVIOUS
  <1>7. l \in Seq(X) /\ Len(l) = Len(s) + 1 /\ Len(s) \in Nat
    BY <1>4, <1>5, <1>6, AppendProperties, LenProperties
  <1>8. l # <<>>
    BY <1>7
  <1> QED BY <1>2, <1>6, <1>8 DEF PutInto

\* There are no objects at the start.
LEMMA BareInit ==
    ASSUME Init
    PROVE  Bare
  BY DEF Init, Bare

\* Only text without attributes around it leaves an object bare.
LEMMA BareNext ==
    ASSUME Shaped, Bare, [Next]_vars
    PROVE  Bare'
  <1>1. CASE Idle
    BY <1>1 DEF Idle, Bare
  <1>2. CASE Thrown
    BY <1>2 DEF Thrown, Bare
  <1>3. CASE Begun /\ Bounds
    <2>1. \A i \in 1..3 : ~HasAttributes(heap'[i].tag) => DOMAIN heap'[i].props = {}
      BY <1>3, NewIs DEF Begun
    <2> QED BY <1>3, <2>1 DEF Begun, Bare
  <1>4. ASSUME NEW tag \in Tag, NEW schema, Opened(tag, schema)
        PROVE  Bare'
    <2>1. tag \in AnyTag /\ phase = "parsing" /\ Len(stack) > 1
      BY <1>4, TagsAre DEF Opened, Parsing
    <2>2. PICK n \in Nat : n = Len(heap) /\ DOMAIN heap = 1..n
      BY <2>1, Ends
    <2>3. /\ DOMAIN heap' = 1..(n + 1) /\ \A o \in 1..n : heap'[o] = heap[o]
          /\ heap'[n + 1] = NewObject(tag)
      BY <1>4, <2>1, <2>2, OpenedIs
    <2>4. ASSUME NEW o \in 1..(n + 1)
          PROVE  ~HasAttributes(heap'[o].tag) /\ heap'[o].kids = <<>>
                   => DOMAIN heap'[o].props = {}
      <3>1. CASE o \in 1..n
        BY <2>1, <2>2, <2>3, <3>1 DEF Bare
      <3>2. CASE o = n + 1
        BY <2>3, <3>2, NewIs
      <3> QED BY <3>1, <3>2
    <2> QED BY <2>3, <2>4 DEF Bare
  <1>5. CASE ClosedNil
    BY <1>5 DEF ClosedNil, Popped, Parsing, Bare
  <1>6. CASE ClosedInto
    <2>1. PICK name, v, many, t : v \in KidValues /\ PutInto(heap, heap', t, name, v, many)
                                  /\ t = Top.obj
      BY <1>6, ClosedIs
    <2>2. t \in DOMAIN heap
      BY <1>6, <2>1, Ends DEF ClosedInto, Popped
    <2>3. heap'[t].kids # <<>>
      BY <2>1, <2>2, ParentHasKids
    <2>4. phase = "parsing"
      BY <1>6 DEF ClosedInto, Popped, Parsing
    <2> QED BY <2>1, <2>3, <2>4 DEF Bare, PutInto, Changed
  <1>7. ASSUME NEW piece \in Pieces, TextRead(piece)
        PROVE  Bare'
    <2>1. phase = "parsing" /\ Len(stack) > 1
      BY <1>7 DEF TextRead, Parsing
    <2>2. PICK o : o = Cur.obj /\ o \in DOMAIN heap
      BY <2>1, Ends
    <2>3. PICK p : Counted(heap, heap', o, p, piece)
                   /\ p = IF Keyed THEN Entered(heap[o].props, ValueKey, ReadText(Cur, piece))
                          ELSE heap[o].props
      BY <1>7, <2>2, TextReadIs
    <2>4. DOMAIN heap[o].props = {} => ~Keyed
      BY <2>2 DEF Keyed
    <2> QED BY <2>1, <2>2, <2>3, <2>4 DEF Counted, Changed, Bare
  <1>8. CASE ClosedLost
    BY <1>8 DEF ClosedLost, Popped, Parsing, Bare
  <1>9. CASE Spaced
    BY <1>9 DEF Spaced, Blank, Parsing, Bare
  <1>10. CASE Finished
    BY <1>10 DEF Finished, Bare
  <1> QED BY <1>1, <1>2, <1>3, <1>4, <1>5, <1>6, <1>7, <1>8, <1>9, <1>10, StepsAre

\* The text of the open element f, whose object is o.
WholeText(f, o) ==
    f.schema \notin Scalars /\ ~HasAttributes(o.tag) /\ o.kids = <<>> =>
      IF o.words = <<>> THEN f.value = NoValue
      ELSE /\ f.value.kind = "text" /\ WordsOf(f.value.text) = WordsOf(o.words)
           /\ wsdl.preserveWhitespace => f.value.text = o.words

WholeTexts == \A i \in DOMAIN stack : WholeText(stack[i], heap[stack[i].obj])

\* What is whole when it has been read is whole when its element ends.
LEMMA TextsEnd ==
    ASSUME Shaped, Bare, WholeTexts
    PROVE  TextIsWhole
  <1>1. SUFFICES ASSUME phase = "parsing", NEW i \in DOMAIN stack, NEW f, f = stack[i],
                        NEW o, o = heap[f.obj], NEW v, v = Value(f),
                        f.schema \notin Scalars, ~HasAttributes(o.tag), o.kids = <<>>
                 PROVE  IF o.words = <<>> THEN v \in {Null, EmptyText} \/ wsdl.preserveWhitespace
                        ELSE /\ v.kind = "text" /\ WordsOf(v.text) = WordsOf(o.words)
                             /\ wsdl.preserveWhitespace => v.text = o.words
    BY DEF TextIsWhole
  <1>2. f.obj \in DOMAIN heap /\ f.tag = o.tag
    BY <1>1 DEF Shaped, Nested
  <1>3. ~f.tag.nil
    BY <1>1, <1>2 DEF HasAttributes
  <1>4. DOMAIN o.props = {}
    BY <1>1, <1>2 DEF Bare
  <1>5. WholeText(f, o)
    BY <1>1 DEF WholeTexts
  <1>6. CASE o.words = <<>>
    <2>1. f.value = NoValue
      BY <1>1, <1>5, <1>6 DEF WholeText
    <2> QED BY <1>1, <1>3, <1>4, <1>6, <2>1 DEF Value
  <1>7. CASE o.words # <<>>
    <2>1. /\ f.value.kind = "text" /\ WordsOf(f.value.text) = WordsOf(o.words)
          /\ wsdl.preserveWhitespace => f.value.text = o.words
      BY <1>1, <1>5, <1>7 DEF WholeText
    <2>2. v = f.value
      BY <1>1, <1>3, <2>1, NoTexts DEF Value
    <2> QED BY <1>7, <2>1, <2>2
  <1> QED BY <1>6, <1>7

\* The words of a text that grows.
LEMMA WordsGrow ==
    ASSUME NEW s \in Seq(Piece), NEW t \in Seq(Piece), WordsOf(s) = WordsOf(t),
           NEW x \in Piece, NEW y \in Piece, x.word = y.word
    PROVE  WordsOf(Append(s, x)) = WordsOf(Append(t, y))
  <1>1. PICK n \in Nat : n = Len(s) /\ DOMAIN s = 1..n
    BY LenProperties
  <1>2. PICK m \in Nat : m = Len(t) /\ DOMAIN t = 1..m
    BY LenProperties
  <1>3. 1..n = 1..m /\ \A j \in 1..n : s[j].word = t[j].word
    <2>1. DOMAIN WordsOf(s) = 1..n /\ DOMAIN WordsOf(t) = 1..m
      BY <1>1, <1>2 DEF WordsOf
    <2>2. \A j \in 1..n : WordsOf(s)[j] = s[j].word
      BY <1>1 DEF WordsOf
    <2>3. \A j \in 1..m : WordsOf(t)[j] = t[j].word
      BY <1>2 DEF WordsOf
    <2> QED BY <2>1, <2>2, <2>3
  <1>4. n = m
    BY <1>3
  <1>5. PICK a, b : a = Append(s, x) /\ b = Append(t, y)
    OBVIOUS
  <1>6. /\ DOMAIN a = 1..(n + 1) /\ a[n + 1] = x /\ \A j \in 1..n : a[j] = s[j]
        /\ DOMAIN b = 1..(n + 1) /\ b[n + 1] = y /\ \A j \in 1..n : b[j] = t[j]
    <2>1. a \in Seq(Piece) /\ Len(a) = n + 1 /\ b \in Seq(Piece) /\ Len(b) = n + 1
      BY <1>1, <1>2, <1>4, <1>5, AppendProperties
    <2>2. /\ a[n + 1] = x /\ \A j \in 1..n : a[j] = s[j]
          /\ b[n + 1] = y /\ \A j \in 1..n : b[j] = t[j]
      BY <1>1, <1>2, <1>4, <1>5, AppendProperties
    <2> QED BY <2>1, <2>2, LenProperties
  <1>7. \A j \in 1..(n + 1) : a[j].word = b[j].word
    <2>1. \A j \in 1..(n + 1) : j \in 1..n \/ j = n + 1
      OBVIOUS
    <2> QED BY <1>3, <1>6, <2>1
  <1> QED BY <1>5, <1>6, <1>7 DEF WordsOf

\* The WSDL of a document stays.
LEMMA WsdlStays ==
    ASSUME [Next]_vars
    PROVE  wsdl' = wsdl
  <1>1. CASE UNCHANGED vars
    BY <1>1 DEF vars, wsdlVars
  <1>2. CASE PostProcessPort
    BY <1>2 DEF PostProcessPort
  <1>3. CASE Begin
    BY <1>3 DEF Begin, wsdlVars
  <1>4. ASSUME NEW tag, OpenTag(tag) PROVE wsdl' = wsdl
    BY <1>4 DEF OpenTag
  <1>5. CASE CloseTag
    BY <1>5 DEF CloseTag, wsdlVars
  <1>6. ASSUME NEW piece, OnText(piece) \/ OnWhitespace(piece) PROVE wsdl' = wsdl
    BY <1>6 DEF OnText, OnWhitespace, wsdlVars
  <1>7. CASE Finish
    BY <1>7 DEF Finish, wsdlVars
  <1> QED BY <1>1, <1>2, <1>3, <1>4, <1>5, <1>6, <1>7 DEF Next

\* No text is lost at the start ...
LEMMA TextIsWholeInit ==
    ASSUME Init
    PROVE  WholeTexts
  BY DEF Init, WholeTexts

\* ... and by no step.
LEMMA TextIsWholeNext ==
    ASSUME Shaped, Bare, WholeTexts, [Next]_vars
    PROVE  WholeTexts'
  <1>1. ASSUME \A i \in DOMAIN stack' : WholeText(stack'[i], heap'[stack'[i].obj])
        PROVE  WholeTexts'
    BY <1>1, WsdlStays DEF WholeText, WholeTexts
  <1>2. CASE Idle
    BY <1>1, <1>2 DEF Idle, WholeTexts
  <1>3. CASE Thrown
    BY <1>1, <1>3 DEF Thrown, WholeTexts
  <1>4. CASE Begun /\ Bounds
    <2>1. ASSUME NEW i \in 1..3
          PROVE  WholeText(stack'[i], heap'[stack'[i].obj])
      <3>1. heap'[i].words = <<>>
        BY <1>4, NewIs DEF Begun
      <3>2. stack'[i].value = NoValue /\ stack'[i].obj = i
        BY <1>4 DEF Begun, Frame
      <3> QED BY <3>1, <3>2 DEF WholeText
    <2> QED BY <1>1, <1>4, <2>1 DEF Begun
  <1>5. ASSUME NEW tag \in Tag, NEW schema, Opened(tag, schema)
        PROVE  WholeTexts'
    <2>1. tag \in AnyTag /\ Len(stack) > 1
      BY <1>5, TagsAre DEF Opened
    <2>2. PICK n \in Nat, m \in Nat : /\ n = Len(heap) /\ DOMAIN heap = 1..n
                                      /\ m = Len(stack) /\ DOMAIN stack = 1..m
      BY <2>1, Ends
    <2>3. /\ DOMAIN heap' = 1..(n + 1) /\ \A o \in 1..n : heap'[o] = heap[o]
          /\ heap'[n + 1] = NewObject(tag)
      BY <1>5, <2>1, <2>2, OpenedIs
    <2>4. /\ DOMAIN stack' = 1..(m + 1) /\ \A i \in 1..m : stack'[i] = stack[i]
          /\ stack'[m + 1] = Frame(tag, n + 1, schema,
                                   IF tag.decl = NoUri THEN Cur.scope ELSE tag.decl)
      BY <1>5, <2>1, <2>2, OpenedIs
    <2>5. ASSUME NEW i \in 1..(m + 1)
          PROVE  WholeText(stack'[i], heap'[stack'[i].obj])
      <3>1. CASE i \in 1..m
        <4>1. stack[i].obj \in 1..n
          BY <2>2, <3>1 DEF Shaped, Nested
        <4>2. WholeText(stack[i], heap[stack[i].obj])
          BY <2>2, <3>1 DEF WholeTexts
        <4> QED BY <2>3, <2>4, <3>1, <4>1, <4>2
      <3>2. CASE i = m + 1
        <4>1. stack'[m + 1].value = NoValue /\ stack'[m + 1].obj = n + 1
          BY <2>4 DEF Frame
        <4>2. heap'[n + 1].words = <<>>
          BY <2>3, NewIs
        <4> QED BY <3>2, <4>1, <4>2 DEF WholeText
      <3> QED BY <3>1, <3>2
    <2> QED BY <1>1, <2>4, <2>5
  <1>6. CASE ClosedNil
    <2>1. heap' = heap /\ DOMAIN stack' \subseteq DOMAIN stack
          /\ \A i \in DOMAIN stack' : stack'[i] = stack[i]
      BY <1>6, PoppedIs DEF ClosedNil
    <2> QED BY <1>1, <2>1 DEF WholeTexts
  <1>7. CASE ClosedInto
    <2>1. PICK name, v, many, t : v \in KidValues /\ PutInto(heap, heap', t, name, v, many)
                                  /\ t = Top.obj
      BY <1>7, ClosedIs
    <2>2. t \in DOMAIN heap
      BY <1>7, <2>1, Ends DEF ClosedInto, Popped
    <2>3. heap'[t].kids # <<>>
      BY <2>1, <2>2, ParentHasKids
    <2>4. DOMAIN stack' \subseteq DOMAIN stack /\ \A i \in DOMAIN stack' : stack'[i] = stack[i]
      BY <1>7, PoppedIs DEF ClosedInto
    <2>5. \A o \in DOMAIN heap : o # t => heap'[o] = heap[o]
      BY <2>1 DEF PutInto, Changed
    <2>6. ASSUME NEW i \in DOMAIN stack'
          PROVE  WholeText(stack'[i], heap'[stack'[i].obj])
      <3>1. stack'[i] = stack[i] /\ stack[i].obj \in DOMAIN heap
            /\ WholeText(stack[i], heap[stack[i].obj])
        BY <2>4 DEF WholeTexts, Shaped, Nested
      <3>2. CASE stack[i].obj = t
        BY <2>3, <3>1, <3>2 DEF WholeText
      <3>3. CASE stack[i].obj # t
        BY <2>5, <3>1, <3>3
      <3> QED BY <3>2, <3>3
    <2> QED BY <1>1, <2>6
  <1>8. ASSUME NEW piece \in Pieces, TextRead(piece)
        PROVE  WholeTexts'
    <2>1. phase = "parsing" /\ Len(stack) > 1
      BY <1>8 DEF TextRead, Parsing
    <2>2. PICK o, n : /\ o = Cur.obj /\ o \in DOMAIN heap /\ n = Len(stack) /\ n \in Nat
                      /\ DOMAIN stack = 1..n /\ n \in 1..n /\ Cur = stack[n]
      BY <2>1, Ends DEF Cur
    <2>3. PICK p : Counted(heap, heap', o, p, piece)
      BY <1>8, <2>2, TextReadIs
    <2>4. ASSUME NEW i \in 1..n, i # n
          PROVE  WholeText(stack'[i], heap'[stack'[i].obj])
      <3>1. stack'[i] = stack[i]
        BY <1>8, <2>2, <2>4, TextReadIs DEF Revalued, Changed
      <3>2. i < n /\ stack[i].obj < o /\ stack[i].obj \in DOMAIN heap
        <4>1. i < n
          BY <2>2, <2>4
        <4> QED BY <2>2, <4>1 DEF Shaped, Nested
      <3>3. stack[i].obj # o
        <4>1. o \in Nat /\ stack[i].obj \in Nat
          BY <2>1, <2>2, <3>2, Ends
        <4> QED BY <3>2, <4>1
      <3>4. heap'[stack[i].obj] = heap[stack[i].obj]
        BY <2>3, <3>2, <3>3 DEF Counted, Changed
      <3>5. WholeText(stack[i], heap[stack[i].obj])
        BY <2>2 DEF WholeTexts
      <3> QED BY <3>1, <3>4, <3>5
    <2>5. WholeText(stack'[n], heap'[stack'[n].obj])
      <3>1. stack'[n].obj = o /\ stack'[n].schema = Cur.schema
        BY <1>8, <2>2, TextReadIs DEF Revalued
      <3>2. /\ heap'[o].tag = heap[o].tag /\ heap'[o].kids = heap[o].kids
            /\ heap'[o].words = Append(heap[o].words, piece)
        BY <2>3 DEF Counted
      <3>3. SUFFICES ASSUME Cur.schema \notin Scalars, ~HasAttributes(heap[o].tag),
                            heap[o].kids = <<>>, NEW w, w = heap[o].words
                     PROVE  /\ Append(w, piece) # <<>> /\ stack'[n].value.kind = "text"
                            /\ WordsOf(stack'[n].value.text) = WordsOf(Append(w, piece))
                            /\ wsdl.preserveWhitespace => stack'[n].value.text = Append(w, piece)
        BY <3>1, <3>2 DEF WholeText
      <3>4. DOMAIN heap[o].props = {}
        BY <2>1, <2>2, <3>3 DEF Bare
      <3>5. ~Keyed
        BY <2>2, <3>4 DEF Keyed
      <3>6. stack'[n].value = ReadText(Cur, piece)
        BY <1>8, <2>2, <3>5, TextReadIs DEF Revalued
      <3>7. IF w = <<>> THEN Cur.value = NoValue
            ELSE /\ Cur.value.kind = "text" /\ WordsOf(Cur.value.text) = WordsOf(w)
                 /\ wsdl.preserveWhitespace => Cur.value.text = w
        <4>1. WholeText(Cur, heap[o])
          BY <2>2 DEF WholeTexts
        <4> QED BY <3>3, <4>1 DEF WholeText
      <3>8. w \in Seq(Piece) /\ piece \in Piece
        <4>1. heap \in Seq(Node)
          BY DEF Shaped, ParseTyped
        <4>2. heap[o] \in Node
          BY <2>2, <4>1
        <4> QED BY <3>3, <4>2, UnmarshalAssumption DEF Node
      <3>9. PICK k \in Piece : /\ k = AsKept(piece) /\ k.word = piece.word
                               /\ wsdl.preserveWhitespace => k = piece
        BY KeptIs
      <3>10. Append(w, piece) # <<>>
        <4>1. PICK l : l = Append(w, piece)
          OBVIOUS
        <4>2. Len(l) = Len(w) + 1 /\ Len(w) \in Nat
          BY <3>8, <4>1, AppendProperties, LenProperties
        <4>3. l # <<>>
          BY <4>2
        <4> QED BY <4>1, <4>3
      <3>11. PICK s \in Seq(Piece) : /\ ReadText(Cur, piece) = Text(Append(s, k))
                                     /\ WordsOf(s) = WordsOf(w)
                                     /\ wsdl.preserveWhitespace => s = w
        <4>1. Cur.schema \notin Dates
          BY <3>3, UnmarshalAssumption
        <4>2. CASE w = <<>>
          <5>1. Cur.value.kind # "text"
            BY <3>7, <4>2, NoTexts
          <5>2. ReadText(Cur, piece) = Text(<<k>>)
            BY <3>3, <3>9, <4>1, <5>1 DEF ReadText
          <5>3. <<k>> = Append(<<>>, k)
            OBVIOUS
          <5> QED BY <3>8, <4>2, <5>2, <5>3
        <4>3. CASE w # <<>>
          <5>1. /\ Cur.value.kind = "text" /\ WordsOf(Cur.value.text) = WordsOf(w)
                /\ wsdl.preserveWhitespace => Cur.value.text = w
            BY <3>7, <4>3
          <5>2. ReadText(Cur, piece) = Text(Append(Cur.value.text, k))
            BY <3>3, <3>9, <4>1, <5>1 DEF ReadText
          <5>3. Cur.value.text \in Seq(Piece)
            <6>1. PICK S : Cur \in FrameOf(S)
              BY <2>1, Ends
            <6>2. Cur.value \in Contents
              BY <6>1 DEF FrameOf
            <6> QED BY <5>1, <6>2, NoTexts DEF Contents, Texts
          <5> QED BY <5>1, <5>2, <5>3
        <4> QED BY <4>2, <4>3
      <3>12. WordsOf(Append(s, k)) = WordsOf(Append(w, piece))
        BY <3>8, <3>9, <3>11, WordsGrow
      <3>13. stack'[n].value.kind = "text" /\ stack'[n].value.text = Append(s, k)
        BY <3>6, <3>11, TextHas
      <3>14. wsdl.preserveWhitespace => Append(s, k) = Append(w, piece)
        BY <3>9, <3>11
      <3> QED BY <3>10, <3>12, <3>13, <3>14
    <2>6. DOMAIN stack' = 1..n
      BY <1>8, <2>2, TextReadIs DEF Revalued, Changed
    <2> QED BY <1>1, <2>4, <2>5, <2>6
  <1>9. CASE Finished
    <2>1. stack' = stack /\ Kept(heap, heap')
      BY <1>9 DEF Finished
    <2>2. ASSUME NEW i \in DOMAIN stack
          PROVE  WholeText(stack'[i], heap'[stack'[i].obj])
      <3>1. stack[i].obj \in DOMAIN heap
        BY DEF Shaped, Nested
      <3>2. WholeText(stack[i], heap[stack[i].obj])
        BY DEF WholeTexts
      <3> QED BY <2>1, <3>1, <3>2 DEF Kept, WholeText
    <2> QED BY <1>1, <2>1, <2>2
  <1>10. CASE ClosedLost
    <2>1. heap' = heap /\ DOMAIN stack' \subseteq DOMAIN stack
          /\ \A i \in DOMAIN stack' : stack'[i] = stack[i]
      BY <1>10, PoppedIs DEF ClosedLost
    <2> QED BY <1>1, <2>1 DEF WholeTexts
  <1>11. CASE Spaced
    <2>1. ASSUME NEW i \in DOMAIN stack'
          PROVE  WholeText(stack'[i], heap'[stack'[i].obj])
      <3>1. stack' = stack /\ stack[i].obj \in DOMAIN heap
        BY <1>11 DEF Spaced, Shaped, Nested
      <3>2. WholeText(stack[i], heap[stack[i].obj])
        BY <3>1 DEF WholeTexts
      <3>3. PICK h, g : h = heap[stack[i].obj] /\ g = heap'[stack[i].obj]
        OBVIOUS
      <3>4. g.tag = h.tag /\ g.kids = h.kids /\ g.words = h.words
        BY <1>11, <3>1, <3>3 DEF Spaced, Blank
      <3> QED BY <3>1, <3>2, <3>3, <3>4 DEF WholeText
    <2> QED BY <1>1, <2>1
  <1> QED BY <1>2, <1>3, <1>4, <1>5, <1>6, <1>7, <1>8, <1>9, <1>10, <1>11, StepsAre

-----------------------------------------------------------------------------
(* Prefixes. *)

\* Every element that declared the prefix is open, among those outside of position i.
Open(i, h, s) == \A o \in DOMAIN h : h[o].tag.decl # NoUri => \E j \in 1..i : s[j].obj = o

\* The scope of an element is what it declares, or else that of the element around.
ScopeStep ==
    \A i \in DOMAIN stack :
        i - 1 \in DOMAIN stack =>
          stack[i].scope = IF stack[i].tag.decl = NoUri THEN stack[i - 1].scope
                           ELSE stack[i].tag.decl

\* While no element that declared the prefix has ended, it is known for what it means here.
XmlnsOfTop == Len(stack) > 0 /\ Open(Len(stack), heap, stack) => xmlns = Cur.scope

ScopesKnown == ScopeStep /\ XmlnsOfTop

\* Prefixes are known at the start ...
LEMMA ScopesInit ==
    ASSUME Init
    PROVE  ScopesKnown /\ TypesMeanTheirScope
  BY DEF Init, ScopesKnown, ScopeStep, XmlnsOfTop, TypesMeanTheirScope

\* ... after a start tag, which may declare one and may use it in its type ...
LEMMA OpenedScopes ==
    ASSUME Shaped, ScopesKnown, TypesMeanTheirScope, NEW tag \in Tag, NEW schema,
           Opened(tag, schema)
    PROVE  ScopesKnown' /\ TypesMeanTheirScope'
  <1>1. tag \in AnyTag /\ Len(stack) > 1
    BY TagsAre DEF Opened
  <1>2. PICK n \in Nat, m \in Nat : /\ n = Len(heap) /\ DOMAIN heap = 1..n
                                    /\ m = Len(stack) /\ DOMAIN stack = 1..m /\ m > 1
                                    /\ Cur = stack[m]
    BY <1>1, Ends DEF Cur
  <1>3. PICK scope : scope = IF tag.decl = NoUri THEN Cur.scope ELSE tag.decl
    OBVIOUS
  <1>4. /\ DOMAIN heap' = 1..(n + 1) /\ \A o \in 1..n : heap'[o] = heap[o]
        /\ heap'[n + 1] = NewObject(tag)
        /\ DOMAIN stack' = 1..(m + 1) /\ \A i \in 1..m : stack'[i] = stack[i]
        /\ stack'[m + 1] = Frame(tag, n + 1, schema, scope) /\ Len(stack') = m + 1
    BY <1>1, <1>2, <1>3, OpenedIs
  <1>5. /\ stack'[m + 1].tag = tag /\ stack'[m + 1].obj = n + 1
        /\ stack'[m + 1].schema = schema /\ stack'[m + 1].scope = scope
        /\ heap'[n + 1].tag = tag
    BY <1>4, NewIs DEF Frame
  <1>6. \A i \in 1..m : stack[i].obj \in 1..n
    BY <1>2 DEF Shaped, Nested
  <1>7. ScopeStep'
    <2>1. ASSUME NEW i \in 1..(m + 1), i - 1 \in 1..(m + 1)
          PROVE  stack'[i].scope = IF stack'[i].tag.decl = NoUri THEN stack'[i - 1].scope
                                   ELSE stack'[i].tag.decl
      <3>1. CASE i = m + 1
        <4>1. i - 1 = m /\ m \in 1..m
          BY <1>2, <3>1
        <4>2. stack'[m] = Cur
          BY <1>2, <1>4, <4>1
        <4> QED BY <1>3, <1>5, <3>1, <4>1, <4>2
      <3>2. CASE i # m + 1
        <4>1. i \in 1..m /\ i - 1 \in 1..m
          BY <2>1, <3>2
        <4>2. PICK j \in 1..m : j = i - 1
          BY <4>1
        <4>3. stack'[i] = stack[i] /\ stack'[j] = stack[j]
          BY <1>4, <4>1
        <4>4. stack[i].scope = IF stack[i].tag.decl = NoUri THEN stack[i - 1].scope
                               ELSE stack[i].tag.decl
          BY <1>2, <4>1 DEF ScopesKnown, ScopeStep
        <4> QED BY <4>2, <4>3, <4>4
      <3> QED BY <3>1, <3>2
    <2> QED BY <1>4, <2>1 DEF ScopeStep
  <1>8. ASSUME \A o \in 1..n : heap[o].tag.decl # NoUri => \E j \in 1..(m + 1) : stack'[j].obj = o
        PROVE  xmlns = Cur.scope
    <2>1. ASSUME NEW o \in 1..n, heap[o].tag.decl # NoUri
          PROVE  \E j \in 1..m : stack[j].obj = o
      <3>1. PICK j \in 1..(m + 1) : stack'[j].obj = o
        BY <1>8, <2>1
      <3>2. j # m + 1
        <4>1. o # n + 1
          OBVIOUS
        <4> QED BY <1>5, <3>1, <4>1
      <3>3. j \in 1..m
        BY <3>2
      <3> QED BY <1>4, <3>1, <3>3
    <2>2. Open(m, heap, stack)
      BY <1>2, <2>1 DEF Open
    <2> QED BY <1>2, <2>2 DEF ScopesKnown, XmlnsOfTop
  <1>9. ASSUME \A o \in 1..n : heap[o].tag.decl # NoUri => \E j \in 1..(m + 1) : stack'[j].obj = o
        PROVE  UriAfter(tag) = scope
    BY <1>3, <1>8, <1>9 DEF UriAfter
  <1>10. XmlnsOfTop'
    <2>1. SUFFICES ASSUME Open(m + 1, heap', stack') PROVE xmlns' = stack'[m + 1].scope
      BY <1>4 DEF XmlnsOfTop, Cur
    <2>2. \A o \in 1..n : heap[o].tag.decl # NoUri => \E j \in 1..(m + 1) : stack'[j].obj = o
      BY <1>4, <2>1 DEF Open
    <2> QED BY <1>5, <1>9, <2>2 DEF Opened
  <1>11. TypesMeanTheirScope'
    <2>1. SUFFICES ASSUME NEW i \in 1..(m + 1), stack'[i].tag.type,
                          TypeNamed[stack'[i].scope] # NoSchema,
                          \A o \in 1..(stack'[i].obj - 1) :
                            heap'[o].tag.decl # NoUri => \E j \in 1..i : stack'[j].obj = o
                   PROVE  stack'[i].schema = TypeNamed[stack'[i].scope]
      BY <1>4 DEF TypesMeanTheirScope
    <2>2. CASE i = m + 1
      <3>1. 1..(stack'[i].obj - 1) = 1..n
        BY <1>5, <2>2
      <3>2. \A o \in 1..n : heap[o].tag.decl # NoUri => \E j \in 1..(m + 1) : stack'[j].obj = o
        BY <1>4, <2>1, <2>2, <3>1
      <3>3. UriAfter(tag) = scope
        BY <1>9, <3>2
      <3>4. stack'[i].tag = tag /\ stack'[i].schema = schema /\ stack'[i].scope = scope
        BY <1>5, <2>2
      <3>5. tag.type /\ TypeNamed[scope] # NoSchema
        BY <2>1, <3>4
      <3>6. schema = TypeNamed[scope]
        BY <3>3, <3>5 DEF Opened
      <3> QED BY <3>4, <3>6
    <2>3. CASE i # m + 1
      <3>1. i \in 1..m
        BY <2>3
      <3>2. stack'[i] = stack[i]
        BY <1>4, <3>1
      <3>3. ASSUME NEW o \in 1..(stack[i].obj - 1), heap[o].tag.decl # NoUri
            PROVE  \E j \in 1..i : stack[j].obj = o
        <4>1. stack[i].obj \in 1..n
          BY <1>6, <3>1
        <4>2. o \in 1..n
          BY <4>1
        <4>3. heap'[o] = heap[o]
          BY <1>4, <4>2
        <4>4. PICK j \in 1..i : stack'[j].obj = o
          BY <2>1, <3>2, <3>3, <4>3
        <4>5. j \in 1..m
          BY <3>1
        <4> QED BY <1>4, <4>4, <4>5
      <3> QED BY <1>2, <2>1, <3>1, <3>2, <3>3 DEF TypesMeanTheirScope
    <2> QED BY <2>2, <2>3
  <1> QED BY <1>7, <1>10, <1>11 DEF ScopesKnown

\* As far as prefixes are concerned, nothing changed but the end of the stack.
Prefix(n) ==
    /\ DOMAIN stack' = 1..n /\ Len(stack') = n /\ n <= Len(stack)
    /\ \A i \in 1..n : /\ stack'[i].tag = stack[i].tag /\ stack'[i].obj = stack[i].obj
                       /\ stack'[i].schema = stack[i].schema /\ stack'[i].scope = stack[i].scope
    /\ xmlns' = xmlns
    /\ DOMAIN heap' = DOMAIN heap /\ \A o \in DOMAIN heap : heap'[o].tag = heap[o].tag

\* ... when outer elements stay as they are ...
LEMMA PrefixScopes ==
    ASSUME Shaped, ScopesKnown, TypesMeanTheirScope, Len(stack) \in Nat,
           DOMAIN stack = 1..Len(stack), NEW n \in Nat, Prefix(n)
    PROVE  /\ ScopeStep' /\ TypesMeanTheirScope'
           /\ n = Len(stack) => XmlnsOfTop'
  <1>1. 1..n \subseteq DOMAIN stack
    BY DEF Prefix
  <1>2. ScopeStep'
    <2>1. ASSUME NEW i \in 1..n, i - 1 \in 1..n
          PROVE  stack'[i].scope = IF stack'[i].tag.decl = NoUri THEN stack'[i - 1].scope
                                   ELSE stack'[i].tag.decl
      <3>1. PICK j \in 1..n : j = i - 1
        BY <2>1
      <3>2. i \in DOMAIN stack /\ j \in DOMAIN stack
        BY <1>1
      <3>3. stack[i].scope = IF stack[i].tag.decl = NoUri THEN stack[j].scope
                             ELSE stack[i].tag.decl
        BY <3>1, <3>2 DEF ScopesKnown, ScopeStep
      <3>4. stack'[i].scope = IF stack'[i].tag.decl = NoUri THEN stack'[j].scope
                              ELSE stack'[i].tag.decl
        BY <3>3 DEF Prefix
      <3> QED BY <3>1, <3>4
    <2>2. DOMAIN stack' = 1..n
      BY DEF Prefix
    <2> QED BY <2>1, <2>2 DEF ScopeStep
  <1>3. TypesMeanTheirScope'
    <2>1. SUFFICES ASSUME NEW i \in 1..n, stack'[i].tag.type,
                          TypeNamed[stack'[i].scope] # NoSchema,
                          \A o \in 1..(stack'[i].obj - 1) :
                            heap'[o].tag.decl # NoUri => \E j \in 1..i : stack'[j].obj = o
                   PROVE  stack'[i].schema = TypeNamed[stack'[i].scope]
      BY DEF TypesMeanTheirScope, Prefix
    <2>2. i \in DOMAIN stack
      BY <1>1
    <2>3. /\ stack'[i].tag = stack[i].tag /\ stack'[i].obj = stack[i].obj
          /\ stack'[i].schema = stack[i].schema /\ stack'[i].scope = stack[i].scope
      BY DEF Prefix
    <2>4. ASSUME NEW o \in 1..(stack[i].obj - 1), heap[o].tag.decl # NoUri
          PROVE  \E j \in 1..i : stack[j].obj = o
      <3>1. stack[i].obj \in DOMAIN heap
        BY <2>2 DEF Shaped, Nested
      <3>2. o \in DOMAIN heap
        <4>1. PICK m \in Nat : DOMAIN heap = 1..m
          BY LenProperties DEF Shaped, ParseTyped
        <4> QED BY <3>1, <4>1
      <3>3. heap'[o].tag.decl # NoUri
        BY <2>4, <3>2 DEF Prefix
      <3>4. PICK j \in 1..i : stack'[j].obj = o
        BY <2>1, <2>3, <3>3
      <3>5. j \in 1..n
        OBVIOUS
      <3> QED BY <3>4, <3>5 DEF Prefix
    <2> QED BY <2>1, <2>2, <2>3, <2>4 DEF TypesMeanTheirScope
  <1>4. ASSUME n = Len(stack)
        PROVE  XmlnsOfTop'
    <2>1. SUFFICES ASSUME n > 0, Open(n, heap', stack') PROVE xmlns' = stack'[n].scope
      BY DEF XmlnsOfTop, Cur, Prefix
    <2>2. Open(n, heap, stack)
      BY <2>1 DEF Open, Prefix
    <2>3. xmlns = stack[n].scope
      BY <1>4, <2>1, <2>2 DEF ScopesKnown, XmlnsOfTop, Cur
    <2>4. n \in 1..n
      BY <2>1
    <2> QED BY <2>3, <2>4 DEF Prefix
  <1> QED BY <1>2, <1>3, <1>4

\* ... after an end tag, when what the element declared is still known ...
LEMMA ClosedScopes ==
    ASSUME Shaped, ScopesKnown, TypesMeanTheirScope, ClosedNil \/ ClosedLost \/ ClosedInto
    PROVE  ScopesKnown' /\ TypesMeanTheirScope'
  <1>1. Popped /\ Len(stack) > 1 /\ xmlns' = xmlns
    BY DEF ClosedNil, ClosedLost, ClosedInto, Popped
  <1>2. DOMAIN heap' = DOMAIN heap /\ \A o \in DOMAIN heap : heap'[o].tag = heap[o].tag
    <2>1. CASE ClosedNil \/ ClosedLost
      BY <2>1 DEF ClosedNil, ClosedLost
    <2>2. CASE ClosedInto
      <3>1. PICK name, v, many, t : PutInto(heap, heap', t, name, v, many)
        BY <2>2, ClosedIs
      <3> QED BY <3>1 DEF PutInto, Changed
    <2> QED BY <2>1, <2>2
  <1>3. PICK n \in Nat, m \in Nat : /\ m = Len(stack) /\ DOMAIN stack = 1..m
                                    /\ m = n + 1 /\ n > 0 /\ Cur = stack[m]
    <2>1. PICK m \in Nat : m = Len(stack) /\ DOMAIN stack = 1..m /\ m > 1 /\ Cur = stack[m]
      BY <1>1, Ends DEF Cur
    <2>2. m - 1 \in Nat /\ m = (m - 1) + 1 /\ m - 1 > 0
      BY <2>1
    <2> QED BY <2>1, <2>2
  <1>4. Prefix(n)
    <2>1. n <= m /\ m - 1 = n
      BY <1>3
    <2>2. Len(stack') = n /\ DOMAIN stack' = 1..n /\ \A i \in 1..n : stack'[i] = stack[i]
      BY <1>1, <1>3, <2>1, PoppedIs
    <2> QED BY <1>1, <1>2, <1>3, <2>1, <2>2 DEF Prefix
  <1>5. ScopeStep' /\ TypesMeanTheirScope'
    BY <1>3, <1>4, PrefixScopes
  <1>6. XmlnsOfTop'
    <2>1. SUFFICES ASSUME Open(n, heap', stack') PROVE xmlns' = stack'[n].scope
      BY <1>4 DEF XmlnsOfTop, Cur, Prefix
    <2>2. n \in 1..n /\ m \in 1..m /\ n \in 1..m
      BY <1>3
    <2>3. \A j \in 1..n : stack[j].obj < stack[m].obj
      <3>1. \A j \in 1..n : j < m /\ j \in 1..m
        BY <1>3
      <3> QED BY <1>3, <2>2, <3>1 DEF Shaped, Nested
    <2>4. stack[m].obj \in DOMAIN heap /\ stack[m].tag = heap[stack[m].obj].tag
      BY <1>3, <2>2 DEF Shaped, Nested
    <2>5. stack[m].obj \in Nat
      BY <1>1, <1>3, <2>4, Ends
    <2>6. stack[m].tag.decl = NoUri
      <3>1. SUFFICES ASSUME heap'[stack[m].obj].tag.decl # NoUri PROVE FALSE
        BY <1>4, <2>4 DEF Prefix
      <3>2. stack[m].obj \in DOMAIN heap'
        BY <1>2, <2>4
      <3>3. PICK j \in 1..n : stack'[j].obj = stack[m].obj
        BY <2>1, <3>1, <3>2 DEF Open
      <3>4. stack[j].obj = stack[m].obj
        BY <1>4, <3>3 DEF Prefix
      <3>5. stack[j].obj < stack[m].obj
        BY <2>3
      <3> QED BY <2>5, <3>4, <3>5
    <2>7. stack[m].scope = stack[n].scope
      <3>1. m - 1 = n
        BY <1>3
      <3>2. stack[m].scope = IF stack[m].tag.decl = NoUri THEN stack[m - 1].scope
                             ELSE stack[m].tag.decl
        BY <1>3, <2>2, <3>1 DEF ScopesKnown, ScopeStep
      <3> QED BY <2>6, <3>1, <3>2
    <2>8. Open(m, heap, stack)
      <3>1. \A o \in DOMAIN heap : heap[o].tag.decl # NoUri => \E j \in 1..n : stack'[j].obj = o
        BY <2>1, <1>4 DEF Open, Prefix
      <3>2. \A j \in 1..n : j \in 1..m /\ stack'[j].obj = stack[j].obj
        BY <1>3, <1>4 DEF Prefix
      <3> QED BY <3>1, <3>2 DEF Open
    <2>9. xmlns = stack[m].scope
      <3>1. m > 0
        BY <1>3
      <3> QED BY <1>3, <2>8, <3>1 DEF ScopesKnown, XmlnsOfTop
    <2> QED BY <2>2, <2>7, <2>9, <1>4 DEF Prefix
  <1> QED BY <1>5, <1>6 DEF ScopesKnown

\* ... and after every step.
LEMMA ScopesNext ==
    ASSUME Shaped, ScopesKnown, TypesMeanTheirScope, [Next]_vars
    PROVE  ScopesKnown' /\ TypesMeanTheirScope'
  <1>1. Len(stack) \in Nat /\ DOMAIN stack = 1..Len(stack)
    <2>1. PICK S : stack \in Seq(FrameOf(S))
      BY DEF Shaped, ParseTyped
    <2> QED BY <2>1, LenProperties
  <1>2. ASSUME Prefix(Len(stack))
        PROVE  ScopesKnown' /\ TypesMeanTheirScope'
    <2>1. PICK n \in Nat : n = Len(stack)
      BY <1>1
    <2> QED BY <1>1, <1>2, <2>1, PrefixScopes DEF ScopesKnown
  <1>3. CASE Idle \/ Thrown
    <2>1. UNCHANGED <<heap, stack, xmlns>>
      BY <1>3 DEF Idle, Thrown
    <2>2. Prefix(Len(stack))
      BY <1>1, <2>1 DEF Prefix
    <2> QED BY <1>2, <2>2
  <1>4. CASE Begun /\ Bounds
    <2>1. /\ \A i \in 1..3 : /\ stack'[i].scope = OuterUri /\ stack'[i].tag.decl = NoUri
                             /\ ~stack'[i].tag.type
          /\ DOMAIN stack' = 1..3 /\ Len(stack') = 3 /\ xmlns' = OuterUri
      <3>1. \A name : Plain(name).decl = NoUri /\ ~Plain(name).type
        BY DEF Plain
      <3>2. \A t, o, s, c : Frame(t, o, s, c).tag = t /\ Frame(t, o, s, c).scope = c
        BY DEF Frame
      <3> QED BY <1>4, <3>1, <3>2 DEF Begun
    <2>2. ScopeStep'
      BY <2>1 DEF ScopeStep
    <2>3. XmlnsOfTop'
      BY <2>1 DEF XmlnsOfTop, Cur
    <2>4. TypesMeanTheirScope'
      BY <2>1 DEF TypesMeanTheirScope
    <2> QED BY <2>2, <2>3, <2>4 DEF ScopesKnown
  <1>5. ASSUME NEW tag \in Tag, NEW schema, Opened(tag, schema)
        PROVE  ScopesKnown' /\ TypesMeanTheirScope'
    BY <1>5, OpenedScopes
  <1>6. CASE ClosedNil \/ ClosedLost \/ ClosedInto
    BY <1>6, ClosedScopes
  <1>7. ASSUME NEW piece \in Pieces, TextRead(piece)
        PROVE  ScopesKnown' /\ TypesMeanTheirScope'
    <2>1. PICK o, p : Counted(heap, heap', o, p, piece)
      BY <1>7, TextReadIs
    <2>2. DOMAIN heap' = DOMAIN heap /\ \A x \in DOMAIN heap : heap'[x].tag = heap[x].tag
      BY <2>1 DEF Counted, Changed
    <2>3. Revalued(stack, stack', Len(stack), ReadText(Cur, piece)) \/ stack' = stack
      BY <1>7, TextReadIs
    <2>4. PICK S : stack' \in Seq(FrameOf(S))
      BY <1>7, TextReadIs
    <2>5. DOMAIN stack' = 1..Len(stack')
      BY <2>4, LenProperties
    <2>6. DOMAIN stack' = DOMAIN stack
      BY <2>3 DEF Revalued, Changed
    <2>7. Len(stack') = Len(stack)
      <3>1. PICK a \in Nat, b \in Nat : a = Len(stack') /\ b = Len(stack) /\ 1..a = 1..b
        BY <1>1, <2>4, <2>5, <2>6, LenProperties
      <3>2. a = b
        BY <3>1
      <3> QED BY <3>1, <3>2
    <2>8. \A i \in DOMAIN stack :
            /\ stack'[i].tag = stack[i].tag /\ stack'[i].obj = stack[i].obj
            /\ stack'[i].schema = stack[i].schema /\ stack'[i].scope = stack[i].scope
      BY <2>3 DEF Revalued, Changed
    <2>9. Prefix(Len(stack))
      BY <1>1, <1>7, <2>2, <2>6, <2>7, <2>8 DEF Prefix, TextRead
    <2> QED BY <1>2, <2>9
  <1>8. CASE Finished
    <2>1. UNCHANGED <<stack, xmlns>> /\ Kept(heap, heap')
      BY <1>8 DEF Finished
    <2>2. Prefix(Len(stack))
      BY <1>1, <2>1 DEF Prefix, Kept
    <2> QED BY <1>2, <2>2
  <1>9. CASE Spaced
    <2>1. Prefix(Len(stack))
      BY <1>1, <1>9 DEF Spaced, Blank, Prefix
    <2> QED BY <1>2, <2>1
  <1> QED BY <1>3, <1>4, <1>5, <1>6, <1>7, <1>8, <1>9, StepsAre

-----------------------------------------------------------------------------
(* Children. *)

\* Only asks no more of a set than what is in the list.
LEMMA OnlySame ==
    ASSUME NEW X, NEW s \in Seq(X), NEW S, NEW T, \A e \in ToSet(s) : e \in S <=> e \in T
    PROVE  Only(s, S) = Only(s, T)
  <1> DEFINE P == {l \in Seq(X) : (\A i \in 1..Len(l) : l[i] \in S <=> l[i] \in T)
                                     => Only(l, S) = Only(l, T)}
  <1>1. <<>> \in P
    BY OnlyNone, EmptySeq
  <1>2. ASSUME NEW l \in P, NEW e \in X
        PROVE  Append(l, e) \in P
    <2>1. PICK t : t = Append(l, e)
      OBVIOUS
    <2>2. /\ t \in Seq(X) /\ Len(t) = Len(l) + 1 /\ t[Len(l) + 1] = e
          /\ \A i \in 1..Len(l) : t[i] = l[i]
      BY <2>1, AppendProperties
    <2>3. Len(l) \in Nat
      BY LenProperties
    <2>4. SUFFICES ASSUME \A i \in 1..Len(t) : t[i] \in S <=> t[i] \in T
                   PROVE  Only(t, S) = Only(t, T)
      BY <2>1, <2>2
    <2>5. \A i \in 1..Len(l) : l[i] \in S <=> l[i] \in T
      BY <2>2, <2>3, <2>4
    <2>6. e \in S <=> e \in T
      BY <2>2, <2>3, <2>4
    <2>7. Only(l, S) = Only(l, T)
      BY <2>5
    <2>8. l \in Seq(X)
      OBVIOUS
    <2> HIDE DEF P
    <2>9. /\ Only(Append(l, e), S) = IF e \in S THEN Append(Only(l, S), e) ELSE Only(l, S)
          /\ Only(Append(l, e), T) = IF e \in T THEN Append(Only(l, T), e) ELSE Only(l, T)
      BY <2>8, OnlyAppend
    <2> QED BY <2>1, <2>6, <2>7, <2>9
  <1> HIDE DEF P
  <1>3. P = Seq(X)
    <2>1. P \in SUBSET Seq(X)
      BY DEF P
    <2> QED BY <1>1, <1>2, <2>1, SeqSet
  <1>4. \A i \in 1..Len(s) : s[i] \in S <=> s[i] \in T
    BY LenProperties DEF ToSet
  <1>5. s \in P
    BY <1>3
  <1> QED BY <1>4, <1>5 DEF P

\* Children, those of one name, and their values.
Kids == AllNames \X KidValues

KidsOnly(kids, name) == Only(kids, {k \in Kids : k[1] = name})

Seconds(s) == [i \in DOMAIN s |-> s[i][2]]

\* The values of children.
LEMMA SecondsType ==
    ASSUME NEW s \in Seq(Kids)
    PROVE  /\ Seconds(s) \in Seq(KidValues) /\ Len(Seconds(s)) = Len(s)
           /\ \A i \in 1..Len(s) : Seconds(s)[i] = s[i][2]
  <1>1. PICK n \in Nat : n = Len(s) /\ DOMAIN s = 1..n /\ s \in [1..n -> Kids]
    BY LenProperties
  <1>2. \A i \in 1..n : s[i][2] \in KidValues
    BY <1>1 DEF Kids
  <1>3. PICK t : t = [i \in 1..n |-> s[i][2]]
    OBVIOUS
  <1>4. t = Seconds(s) /\ t \in [1..n -> KidValues] /\ \A i \in 1..n : t[i] = s[i][2]
    BY <1>1, <1>2, <1>3 DEF Seconds
  <1>5. t \in Seq(KidValues)
    BY <1>4, SeqDef
  <1>6. Len(t) = n
    <2>1. Len(t) \in Nat /\ DOMAIN t = 1..Len(t) /\ DOMAIN t = 1..n
      BY <1>4, <1>5, LenProperties
    <2>2. PICK m \in Nat : m = Len(t) /\ 1..m = 1..n
      BY <2>1
    <2>3. m = n
      BY <2>2
    <2> QED BY <2>2, <2>3
  <1> QED BY <1>1, <1>4, <1>5, <1>6

\* The values of one child more.
LEMMA SecondsAppend ==
    ASSUME NEW s \in Seq(Kids), NEW name \in AllNames, NEW v \in KidValues
    PROVE  Seconds(Append(s, <<name, v>>)) = Append(Seconds(s), v)
  <1>1. PICK e : e = <<name, v>>
    OBVIOUS
  <1>2. e \in Kids /\ e[2] = v
    BY <1>1 DEF Kids
  <1>3. PICK t : t = Append(s, e)
    OBVIOUS
  <1>4. PICK n \in Nat : n = Len(s)
    BY LenProperties
  <1>5. /\ t \in Seq(Kids) /\ Len(t) = n + 1 /\ t[n + 1] = e
        /\ \A i \in 1..n : t[i] = s[i]
    BY <1>2, <1>3, <1>4, AppendProperties
  <1>6. PICK a, b, c : a = Seconds(t) /\ b = Seconds(s) /\ c = Append(b, v)
    OBVIOUS
  <1>7. /\ a \in Seq(KidValues) /\ Len(a) = n + 1
        /\ \A i \in 1..(n + 1) : a[i] = t[i][2]
    BY <1>5, <1>6, SecondsType
  <1>8. /\ b \in Seq(KidValues) /\ Len(b) = n
        /\ \A i \in 1..n : b[i] = s[i][2]
    BY <1>4, <1>6, SecondsType
  <1>9. /\ c \in Seq(KidValues) /\ Len(c) = n + 1
        /\ c[n + 1] = v /\ \A i \in 1..n : c[i] = b[i]
    BY <1>6, <1>8, AppendProperties
  <1>10. \A i \in 1..(n + 1) : a[i] = c[i]
    <2>1. ASSUME NEW i \in 1..(n + 1) PROVE a[i] = c[i]
      <3>1. CASE i = n + 1
        BY <1>2, <1>5, <1>7, <1>9, <3>1
      <3>2. CASE i # n + 1
        <4>1. i \in 1..n
          BY <3>2
        <4>2. t[i] = s[i] /\ a[i] = t[i][2]
          BY <1>5, <1>7, <4>1
        <4>3. c[i] = b[i] /\ b[i] = s[i][2]
          BY <1>8, <1>9, <4>1
        <4> QED BY <4>2, <4>3
      <3> QED BY <3>1, <3>2
    <2> QED BY <2>1
  <1>11. a = c
    BY <1>7, <1>9, <1>10, SeqEqual
  <1> QED BY <1>1, <1>11, <1>3, <1>6

\* after is before, with v at the end if it has the name that is asked for.
Adds(before, after, name, asked, v) ==
    after = IF name = asked THEN Append(before, v) ELSE before

\* What the children are, when one was added.
LEMMA KidsAdded ==
    ASSUME NEW kids \in Seq(Kids), NEW name \in AllNames, NEW v \in KidValues, NEW other
    PROVE  Adds(Seconds(KidsOnly(kids, other)),
                Seconds(KidsOnly(Append(kids, <<name, v>>), other)), name, other, v)
  <1>1. PICK e : e = <<name, v>>
    OBVIOUS
  <1>2. e \in Kids /\ e[1] = name
    BY <1>1 DEF Kids
  <1>3. PICK S : S = {k \in Kids : k[1] = other}
    OBVIOUS
  <1>4. Only(Append(kids, e), S) = IF e \in S THEN Append(Only(kids, S), e) ELSE Only(kids, S)
    BY <1>2, OnlyAppend
  <1>5. e \in S <=> name = other
    BY <1>2, <1>3
  <1>6. Only(kids, S) \in Seq(Kids)
    BY OnlyType
  <1>7. Seconds(Append(Only(kids, S), e)) = Append(Seconds(Only(kids, S)), v)
    BY <1>1, <1>6, SecondsAppend
  <1> QED BY <1>1, <1>3, <1>4, <1>5, <1>7 DEF KidsOnly, Adds

\* The items a property holds, and those that children left.
ItemsOf(p, name) ==
    IF name \notin DOMAIN p THEN <<>>
    ELSE IF p[name].kind = "array" THEN p[name].items ELSE <<p[name]>>

Told == {v \in Items : v.kind # "attributes"}

\* What a property holds is a list of items.
LEMMA ItemsType ==
    ASSUME NEW p \in Properties, NEW name
    PROVE  ItemsOf(p, name) \in Seq(Items)
  <1>1. CASE name \notin DOMAIN p
    BY <1>1, EmptySeq DEF ItemsOf
  <1>2. CASE name \in DOMAIN p
    <2>1. p[name] \in Values
      BY <1>2, PropertiesHave
    <2>2. CASE p[name].kind = "array"
      <3>1. p[name] \in [kind : {"array"}, items : Seq(Items)]
        BY <2>1, <2>2 DEF Values, Items, KidValues, Texts, Null, Number, Date
      <3> QED BY <1>2, <2>2, <3>1 DEF ItemsOf
    <2>3. CASE p[name].kind # "array"
      <3>1. p[name] \in Items
        BY <2>1, <2>3 DEF Values
      <3>2. <<p[name]>> \in Seq(Items)
        BY <3>1
      <3> QED BY <1>2, <2>3, <3>2 DEF ItemsOf
    <2> QED BY <2>2, <2>3
  <1> QED BY <1>1, <1>2

\* What a child leaves is no array and no attributes.
LEMMA KidsAreTold ==
    ASSUME NEW v \in KidValues
    PROVE  v \in Told /\ v \in Items /\ v.kind # "array"
  BY DEF Told, Items, KidValues, Texts, Null, Number, Date

\* A list of two.
LEMMA PairIs ==
    ASSUME NEW x, NEW y
    PROVE  Append(<<x>>, y) = <<x, y>>
  <1>1. PICK X : X = {x, y}
    OBVIOUS
  <1>2. PICK s, t, u : s = <<x>> /\ t = <<x, y>> /\ u = Append(s, y)
    OBVIOUS
  <1>3. s \in Seq(X) /\ t \in Seq(X) /\ Len(s) = 1 /\ Len(t) = 2 /\ s[1] = x
        /\ t[1] = x /\ t[2] = y
    BY <1>1, <1>2
  <1>4. u \in Seq(X) /\ Len(u) = Len(s) + 1 /\ (\A i \in 1..Len(s) : u[i] = s[i])
        /\ u[Len(s) + 1] = y
    BY <1>1, <1>2, <1>3, AppendProperties
  <1>5. \A i \in 1..2 : u[i] = t[i]
    <2>1. u[1] = x /\ u[2] = y
      BY <1>3, <1>4
    <2> QED BY <1>3, <2>1
  <1>6. u = t
    BY <1>3, <1>4, <1>5, SeqEqual
  <1> QED BY <1>2, <1>6

\* Put adds the value to those of its name.
LEMMA PutAdds ==
    ASSUME NEW p \in Properties, NEW name \in AllNames, NEW v \in KidValues, NEW many, NEW other
    PROVE  Adds(ItemsOf(p, other), ItemsOf(Put(p, name, v, many), other), name, other, v)
  <1>1. PICK q : q = Put(p, name, v, many)
    OBVIOUS
  <1>2. DOMAIN p \in SUBSET Keys /\ p \in [DOMAIN p -> Values]
    BY PropertiesHave
  <1>3. v.kind # "array"
    BY KidsAreTold
  <1>4. CASE name # other
    <2>1. (other \in DOMAIN q <=> other \in DOMAIN p) /\ (other \in DOMAIN p => q[other] = p[other])
      BY <1>1, <1>2, <1>4 DEF Put, Entered
    <2> QED BY <1>1, <1>4, <2>1 DEF ItemsOf, Adds
  <1>5. CASE name = other /\ name \notin DOMAIN p
    <2>1. name \in DOMAIN q /\ q[name] = IF many THEN Array(<<v>>) ELSE v
      BY <1>1, <1>5 DEF Put, Entered
    <2>2. Array(<<v>>).kind = "array" /\ Array(<<v>>).items = <<v>>
      BY DEF Array
    <2>3. ItemsOf(q, name) = <<v>>
      BY <1>3, <2>1, <2>2 DEF ItemsOf
    <2>4. ItemsOf(p, name) = <<>> /\ Append(<<>>, v) = <<v>>
      BY <1>5 DEF ItemsOf
    <2> QED BY <1>1, <1>5, <2>3, <2>4 DEF Adds
  <1>6. CASE name = other /\ name \in DOMAIN p /\ p[name].kind = "array"
    <2>1. PICK r : r = [p[name] EXCEPT !.items = Append(@, v)]
      OBVIOUS
    <2>2. p[name] \in Values
      BY <1>2, <1>6
    <2>3. p[name] \in [kind : {"array"}, items : Seq(Items)]
      BY <1>6, <2>2 DEF Values, Items, KidValues, Texts, Null, Number, Date
    <2>4. r.kind = "array" /\ r.items = Append(p[name].items, v)
      BY <2>1, <2>3
    <2>5. q = [p EXCEPT ![name] = r]
      BY <1>1, <1>6, <2>1 DEF Put
    <2>6. name \in DOMAIN q /\ q[name] = r
      BY <1>2, <1>6, <2>5
    <2>7. ItemsOf(q, name) = Append(p[name].items, v)
      BY <2>4, <2>6 DEF ItemsOf
    <2>8. ItemsOf(p, name) = p[name].items
      BY <1>6 DEF ItemsOf
    <2> QED BY <1>1, <1>6, <2>7, <2>8 DEF Adds
  <1>7. CASE name = other /\ name \in DOMAIN p /\ p[name].kind # "array"
    <2>1. PICK x : x = p[name]
      OBVIOUS
    <2>2. q = [p EXCEPT ![name] = Array(<<x, v>>)]
      BY <1>1, <1>7, <2>1 DEF Put
    <2>3. name \in DOMAIN q /\ q[name] = Array(<<x, v>>)
      BY <1>2, <1>7, <2>2
    <2>4. Array(<<x, v>>).kind = "array" /\ Array(<<x, v>>).items = <<x, v>>
      BY DEF Array
    <2>5. ItemsOf(q, name) = <<x, v>>
      BY <2>3, <2>4 DEF ItemsOf
    <2>6. ItemsOf(p, name) = <<x>>
      BY <1>7, <2>1 DEF ItemsOf
    <2>7. Append(<<x>>, v) = <<x, v>>
      BY PairIs
    <2> QED BY <1>1, <1>7, <2>5, <2>6, <2>7 DEF Adds
  <1> QED BY <1>4, <1>5, <1>6, <1>7

-----------------------------------------------------------------------------
(* References. *)

\* There is one reference for every id.
UniqueIds(rs) ==
    /\ \A i, j \in DOMAIN rs : rs[i].id = rs[j].id => i = j
    /\ \A i \in DOMAIN rs : rs[i].id # NoId

\* There is one to this id.
HasId(rs, id) == \E i \in DOMAIN rs : rs[i].id = id

\* The object o is among the hrefs of id.
HrefOf(rs, id, o) == \E i \in DOMAIN rs : rs[i].id = id /\ o \in ToSet(rs[i].hrefs)

\* The element with this id has ended, as the object o.
ObjOf(rs, id, o) == \E i \in DOMAIN rs : rs[i].id = id /\ rs[i].obj = o

\* us are the references rs, and those in ids.
MoreIds(rs, us, ids) ==
    /\ UniqueIds(us)
    /\ \A x, o : HrefOf(us, x, o) <=> HrefOf(rs, x, o)
    /\ \A x : HasId(us, x) <=> HasId(rs, x) \/ x \in ids \ {NoId}
    /\ \A x, o : ObjOf(rs, x, o) => ObjOf(us, x, o)

\* us are the references rs, with the href o of id, unless that is none.
MoreHrefs(rs, us, id, o) ==
    /\ UniqueIds(us)
    /\ \A x, q : HrefOf(us, x, q) <=> HrefOf(rs, x, q) \/ (x = id /\ id # NoId /\ q = o)
    /\ \A x : HasId(us, x) <=> HasId(rs, x)
    /\ \A x, q : ObjOf(rs, x, q) => ObjOf(us, x, q)

\* Noting an id keeps what is known of the others.
LEMMA NotedKeeps ==
    ASSUME NEW rs \in Seq(RefEntry), NEW id \in Ids, UniqueIds(rs)
    PROVE  Noted(rs, id) \in Seq(RefEntry) /\ MoreIds(rs, Noted(rs, id), {id})
  <1>1. PICK us : us = Noted(rs, id)
    OBVIOUS
  <1>2. us \in Seq(RefEntry) /\ Len(rs) <= Len(us) /\ \A i \in DOMAIN rs : us[i] = rs[i]
    BY <1>1, NotedIs
  <1>3. \A i \in DOMAIN us : i \in DOMAIN rs
            \/ /\ us[i] = [id |-> id, hrefs |-> <<>>, obj |-> 0]
               /\ id # NoId /\ (\A j \in DOMAIN rs : rs[j].id # id)
               /\ i = Len(rs) + 1
    BY <1>1, NotedIs
  <1>4. id = NoId \/ \E i \in DOMAIN us : us[i].id = id
    BY <1>1, NotedIs
  <1>5. DOMAIN rs \subseteq DOMAIN us
    <2>1. PICK m \in Nat, n \in Nat : m = Len(rs) /\ n = Len(us) /\ m <= n
                                      /\ DOMAIN rs = 1..m /\ DOMAIN us = 1..n
      BY <1>2, LenProperties
    <2> QED BY <2>1
  <1>6. ASSUME NEW i \in DOMAIN us, i \notin DOMAIN rs
        PROVE  /\ us[i].id = id /\ ToSet(us[i].hrefs) = {} /\ id # NoId
               /\ (\A j \in DOMAIN rs : rs[j].id # id) /\ i = Len(rs) + 1
    <2>1. PICK e : e = us[i] /\ e = [id |-> id, hrefs |-> <<>>, obj |-> 0]
      BY <1>3, <1>6
    <2>2. e.id = id /\ e.hrefs = <<>>
      BY <2>1
    <2>3. ToSet(e.hrefs) = {}
      BY <2>2, EmptySeq DEF ToSet
    <2> QED BY <1>3, <1>6, <2>1, <2>2, <2>3
  <1>7. UniqueIds(us)
    <2>1. ASSUME NEW i \in DOMAIN us, NEW j \in DOMAIN us, us[i].id = us[j].id
          PROVE  i = j
      <3>1. CASE i \in DOMAIN rs /\ j \in DOMAIN rs
        BY <1>2, <2>1, <3>1 DEF UniqueIds
      <3>2. CASE i \in DOMAIN rs /\ j \notin DOMAIN rs
        BY <1>2, <1>6, <2>1, <3>2
      <3>3. CASE i \notin DOMAIN rs /\ j \in DOMAIN rs
        BY <1>2, <1>6, <2>1, <3>3
      <3>4. CASE i \notin DOMAIN rs /\ j \notin DOMAIN rs
        BY <1>6, <3>4
      <3> QED BY <3>1, <3>2, <3>3, <3>4
    <2>2. ASSUME NEW i \in DOMAIN us PROVE us[i].id # NoId
      BY <1>2, <1>6 DEF UniqueIds
    <2> QED BY <2>1, <2>2 DEF UniqueIds
  <1>8. ASSUME NEW x, NEW o PROVE HrefOf(us, x, o) <=> HrefOf(rs, x, o)
    BY <1>2, <1>5, <1>6 DEF HrefOf
  <1>9. ASSUME NEW x PROVE HasId(us, x) <=> HasId(rs, x) \/ (x = id /\ id # NoId)
    BY <1>2, <1>4, <1>5, <1>6 DEF HasId
  <1>10. ASSUME NEW x, NEW o, ObjOf(rs, x, o) PROVE ObjOf(us, x, o)
    BY <1>2, <1>5, <1>10 DEF ObjOf
  <1> QED BY <1>1, <1>2, <1>7, <1>8, <1>9, <1>10 DEF MoreIds

\* With another href at e.
Hrefed(rs, us, e, o) ==
    /\ Changed(rs, us, e)
    /\ us[e].id = rs[e].id /\ us[e].obj = rs[e].obj /\ us[e].hrefs = Append(rs[e].hrefs, o)

\* So does another href of an id ...
LEMMA HrefedKeeps ==
    ASSUME NEW rs \in Seq(RefEntry), NEW us, NEW e \in DOMAIN rs, NEW o \in Nat,
           Hrefed(rs, us, e, o), UniqueIds(rs), NEW id, id = rs[e].id
    PROVE  MoreHrefs(rs, us, id, o)
  <1>1. DOMAIN us = DOMAIN rs /\ \A i \in DOMAIN rs : us[i].id = rs[i].id /\ us[i].obj = rs[i].obj
    BY DEF Hrefed, Changed
  <1>2. ToSet(us[e].hrefs) = ToSet(rs[e].hrefs) \cup {o}
    <2>1. PICK s, t : s = rs[e].hrefs /\ t = us[e].hrefs /\ t = Append(s, o)
      BY DEF Hrefed
    <2>2. s \in Seq(Nat)
      <3>1. rs[e] \in RefEntry
        OBVIOUS
      <3> QED BY <2>1, <3>1 DEF RefEntry
    <2>3. PICK n \in Nat : n = Len(s) /\ DOMAIN s = 1..n
      BY <2>2, LenProperties
    <2>4. t \in Seq(Nat) /\ Len(t) = n + 1 /\ t[n + 1] = o /\ \A i \in 1..n : t[i] = s[i]
      BY <2>1, <2>2, <2>3, AppendProperties
    <2>5. DOMAIN t = 1..(n + 1)
      BY <2>4
    <2>6. \A i \in 1..(n + 1) : i \in 1..n \/ i = n + 1
      OBVIOUS
    <2>7. ASSUME NEW q PROVE q \in ToSet(t) <=> q \in ToSet(s) \cup {o}
      BY <2>3, <2>4, <2>5, <2>6 DEF ToSet
    <2> QED BY <2>1, <2>7
  <1>3. \A i \in DOMAIN rs : i # e => us[i].hrefs = rs[i].hrefs
    BY DEF Hrefed, Changed
  <1>4. ASSUME NEW x, NEW q
        PROVE  HrefOf(us, x, q) <=> HrefOf(rs, x, q) \/ (x = rs[e].id /\ q = o)
    <2>1. ASSUME HrefOf(us, x, q) PROVE HrefOf(rs, x, q) \/ (x = rs[e].id /\ q = o)
      <3>1. PICK i \in DOMAIN rs : us[i].id = x /\ q \in ToSet(us[i].hrefs)
        BY <1>1, <2>1 DEF HrefOf
      <3>2. CASE i = e
        BY <1>1, <1>2, <3>1, <3>2 DEF HrefOf
      <3>3. CASE i # e
        BY <1>1, <1>3, <3>1, <3>3 DEF HrefOf
      <3> QED BY <3>2, <3>3
    <2>2. ASSUME HrefOf(rs, x, q) PROVE HrefOf(us, x, q)
      <3>1. PICK i \in DOMAIN rs : rs[i].id = x /\ q \in ToSet(rs[i].hrefs)
        BY <2>2 DEF HrefOf
      <3>2. q \in ToSet(us[i].hrefs)
        BY <1>2, <1>3, <3>1
      <3> QED BY <1>1, <3>1, <3>2 DEF HrefOf
    <2>3. ASSUME x = rs[e].id, q = o PROVE HrefOf(us, x, q)
      BY <1>1, <1>2, <2>3 DEF HrefOf
    <2> QED BY <2>1, <2>2, <2>3
  <1>5. UniqueIds(us) /\ id # NoId
    BY <1>1 DEF UniqueIds
  <1>6. (\A x : HasId(us, x) <=> HasId(rs, x)) /\ \A x, q : ObjOf(rs, x, q) => ObjOf(us, x, q)
    BY <1>1 DEF HasId, ObjOf
  <1> QED BY <1>4, <1>5, <1>6 DEF MoreHrefs

\* us are the references rs after the start tag of the object o.
Started(rs, us, tag, o) ==
    /\ UniqueIds(us)
    /\ \A x, q : HrefOf(us, x, q) <=>
         HrefOf(rs, x, q) \/ (x = tag.href /\ tag.href # NoId /\ q = o)
    /\ \A x : HasId(us, x) <=> HasId(rs, x) \/ x \in {tag.id, tag.href} \ {NoId}
    /\ \A x, q : ObjOf(rs, x, q) => ObjOf(us, x, q)

\* ... the start tag that has it ...
LEMMA NoteRefsKeeps ==
    ASSUME NEW tag \in AnyTag, NEW o \in Nat, refs \in Seq(RefEntry), UniqueIds(refs), NEW rs,
           rs = NoteRefs(tag, o)
    PROVE  Started(refs, rs, tag, o)
  <1>1. tag.href \in Ids /\ tag.id \in Ids
    BY DEF AnyTag
  <1>2. PICK vs \in Seq(RefEntry), us \in Seq(RefEntry) :
              /\ vs = Noted(refs, tag.href) /\ NoteRefs(tag, o) = Noted(us, tag.id)
              /\ IF tag.href = NoId THEN us = vs
                 ELSE \E e \in DOMAIN vs : vs[e].id = tag.href /\ Hrefed(vs, us, e, o)
    BY NoteRefsIs DEF Hrefed
  <1>3. MoreIds(refs, vs, {tag.href})
    BY <1>1, <1>2, NotedKeeps
  <1>4. MoreHrefs(vs, us, tag.href, o)
    <2>1. UniqueIds(vs)
      BY <1>3 DEF MoreIds
    <2>2. CASE tag.href = NoId
      <3>1. us = vs
        BY <1>2, <2>2
      <3> QED BY <2>1, <2>2, <3>1 DEF MoreHrefs
    <2>3. CASE tag.href # NoId
      <3>1. PICK e \in DOMAIN vs : vs[e].id = tag.href /\ Hrefed(vs, us, e, o)
        BY <1>2, <2>3
      <3>2. PICK id : id = tag.href /\ id = vs[e].id
        BY <3>1
      <3>3. MoreHrefs(vs, us, id, o)
        BY <2>1, <3>1, <3>2, HrefedKeeps
      <3> QED BY <3>2, <3>3
    <2> QED BY <2>2, <2>3
  <1>5. MoreIds(us, rs, {tag.id})
    <2>1. UniqueIds(us)
      BY <1>4 DEF MoreHrefs
    <2>2. PICK id \in Ids : id = tag.id
      BY <1>1
    <2>3. MoreIds(us, Noted(us, id), {id})
      BY <2>1, NotedKeeps
    <2> QED BY <1>2, <2>2, <2>3
  <1> QED BY <1>3, <1>4, <1>5 DEF MoreIds, MoreHrefs, Started

\* us are the references rs after the end tag of the element with the id, as the object o.
Ended(rs, us, id, o) ==
    /\ UniqueIds(us)
    /\ \A x, q : HrefOf(us, x, q) <=> HrefOf(rs, x, q)
    /\ \A x : HasId(us, x) <=> HasId(rs, x)
    /\ id # NoId /\ HasId(rs, id) => ObjOf(us, id, o)
    /\ \A x, q : x # id /\ ObjOf(rs, x, q) => ObjOf(us, x, q)

\* ... and the end tag of the element with the id.
LEMMA SettledKeeps ==
    ASSUME NEW rs, NEW us, NEW id, NEW o, Settled(rs, us, id, o), UniqueIds(rs)
    PROVE  Ended(rs, us, id, o)
  <1>1. CASE \E i \in DOMAIN rs : rs[i].id = id /\ id # NoId
    <2>1. PICK e \in DOMAIN rs : rs[e].id = id /\ Registered(rs, us, e, o)
      BY <1>1 DEF Settled
    <2>2. /\ DOMAIN us = DOMAIN rs /\ us[e].obj = o
          /\ \A i \in DOMAIN rs : us[i].id = rs[i].id /\ us[i].hrefs = rs[i].hrefs
          /\ \A i \in DOMAIN rs : i # e => us[i].obj = rs[i].obj
      BY <2>1 DEF Registered, Changed
    <2>3. UniqueIds(us)
      BY <2>2 DEF UniqueIds
    <2>4. \A x, q : HrefOf(us, x, q) <=> HrefOf(rs, x, q)
      BY <2>2 DEF HrefOf
    <2>5. \A x : HasId(us, x) <=> HasId(rs, x)
      BY <2>2 DEF HasId
    <2>6. ObjOf(us, id, o)
      BY <2>1, <2>2 DEF ObjOf
    <2>7. \A x, q : x # id /\ ObjOf(rs, x, q) => ObjOf(us, x, q)
      BY <2>1, <2>2 DEF ObjOf
    <2> QED BY <2>3, <2>4, <2>5, <2>6, <2>7 DEF Ended
  <1>2. CASE ~\E i \in DOMAIN rs : rs[i].id = id /\ id # NoId
    <2>1. us = rs
      BY <1>2 DEF Settled
    <2>2. ~(id # NoId /\ HasId(rs, id))
      BY <1>2 DEF HasId
    <2> QED BY <2>1, <2>2 DEF Ended
  <1> QED BY <1>1, <1>2

\* The references rs are those of the objects h.
Known(rs, h) ==
    /\ UniqueIds(rs)
    /\ \A i \in DOMAIN rs : \A o \in ToSet(rs[i].hrefs) :
          o \in DOMAIN h /\ h[o].tag.href = rs[i].id
    /\ \A o \in DOMAIN h : /\ h[o].tag.href # NoId => HrefOf(rs, h[o].tag.href, o)
                           /\ h[o].tag.id # NoId => HasId(rs, h[o].tag.id)
    /\ \A o, q \in DOMAIN h : o # q => h[o].tag.id = NoId \/ h[o].tag.id # h[q].tag.id

RefsKnown == Known(refs, heap)

\* What is an href refers to the id.
LEMMA KnownHrefs ==
    ASSUME RefsKnown, NEW x, NEW o, HrefOf(refs, x, o)
    PROVE  o \in DOMAIN heap /\ heap[o].tag.href = x
  <1>1. PICK i \in DOMAIN refs : refs[i].id = x /\ o \in ToSet(refs[i].hrefs)
    BY DEF HrefOf
  <1> QED BY <1>1 DEF RefsKnown, Known

\* There is nothing to refer to at the start.
LEMMA RefsKnownInit ==
    ASSUME Init
    PROVE  RefsKnown
  <1>1. heap = <<>> /\ refs = <<>>
    BY DEF Init
  <1> QED BY <1>1 DEF RefsKnown, Known, UniqueIds

\* Nothing changes in the references but the objects, and nothing in the tags.
LEMMA SameRefs ==
    ASSUME RefsKnown, DOMAIN heap' = DOMAIN heap, \A o \in DOMAIN heap : heap'[o].tag = heap[o].tag,
           UniqueIds(refs'), \A x, q : HrefOf(refs', x, q) <=> HrefOf(refs, x, q),
           \A x : HasId(refs', x) <=> HasId(refs, x)
    PROVE  RefsKnown'
  <1>1. \A x, o : HrefOf(refs, x, o) => o \in DOMAIN heap /\ heap[o].tag.href = x
    BY KnownHrefs
  <1>2. \A x, o : HrefOf(refs', x, o) => o \in DOMAIN heap' /\ heap'[o].tag.href = x
    BY <1>1
  <1>3. \A i \in DOMAIN refs' : \A o \in ToSet(refs'[i].hrefs) :
          o \in DOMAIN heap' /\ heap'[o].tag.href = refs'[i].id
    BY <1>2 DEF HrefOf
  <1>4. \A o \in DOMAIN heap' :
           /\ heap'[o].tag.href # NoId => HrefOf(refs', heap'[o].tag.href, o)
           /\ heap'[o].tag.id # NoId => HasId(refs', heap'[o].tag.id)
    BY DEF RefsKnown, Known
  <1>5. \A o, q \in DOMAIN heap' :
          o # q => heap'[o].tag.id = NoId \/ heap'[o].tag.id # heap'[q].tag.id
    BY DEF RefsKnown, Known
  <1>6. Known(refs', heap')
    BY <1>3, <1>4, <1>5 DEF Known
  <1> QED BY <1>6 DEF RefsKnown

\* A start tag notes what it refers to, and what may refer to it.
LEMMA OpenedRefs ==
    ASSUME Shaped, RefsKnown, NEW tag \in Tag, NEW schema, Opened(tag, schema)
    PROVE  RefsKnown' /\ Started(refs, refs', tag, Len(heap) + 1)
  <1>1. tag \in AnyTag /\ Len(stack) > 1
    BY TagsAre DEF Opened
  <1>2. PICK n \in Nat : n = Len(heap) /\ DOMAIN heap = 1..n
    BY <1>1, Ends
  <1>3. /\ DOMAIN heap' = 1..(n + 1) /\ \A o \in 1..n : heap'[o] = heap[o]
        /\ heap'[n + 1] = NewObject(tag)
    BY <1>1, <1>2, OpenedIs
  <1>4. heap'[n + 1].tag = tag
    BY <1>3, NewIs
  <1>5. PICK rs : rs = refs' /\ rs = NoteRefs(tag, n + 1)
    BY <1>2 DEF Opened
  <1>6. Started(refs, rs, tag, n + 1)
    <2>1. refs \in Seq(RefEntry) /\ UniqueIds(refs) /\ n + 1 \in Nat
      BY DEF Shaped, ParseTyped, RefsKnown, Known
    <2> QED BY <1>1, <1>5, <2>1, NoteRefsKeeps
  <1>7. \A x, o : HrefOf(refs, x, o) => o \in 1..n /\ heap[o].tag.href = x
    BY <1>2, KnownHrefs
  <1>8. ASSUME NEW x, NEW o, HrefOf(rs, x, o)
        PROVE  o \in DOMAIN heap' /\ heap'[o].tag.href = x
    <2>1. CASE HrefOf(refs, x, o)
      <3>1. o \in 1..n /\ heap[o].tag.href = x
        BY <1>7, <2>1
      <3>2. o \in 1..(n + 1)
        BY <3>1
      <3> QED BY <1>3, <3>1, <3>2
    <2>2. CASE x = tag.href /\ o = n + 1
      BY <1>3, <1>4, <2>2
    <2> QED BY <1>6, <1>8, <2>1, <2>2 DEF Started
  <1>9. ASSUME NEW o \in 1..(n + 1)
        PROVE  /\ heap'[o].tag.href # NoId => HrefOf(rs, heap'[o].tag.href, o)
               /\ heap'[o].tag.id # NoId => HasId(rs, heap'[o].tag.id)
    <2>1. CASE o \in 1..n
      <3>1. /\ heap[o].tag.href # NoId => HrefOf(refs, heap[o].tag.href, o)
            /\ heap[o].tag.id # NoId => HasId(refs, heap[o].tag.id)
        BY <1>2, <2>1 DEF RefsKnown, Known
      <3> QED BY <1>3, <1>6, <2>1, <3>1 DEF Started
    <2>2. CASE o = n + 1
      BY <1>4, <1>6, <2>2 DEF Started
    <2> QED BY <2>1, <2>2
  <1>10. ASSUME NEW o \in 1..(n + 1), NEW q \in 1..(n + 1), o # q
         PROVE  heap'[o].tag.id = NoId \/ heap'[o].tag.id # heap'[q].tag.id
    <2>1. tag.id = NoId \/ \A x \in 1..n : heap[x].tag.id # tag.id
      BY <1>2 DEF Opened
    <2>2. CASE o \in 1..n /\ q \in 1..n
      BY <1>2, <1>3, <1>10, <2>2 DEF RefsKnown, Known
    <2>3. CASE o \in 1..n /\ q = n + 1
      BY <1>3, <1>4, <2>1, <2>3
    <2>4. CASE o = n + 1 /\ q \in 1..n
      BY <1>3, <1>4, <2>1, <2>4
    <2> QED BY <1>10, <2>2, <2>3, <2>4
  <1>11. Known(rs, heap')
    <2>1. \A i \in DOMAIN rs : \A o \in ToSet(rs[i].hrefs) :
            o \in DOMAIN heap' /\ heap'[o].tag.href = rs[i].id
      BY <1>8 DEF HrefOf
    <2> QED BY <1>3, <1>6, <1>9, <1>10, <2>1 DEF Known, Started
  <1> QED BY <1>2, <1>5, <1>6, <1>11 DEF RefsKnown

\* The references are known after every step.
LEMMA RefsKnownNext ==
    ASSUME Shaped, RefsKnown, [Next]_vars
    PROVE  RefsKnown'
  <1>1. CASE Idle
    BY <1>1 DEF Idle, RefsKnown, Known, UniqueIds, HrefOf, HasId
  <1>2. CASE Thrown
    BY <1>2 DEF Thrown, RefsKnown, Known, UniqueIds, HrefOf, HasId
  <1>3. CASE Begun /\ Bounds
    <2>1. \A i \in 1..3 : heap'[i].tag.id = NoId /\ heap'[i].tag.href = NoId
      <3>1. \A name : Plain(name).id = NoId /\ Plain(name).href = NoId
        BY DEF Plain
      <3> QED BY <1>3, <3>1, NewIs DEF Begun
    <2>2. refs' = <<>> /\ DOMAIN heap' = 1..3
      BY <1>3 DEF Begun
    <2>3. Known(refs', heap')
      BY <2>1, <2>2 DEF Known, UniqueIds
    <2> QED BY <2>3 DEF RefsKnown
  <1>4. ASSUME NEW tag \in Tag, NEW schema, Opened(tag, schema)
        PROVE  RefsKnown'
    BY <1>4, OpenedRefs
  <1>5. CASE ClosedNil
    BY <1>5 DEF ClosedNil, RefsKnown, Known, UniqueIds, HrefOf, HasId
  <1>6. CASE ClosedInto
    <2>1. PICK name, v, many, t : PutInto(heap, heap', t, name, v, many)
      BY <1>6, ClosedIs
    <2>2. DOMAIN heap' = DOMAIN heap /\ \A o \in DOMAIN heap : heap'[o].tag = heap[o].tag
      BY <2>1 DEF PutInto, Changed
    <2>3. PICK id, q : Settled(refs, refs', id, q)
      BY <1>6, SettlingIs DEF ClosedInto, Popped
    <2>4. Ended(refs, refs', id, q)
      BY <2>3, SettledKeeps DEF RefsKnown, Known
    <2> QED BY <2>2, <2>4, SameRefs DEF Ended
  <1>9. CASE ClosedLost
    <2>1. PICK id, q : Settled(refs, refs', id, q)
      BY <1>9, SettlingIs DEF ClosedLost, Popped
    <2>2. Ended(refs, refs', id, q)
      BY <2>1, SettledKeeps DEF RefsKnown, Known
    <2>3. heap' = heap
      BY <1>9 DEF ClosedLost
    <2> QED BY <2>2, <2>3, SameRefs DEF Ended
  <1>10. CASE Spaced
    <2>1. DOMAIN heap' = DOMAIN heap /\ \A x \in DOMAIN heap : heap'[x].tag = heap[x].tag
      BY <1>10 DEF Spaced, Blank
    <2>2. refs' = refs
      BY <1>10 DEF Spaced
    <2> QED BY <2>1, <2>2, SameRefs DEF RefsKnown, Known
  <1>7. ASSUME NEW piece \in Pieces, TextRead(piece)
        PROVE  RefsKnown'
    <2>1. PICK o, p : Counted(heap, heap', o, p, piece)
      BY <1>7, TextReadIs
    <2>2. DOMAIN heap' = DOMAIN heap /\ \A x \in DOMAIN heap : heap'[x].tag = heap[x].tag
      BY <2>1 DEF Counted, Changed
    <2>3. refs' = refs
      BY <1>7 DEF TextRead
    <2> QED BY <2>2, <2>3, SameRefs DEF RefsKnown, Known
  <1>8. CASE Finished
    <2>1. refs' = refs /\ Kept(heap, heap')
      BY <1>8 DEF Finished
    <2> QED BY <2>1, SameRefs DEF RefsKnown, Known, Kept
  <1> QED BY <1>1, <1>2, <1>3, <1>4, <1>5, <1>6, <1>7, <1>8, <1>9, <1>10, StepsAre

\* None of the references points to o.
Untouched(order, n, o) == \A k \in 1..n : o \notin ToSet(order[k].hrefs)

\* What no reference points to is the same all along.
LEMMA SweepKeeps ==
    ASSUME NEW D, NEW h, NEW g, NEW order, NEW n \in Nat, NEW p, Swept(p, D, h, g, order, n),
           NEW o \in D, Untouched(order, n, o)
    PROVE  \A k \in 0..n : p[k][o] = h[o]
  <1> DEFINE Z == {k \in Nat : k <= n => p[k][o] = h[o]}
  <1>1. 0 \in Z
    BY DEF Swept
  <1>2. ASSUME NEW k \in Z PROVE k + 1 \in Z
    <2> SUFFICES ASSUME k + 1 <= n PROVE p[k + 1][o] = h[o]
      OBVIOUS
    <2>1. PICK j \in 1..n : j = k + 1 /\ j - 1 = k
      OBVIOUS
    <2>2. p[k][o] = h[o]
      OBVIOUS
    <2>3. p[j][o] = p[j - 1][o]
      BY DEF Swept, RefJoined, Untouched
    <2> QED BY <2>1, <2>2, <2>3
  <1> HIDE DEF Z
  <1>3. Z = Nat
    <2>1. Z \in SUBSET Nat
      BY DEF Z
    <2> QED BY <1>1, <1>2, <2>1, NatSet
  <1>4. ASSUME NEW k \in 0..n PROVE p[k][o] = h[o]
    <2>1. k \in Z /\ k <= n
      BY <1>3
    <2> QED BY <2>1 DEF Z
  <1> QED BY <1>4

\* Objects without href are not joined.
LEMMA NotJoined ==
    ASSUME RefsKnown, NEW o \in DOMAIN heap, heap[o].tag.href = NoId, NEW n \in Nat, NEW order,
           Ordered(order, refs, n)
    PROVE  Untouched(order, n, o)
  <1>1. SUFFICES ASSUME NEW k \in 1..n, o \in ToSet(order[k].hrefs) PROVE FALSE
    BY DEF Untouched
  <1>2. PICK i \in DOMAIN refs : order[k] = refs[i]
    BY DEF Ordered
  <1>3. HrefOf(refs, refs[i].id, o)
    BY <1>1, <1>2 DEF HrefOf
  <1>4. heap[o].tag.href = refs[i].id
    BY <1>3, KnownHrefs
  <1> QED BY <1>4 DEF RefsKnown, Known, UniqueIds

\* An object without href is the same after the end of the document.
LEMMA FinishedKeeps ==
    ASSUME RefsKnown, Finished, NEW o \in DOMAIN heap, heap[o].tag.href = NoId
    PROVE  heap'[o] = heap[o]
  <1>1. PICK n \in Nat : \E order, p :
          /\ Ordered(order, refs, n)
          /\ p \in [0..n -> [DOMAIN heap -> Node]]
          /\ Swept(p, DOMAIN heap, heap, heap', order, n)
    BY DEF Finished
  <1>2. PICK order, p : Ordered(order, refs, n) /\ Swept(p, DOMAIN heap, heap, heap', order, n)
    BY <1>1
  <1>3. Untouched(order, n, o)
    BY <1>2, NotJoined
  <1>4. PICK D, h, g : D = DOMAIN heap /\ h = heap /\ g = heap'
    OBVIOUS
  <1>5. Swept(p, D, h, g, order, n) /\ o \in D
    BY <1>2, <1>4
  <1>6. p[n][o] = h[o]
    <2>1. \A k \in 0..n : p[k][o] = h[o]
      BY <1>3, <1>5, SweepKeeps
    <2>2. n \in 0..n
      OBVIOUS
    <2> QED BY <2>1, <2>2
  <1>7. p[n] = g
    BY <1>5 DEF Swept
  <1> QED BY <1>4, <1>6, <1>7

-----------------------------------------------------------------------------
(* Children, in their order. *)

\* The object has the children of this name.
Agrees(node, name) == Only(ItemsOf(node.props, name), Told) = Seconds(KidsOnly(node.kids, name))

\* ChildrenInOrder is about one object at a time ...
LEMMA ChildrenAre ==
    Shaped => (ChildrenInOrder <=>
      \A o \in DOMAIN heap : \A name \in Names :
         heap[o].tag.href = NoId \/ phase = "parsing" => Agrees(heap[o], name))
  <1> SUFFICES ASSUME Shaped, NEW o \in DOMAIN heap, NEW name \in Names
               PROVE  ValuesAt(o, name) = KidsNamed(o, name) <=> Agrees(heap[o], name)
    BY DEF ChildrenInOrder
  <1>1. heap[o] \in Node
    <2>1. heap \in Seq(Node)
      BY DEF Shaped, ParseTyped
    <2> QED BY <2>1
  <1>2. PICK p, kids : p = heap[o].props /\ kids = heap[o].kids /\ p \in Properties
                       /\ kids \in Seq(Kids)
    BY <1>1 DEF Node, Kids
  <1>3. ValuesAt(o, name) = Only(ItemsOf(p, name), Told)
    <2>1. PICK items : items = ItemsOf(p, name) /\ items \in Seq(Items)
      BY <1>2, ItemsType
    <2>2. PICK S : S = {v \in ToSet(items) : v.kind # "attributes"}
      OBVIOUS
    <2>3. ValuesAt(o, name) = Only(items, S)
      BY <1>2, <2>1, <2>2 DEF ValuesAt, ItemsOf
    <2>4. \A e \in ToSet(items) : e \in S <=> e \in Told
      <3>1. \A e \in ToSet(items) : e \in Items
        BY <2>1, LenProperties DEF ToSet
      <3> QED BY <2>2, <3>1 DEF Told
    <2>5. Only(items, S) = Only(items, Told)
      BY <2>1, <2>4, OnlySame
    <2> QED BY <2>1, <2>3, <2>5
  <1>4. KidsNamed(o, name) = Seconds(KidsOnly(kids, name))
    <2>1. PICK S, T : S = {k \in ToSet(kids) : k[1] = name} /\ T = {k \in Kids : k[1] = name}
      OBVIOUS
    <2>2. KidsNamed(o, name) = Seconds(Only(kids, S))
      BY <1>2, <2>1 DEF KidsNamed, Seconds
    <2>3. \A e \in ToSet(kids) : e \in S <=> e \in T
      <3>1. \A e \in ToSet(kids) : e \in Kids
        BY <1>2, LenProperties DEF ToSet
      <3> QED BY <2>1, <3>1
    <2>4. Only(kids, S) = Only(kids, T)
      BY <1>2, <2>3, OnlySame
    <2> QED BY <2>1, <2>2, <2>4 DEF KidsOnly
  <1> QED BY <1>2, <1>3, <1>4 DEF Agrees

\* ... in the next state too.
LEMMA ChildrenAreNext ==
    (Shaped => (ChildrenInOrder <=>
      \A o \in DOMAIN heap : \A name \in Names :
         heap[o].tag.href = NoId \/ phase = "parsing" => Agrees(heap[o], name)))'
  BY ChildrenAre, PTL

\* A new object has no children, and nothing but attributes.
LEMMA NewAgrees ==
    ASSUME NEW tag, NEW name
    PROVE  Agrees(NewObject(tag), name)
  <1>1. Only(<<>>, Told) = <<>> /\ KidsOnly(<<>>, name) = <<>>
    BY OnlyNone DEF KidsOnly
  <1>2. Seconds(KidsOnly(NewObject(tag).kids, name)) = <<>>
    BY <1>1, NewIs DEF Seconds
  <1>3. Only(ItemsOf(NewObject(tag).props, name), Told) = <<>>
    <2>1. PICK p : p = NewObject(tag).props
      OBVIOUS
    <2>2. CASE name \notin DOMAIN p
      BY <1>1, <2>1, <2>2 DEF ItemsOf
    <2>3. CASE name \in DOMAIN p
      <3>1. HasAttributes(tag) /\ p = Entered(<<>>, AttributesKey, Attributes(tag))
        BY <2>1, <2>3, NewIs
      <3>2. p[name] = Attributes(tag)
        BY <2>3, <3>1 DEF Entered
      <3>3. Attributes(tag).kind = "attributes"
        BY DEF Attributes
      <3>4. ItemsOf(p, name) = <<Attributes(tag)>> /\ Attributes(tag) \notin Told
        BY <2>3, <3>2, <3>3 DEF ItemsOf, Told
      <3>5. Only(<<Attributes(tag)>>, Told) = <<>>
        BY <3>4, OnlyOne
      <3> QED BY <2>1, <3>4, <3>5
    <2> QED BY <2>2, <2>3
  <1> QED BY <1>2, <1>3 DEF Agrees

\* A child is put at the end of those of its name.
LEMMA PutAgrees ==
    ASSUME NEW h, NEW g, NEW o, h[o] \in Node, NEW name \in AllNames, NEW v \in KidValues,
           NEW many, PutInto(h, g, o, name, v, many), NEW other, Agrees(h[o], other)
    PROVE  Agrees(g[o], other)
  <1>1. PICK p, kids : p = h[o].props /\ kids = h[o].kids /\ p \in Properties
                       /\ kids \in Seq(Kids)
    BY DEF Node, Kids
  <1>2. PICK a, b : /\ a = Only(ItemsOf(p, other), Told)
                    /\ b = Only(ItemsOf(Put(p, name, v, many), other), Told)
    OBVIOUS
  <1>3. b = IF name = other THEN Append(a, v) ELSE a
    <2>1. ItemsOf(Put(p, name, v, many), other) =
             IF name = other THEN Append(ItemsOf(p, other), v) ELSE ItemsOf(p, other)
      <3>1. Adds(ItemsOf(p, other), ItemsOf(Put(p, name, v, many), other), name, other, v)
        BY <1>1, PutAdds
      <3> QED BY <3>1 DEF Adds
    <2>2. CASE name # other
      BY <1>2, <2>1, <2>2
    <2>3. CASE name = other
      <3>1. PICK items : items = ItemsOf(p, other) /\ items \in Seq(Items)
        BY <1>1, ItemsType
      <3>2. v \in Items /\ v \in Told
        BY KidsAreTold
      <3>3. Only(Append(items, v), Told) = Append(Only(items, Told), v)
        BY <3>1, <3>2, OnlyAppend
      <3> QED BY <1>2, <2>1, <2>3, <3>1, <3>3
    <2> QED BY <2>2, <2>3
  <1>4. PICK c, d : /\ c = Seconds(KidsOnly(kids, other))
                    /\ d = Seconds(KidsOnly(Append(kids, <<name, v>>), other))
    OBVIOUS
  <1>5. d = IF name = other THEN Append(c, v) ELSE c
    <2>1. Adds(c, d, name, other, v)
      BY <1>1, <1>4, KidsAdded
    <2> QED BY <2>1 DEF Adds
  <1>6. a = c
    BY <1>1, <1>2, <1>4 DEF Agrees
  <1>7. b = d
    BY <1>3, <1>5, <1>6
  <1>8. g[o].props = Put(p, name, v, many) /\ g[o].kids = Append(kids, <<name, v>>)
    BY <1>1 DEF PutInto
  <1> QED BY <1>2, <1>4, <1>7, <1>8 DEF Agrees

\* Children are in order at the start ...
LEMMA ChildrenInOrderInit ==
    ASSUME Init
    PROVE  ChildrenInOrder
  BY DEF Init, ChildrenInOrder

\* ... and after every step.
LEMMA ChildrenInOrderNext ==
    ASSUME Shaped, Shaped', RefsKnown, ChildrenInOrder, [Next]_vars
    PROVE  ChildrenInOrder'
  <1>1. ASSUME \A o \in DOMAIN heap' : \A name \in Names :
                  heap'[o].tag.href = NoId \/ phase' = "parsing" => Agrees(heap'[o], name)
        PROVE  ChildrenInOrder'
    BY <1>1, ChildrenAreNext
  <1>2. \A o \in DOMAIN heap : \A name \in Names :
            heap[o].tag.href = NoId \/ phase = "parsing" => Agrees(heap[o], name)
    BY ChildrenAre
  <1>3. CASE Idle
    BY <1>1, <1>2, <1>3 DEF Idle
  <1>4. CASE Thrown
    BY <1>1, <1>2, <1>4 DEF Thrown
  <1>5. CASE Begun /\ Bounds
    <2>1. \A o \in DOMAIN heap' : heap'[o] = NewObject(Plain(Opening[o]))
      BY <1>5 DEF Begun
    <2> QED BY <1>1, <2>1, NewAgrees
  <1>6. ASSUME NEW tag \in Tag, NEW schema, Opened(tag, schema)
        PROVE  ChildrenInOrder'
    <2>1. tag \in AnyTag /\ Len(stack) > 1 /\ phase = "parsing"
      BY <1>6, TagsAre DEF Opened, Parsing
    <2>2. PICK n \in Nat : n = Len(heap) /\ DOMAIN heap = 1..n
      BY <2>1, Ends
    <2>3. /\ DOMAIN heap' = 1..(n + 1) /\ \A o \in 1..n : heap'[o] = heap[o]
          /\ heap'[n + 1] = NewObject(tag)
      BY <1>6, <2>1, <2>2, OpenedIs
    <2>4. ASSUME NEW o \in 1..(n + 1), NEW name \in Names
          PROVE  Agrees(heap'[o], name)
      <3>1. CASE o \in 1..n
        BY <1>2, <2>1, <2>2, <2>3, <3>1
      <3>2. CASE o = n + 1
        BY <2>3, <3>2, NewAgrees
      <3> QED BY <3>1, <3>2
    <2> QED BY <1>1, <2>3, <2>4
  <1>7. CASE ClosedNil
    BY <1>1, <1>2, <1>7 DEF ClosedNil, Popped, Parsing
  <1>8. CASE ClosedInto
    <2>1. phase = "parsing" /\ Len(stack) > 1
      BY <1>8 DEF ClosedInto, Popped, Parsing
    <2>2. PICK t, name, v, many : /\ PutInto(heap, heap', t, name, v, many)
                                  /\ t = Top.obj /\ name = Cur.tag.name /\ v \in KidValues
      BY <1>8, ClosedIs
    <2>3. t \in DOMAIN heap /\ name \in AllNames
      <3>1. Cur.tag \in AnyTag /\ Top.obj \in DOMAIN heap
        BY <2>1, Ends
      <3> QED BY <2>2, <3>1 DEF AnyTag
    <2>4. heap[t] \in Node
      <3>1. heap \in Seq(Node)
        BY DEF Shaped, ParseTyped
      <3> QED BY <2>3, <3>1
    <2>5. \A other \in Names : Agrees(heap'[t], other)
      BY <1>2, <2>1, <2>2, <2>3, <2>4, PutAgrees
    <2>6. \A o \in DOMAIN heap : o # t => heap'[o] = heap[o]
      BY <2>2 DEF PutInto, Changed
    <2>7. DOMAIN heap' = DOMAIN heap
      BY <2>2 DEF PutInto, Changed
    <2> QED BY <1>1, <1>2, <2>1, <2>5, <2>6, <2>7
  <1>9. ASSUME NEW piece \in Pieces, TextRead(piece)
        PROVE  ChildrenInOrder'
    <2>1. phase = "parsing" /\ Len(stack) > 1
      BY <1>9 DEF TextRead, Parsing
    <2>2. PICK o : o = Cur.obj /\ o \in DOMAIN heap
      BY <2>1, Ends
    <2>3. PICK p : Counted(heap, heap', o, p, piece)
                   /\ p = IF Keyed THEN Entered(heap[o].props, ValueKey, ReadText(Cur, piece))
                          ELSE heap[o].props
      BY <1>9, <2>2, TextReadIs
    <2>4. ASSUME NEW name \in Names PROVE Agrees(heap'[o], name)
      <3>1. name # ValueKey
        BY UnmarshalAssumption
      <3>2. ItemsOf(p, name) = ItemsOf(heap[o].props, name)
        <4>1. (name \in DOMAIN p <=> name \in DOMAIN heap[o].props)
              /\ (name \in DOMAIN heap[o].props => p[name] = heap[o].props[name])
          BY <2>3, <3>1 DEF Entered
        <4> QED BY <4>1 DEF ItemsOf
      <3>3. heap'[o].props = p /\ heap'[o].kids = heap[o].kids
        BY <2>3 DEF Counted
      <3>4. Agrees(heap[o], name)
        BY <1>2, <2>1, <2>2
      <3> QED BY <3>2, <3>3, <3>4 DEF Agrees
    <2>5. DOMAIN heap' = DOMAIN heap /\ \A x \in DOMAIN heap : x # o => heap'[x] = heap[x]
      BY <2>3 DEF Counted, Changed
    <2> QED BY <1>1, <1>2, <2>1, <2>4, <2>5
  <1>10. CASE Finished
    <2>1. phase = "parsing" /\ phase' # "parsing" /\ DOMAIN heap' = DOMAIN heap
          /\ \A o \in DOMAIN heap : heap'[o].tag = heap[o].tag
      BY <1>10 DEF Finished, Kept
    <2>2. \A o \in DOMAIN heap : heap[o].tag.href = NoId => heap'[o] = heap[o]
      BY <1>10, FinishedKeeps
    <2> QED BY <1>1, <1>2, <2>1, <2>2
  <1>11. CASE ClosedLost
    BY <1>1, <1>2, <1>11 DEF ClosedLost, Popped, Parsing
  <1>12. CASE Spaced
    <2>1. ASSUME NEW o \in DOMAIN heap, NEW name \in Names PROVE Agrees(heap'[o], name)
      <3>1. Agrees(heap[o], name)
        BY <1>2, <1>12 DEF Spaced, Parsing
      <3>2. heap'[o].props = heap[o].props /\ heap'[o].kids = heap[o].kids
        BY <1>12 DEF Spaced, Blank
      <3> QED BY <3>1, <3>2 DEF Agrees
    <2>2. DOMAIN heap' = DOMAIN heap
      BY <1>12 DEF Spaced, Blank
    <2> QED BY <1>1, <2>1, <2>2
  <1> QED BY <1>3, <1>4, <1>5, <1>6, <1>7, <1>8, <1>9, <1>10, <1>11, <1>12, StepsAre

-----------------------------------------------------------------------------
(* Multi-reference elements. *)

\* The element of the object t has ended.
Closed(t) == \A i \in DOMAIN stack : stack[i].obj # t

\* An element with an id that has ended, and is not nil, is known as its object, or it was null.
Target(t) ==
    heap[t].tag.id # NoId /\ ~heap[t].tag.nil /\ Closed(t)
      => \/ ObjOf(refs, heap[t].tag.id, t)
         \/ ObjOf(refs, heap[t].tag.id, 0) /\ DOMAIN heap[t].props = {}

\* Whenever nothing is joined yet, the targets are known.
TargetsKnown ==
    /\ phase = "parsing" => \A t \in DOMAIN heap : Target(t)
    /\ 1 \in DOMAIN stack => stack[1].tag.id = NoId

\* No element has ended at the start, and nothing has been joined.
LEMMA TargetsInit ==
    ASSUME Init
    PROVE  TargetsKnown /\ MultiRefsAreJoined
  BY DEF Init, TargetsKnown, MultiRefsAreJoined

\* A value that is null is that of an element without properties.
LEMMA NullIs ==
    ASSUME NEW S, NEW f \in FrameOf(S), Value(f) = Null, ~f.tag.nil
    PROVE  DOMAIN heap[f.obj].props = {}
  <1>1. f.value \in Contents
    BY DEF FrameOf
  <1>2. Null.kind = "null" /\ Object(f.obj).kind = "object"
    BY DEF Null, Object
  <1>3. \A x \in Contents : x.kind # "null"
    <2>1. NoValue.kind = "no value" /\ Number.kind = "number" /\ Date.kind = "date"
      BY DEF NoValue, Number, Date
    <2>2. \A x \in Texts : x.kind = "text"
      BY DEF Texts
    <2> QED BY <2>1, <2>2 DEF Contents
  <1>4. f.value # Null /\ Object(f.obj) # Null
    BY <1>1, <1>2, <1>3
  <1> QED BY <1>4 DEF Value

\* How a target stays known.
LEMMA TargetStays ==
    ASSUME NEW t, heap'[t].tag = heap[t].tag, DOMAIN heap'[t].props = DOMAIN heap[t].props,
           Target(t), Closed(t)' => Closed(t),
           \A o : heap[t].tag.id # NoId /\ ObjOf(refs, heap[t].tag.id, o)
                    => ObjOf(refs', heap[t].tag.id, o)
    PROVE  Target(t)'
  <1>1. SUFFICES ASSUME heap[t].tag.id # NoId, ~heap[t].tag.nil, Closed(t)'
                 PROVE  \/ ObjOf(refs', heap[t].tag.id, t)
                        \/ ObjOf(refs', heap[t].tag.id, 0) /\ DOMAIN heap[t].props = {}
    BY DEF Target
  <1>2. \/ ObjOf(refs, heap[t].tag.id, t)
        \/ ObjOf(refs, heap[t].tag.id, 0) /\ DOMAIN heap[t].props = {}
    BY <1>1 DEF Target
  <1> QED BY <1>1, <1>2

\* Targets are known after every step.
LEMMA TargetsNext ==
    ASSUME Shaped, RefsKnown, TargetsKnown, [Next]_vars
    PROVE  TargetsKnown'
  <1>1. CASE Idle
    BY <1>1 DEF Idle, TargetsKnown, Target, Closed, ObjOf
  <1>2. CASE Thrown
    BY <1>2 DEF Thrown, TargetsKnown
  <1>3. CASE Begun /\ Bounds
    <2>1. \A i \in 1..3 : heap'[i].tag.id = NoId /\ stack'[i].tag.id = NoId
      <3>1. \A name : Plain(name).id = NoId
        BY DEF Plain
      <3>2. \A t, o, s, c : Frame(t, o, s, c).tag = t
        BY DEF Frame
      <3> QED BY <1>3, <3>1, <3>2, NewIs DEF Begun
    <2> QED BY <1>3, <2>1 DEF TargetsKnown, Target, Begun
  <1>4. ASSUME NEW tag \in Tag, NEW schema, Opened(tag, schema)
        PROVE  TargetsKnown'
    <2>1. tag \in AnyTag /\ Len(stack) > 1 /\ phase = "parsing"
      BY <1>4, TagsAre DEF Opened, Parsing
    <2>2. PICK n \in Nat, m \in Nat : /\ n = Len(heap) /\ DOMAIN heap = 1..n
                                      /\ m = Len(stack) /\ DOMAIN stack = 1..m /\ m > 1
      BY <2>1, Ends
    <2>3. PICK scope : scope = IF tag.decl = NoUri THEN Cur.scope ELSE tag.decl
      OBVIOUS
    <2>4. /\ DOMAIN heap' = 1..(n + 1) /\ \A o \in 1..n : heap'[o] = heap[o]
          /\ DOMAIN stack' = 1..(m + 1) /\ \A i \in 1..m : stack'[i] = stack[i]
          /\ stack'[m + 1] = Frame(tag, n + 1, schema, scope)
      BY <1>4, <2>1, <2>2, <2>3, OpenedIs
    <2>5. Started(refs, refs', tag, n + 1)
      BY <1>4, <2>2, OpenedRefs
    <2>6. ASSUME NEW t \in 1..n PROVE Target(t)'
      <3>1. Target(t)
        BY <2>1, <2>2 DEF TargetsKnown
      <3>2. Closed(t)' => Closed(t)
        <4>1. ASSUME Closed(t)', NEW i \in 1..m PROVE stack[i].obj # t
          <5>1. i \in 1..(m + 1)
            OBVIOUS
          <5>2. stack'[i].obj # t
            BY <2>4, <4>1, <5>1 DEF Closed
          <5> QED BY <2>4, <5>2
        <4> QED BY <2>2, <4>1 DEF Closed
      <3>3. heap'[t] = heap[t]
        BY <2>4
      <3>4. \A o : ObjOf(refs, heap[t].tag.id, o) => ObjOf(refs', heap[t].tag.id, o)
        BY <2>5 DEF Started
      <3> QED BY <3>1, <3>2, <3>3, <3>4, TargetStays
    <2>7. Target(n + 1)'
      <3>1. stack'[m + 1].obj = n + 1 /\ m + 1 \in 1..(m + 1)
        BY <2>4 DEF Frame
      <3>2. ~Closed(n + 1)'
        BY <2>4, <3>1 DEF Closed
      <3> QED BY <3>2 DEF Target
    <2>8. ASSUME NEW t \in DOMAIN heap' PROVE Target(t)'
      <3>1. t \in 1..n \/ t = n + 1
        BY <2>4
      <3>2. CASE t \in 1..n
        BY <2>6, <3>2
      <3>3. CASE t = n + 1
        <4> QED BY <2>7, <3>3 DEF Target, Closed
      <3> QED BY <3>1, <3>2, <3>3
    <2>9. stack'[1].tag.id = NoId
      <3>1. 1 \in 1..m
        BY <2>2
      <3> QED BY <2>2, <2>4, <3>1 DEF TargetsKnown
    <2> QED BY <2>8, <2>9 DEF TargetsKnown
  <1>5. ASSUME ClosedNil \/ ClosedLost \/ ClosedInto
        PROVE  TargetsKnown'
    <2>1. phase = "parsing" /\ Len(stack) > 1 /\ Popped
      BY <1>5 DEF ClosedNil, ClosedLost, ClosedInto, Popped, Parsing
    <2>2. PICK c : c = Cur.obj /\ c \in DOMAIN heap /\ Cur.tag = heap[c].tag
      BY <2>1, Ends
    <2>3. PICK n \in Nat : /\ n = Len(stack) /\ DOMAIN stack = 1..n /\ Cur = stack[n]
                           /\ DOMAIN stack' = 1..(n - 1) /\ n > 1
                           /\ \A i \in 1..(n - 1) : stack'[i] = stack[i]
      <3>1. Len(stack) \in Nat /\ DOMAIN stack = 1..Len(stack)
        BY <2>1, Ends
      <3> QED BY <2>1, <3>1, PoppedIs DEF Cur
    <2>4. ASSUME NEW t, t # c PROVE Closed(t)' => Closed(t)
      <3>1. ASSUME Closed(t)', NEW i \in 1..n PROVE stack[i].obj # t
        <4>1. CASE i = n
          BY <2>2, <2>3, <2>4, <4>1
        <4>2. CASE i # n
          <5>1. i \in 1..(n - 1)
            BY <4>2
          <5> QED BY <2>3, <3>1, <5>1 DEF Closed
        <4> QED BY <4>1, <4>2
      <3> QED BY <2>3, <3>1 DEF Closed
    <2>5. DOMAIN heap' = DOMAIN heap /\ \A o \in DOMAIN heap : heap'[o].tag = heap[o].tag
      <3>1. CASE ClosedNil \/ ClosedLost
        BY <3>1 DEF ClosedNil, ClosedLost
      <3>2. CASE ClosedInto
        <4>1. PICK name, v, many, t : PutInto(heap, heap', t, name, v, many)
          BY <3>2, ClosedIs
        <4> QED BY <4>1 DEF PutInto, Changed
      <3> QED BY <1>5, <3>1, <3>2
    <2>6. ASSUME NEW t \in DOMAIN heap PROVE Target(t)'
      <3>1. Target(t)
        BY <2>1 DEF TargetsKnown
      <3>2. CASE ClosedNil
        <4>1. heap' = heap /\ refs' = refs /\ Cur.tag.nil
          BY <3>2 DEF ClosedNil
        <4>2. CASE t = c
          BY <2>2, <4>1, <4>2 DEF Target
        <4>3. CASE t # c
          BY <2>4, <3>1, <4>1, <4>3, TargetStays
        <4> QED BY <4>2, <4>3
      <3>3. CASE ClosedLost \/ ClosedInto
        <4>1. PICK id, q : /\ Settled(refs, refs', id, q) /\ id = Cur.tag.id
                           /\ q = IF Value(Cur) = Null THEN 0 ELSE Cur.obj
          BY <2>1, <3>3, SettlingIs DEF ClosedLost, ClosedInto
        <4>2. Ended(refs, refs', id, q)
          BY <4>1, SettledKeeps DEF RefsKnown, Known
        <4>3. PICK top : /\ top = Top.obj
                         /\ \A o \in DOMAIN heap : o # top => heap'[o] = heap[o]
          <5>1. CASE ClosedLost
            BY <5>1 DEF ClosedLost
          <5>2. CASE ClosedInto
            <6>1. PICK name, v, many : PutInto(heap, heap', Top.obj, name, v, many)
              BY <5>2, ClosedIs
            <6> QED BY <6>1 DEF PutInto, Changed
          <5> QED BY <3>3, <5>1, <5>2
        <4>5. top # c /\ top = stack[n - 1].obj /\ top \in DOMAIN heap
          <5>1. Top.obj < Cur.obj /\ Top.obj \in DOMAIN heap /\ DOMAIN heap = 1..Len(heap)
            BY <2>1, Ends
          <5>2. top \in Nat /\ c \in Nat /\ top < c
            BY <2>2, <4>3, <5>1
          <5> QED BY <2>3, <4>3, <5>1, <5>2 DEF Top
        <4>6. CASE t = c
          <5>1. heap'[c] = heap[c]
            BY <2>2, <4>3, <4>5
          <5>2. SUFFICES ASSUME heap[c].tag.id # NoId, ~heap[c].tag.nil
                         PROVE  \/ ObjOf(refs', heap[c].tag.id, c)
                                \/ /\ ObjOf(refs', heap[c].tag.id, 0)
                                   /\ DOMAIN heap[c].props = {}
            BY <4>6, <5>1 DEF Target
          <5>3. HasId(refs, heap[c].tag.id)
            BY <2>2, <5>2 DEF RefsKnown, Known
          <5>4. ObjOf(refs', heap[c].tag.id, q)
            BY <2>2, <4>1, <4>2, <5>2, <5>3 DEF Ended
          <5>5. CASE Value(Cur) = Null
            <6>1. PICK S : Cur \in FrameOf(S)
              BY <2>1, Ends
            <6>2. DOMAIN heap[Cur.obj].props = {}
              BY <2>2, <5>2, <5>5, <6>1, NullIs
            <6> QED BY <2>2, <4>1, <5>4, <5>5, <6>2
          <5>6. CASE Value(Cur) # Null
            BY <2>2, <4>1, <5>4, <5>6
          <5> QED BY <5>5, <5>6
        <4>7. CASE t # c /\ t # top
          <5>1. heap'[t] = heap[t]
            BY <4>3, <4>7
          <5>2. heap[t].tag.id # NoId => heap[t].tag.id # id
            BY <2>2, <4>1, <4>7 DEF RefsKnown, Known
          <5>3. \A o : heap[t].tag.id # NoId /\ ObjOf(refs, heap[t].tag.id, o)
                         => ObjOf(refs', heap[t].tag.id, o)
            BY <4>2, <5>2 DEF Ended
          <5>4. Closed(t)' => Closed(t)
            BY <2>4, <4>7
          <5> QED BY <3>1, <5>1, <5>3, <5>4, TargetStays
        <4>8. CASE t = top
          <5>1. n - 1 \in 1..(n - 1)
            BY <2>3
          <5>2. stack'[n - 1] = stack[n - 1]
            BY <2>3, <5>1
          <5>3. ~Closed(t)'
            BY <2>3, <4>5, <4>8, <5>1, <5>2 DEF Closed
          <5> QED BY <5>3 DEF Target
        <4> QED BY <4>6, <4>7, <4>8
      <3> QED BY <1>5, <3>2, <3>3
    <2>7. stack'[1].tag.id = NoId
      <3>1. 1 \in 1..n /\ 1 \in 1..(n - 1)
        BY <2>3
      <3> QED BY <2>3, <3>1 DEF TargetsKnown
    <2> QED BY <2>5, <2>6, <2>7 DEF TargetsKnown
  <1>6. ASSUME NEW piece \in Pieces, TextRead(piece)
        PROVE  TargetsKnown'
    <2>1. phase = "parsing" /\ Len(stack) > 1 /\ refs' = refs
      BY <1>6 DEF TextRead, Parsing
    <2>2. PICK c : c = Cur.obj
      OBVIOUS
    <2>3. PICK p : Counted(heap, heap', c, p, piece)
      BY <1>6, <2>2, TextReadIs
    <2>4. DOMAIN heap' = DOMAIN heap /\ \A x \in DOMAIN heap : x # c => heap'[x] = heap[x]
      BY <2>3 DEF Counted, Changed
    <2>5. DOMAIN stack' = DOMAIN stack
          /\ \A i \in DOMAIN stack : stack'[i].tag = stack[i].tag /\ stack'[i].obj = stack[i].obj
      BY <1>6, TextReadIs DEF Revalued, Changed
    <2>6. ASSUME NEW t \in DOMAIN heap PROVE Target(t)'
      <3>1. Closed(t)' => Closed(t)
        BY <2>5 DEF Closed
      <3>2. CASE t # c
        <4>1. Target(t) /\ heap'[t] = heap[t]
          BY <2>1, <2>4, <3>2 DEF TargetsKnown
        <4> QED BY <2>1, <3>1, <4>1, TargetStays
      <3>3. CASE t = c
        <4>1. Len(stack) \in DOMAIN stack /\ stack[Len(stack)].obj = c
          BY <2>1, <2>2, Ends DEF Cur
        <4>2. ~Closed(t)
          BY <3>3, <4>1 DEF Closed
        <4>3. ~Closed(t)'
          BY <3>1, <4>2
        <4> QED BY <4>3 DEF Target
      <3> QED BY <3>2, <3>3
    <2> QED BY <2>4, <2>5, <2>6 DEF TargetsKnown
  <1>7. CASE Finished
    BY <1>7 DEF Finished, TargetsKnown
  <1>8. CASE Spaced
    <2>1. phase = "parsing" /\ refs' = refs /\ stack' = stack /\ DOMAIN heap' = DOMAIN heap
      BY <1>8 DEF Spaced, Parsing, Blank
    <2>2. ASSUME NEW t \in DOMAIN heap PROVE Target(t)'
      <3>1. heap'[t].tag = heap[t].tag /\ heap'[t].props = heap[t].props
        BY <1>8 DEF Spaced, Blank
      <3>2. Target(t) /\ (Closed(t)' => Closed(t))
        BY <2>1 DEF TargetsKnown, Closed
      <3> QED BY <2>1, <3>1, <3>2, TargetStays
    <2> QED BY <2>1, <2>2 DEF TargetsKnown
  <1> QED BY <1>1, <1>2, <1>3, <1>4, <1>5, <1>6, <1>7, <1>8, StepsAre

\* q has what p has.
Has(q, p) == \A k \in DOMAIN p : k \in DOMAIN q /\ q[k] = p[k]

\* ref is among the references, and the only one that points to o.
OnlyRef(order, n, o, ref) ==
    /\ o \in ToSet(ref.hrefs) /\ \E k \in 1..n : order[k] = ref
    /\ \A k \in 1..n : o \in ToSet(order[k].hrefs) => order[k] = ref

\* Once joined with t, the object o has what t has, whatever is joined later: o refers to
\* nothing else, and t refers to nothing.
LEMMA JoinedHas ==
    ASSUME NEW D, NEW h, NEW g, NEW order, NEW n \in Nat, NEW p, Swept(p, D, h, g, order, n),
           NEW o \in D, NEW t \in D, NEW ref, ref.obj = t, t # 0,
           OnlyRef(order, n, o, ref), Untouched(order, n, t)
    PROVE  Has(g[o].props, h[t].props) /\ g[t] = h[t]
  <1>1. \A k \in 0..n : p[k][t] = h[t]
    BY SweepKeeps
  <1>2. PICK first \in 1..n : order[first] = ref
    BY DEF OnlyRef
  <1>3. ASSUME NEW k \in 1..n, order[k] = ref
        PROVE  Has(p[k][o].props, h[t].props)
    <2>1. p[k][o].props = Overlay(p[k - 1][t].props, p[k - 1][o].props)
      BY <1>3 DEF Swept, RefJoined, OnlyRef
    <2>2. PICK j \in 0..n : j = k - 1
      OBVIOUS
    <2>3. p[j][t] = h[t]
      BY <1>1
    <2>4. PICK a, b : a = h[t].props /\ b = p[j][o].props
      OBVIOUS
    <2>5. p[k][o].props = Overlay(a, b)
      BY <2>1, <2>2, <2>3, <2>4
    <2>6. Has(Overlay(a, b), a)
      BY DEF Has, Overlay
    <2> QED BY <2>4, <2>5, <2>6
  <1> DEFINE Z == {k \in Nat : first <= k /\ k <= n => Has(p[k][o].props, h[t].props)}
  <1>4. 0 \in Z
    OBVIOUS
  <1>5. ASSUME NEW k \in Z PROVE k + 1 \in Z
    <2> SUFFICES ASSUME first <= k + 1, k + 1 <= n
                 PROVE  Has(p[k + 1][o].props, h[t].props)
      OBVIOUS
    <2>1. PICK j \in 1..n : j = k + 1 /\ j - 1 = k
      OBVIOUS
    <2>2. CASE order[j] = ref
      BY <1>3, <2>1, <2>2
    <2>3. CASE order[j] # ref
      <3>1. p[j][o] = p[j - 1][o]
        BY <2>3 DEF Swept, RefJoined, OnlyRef
      <3>2. first # j
        BY <1>2, <2>3
      <3>3. first <= k /\ k <= n
        BY <2>1, <3>2
      <3>4. Has(p[k][o].props, h[t].props)
        BY <3>3
      <3> HIDE DEF Z
      <3> QED BY <2>1, <3>1, <3>4
    <2> QED BY <2>2, <2>3
  <1> HIDE DEF Z
  <1>6. Z = Nat
    <2>1. Z \in SUBSET Nat
      BY DEF Z
    <2> QED BY <1>4, <1>5, <2>1, NatSet
  <1>7. Has(p[n][o].props, h[t].props)
    <2>1. n \in Z /\ first <= n
      BY <1>6
    <2> QED BY <2>1 DEF Z
  <1>8. p[n] = g /\ n \in 0..n
    BY DEF Swept
  <1> QED BY <1>1, <1>7, <1>8

\* multiRef joins every reference.
LEMMA FinishedJoins ==
    ASSUME Shaped, RefsKnown, TargetsKnown, Finished, NEW o \in DOMAIN heap, NEW t \in DOMAIN heap,
           heap[o].tag.href # NoId, heap[t].tag.id = heap[o].tag.href,
           ~heap[t].tag.nil, heap[t].tag.href = NoId
    PROVE  Has(heap'[o].props, heap'[t].props)
  <1>1. heap'[t] = heap[t]
    BY FinishedKeeps
  <1>2. Closed(t)
    <2>1. Len(stack) = 1
      BY DEF Finished
    <2>2. PICK S : stack \in Seq(FrameOf(S))
      BY DEF Shaped, ParseTyped
    <2>3. DOMAIN stack = 1..1
      BY <2>1, <2>2, LenProperties
    <2>4. \A i \in DOMAIN stack : i = 1
      BY <2>3
    <2>5. stack[1].tag.id = NoId /\ stack[1].tag = heap[stack[1].obj].tag
      BY <2>3 DEF TargetsKnown, Shaped, Nested
    <2>6. stack[1].obj # t
      BY <2>5
    <2> QED BY <2>4, <2>6 DEF Closed
  <1>3. PICK id : id = heap[t].tag.id /\ id # NoId /\ id = heap[o].tag.href
    OBVIOUS
  <1>4. Target(t)
    BY DEF Finished, TargetsKnown
  <1>5. ObjOf(refs, id, t) \/ DOMAIN heap[t].props = {}
    BY <1>2, <1>3, <1>4 DEF Target
  <1>6. CASE DOMAIN heap[t].props = {}
    BY <1>1, <1>6 DEF Has
  <1>7. CASE ObjOf(refs, id, t)
    <2>1. PICK i \in DOMAIN refs : refs[i].id = id /\ refs[i].obj = t
      BY <1>7 DEF ObjOf
    <2>2. HrefOf(refs, id, o)
      BY <1>3 DEF RefsKnown, Known
    <2>3. o \in ToSet(refs[i].hrefs)
      <3>1. PICK j \in DOMAIN refs : refs[j].id = id /\ o \in ToSet(refs[j].hrefs)
        BY <2>2 DEF HrefOf
      <3>2. i = j
        BY <2>1, <3>1 DEF RefsKnown, Known, UniqueIds
      <3> QED BY <3>1, <3>2
    <2>4. PICK n \in Nat : \E order, p :
            /\ Ordered(order, refs, n)
            /\ p \in [0..n -> [DOMAIN heap -> Node]]
            /\ Swept(p, DOMAIN heap, heap, heap', order, n)
      BY DEF Finished
    <2>5. PICK order, p : Ordered(order, refs, n) /\ Swept(p, DOMAIN heap, heap, heap', order, n)
      BY <2>4
    <2>6. Untouched(order, n, t)
      BY <2>5, NotJoined
    <2>7. PICK D, h, g, ref : D = DOMAIN heap /\ h = heap /\ g = heap' /\ ref = refs[i]
      OBVIOUS
    <2>8. \E k \in 1..n : order[k] = ref
      BY <2>5, <2>7 DEF Ordered
    <2>9. ASSUME NEW k \in 1..n, o \in ToSet(order[k].hrefs)
          PROVE  order[k] = ref
      <3>1. PICK j \in DOMAIN refs : order[k] = refs[j]
        BY <2>5 DEF Ordered
      <3>2. HrefOf(refs, refs[j].id, o)
        BY <2>9, <3>1 DEF HrefOf
      <3>3. refs[j].id = id
        BY <1>3, <3>2, KnownHrefs
      <3>4. j = i
        BY <2>1, <3>3 DEF RefsKnown, Known, UniqueIds
      <3> QED BY <2>7, <3>1, <3>4
    <2>10. Swept(p, D, h, g, order, n) /\ o \in D /\ t \in D /\ ref.obj = t
           /\ o \in ToSet(ref.hrefs)
      BY <2>1, <2>3, <2>5, <2>7
    <2>11. t # 0
      <3>1. PICK m \in Nat : DOMAIN heap = 1..m
        BY LenProperties DEF Shaped, ParseTyped
      <3> QED BY <3>1
    <2>12. OnlyRef(order, n, o, ref)
      BY <2>8, <2>9, <2>10 DEF OnlyRef
    <2>13. Has(g[o].props, h[t].props)
      BY <2>6, <2>10, <2>11, <2>12, JoinedHas
    <2> QED BY <1>1, <2>7, <2>13
  <1> QED BY <1>5, <1>6, <1>7

\* The references are joined after every step, as those that are not the last have none.
LEMMA MultiRefsNext ==
    ASSUME Shaped, RefsKnown, TargetsKnown, MultiRefsAreJoined, [Next]_vars
    PROVE  MultiRefsAreJoined'
  <1>1. CASE Idle
    BY <1>1 DEF Idle, MultiRefsAreJoined
  <1>2. CASE Thrown
    BY <1>2 DEF Thrown, MultiRefsAreJoined
  <1>3. CASE Begun /\ Bounds
    BY <1>3 DEF Begun, MultiRefsAreJoined
  <1>4. ASSUME phase = "parsing", phase' = phase
        PROVE  MultiRefsAreJoined'
    BY <1>4 DEF MultiRefsAreJoined
  <1>5. CASE Finished
    <2>1. DOMAIN heap' = DOMAIN heap /\ \A o \in DOMAIN heap : heap'[o].tag = heap[o].tag
      BY <1>5 DEF Finished, Kept
    <2>2. SUFFICES ASSUME NEW o \in DOMAIN heap', NEW t \in DOMAIN heap',
                          heap'[o].tag.href # NoId, heap'[t].tag.id = heap'[o].tag.href,
                          ~heap'[t].tag.nil, heap'[t].tag.href = NoId
                   PROVE  Has(heap'[o].props, heap'[t].props)
      BY DEF MultiRefsAreJoined, Has
    <2> QED BY <1>5, <2>1, <2>2, FinishedJoins
  <1> QED BY <1>1, <1>2, <1>3, <1>4, <1>5, StepsAre
       DEF Opened, ClosedNil, ClosedLost, ClosedInto, Popped, TextRead, Spaced, Parsing

\* The inductive invariant.
Unmarshals ==
    /\ Shaped /\ Bare /\ WholeTexts
    /\ ScopesKnown /\ TypesMeanTheirScope
    /\ RefsKnown /\ ChildrenInOrder
    /\ TargetsKnown /\ MultiRefsAreJoined

\* The inductive invariant holds.
LEMMA UnmarshalsAlways == Spec => []Unmarshals
  <1>1. Init => Unmarshals
    BY ShapedInit, BareInit, TextIsWholeInit, ScopesInit, RefsKnownInit, ChildrenInOrderInit,
       TargetsInit DEF Unmarshals
  <1>2. Unmarshals /\ [Next]_vars => Unmarshals'
    <2> SUFFICES ASSUME Unmarshals, [Next]_vars PROVE Unmarshals'
      OBVIOUS
    <2>1. Shaped'
      BY ShapedNext DEF Unmarshals
    <2>2. Bare' /\ WholeTexts'
      BY BareNext, TextIsWholeNext DEF Unmarshals
    <2>3. ScopesKnown' /\ TypesMeanTheirScope'
      BY ScopesNext DEF Unmarshals
    <2>4. RefsKnown' /\ ChildrenInOrder'
      BY <2>1, RefsKnownNext, ChildrenInOrderNext DEF Unmarshals
    <2>5. TargetsKnown' /\ MultiRefsAreJoined'
      BY TargetsNext, MultiRefsNext DEF Unmarshals
    <2> QED BY <2>1, <2>2, <2>3, <2>4, <2>5 DEF Unmarshals
  <1> QED BY <1>1, <1>2, PTL DEF Spec

\* Whatever the messages and wherever the parser cuts their texts, a string without
\* attributes and children keeps all the words of its text, in order, and with
\* preserveWhitespace the whitespace around them: ontext appends its piece to what an
\* earlier one left, trimmed or not (index.ts:446).
THEOREM TextsAreWhole == Spec => []TextIsWhole
  <1>1. Unmarshals => TextIsWhole
    BY TextsEnd DEF Unmarshals
  <1> QED BY <1>1, UnmarshalsAlways, PTL

\* While all that declared the prefix are open, an xsi:type means the type of its scope,
\* though p.xmlns is one table for the whole document (index.ts:246).
THEOREM TypesAreThoseOfTheirScope == Spec => []TypesMeanTheirScope
  <1>1. Unmarshals => TypesMeanTheirScope
    BY DEF Unmarshals
  <1> QED BY <1>1, UnmarshalsAlways, PTL

\* Nothing that is nested, repeated or told to be an array is lost or reordered by
\* onclosetag, however the elements are mixed (index.ts:345).
THEOREM ChildrenKeepTheirOrder == Spec => []ChildrenInOrder
  <1>1. Unmarshals => ChildrenInOrder
    BY DEF Unmarshals
  <1> QED BY <1>1, UnmarshalsAlways, PTL

\* Forward, backward or nested, a reference of multiRef style has the properties of what it
\* refers to when the document ends, whatever order the references are joined in: one
\* Object.assign does not undo another (index.ts:513).
THEOREM ReferencesAreJoined == Spec => []MultiRefsAreJoined
  <1>1. Unmarshals => MultiRefsAreJoined
    BY DEF Unmarshals
  <1> QED BY <1>1, UnmarshalsAlways, PTL

-----------------------------------------------------------------------------
(* Post-processing. *)

\* The messages of the WSDL, and their elements.
Defined == DOMAIN wsdl.messages
ElementOf(m) == wsdl.messages[m].element

\* Tables of messages, and methods whose binding has not been read.
Tables == UNION {[D -> Defined] : D \in SUBSET Names}
NewMethod == [input : Defined \cup {NoMessage}, output : Defined \cup {NoMessage},
              style : {""}, action : {""}]
NewMethods == UNION {[D -> NewMethod] : D \in SUBSET Names}

\* Messages are entered under their names and under those of their elements.
Entries(ms) ==
    Defined \subseteq DOMAIN ms /\ \A n \in DOMAIN ms : ms[n] = n \/ ElementOf(ms[n]) = n

\* Under the name of the element e there is a message that has it.
Owned(ms, e) == e \in DOMAIN ms /\ ElementOf(ms[e]) = e

\* What is owned in ms is so in ns.
StillOwned(ms, ns) == \A e : Owned(ms, e) => Owned(ns, e)

\* The element of m, if it has one, is owned.
Aliased(ms, m) == m # NoMessage /\ ElementOf(m) # NoMessage => Owned(ms, ElementOf(m))

\* m is what the name stands for.
Named(m, name) ==
    \/ m = Side([n \in Defined |-> n], name)
    \/ \E other \in Defined : other # name /\ ElementOf(other) = name

\* What post-processing of operations may have come to, when E are owned from the beginning.
Posted(E) ==
    {d \in [messages : Tables, methods : NewMethods] :
        /\ Entries(d.messages)
        /\ \A e \in E : Owned(d.messages, e)
        /\ \A op \in DOMAIN d.methods : /\ Aliased(d.messages, d.methods[op].input)
                                        /\ Aliased(d.messages, d.methods[op].output)}

\* The WSDL is one of those that may be loaded.
LEMMA WsdlIs ==
    ASSUME wsdl \in Wsdls
    PROVE  /\ Wsdl(wsdl) /\ Defined \subseteq Names /\ NoMessage \notin Names
           /\ \A m \in Defined : ElementOf(m) \in MessageName
  BY WsdlsAssumption DEF Wsdl, Defined, ElementOf

\* A table is a function on some of the names.
LEMMA TablesAre ==
    ASSUME NEW ms
    PROVE  ms \in Tables <=> ms \in [DOMAIN ms -> Defined] /\ DOMAIN ms \in SUBSET Names
  BY DEF Tables

\* So are the methods of a portType before its binding is read.
LEMMA MethodsAre ==
    ASSUME NEW ms
    PROVE  ms \in NewMethods <=> ms \in [DOMAIN ms -> NewMethod] /\ DOMAIN ms \in SUBSET Names
  BY DEF NewMethods

\* A side of an operation is what its name stands for.
LEMMA SideIs ==
    ASSUME wsdl \in Wsdls, NEW ms \in Tables, Entries(ms), NEW name \in MessageName
    PROVE  Side(ms, name) \in Defined \cup {NoMessage} /\ Named(Side(ms, name), name)
  <1>1. ms \in [DOMAIN ms -> Defined]
    BY TablesAre
  <1>2. CASE name \in DOMAIN ms
    <2>1. Side(ms, name) = ms[name] /\ ms[name] \in Defined
      BY <1>1, <1>2 DEF Side
    <2>2. CASE ms[name] = name
      <3>1. Side([n \in Defined |-> n], name) = name
        BY <2>1, <2>2 DEF Side
      <3> QED BY <2>1, <2>2, <3>1 DEF Named
    <2>3. CASE ms[name] # name
      <3>1. ElementOf(ms[name]) = name
        BY <1>2, <2>3 DEF Entries
      <3> QED BY <2>1, <2>3, <3>1 DEF Named
    <2> QED BY <2>2, <2>3
  <1>3. CASE name \notin DOMAIN ms
    <2>1. Side(ms, name) = NoMessage /\ Side([n \in Defined |-> n], name) = NoMessage
      BY <1>3 DEF Side, Entries
    <2> QED BY <2>1 DEF Named
  <1> QED BY <1>2, <1>3

\* An alias of an element keeps the table one, and what is owned in it.
LEMMA AliasIs ==
    ASSUME wsdl \in Wsdls, NEW ms \in Tables, Entries(ms), NEW m \in Defined \cup {NoMessage},
           NEW ns, ns = AliasElement(ms, m)
    PROVE  ns \in Tables /\ Entries(ns) /\ StillOwned(ms, ns) /\ Aliased(ns, m)
  <1>1. ms \in [DOMAIN ms -> Defined] /\ DOMAIN ms \in SUBSET Names
    BY TablesAre
  <1>2. CASE m = NoMessage \/ ElementOf(m) = NoMessage
    <2>1. ns = ms
      BY <1>2 DEF AliasElement, ElementOf
    <2> QED BY <1>2, <2>1 DEF StillOwned, Aliased
  <1>3. CASE m # NoMessage /\ ElementOf(m) # NoMessage
    <2>1. PICK e : e = ElementOf(m) /\ e \in Names /\ m \in Defined
      BY <1>3, WsdlIs DEF MessageName
    <2>2. ns = Entered(ms, e, m)
      BY <1>3, <2>1 DEF AliasElement, ElementOf, NameOf
    <2>3. /\ DOMAIN ns = DOMAIN ms \cup {e}
          /\ \A n \in DOMAIN ns : ns[n] = IF n = e THEN m ELSE ms[n]
      BY <2>2 DEF Entered
    <2>4. ns \in Tables
      <3>1. ns = [n \in DOMAIN ms \cup {e} |-> IF n = e THEN m ELSE ms[n]]
        BY <2>2 DEF Entered
      <3>2. ns \in [DOMAIN ns -> Defined] /\ DOMAIN ns \in SUBSET Names
        BY <1>1, <2>1, <2>3, <3>1
      <3> QED BY <3>2, TablesAre
    <2>5. Entries(ns)
      BY <2>1, <2>3 DEF Entries
    <2>6. StillOwned(ms, ns)
      BY <2>1, <2>3 DEF StillOwned, Owned
    <2>7. Aliased(ns, m)
      BY <2>1, <2>3 DEF Aliased, Owned
    <2> QED BY <2>4, <2>5, <2>6, <2>7
  <1> QED BY <1>2, <1>3

\* One operation more: e has become the methods d.
MethodAdded(d, e, op) ==
    \E in, out :
       /\ Named(in, op.input) /\ Named(out, op.output)
       /\ e.methods = Entered(d.methods, op.name,
                              [input |-> in, output |-> out, style |-> "", action |-> ""])

\* An operation adds its method; what was posted before it stays.
LEMMA OperationIs ==
    ASSUME wsdl \in Wsdls, NEW E, NEW d \in Posted(E), NEW op \in OperationType
    PROVE  /\ PostProcessOperation(d, op) \in Posted(E)
           /\ MethodAdded(d, PostProcessOperation(d, op), op)
  <1>1. /\ d.messages \in Tables /\ d.methods \in NewMethods /\ Entries(d.messages)
        /\ op.name \in Names /\ op.input \in MessageName /\ op.output \in MessageName
    BY DEF Posted, OperationType
  <1>2. PICK in : in = Side(d.messages, op.input)
    OBVIOUS
  <1>3. in \in Defined \cup {NoMessage} /\ Named(in, op.input)
    BY <1>1, <1>2, SideIs
  <1>4. PICK ms : ms = AliasElement(d.messages, in)
    OBVIOUS
  <1>5. ms \in Tables /\ Entries(ms) /\ StillOwned(d.messages, ms) /\ Aliased(ms, in)
    BY <1>1, <1>3, <1>4, AliasIs
  <1>6. PICK out : out = Side(ms, op.output)
    OBVIOUS
  <1>7. out \in Defined \cup {NoMessage} /\ Named(out, op.output)
    BY <1>1, <1>5, <1>6, SideIs
  <1>8. PICK ns : ns = AliasElement(ms, out)
    OBVIOUS
  <1>9. ns \in Tables /\ Entries(ns) /\ StillOwned(ms, ns) /\ Aliased(ns, out)
    BY <1>5, <1>7, <1>8, AliasIs
  <1>10. Aliased(ns, in) /\ StillOwned(d.messages, ns)
    BY <1>5, <1>9 DEF Aliased, StillOwned
  <1>11. PICK method : method = [input |-> in, output |-> out, style |-> "", action |-> ""]
    OBVIOUS
  <1>12. PICK after : after = Entered(d.methods, op.name, method)
    OBVIOUS
  <1>13. PostProcessOperation(d, op) = [messages |-> ns, methods |-> after]
    BY <1>2, <1>4, <1>6, <1>8, <1>11, <1>12 DEF PostProcessOperation
  <1>14. /\ DOMAIN after = DOMAIN d.methods \cup {op.name}
         /\ \A o \in DOMAIN after : after[o] = IF o = op.name THEN method ELSE d.methods[o]
    BY <1>12 DEF Entered
  <1>15. after \in NewMethods
    <2>1. d.methods \in [DOMAIN d.methods -> NewMethod] /\ DOMAIN d.methods \in SUBSET Names
      BY <1>1, MethodsAre
    <2>2. method \in NewMethod
      BY <1>3, <1>7, <1>11 DEF NewMethod
    <2>3. after = [o \in DOMAIN d.methods \cup {op.name} |->
                      IF o = op.name THEN method ELSE d.methods[o]]
      BY <1>12 DEF Entered
    <2>4. after \in [DOMAIN after -> NewMethod] /\ DOMAIN after \in SUBSET Names
      BY <1>1, <2>1, <2>2, <2>3
    <2> QED BY <2>4, MethodsAre
  <1>16. ASSUME NEW o \in DOMAIN after
         PROVE  Aliased(ns, after[o].input) /\ Aliased(ns, after[o].output)
    <2>1. CASE o = op.name
      <3>1. after[o] = method
        BY <1>14, <2>1
      <3>2. method.input = in /\ method.output = out
        BY <1>11
      <3> QED BY <1>9, <1>10, <3>1, <3>2
    <2>2. CASE o # op.name
      <3>1. o \in DOMAIN d.methods /\ after[o] = d.methods[o]
        BY <1>14, <2>2
      <3>2. Aliased(d.messages, d.methods[o].input) /\ Aliased(d.messages, d.methods[o].output)
        BY <3>1 DEF Posted
      <3> QED BY <1>10, <3>1, <3>2 DEF Aliased, StillOwned
    <2> QED BY <2>1, <2>2
  <1>17. \A e \in E : Owned(ns, e)
    BY <1>10 DEF Posted, StillOwned
  <1>18. PostProcessOperation(d, op) \in Posted(E)
    BY <1>9, <1>13, <1>15, <1>16, <1>17 DEF Posted
  <1>19. MethodAdded(d, PostProcessOperation(d, op), op)
    <2>1. PostProcessOperation(d, op).methods = after
      BY <1>13
    <2>2. after = Entered(d.methods, op.name,
                          [input |-> in, output |-> out, style |-> "", action |-> ""])
      BY <1>11, <1>12
    <2>3. PostProcessOperation(d, op).methods =
            Entered(d.methods, op.name,
                    [input |-> in, output |-> out, style |-> "", action |-> ""])
      BY <2>1, <2>2
    <2> QED BY <1>3, <1>7, <2>3 DEF MethodAdded
  <1> QED BY <1>18, <1>19

\* Operations posted one after the other.
PostAlong(base, ops) ==
    CHOOSE it : it = [T \in SUBSET DOMAIN ops |->
        IF T = {} THEN base ELSE PostProcessOperation(it[T \ {Max(T)}], ops[Max(T)])]

\* The fold of PostProcessPortType, by the prefixes of its operations.
LEMMA PostIs ==
    ASSUME NEW base, NEW ops
    PROVE  FoldLeft(PostProcessOperation, base, ops) = PostAlong(base, ops)[DOMAIN ops]
  BY DEF FoldLeft, MapThenFoldSet, PostAlong

\* p goes from base to all operations posted.
PostsUp(p, base, ops, n) ==
    /\ p[0] = base /\ p[n] = FoldLeft(PostProcessOperation, base, ops)
    /\ \A k \in 1..n : p[k] = PostProcessOperation(p[k - 1], ops[k])

\* That fold, as a run: one operation after the other.
LEMMA PostRuns ==
    ASSUME wsdl \in Wsdls, NEW E, NEW base \in Posted(E), NEW n \in Nat,
           NEW ops \in [1..n -> OperationType]
    PROVE  \E p \in [0..n -> Posted(E)] : PostsUp(p, base, ops, n)
  <1> DEFINE X == Posted(E)
             step == [q \in X \X (1..n) |-> PostProcessOperation(q[1], ops[q[2]])]
  <1>1. ASSUME NEW g \in X, NEW k \in 1..n
        PROVE  /\ PostProcessOperation(g, ops[k]) \in X
               /\ step[<<g, k>>] = PostProcessOperation(g, ops[k])
    <2>1. PostProcessOperation(g, ops[k]) \in X
      BY OperationIs
    <2> QED BY <2>1
  <1>2. step \in [X \X (1..n) -> X]
    BY <1>1
  <1>3. base \in X
    OBVIOUS
  <1> HIDE DEF step, X
  <1>4. PICK f \in [SUBSET (1..n) -> X] : FoldsTo(f, base, step, n)
    BY <1>2, <1>3, FoldRuns
  <1>5. ASSUME NEW T \in SUBSET (1..n), T # {}
        PROVE  Max(T) \in 1..n /\ T \ {Max(T)} \in SUBSET (1..n)
    BY <1>5, MaxOfNats
  <1>6. ASSUME NEW T \in SUBSET (1..n)
        PROVE  f[T] = IF T = {} THEN base
                      ELSE PostProcessOperation(f[T \ {Max(T)}], ops[Max(T)])
    <2>1. f[T] = IF T = {} THEN base ELSE step[<<f[T \ {Max(T)}], Max(T)>>]
      BY <1>4 DEF FoldsTo
    <2>2. CASE T # {}
      <3>1. Max(T) \in 1..n /\ f[T \ {Max(T)}] \in X
        BY <1>4, <1>5, <2>2
      <3> QED BY <1>1, <2>1, <2>2, <3>1
    <2> QED BY <2>1, <2>2
  <1>7. DOMAIN ops = 1..n
    OBVIOUS
  <1>8. f = [T \in SUBSET DOMAIN ops |->
               IF T = {} THEN base ELSE PostProcessOperation(f[T \ {Max(T)}], ops[Max(T)])]
    BY <1>4, <1>6, <1>7
  <1>9. PICK it : it = PostAlong(base, ops) /\ it = [T \in SUBSET DOMAIN ops |->
               IF T = {} THEN base ELSE PostProcessOperation(it[T \ {Max(T)}], ops[Max(T)])]
    <2>1. PostAlong(base, ops) = [T \in SUBSET DOMAIN ops |->
             IF T = {} THEN base
             ELSE PostProcessOperation(PostAlong(base, ops)[T \ {Max(T)}], ops[Max(T)])]
      BY <1>8 DEF PostAlong
    <2> QED BY <2>1
  <1>10. FoldLeft(PostProcessOperation, base, ops) = it[1..n]
    BY <1>7, <1>9, PostIs
  <1>11. it[{}] = base
    BY <1>7, <1>9
  <1>12. ASSUME NEW T \in SUBSET (1..n), T # {}, it[T \ {Max(T)}] \in X
         PROVE  it[T] = step[<<it[T \ {Max(T)}], Max(T)>>]
    <2>1. it[T] = PostProcessOperation(it[T \ {Max(T)}], ops[Max(T)])
      BY <1>7, <1>9, <1>12
    <2> QED BY <1>1, <1>5, <1>12, <2>1
  <1>13. PICK p \in [0..n -> X] :
              /\ p[0] = base /\ p[n] = it[1..n]
              /\ \A k \in 1..n : p[k] = step[<<p[k - 1], k>>]
    <2>1. Steps(it, X, step, n)
      BY <1>12 DEF Steps
    <2>2. \E p \in [0..n -> X] : Runs(p, base, it[1..n], step, n)
      BY <1>2, <1>3, <1>11, <2>1, FoldChain
    <2> QED BY <2>2 DEF Runs
  <1>14. ASSUME NEW k \in 1..n PROVE p[k] = PostProcessOperation(p[k - 1], ops[k])
    <2>1. p[k - 1] \in X
      BY <1>13
    <2> QED BY <1>1, <1>13, <2>1
  <1> QED BY <1>10, <1>13, <1>14 DEF X, PostsUp

\* Each of the methods ms is that of the last of the first k operations that has its name.
SidesFound(ms, ops, k) ==
    \A op \in DOMAIN ms :
       \E i \in 1..k : /\ ops[i].name = op /\ \A j \in (i + 1)..k : ops[j].name # op
                       /\ Named(ms[op].input, ops[i].input)
                       /\ Named(ms[op].output, ops[i].output)

\* One operation more, and the methods are still those of the last of each name.
LEMMA SidesFoundFurther ==
    ASSUME NEW d, NEW e, NEW ops, NEW k \in Nat, SidesFound(d.methods, ops, k),
           MethodAdded(d, e, ops[k + 1])
    PROVE  SidesFound(e.methods, ops, k + 1)
  <1>1. PICK in, out : /\ Named(in, ops[k + 1].input) /\ Named(out, ops[k + 1].output)
                       /\ e.methods = Entered(d.methods, ops[k + 1].name,
                             [input |-> in, output |-> out, style |-> "", action |-> ""])
    BY DEF MethodAdded
  <1>2. PICK method : method = [input |-> in, output |-> out, style |-> "", action |-> ""]
    OBVIOUS
  <1>3. /\ DOMAIN e.methods = DOMAIN d.methods \cup {ops[k + 1].name}
        /\ \A o \in DOMAIN e.methods :
              e.methods[o] = IF o = ops[k + 1].name THEN method ELSE d.methods[o]
    BY <1>1, <1>2 DEF Entered
  <1>4. ASSUME NEW op \in DOMAIN e.methods
        PROVE  \E i \in 1..(k + 1) :
                  /\ ops[i].name = op /\ \A j \in (i + 1)..(k + 1) : ops[j].name # op
                  /\ Named(e.methods[op].input, ops[i].input)
                  /\ Named(e.methods[op].output, ops[i].output)
    <2>1. CASE op = ops[k + 1].name
      <3>1. k + 1 \in 1..(k + 1) /\ \A j \in ((k + 1) + 1)..(k + 1) : ops[j].name # op
        OBVIOUS
      <3>2. e.methods[op] = method
        BY <1>3, <2>1
      <3>5. method.input = in /\ method.output = out
        BY <1>2
      <3>3. e.methods[op].input = in /\ e.methods[op].output = out
        BY <3>2, <3>5
      <3>4. /\ Named(e.methods[op].input, ops[k + 1].input)
            /\ Named(e.methods[op].output, ops[k + 1].output)
        BY <1>1, <3>3
      <3> QED BY <2>1, <3>1, <3>4
    <2>2. CASE op # ops[k + 1].name
      <3>1. op \in DOMAIN d.methods /\ e.methods[op] = d.methods[op]
        BY <1>3, <2>2
      <3>2. PICK i \in 1..k : /\ ops[i].name = op /\ \A j \in (i + 1)..k : ops[j].name # op
                              /\ Named(d.methods[op].input, ops[i].input)
                              /\ Named(d.methods[op].output, ops[i].output)
        BY <3>1 DEF SidesFound
      <3>3. i \in 1..(k + 1) /\ \A j \in (i + 1)..(k + 1) : j \in (i + 1)..k \/ j = k + 1
        OBVIOUS
      <3>4. \A j \in (i + 1)..(k + 1) : ops[j].name # op
        BY <2>2, <3>2, <3>3
      <3> QED BY <3>1, <3>2, <3>3, <3>4
    <2> QED BY <2>1, <2>2
  <1> QED BY <1>4 DEF SidesFound

\* What posting the operations of a portType comes to.
LEMMA PostedAre ==
    ASSUME wsdl \in Wsdls, NEW E, NEW base \in Posted(E), base.methods = <<>>,
           NEW ops \in Seq(OperationType), NEW d, d = FoldLeft(PostProcessOperation, base, ops)
    PROVE  d \in Posted(E) /\ SidesFound(d.methods, ops, Len(ops))
  <1>1. PICK n \in Nat : n = Len(ops) /\ ops \in [1..n -> OperationType]
    OBVIOUS
  <1>2. PICK p \in [0..n -> Posted(E)] : PostsUp(p, base, ops, n)
    BY <1>1, PostRuns
  <1> DEFINE Z == {k \in Nat : k <= n => SidesFound(p[k].methods, ops, k)}
  <1>3. 0 \in Z
    <2>1. DOMAIN p[0].methods = {}
      BY <1>2 DEF PostsUp
    <2> QED BY <2>1 DEF SidesFound
  <1>4. ASSUME NEW k \in Z PROVE k + 1 \in Z
    <2> SUFFICES ASSUME k + 1 <= n PROVE SidesFound(p[k + 1].methods, ops, k + 1)
      OBVIOUS
    <2>1. k \in Nat /\ k \in 0..n /\ k + 1 \in 1..n /\ (k + 1) - 1 = k
      OBVIOUS
    <2>2. SidesFound(p[k].methods, ops, k)
      BY <2>1
    <2>3. p[k + 1] = PostProcessOperation(p[k], ops[k + 1])
      BY <1>2, <2>1 DEF PostsUp
    <2>4. p[k] \in Posted(E) /\ ops[k + 1] \in OperationType
      BY <1>1, <2>1
    <2>5. MethodAdded(p[k], p[k + 1], ops[k + 1])
      BY <2>3, <2>4, OperationIs
    <2> QED BY <2>1, <2>2, <2>5, SidesFoundFurther
  <1>5. Z \in SUBSET Nat
    OBVIOUS
  <1> HIDE DEF Z
  <1>6. n \in Z
    BY <1>3, <1>4, <1>5, NatSet
  <1>7. d = p[n] /\ n \in 0..n /\ p[n] \in Posted(E)
    BY <1>2 DEF PostsUp
  <1> QED BY <1>1, <1>6, <1>7 DEF Z

-----------------------------------------------------------------------------
(* The tables of a WSDL. *)

\* The WSDL has a portType of that name.
HasType(name) == \E i \in DOMAIN wsdl.portTypes : wsdl.portTypes[i].name = name

\* m has the fields of a method.
IsMethod(m) ==
    m = [input |-> m.input, output |-> m.output, style |-> m.style, action |-> m.action]

\* m is the method of the operation op of the portType pt, and the elements of its messages
\* are in the table ms.
MethodOf(pt, op, m, ms) ==
    /\ m.input \in Defined \cup {NoMessage} /\ m.output \in Defined \cup {NoMessage}
    /\ IsMethod(m)
    /\ Named(m.input, Operation(pt, op).input) /\ Named(m.output, Operation(pt, op).output)
    /\ Aliased(ms, m.input) /\ Aliased(ms, m.output)

MethodsOf(pt, mm, ms) ==
    /\ mm = [op \in DOMAIN mm |-> mm[op]]
    /\ \A op \in DOMAIN mm : MethodOf(pt, op, mm[op], ms)

\* The names of messages stand for them, or for messages with an element of that name.
NamesKept(ms) == \A n \in Defined : ms[n] = n \/ ElementOf(ms[n]) = n

\* The portType of a port, if there is one, has its methods.
PortRead(i) ==
    LET pt == wsdl.bindings[wsdl.ports[i]].portType
    IN  HasType(pt) => pt \in DOMAIN methods

\* The methods of a portType are complete once a port that exists has been read; a body is
\* read when all have.
Defs ==
    /\ wsdl \in Wsdls /\ done \in Nat /\ done <= Len(wsdl.ports)
    /\ messages \in Tables /\ Defined \subseteq DOMAIN messages /\ NamesKept(messages)
    /\ ~Ready => Entries(messages) /\ reads = {}
    /\ phase = "parsing" => Ready
    /\ methods = [pt \in DOMAIN methods |-> methods[pt]]
    /\ \A pt \in DOMAIN methods : HasType(pt) /\ MethodsOf(pt, methods[pt], messages)
    /\ \A i \in 1..done : PortRead(i)

\* A portType the WSDL has has operations.
LEMMA PortTypeIs ==
    ASSUME wsdl \in Wsdls, NEW name, HasType(name)
    PROVE  PortType(name).operations \in Seq(OperationType)
  <1> DEFINE I == {i \in 1..Len(wsdl.portTypes) : wsdl.portTypes[i].name = name}
  <1>1. wsdl.portTypes \in Seq([name : STRING, operations : Seq(OperationType)])
    BY WsdlIs DEF Wsdl
  <1>2. SelectInSeq(wsdl.portTypes, LAMBDA p : p.name = name) = IF I # {} THEN Min(I) ELSE 0
    BY DEF SelectInSeq
  <1>3. I \in SUBSET Nat /\ I # {}
    BY <1>1 DEF HasType
  <1>4. Min(I) \in I
    <2> HIDE DEF I
    <2> QED BY <1>3, MinOfNats
  <1>5. PortType(name) = wsdl.portTypes[Min(I)]
    BY <1>2, <1>3 DEF PortType
  <1>6. Min(I) \in 1..Len(wsdl.portTypes)
    BY <1>4
  <1> HIDE DEF I
  <1>7. PICK p : p = wsdl.portTypes[Min(I)]
    OBVIOUS
  <1>8. p \in [name : STRING, operations : Seq(OperationType)]
    BY <1>1, <1>6, <1>7, ElementOfSeq
  <1>9. p.operations \in Seq(OperationType)
    BY <1>8
  <1> QED BY <1>5, <1>7, <1>9

\* The operation of a method is the last of its name.
LEMMA OperationOf ==
    ASSUME NEW pt, NEW op, NEW ops \in Seq(OperationType), ops = PortType(pt).operations,
           NEW i \in 1..Len(ops), ops[i].name = op, \A j \in (i + 1)..Len(ops) : ops[j].name # op
    PROVE  Operation(pt, op) = ops[i]
  <1> DEFINE I == {j \in 1..Len(ops) : ops[j].name = op}
  <1>1. SelectLastInSeq(ops, LAMBDA o : o.name = op) = IF I # {} THEN Max(I) ELSE 0
    BY DEF SelectLastInSeq
  <1>2. I \in SUBSET Int /\ i \in I
    OBVIOUS
  <1>3. ASSUME NEW j \in I PROVE j <= i
    <2>1. j \in 1..Len(ops) /\ ops[j].name = op /\ Len(ops) \in Nat
      OBVIOUS
    <2> QED BY <2>1
  <1>4. Max(I) = i
    <2> HIDE DEF I
    <2> QED BY <1>2, <1>3, MaxIs
  <1>5. SelectLastInSeq(ops, LAMBDA o : o.name = op) = i
    BY <1>1, <1>2, <1>4
  <1> QED BY <1>5 DEF Operation

\* What the post-processing of a portType comes to.
LEMMA PortTypePosted ==
    ASSUME Defs, ~Ready, NEW name, HasType(name), NEW d, d = PostProcessPortType(name)
    PROVE  /\ d.messages \in Tables /\ Entries(d.messages) /\ StillOwned(messages, d.messages)
           /\ MethodsOf(name, d.methods, d.messages)
           /\ name \in DOMAIN methods => d.methods = methods[name]
  <1>1. wsdl \in Wsdls /\ messages \in Tables /\ Entries(messages)
    BY DEF Defs
  <1>2. CASE name \in DOMAIN methods
    <2>1. d = [messages |-> messages, methods |-> methods[name]]
      BY <1>2 DEF PostProcessPortType
    <2>2. d.messages = messages /\ d.methods = methods[name]
      BY <2>1
    <2>3. MethodsOf(name, methods[name], messages)
      BY <1>2 DEF Defs
    <2> QED BY <1>1, <2>2, <2>3 DEF StillOwned
  <1>3. CASE name \notin DOMAIN methods
    <2> DEFINE base == [messages |-> messages, methods |-> <<>>]
               E == {e \in DOMAIN messages : Owned(messages, e)}
    <2>1. PICK ops \in Seq(OperationType) : ops = PortType(name).operations
      BY <1>1, PortTypeIs
    <2>2. d = FoldLeft(PostProcessOperation, base, ops)
      BY <1>3, <2>1 DEF PostProcessPortType
    <2>3. base.messages = messages /\ base.methods = <<>>
      OBVIOUS
    <2>4. base \in Posted(E)
      <3>1. DOMAIN <<>> = {} /\ <<>> \in [DOMAIN <<>> -> NewMethod]
        OBVIOUS
      <3>2. <<>> \in NewMethods
        <4>1. DOMAIN <<>> \in SUBSET Names
          BY <3>1
        <4> QED BY <3>1, <4>1, MethodsAre
      <3>3. base \in [messages : Tables, methods : NewMethods]
        BY <1>1, <3>2
      <3> QED BY <1>1, <2>3, <3>1, <3>3 DEF Posted
    <2>5. PICK b : b = base
      OBVIOUS
    <2>6. d \in Posted(E) /\ SidesFound(d.methods, ops, Len(ops))
      <3> HIDE DEF E, base
      <3>1. b \in Posted(E) /\ b.methods = <<>> /\ d = FoldLeft(PostProcessOperation, b, ops)
        BY <2>2, <2>3, <2>4, <2>5
      <3> QED BY <1>1, <3>1, PostedAre
    <2>7. /\ d.messages \in Tables /\ d.methods \in NewMethods /\ Entries(d.messages)
          /\ \A op \in DOMAIN d.methods : /\ Aliased(d.messages, d.methods[op].input)
                                          /\ Aliased(d.messages, d.methods[op].output)
          /\ \A e \in E : Owned(d.messages, e)
      <3> HIDE DEF E
      <3> QED BY <2>6 DEF Posted
    <2>8. StillOwned(messages, d.messages)
      BY <2>7 DEF StillOwned, Owned
    <2>9. d.methods \in [DOMAIN d.methods -> NewMethod]
      BY <2>7, MethodsAre
    <2>10. ASSUME NEW op \in DOMAIN d.methods
           PROVE  MethodOf(name, op, d.methods[op], d.messages)
      <3>1. PICK m : m = d.methods[op]
        OBVIOUS
      <3>2. m \in NewMethod
        BY <2>9, <3>1
      <3>3. PICK i \in 1..Len(ops) :
               /\ ops[i].name = op /\ \A j \in (i + 1)..Len(ops) : ops[j].name # op
               /\ Named(m.input, ops[i].input) /\ Named(m.output, ops[i].output)
        BY <2>6, <3>1 DEF SidesFound
      <3>4. Operation(name, op) = ops[i]
        <4>1. /\ ops \in Seq(OperationType) /\ ops = PortType(name).operations
              /\ i \in 1..Len(ops) /\ ops[i].name = op
              /\ \A j \in (i + 1)..Len(ops) : ops[j].name # op
          BY <2>1, <3>3
        <4> HIDE DEF base, E
        <4> QED BY ONLY <4>1, OperationOf
      <3>5. /\ m.input \in Defined \cup {NoMessage} /\ m.output \in Defined \cup {NoMessage}
            /\ IsMethod(m)
        BY <3>2 DEF NewMethod, IsMethod
      <3>6. Aliased(d.messages, m.input) /\ Aliased(d.messages, m.output)
        BY <2>7, <3>1
      <3> QED BY <3>1, <3>3, <3>4, <3>5, <3>6 DEF MethodOf
    <2>11. d.methods = [op \in DOMAIN d.methods |-> d.methods[op]]
      BY <2>9
    <2> QED BY <1>3, <2>7, <2>8, <2>10, <2>11 DEF MethodsOf
  <1> QED BY <1>2, <1>3

\* What is said of the WSDL alone does not change with the state.
LEMMA SameWsdl ==
    ASSUME wsdl' = wsdl
    PROVE  /\ Defined' = Defined /\ Tables' = Tables
           /\ \A m : ElementOf(m)' = ElementOf(m)
           /\ \A pt, op : Operation(pt, op)' = Operation(pt, op)
           /\ \A pt : HasType(pt)' <=> HasType(pt)
  <1>1. Defined' = Defined /\ \A m : ElementOf(m)' = ElementOf(m)
    BY DEF Defined, ElementOf
  <1>2. Tables' = Tables
    BY <1>1 DEF Tables
  <1>3. \A pt : HasType(pt)' <=> HasType(pt)
    BY DEF HasType
  <1>4. ASSUME NEW pt, NEW op PROVE Operation(pt, op)' = Operation(pt, op)
    <2>1. PortType(pt)' = PortType(pt)
      BY DEF PortType, SelectInSeq
    <2> QED BY <2>1 DEF Operation, SelectLastInSeq
  <1> QED BY <1>1, <1>2, <1>3, <1>4

\* Neither does what is said of methods and a table.
LEMMA SameMethods ==
    ASSUME wsdl' = wsdl, NEW pt, NEW mm, NEW ms
    PROVE  MethodsOf(pt, mm, ms)' <=> MethodsOf(pt, mm, ms)
  <1>1. \A m, name : Named(m, name)' <=> Named(m, name)
    BY SameWsdl DEF Named, Side
  <1>2. \A m : Aliased(ms, m)' <=> Aliased(ms, m)
    BY SameWsdl DEF Aliased, Owned
  <1>3. \A op, m : MethodOf(pt, op, m, ms)' <=> MethodOf(pt, op, m, ms)
    BY SameWsdl, <1>1, <1>2 DEF MethodOf
  <1> QED BY <1>3 DEF MethodsOf

\* Methods stay right when nothing that is owned is lost.
LEMMA MethodsStay ==
    ASSUME NEW pt, NEW mm, NEW ms, NEW ns, StillOwned(ms, ns), MethodsOf(pt, mm, ms)
    PROVE  MethodsOf(pt, mm, ns)
  BY DEF MethodsOf, MethodOf, Aliased, StillOwned

\* What a binding writes on the method of an operation.
StyleOf(b, op) == IF b.operations[op].style # "" THEN b.operations[op].style ELSE b.style

ActionOf(b, op) == b.operations[op].action

\* The details of a binding leave the messages of a method alone.
LEMMA DetailsAre ==
    ASSUME NEW m, NEW b, NEW op, NEW e, e = Details(m, b, op), IsMethod(m)
    PROVE  /\ IsMethod(e)
           /\ e.input = m.input /\ e.output = m.output
           /\ e.style = StyleOf(b, op) /\ e.action = ActionOf(b, op)
  <1>1. PICK s : s = StyleOf(b, op)
    OBVIOUS
  <1>2. PICK a : a = ActionOf(b, op)
    OBVIOUS
  <1>3. e = [m EXCEPT !.style = s, !.action = a]
    BY <1>1, <1>2 DEF Details, StyleOf, ActionOf
  <1>4. PICK i, o, t, u : m = [input |-> i, output |-> o, style |-> t, action |-> u]
    BY DEF IsMethod
  <1>5. e = [input |-> i, output |-> o, style |-> s, action |-> a]
    BY <1>3, <1>4
  <1>6. m.input = i /\ m.output = o
    BY <1>4
  <1>7. e.input = i /\ e.output = o /\ e.style = s /\ e.action = a
    BY <1>5
  <1>8. IsMethod(e)
    BY <1>5, <1>7 DEF IsMethod
  <1> QED BY <1>1, <1>2, <1>6, <1>7, <1>8

\* The methods of a portType after a binding.
Detailed(mm, b) ==
    [op \in DOMAIN mm |-> IF op \in DOMAIN b.operations THEN Details(mm[op], b, op) ELSE mm[op]]

\* So the methods of a portType are still right after a binding.
LEMMA DetailedAre ==
    ASSUME NEW pt, NEW mm, NEW ms, NEW b, MethodsOf(pt, mm, ms)
    PROVE  MethodsOf(pt, Detailed(mm, b), ms)
  <1>1. PICK dd : dd = Detailed(mm, b)
    OBVIOUS
  <1>2. /\ DOMAIN dd = DOMAIN mm /\ dd = [op \in DOMAIN dd |-> dd[op]]
        /\ \A op \in DOMAIN mm :
              dd[op] = IF op \in DOMAIN b.operations THEN Details(mm[op], b, op) ELSE mm[op]
    BY <1>1 DEF Detailed
  <1>3. ASSUME NEW op \in DOMAIN mm PROVE MethodOf(pt, op, dd[op], ms)
    <2>1. PICK m : m = mm[op]
      OBVIOUS
    <2>2. MethodOf(pt, op, m, ms)
      BY <2>1 DEF MethodsOf
    <2>3. CASE op \in DOMAIN b.operations
      <3>1. dd[op] = Details(m, b, op)
        BY <1>2, <2>1, <2>3
      <3>2. PICK e : e = dd[op]
        OBVIOUS
      <3>3. IsMethod(m)
        BY <2>2 DEF MethodOf
      <3>4. e = Details(m, b, op)
        BY <3>1, <3>2
      <3>5. IsMethod(e) /\ e.input = m.input /\ e.output = m.output
        BY <3>3, <3>4, DetailsAre
      <3> QED BY <2>2, <3>2, <3>5 DEF MethodOf
    <2>4. CASE op \notin DOMAIN b.operations
      BY <1>2, <2>1, <2>2, <2>4
    <2> QED BY <2>3, <2>4
  <1> QED BY <1>1, <1>2, <1>3 DEF MethodsOf

\* What a port does: nothing, or one portType is posted with the details of the binding.
Posts(b, pt) ==
    \/ /\ messages' = messages /\ methods' = methods
       /\ HasType(pt) => \E i \in 1..done : wsdl.ports[i] = b
    \/ /\ HasType(pt) /\ \A i \in 1..done : wsdl.ports[i] # b
       /\ LET d == PostProcessPortType(pt)
          IN  /\ messages' = d.messages
              /\ methods' = Entered(methods, pt, Detailed(d.methods, wsdl.bindings[b]))

\* PostProcessPort does what Posts says.
LEMMA PortIs ==
    ASSUME PostProcessPort
    PROVE  /\ ~Ready /\ done' = done + 1 /\ wsdl' = wsdl
           /\ Posts(wsdl.ports[done + 1], wsdl.bindings[wsdl.ports[done + 1]].portType)
  BY DEF PostProcessPort, Posts, Detailed, HasType

\* Before the first port, the table has the messages under their names.
LEMMA DefsInit ==
    ASSUME WsdlInit, reads = {}, phase = "idle"
    PROVE  Defs
  <1>1. wsdl \in Wsdls /\ done = 0 /\ messages = [m \in Defined |-> m] /\ methods = <<>>
    BY DEF WsdlInit, Defined
  <1>2. Wsdl(wsdl) /\ Defined \subseteq Names
    BY <1>1, WsdlIs
  <1>3. messages \in Tables
    BY <1>1, <1>2, TablesAre
  <1>4. Entries(messages) /\ Defined \subseteq DOMAIN messages /\ NamesKept(messages)
    BY <1>1 DEF Entries, NamesKept
  <1>5. 0 <= Len(wsdl.ports)
    BY <1>2 DEF Wsdl
  <1>6. DOMAIN methods = {} /\ methods = [pt \in DOMAIN methods |-> methods[pt]]
    BY <1>1
  <1> QED BY <1>1, <1>3, <1>4, <1>5, <1>6 DEF Defs

\* A port keeps the tables right.
LEMMA DefsPort ==
    ASSUME Defs, PostProcessPort, UNCHANGED parseVars
    PROVE  Defs'
  <1>1. PICK b, pt : b = wsdl.ports[done + 1] /\ pt = wsdl.bindings[b].portType
    OBVIOUS
  <1>2. ~Ready /\ done' = done + 1 /\ wsdl' = wsdl /\ Posts(b, pt)
    BY <1>1, PortIs
  <1>3. /\ wsdl \in Wsdls /\ done \in Nat /\ messages \in Tables /\ Entries(messages)
        /\ Defined \subseteq DOMAIN messages /\ reads = {} /\ phase # "parsing"
        /\ done < Len(wsdl.ports) /\ Len(wsdl.ports) \in Nat
    <2>1. wsdl \in Wsdls /\ done \in Nat /\ done <= Len(wsdl.ports)
      BY DEF Defs
    <2>2. Len(wsdl.ports) \in Nat
      BY <2>1, WsdlIs DEF Wsdl
    <2>3. done # Len(wsdl.ports)
      BY <1>2 DEF Ready
    <2> QED BY <1>2, <2>1, <2>2, <2>3 DEF Defs
  <1>4. reads' = {} /\ phase' # "parsing"
    BY <1>3 DEF parseVars
  <1>5. \A p \in DOMAIN methods : HasType(p) /\ MethodsOf(p, methods[p], messages)
    BY DEF Defs
  <1>6. /\ messages' \in Tables /\ Entries(messages') /\ StillOwned(messages, messages')
        /\ methods' = [p \in DOMAIN methods' |-> methods'[p]]
        /\ DOMAIN methods \subseteq DOMAIN methods'
        /\ \A p \in DOMAIN methods' : HasType(p) /\ MethodsOf(p, methods'[p], messages')
        /\ HasType(pt) => pt \in DOMAIN methods' \/ \E i \in 1..done : wsdl.ports[i] = b
    <2>1. CASE messages' = messages /\ methods' = methods
      <3>1. StillOwned(messages, messages')
        BY <2>1 DEF StillOwned
      <3>2. methods = [p \in DOMAIN methods |-> methods[p]]
        BY DEF Defs
      <3>3. HasType(pt) => pt \in DOMAIN methods' \/ \E i \in 1..done : wsdl.ports[i] = b
        BY <1>2 DEF Posts, Entered
      <3> QED BY <1>3, <1>5, <2>1, <3>1, <3>2, <3>3
    <2>2. CASE /\ HasType(pt) /\ \A i \in 1..done : wsdl.ports[i] # b
               /\ LET d == PostProcessPortType(pt)
                  IN  /\ messages' = d.messages
                      /\ methods' = Entered(methods, pt, Detailed(d.methods, wsdl.bindings[b]))
      <3>1. PICK d : d = PostProcessPortType(pt)
        OBVIOUS
      <3>2. PICK mm : mm = Detailed(d.methods, wsdl.bindings[b])
        OBVIOUS
      <3>3. messages' = d.messages /\ methods' = Entered(methods, pt, mm)
        BY <2>2, <3>1, <3>2
      <3>4. /\ d.messages \in Tables /\ Entries(d.messages) /\ StillOwned(messages, d.messages)
            /\ MethodsOf(pt, d.methods, d.messages)
        BY <1>2, <2>2, <3>1, PortTypePosted
      <3>5. MethodsOf(pt, mm, d.messages)
        BY <3>2, <3>4, DetailedAre
      <3>6. PICK ms : ms = Entered(methods, pt, mm)
        OBVIOUS
      <3>7. /\ DOMAIN ms = DOMAIN methods \cup {pt} /\ ms = [p \in DOMAIN ms |-> ms[p]]
            /\ \A p \in DOMAIN ms : ms[p] = IF p = pt THEN mm ELSE methods[p]
        BY <3>6 DEF Entered
      <3>8. ASSUME NEW p \in DOMAIN ms PROVE HasType(p) /\ MethodsOf(p, ms[p], d.messages)
        <4>1. CASE p = pt
          BY <2>2, <3>5, <3>7, <4>1
        <4>2. CASE p # pt
          <5>1. p \in DOMAIN methods /\ ms[p] = methods[p]
            BY <3>7, <4>2
          <5>2. HasType(p) /\ MethodsOf(p, methods[p], messages)
            BY <1>5, <5>1
          <5> QED BY <3>4, <5>1, <5>2, MethodsStay
        <4> QED BY <4>1, <4>2
      <3> QED BY <3>3, <3>4, <3>6, <3>7, <3>8
    <2> QED BY <1>2, <2>1, <2>2 DEF Posts
  <1>7. /\ Defined' = Defined /\ Tables' = Tables /\ \A p : HasType(p)' <=> HasType(p)
    BY <1>2, SameWsdl
  <1>8. \A p \in DOMAIN methods' : HasType(p)' /\ MethodsOf(p, methods[p], messages)'
    BY <1>2, <1>6, <1>7, SameMethods
  <1>9. Entries(messages)'
    BY <1>2, <1>6, SameWsdl DEF Entries
  <1>10. (Defined \subseteq DOMAIN messages)' /\ NamesKept(messages)'
    BY <1>2, <1>6, <1>7, SameWsdl DEF Entries, NamesKept
  <1>11. ASSUME NEW i \in 1..done' PROVE PortRead(i)'
    <2>1. ASSUME NEW j \in 1..done, HasType(wsdl.bindings[wsdl.ports[j]].portType)
          PROVE  wsdl.bindings[wsdl.ports[j]].portType \in DOMAIN methods'
      BY <1>6, <2>1 DEF Defs, PortRead
    <2>2. CASE i \in 1..done
      BY <1>2, <1>7, <2>1, <2>2 DEF PortRead
    <2>3. CASE i = done + 1
      BY <1>1, <1>2, <1>6, <1>7, <2>1, <2>3 DEF PortRead
    <2> QED BY <1>2, <1>3, <2>2, <2>3
  <1>13. wsdl' \in Wsdls /\ done' \in Nat /\ done' <= Len(wsdl'.ports)
    BY <1>2, <1>3
  <1> QED BY <1>4, <1>6, <1>7, <1>8, <1>9, <1>10, <1>11, <1>13 DEF Defs

-----------------------------------------------------------------------------
(* The parser, and the tables. *)

\* What a step of the parser does to the tables: at most the first element of a Body is
\* looked up and read.
Read(name) ==
    LET found == Lookup(name)
    IN  /\ found.message # NoMessage
        /\ reads' = reads \cup {<<name, BodySchema(found)>>}
        /\ IF name \in DOMAIN messages THEN messages' = messages
           ELSE messages' = Entered(messages, name, found.message)

ParseStep ==
    /\ UNCHANGED <<wsdl, done, methods>>
    /\ phase' = "parsing" => Ready
    /\ \/ messages' = messages /\ reads' = reads
       \/ Ready /\ \E name \in Names : Read(name)

\* A start tag looks up and reads at most one message.
LEMMA OpenTagReads ==
    ASSUME NEW tag \in UNION Vocabularies, OpenTag(tag), Ready
    PROVE  ParseStep
  <1>1. tag.name \in Names
    BY UnmarshalAssumption DEF Tag
  <1>2. UNCHANGED <<wsdl, done, methods>>
    BY DEF OpenTag
  <1>3. (messages' = messages /\ reads' = reads) \/ Read(tag.name)
    <2>1. CASE objectName = NoMessage /\ Last(stack).tag.name = "Body" /\ tag.name # "Fault"
      <3>1. CASE Lookup(tag.name).message = NoMessage
        BY <2>1, <3>1 DEF OpenTag, Throw
      <3>2. CASE Lookup(tag.name).message # NoMessage
        BY <2>1, <3>2 DEF OpenTag, Read, CacheAlias
      <3> QED BY <3>1, <3>2
    <2>2. CASE ~(objectName = NoMessage /\ Last(stack).tag.name = "Body" /\ tag.name # "Fault")
      BY <2>2 DEF OpenTag
    <2> QED BY <2>1, <2>2
  <1> QED BY <1>1, <1>2, <1>3 DEF ParseStep

\* Every step is that of a port, or one of the parser.
LEMMA ParseSteps ==
    ASSUME Defs, [Next]_vars
    PROVE  (PostProcessPort /\ UNCHANGED parseVars) \/ ParseStep
  <1>1. phase = "parsing" => Ready
    BY DEF Defs
  <1>2. CASE Begin
    BY <1>2 DEF Begin, wsdlVars, ParseStep
  <1>3. ASSUME NEW tag \in UNION Vocabularies, OpenTag(tag) PROVE ParseStep
    <2>1. Ready
      BY <1>1, <1>3 DEF OpenTag
    <2> QED BY <1>3, <2>1, OpenTagReads
  <1>4. CASE CloseTag
    BY <1>1, <1>4 DEF CloseTag, wsdlVars, ParseStep
  <1>5. ASSUME NEW piece, OnText(piece) \/ OnWhitespace(piece) PROVE ParseStep
    BY <1>1, <1>5 DEF OnText, OnWhitespace, wsdlVars, ParseStep
  <1>6. CASE Finish
    BY <1>1, <1>6 DEF Finish, wsdlVars, ParseStep
  <1>7. CASE UNCHANGED vars
    BY <1>1, <1>7 DEF vars, wsdlVars, parseVars, ParseStep
  <1> QED BY <1>2, <1>3, <1>4, <1>5, <1>6, <1>7 DEF Next

\* The message that is found is one of the WSDL.
LEMMA FoundIs ==
    ASSUME Defs, Ready, NEW name \in Names, NEW found, found = Lookup(name),
           found.message # NoMessage
    PROVE  /\ found.message \in Defined
           /\ name \in DOMAIN messages => found = [message |-> messages[name], name |-> name]
           /\ name \notin DOMAIN messages =>
                 \E pt \in DOMAIN methods : \E op \in DOMAIN methods[pt] :
                    /\ op = Suffix[name].base
                    /\ LET m == IF Suffix[name].input THEN methods[pt][op].input
                                ELSE methods[pt][op].output
                       IN  /\ m \in Defined
                           /\ NameOf(m) \in DOMAIN messages
                           /\ found = [message |-> messages[NameOf(m)], name |-> NameOf(m)]
                           /\ NameOf(messages[NameOf(m)]) = NameOf(m)
  <1>1. /\ wsdl \in Wsdls /\ messages \in [DOMAIN messages -> Defined]
        /\ Defined \subseteq DOMAIN messages
    BY TablesAre DEF Defs
  <1>2. CASE name \in DOMAIN messages
    BY <1>1, <1>2 DEF Lookup
  <1>3. CASE name \notin DOMAIN messages
    <2>1. PICK m : m = SideNamed(name)
      OBVIOUS
    <2>2. m # NoMessage /\ found = [message |-> messages[NameOf(m)], name |-> NameOf(m)]
      BY <1>3, <2>1 DEF Lookup
    <2> DEFINE op == Suffix[name].base
               I == {i \in 1..Len(wsdl.portTypes) :
                        /\ wsdl.portTypes[i].name \in DOMAIN methods
                        /\ op \in DOMAIN methods[wsdl.portTypes[i].name]}
    <2>3. PortTypeWith(op) = IF I # {} THEN Min(I) ELSE 0
      BY DEF PortTypeWith, SelectInSeq
    <2>4. PortTypeWith(op) # 0
      BY <2>1, <2>2 DEF SideNamed
    <2>5. PortTypeWith(op) \in I
      <3>1. I \in SUBSET Nat
        OBVIOUS
      <3> HIDE DEF I
      <3> QED BY <2>3, <2>4, <3>1, MinOfNats
    <2>6. PICK pt : pt = wsdl.portTypes[PortTypeWith(op)].name
      OBVIOUS
    <2>7. pt \in DOMAIN methods /\ op \in DOMAIN methods[pt]
      BY <2>5, <2>6
    <2>8. m = IF Suffix[name].input THEN methods[pt][op].input ELSE methods[pt][op].output
      BY <2>1, <2>4, <2>6 DEF SideNamed
    <2>9. MethodOf(pt, op, methods[pt][op], messages)
      BY <2>7 DEF Defs, MethodsOf
    <2>10. m \in Defined /\ Aliased(messages, m)
      BY <2>2, <2>8, <2>9 DEF MethodOf
    <2>11. NameOf(m) \in DOMAIN messages /\ NameOf(messages[NameOf(m)]) = NameOf(m)
      <3>1. CASE ElementOf(m) = NoMessage
        <4>1. NameOf(m) = m /\ m \in DOMAIN messages
          BY <1>1, <2>10, <3>1 DEF NameOf, ElementOf
        <4>2. messages[m] = m \/ ElementOf(messages[m]) = m
          BY <2>10 DEF Defs, NamesKept
        <4> QED BY <1>1, <2>2, <2>10, <4>1, <4>2, WsdlIs DEF NameOf, ElementOf
      <3>2. CASE ElementOf(m) # NoMessage
        BY <2>2, <2>10, <3>2 DEF NameOf, ElementOf, Aliased, Owned
      <3> QED BY <3>1, <3>2
    <2>12. found.message \in Defined
      BY <1>1, <2>2, <2>11
    <2> HIDE DEF I
    <2> QED BY <1>3, <2>2, <2>7, <2>8, <2>10, <2>11, <2>12
  <1> QED BY <1>2, <1>3

\* The parser keeps the tables right: an alias is a new name.
LEMMA DefsParse ==
    ASSUME Defs, ParseStep
    PROVE  Defs'
  <1>1. UNCHANGED <<wsdl, done, methods>> /\ (phase' = "parsing" => Ready)
    BY DEF ParseStep
  <1>2. /\ messages' \in Tables /\ StillOwned(messages, messages')
        /\ Defined \subseteq DOMAIN messages' /\ NamesKept(messages')
    <2>1. CASE messages' = messages
      BY <2>1 DEF Defs, StillOwned
    <2>2. CASE Ready /\ \E name \in Names : Read(name) /\ name \notin DOMAIN messages
      <3>1. PICK name \in Names : Read(name) /\ name \notin DOMAIN messages
        BY <2>2
      <3>2. PICK found : found = Lookup(name)
        OBVIOUS
      <3>3. found.message # NoMessage /\ messages' = Entered(messages, name, found.message)
        BY <3>1, <3>2 DEF Read
      <3>4. found.message \in Defined
        BY <2>2, <3>2, <3>3, FoundIs
      <3>5. PICK ms, m : ms = Entered(messages, name, m) /\ m = found.message
        OBVIOUS
      <3>6. /\ messages \in [DOMAIN messages -> Defined] /\ DOMAIN messages \in SUBSET Names
            /\ Defined \subseteq DOMAIN messages
        BY TablesAre DEF Defs
      <3>7. /\ ms = [n \in DOMAIN messages \cup {name} |-> IF n = name THEN m ELSE messages[n]]
            /\ DOMAIN ms = DOMAIN messages \cup {name}
        BY <3>5 DEF Entered
      <3>8. ms \in [DOMAIN ms -> Defined] /\ DOMAIN ms \in SUBSET Names
        BY <3>1, <3>4, <3>5, <3>6, <3>7
      <3>9. ms \in Tables /\ Defined \subseteq DOMAIN ms
        BY <3>6, <3>7, <3>8, TablesAre
      <3>10. \A e \in DOMAIN messages : ms[e] = messages[e]
        BY <3>1, <3>7
      <3>11. StillOwned(messages, ms)
        BY <3>7, <3>10 DEF StillOwned, Owned
      <3>12. NamesKept(ms)
        BY <3>6, <3>10 DEF Defs, NamesKept
      <3> QED BY <3>3, <3>5, <3>9, <3>11, <3>12
    <2>3. \A name : Read(name) => messages' = messages \/ name \notin DOMAIN messages
      BY DEF Read
    <2> QED BY <2>1, <2>2, <2>3 DEF ParseStep
  <1>3. \A pt \in DOMAIN methods : HasType(pt) /\ MethodsOf(pt, methods[pt], messages')
    BY <1>2, MethodsStay DEF Defs
  <1>4. \A pt \in DOMAIN methods' : HasType(pt)' /\ MethodsOf(pt, methods[pt], messages)'
    BY <1>1, <1>3, SameWsdl, SameMethods
  <1>5. Ready' = Ready
    BY <1>1 DEF Ready
  <1>6. ~Ready' => Entries(messages)' /\ reads' = {}
    <2> SUFFICES ASSUME ~Ready PROVE Entries(messages)' /\ reads' = {}
      BY <1>5
    <2>1. messages' = messages /\ reads' = reads /\ Entries(messages) /\ reads = {}
      BY DEF ParseStep, Defs
    <2> QED BY <1>1, <2>1, SameWsdl DEF Entries
  <1>7. \A i \in 1..done' : PortRead(i)'
    BY <1>1, SameWsdl DEF Defs, PortRead
  <1>8. messages' \in Tables' /\ (Defined \subseteq DOMAIN messages)' /\ NamesKept(messages)'
    BY <1>1, <1>2, SameWsdl DEF NamesKept
  <1>9. wsdl' \in Wsdls /\ done' \in Nat /\ done' <= Len(wsdl'.ports)
    BY <1>1 DEF Defs
  <1>10. methods' = [pt \in DOMAIN methods' |-> methods'[pt]]
    BY <1>1 DEF Defs
  <1> QED BY <1>1, <1>4, <1>5, <1>6, <1>7, <1>8, <1>9, <1>10 DEF Defs

\* So does every step.
LEMMA DefsSteps ==
    ASSUME Defs, [Next]_vars
    PROVE  Defs'
  BY ParseSteps, DefsPort, DefsParse

\* The tables of a WSDL, from its beginning on.
THEOREM DefsAlways == Spec => []Defs
  <1>1. Init => Defs
    BY DefsInit DEF Init
  <1>2. Defs /\ [Next]_vars => Defs'
    BY DefsSteps
  <1> QED BY <1>1, <1>2, PTL DEF Spec

\* Whatever order ports are read in, a method has the messages its operation names, though
\* the aliases of elements are in the same table (elements.ts:904).
THEOREM OperationsKeepMessages == Spec => []OperationsKeepTheirMessages
  <1>1. Defs => OperationsKeepTheirMessages
    BY DEF Defs, MethodsOf, MethodOf, Named, OperationsKeepTheirMessages, Defined, ElementOf
  <1> QED BY <1>1, DefsAlways, PTL

-----------------------------------------------------------------------------
(* What the elements of a Body are read with. *)

\* What MessagesKeepTheirTypes says of the elements of messages, and of all others.
OwnersOf(e) == {m \in Defined : ElementOf(m) = e}

OfItsOwner(r) ==
    \A m \in OwnersOf(r[1]) : Processed(m) /\ OwnersOf(r[1]) = {m} => r[2] = wsdl.messages[m].type

OfASide(r) ==
    \/ r[1] \in Defined \/ r[2] = NoSchema \/ OwnersOf(r[1]) # {}
    \/ \E p \in DOMAIN methods : \E op \in DOMAIN methods[p] :
          /\ op = Suffix[r[1]].base
          /\ LET m == IF Suffix[r[1]].input THEN methods[p][op].input ELSE methods[p][op].output
             IN  /\ m \in Defined
                 /\ \E n \in Defined : NameOf(n) = NameOf(m) /\ r[2] = wsdl.messages[n].type

ReadRight == \A r \in reads : OfItsOwner(r) /\ OfASide(r)

\* An element of one message is read with the type of that message.
LEMMA OwnerFound ==
    ASSUME Defs, Ready, NEW name \in Names, NEW found, found = Lookup(name),
           NEW m \in OwnersOf(name), Processed(m), OwnersOf(name) = {m}
    PROVE  BodySchema(found) = wsdl.messages[m].type
  <1>1. PICK pt, op : /\ pt \in DOMAIN methods /\ op \in DOMAIN methods[pt]
                      /\ m \in {methods[pt][op].input, methods[pt][op].output}
    BY DEF Processed
  <1>2. MethodOf(pt, op, methods[pt][op], messages)
    BY <1>1 DEF Defs, MethodsOf
  <1>3. Aliased(messages, m)
    BY <1>1, <1>2 DEF MethodOf
  <1>4. m \in Defined /\ ElementOf(m) = name /\ name # NoMessage /\ NoMessage \notin Defined
    <2>1. wsdl \in Wsdls
      BY DEF Defs
    <2> QED BY <2>1, WsdlIs DEF OwnersOf
  <1>5. name \in DOMAIN messages /\ ElementOf(messages[name]) = name
    BY <1>3, <1>4 DEF Aliased, Owned
  <1>6. messages[name] \in Defined
    BY <1>5, TablesAre DEF Defs
  <1>7. messages[name] = m
    BY <1>5, <1>6 DEF OwnersOf
  <1>8. found = [message |-> m, name |-> name]
    BY <1>5, <1>7 DEF Lookup
  <1>9. found.message = m /\ found.name = name
    BY <1>8
  <1>10. NameOf(m) = name
    BY <1>4 DEF NameOf, ElementOf
  <1> QED BY <1>9, <1>10 DEF BodySchema

\* Another one with that of a side of an operation, or of what the side's name stands for.
LEMMA SideFound ==
    ASSUME Defs, Ready, NEW name \in Names, NEW found, found = Lookup(name),
           found.message # NoMessage, NEW r, r = <<name, BodySchema(found)>>
    PROVE  OfASide(r)
  <1>1. r[1] = name /\ r[2] = BodySchema(found)
    OBVIOUS
  <1> SUFFICES ASSUME r[2] # NoSchema, name \notin Defined, OwnersOf(name) = {}
               PROVE  OfASide(r)
    BY <1>1 DEF OfASide
  <1>2. /\ Processed(found.message) /\ found.name = NameOf(found.message)
        /\ r[2] = wsdl.messages[found.message].type
    BY <1>1 DEF BodySchema
  <1>3. found.message \in Defined
    BY FoundIs
  <1>4. name \notin DOMAIN messages
    <2> SUFFICES ASSUME name \in DOMAIN messages PROVE FALSE
      OBVIOUS
    <2>1. found = [message |-> messages[name], name |-> name]
      BY FoundIs
    <2>2. found.name = name
      BY <2>1
    <2>3. NameOf(found.message) = found.message \/ ElementOf(found.message) = name
      BY <1>2, <2>2 DEF NameOf, ElementOf
    <2> QED BY <1>2, <1>3, <2>2, <2>3 DEF OwnersOf
  <1>5. PICK pt, op, m :
           /\ pt \in DOMAIN methods /\ op \in DOMAIN methods[pt]
           /\ op = Suffix[name].base
           /\ m = IF Suffix[name].input THEN methods[pt][op].input ELSE methods[pt][op].output
           /\ m \in Defined
           /\ found = [message |-> messages[NameOf(m)], name |-> NameOf(m)]
           /\ NameOf(messages[NameOf(m)]) = NameOf(m)
    BY <1>4, FoundIs
  <1>6. found.message = messages[NameOf(m)]
    BY <1>5
  <1>7. \E n \in Defined : NameOf(n) = NameOf(m) /\ r[2] = wsdl.messages[n].type
    BY <1>2, <1>3, <1>5, <1>6
  <1> QED BY <1>1, <1>5, <1>7 DEF OfASide

\* What was read before stays right, and what is read is.
LEMMA ReadRightSteps ==
    ASSUME Defs, ReadRight, [Next]_vars
    PROVE  ReadRight'
  <1>1. CASE PostProcessPort /\ UNCHANGED parseVars
    <2>1. ~Ready /\ reads' = reads
      BY <1>1, PortIs DEF parseVars
    <2>2. reads' = {}
      BY <2>1 DEF Defs
    <2> QED BY <2>2 DEF ReadRight
  <1>2. CASE ParseStep
    <2>1. wsdl' = wsdl /\ methods' = methods
      BY <1>2 DEF ParseStep
    <2>2. \A r \in reads' : OfItsOwner(r) /\ OfASide(r)
      <3>1. CASE reads' = reads
        BY <3>1 DEF ReadRight
      <3>2. ASSUME NEW name \in Names, Ready, Read(name)
            PROVE  \A r \in reads' : OfItsOwner(r) /\ OfASide(r)
        <4>1. PICK found : found = Lookup(name)
          OBVIOUS
        <4>2. PICK s : s = <<name, BodySchema(found)>>
          OBVIOUS
        <4>3. found.message # NoMessage /\ reads' = reads \cup {s}
          BY <3>2, <4>1, <4>2 DEF Read
        <4>4. OfASide(s)
          BY <3>2, <4>1, <4>2, <4>3, SideFound
        <4>5. OfItsOwner(s)
          BY <3>2, <4>1, <4>2, OwnerFound DEF OfItsOwner
        <4> QED BY <4>3, <4>4, <4>5 DEF ReadRight
      <3> QED BY <1>2, <3>1, <3>2 DEF ParseStep
    <2>3. /\ \A r : OfItsOwner(r)' <=> OfItsOwner(r)
      BY <2>1, SameWsdl DEF OfItsOwner, OwnersOf, Processed
    <2>4. \A r : OfASide(r)' <=> OfASide(r)
      BY <2>1, SameWsdl DEF OfASide, OwnersOf, NameOf
    <2> QED BY <2>2, <2>3, <2>4 DEF ReadRight
  <1> QED BY <1>1, <1>2, ParseSteps

\* However many documents were read before, and whatever aliases they left (index.ts:315),
\* the element of a message is read with the type of that message, and one named after an
\* operation with that of its side.
THEOREM MessagesKeepTypes == Spec => []MessagesKeepTheirTypes
  <1>1. Init => ReadRight
    BY DEF Init, ReadRight
  <1>2. Defs /\ ReadRight /\ [Next]_vars => ReadRight'
    BY ReadRightSteps
  <1>3. ReadRight => MessagesKeepTheirTypes
    BY DEF ReadRight, OfItsOwner, OfASide, OwnersOf, Defined, ElementOf, MessagesKeepTheirTypes
  <1> QED BY <1>1, <1>2, <1>3, DefsAlways, PTL DEF Spec

-----------------------------------------------------------------------------
(* What the bindings write. *)

\* The ports read so far whose binding has details for op, first ports of bindings only.
UsersOf(pt, op) ==
    {i \in 1..done : /\ wsdl.bindings[wsdl.ports[i]].portType = pt
                     /\ op \in DOMAIN wsdl.bindings[wsdl.ports[i]].operations
                     /\ \A j \in 1..(i - 1) : wsdl.ports[j] # wsdl.ports[i]}

\* The method m has the details of the binding b.
Detail(m, b, op) ==
    /\ m.action = b.operations[op].action
    /\ m.style \in {b.operations[op].style, b.style}
    /\ m.style = "" => b.style = ""

OneBinding(pt, op) ==
    UsersOf(pt, op) # {} =>
       Detail(methods[pt][op], wsdl.bindings[wsdl.ports[Max(UsersOf(pt, op))]], op)

AllOneBinding ==
    \A pt \in DOMAIN methods : \A op \in DOMAIN methods[pt] : OneBinding(pt, op)

\* A method that is left alone by a port no binding of its has, keeps its details.
LEMMA SameUsers ==
    ASSUME NEW pt, NEW op, UsersOf(pt, op)' = UsersOf(pt, op), wsdl' = wsdl,
           methods'[pt][op] = methods[pt][op], OneBinding(pt, op)
    PROVE  OneBinding(pt, op)'
  BY DEF OneBinding, Detail

\* The next port is a user, or there are no more than before.
LEMMA UsersAre ==
    ASSUME done \in Nat, done' = done + 1, wsdl' = wsdl, NEW pt, NEW op,
           NEW b, b = wsdl.ports[done + 1]
    PROVE  IF /\ wsdl.bindings[b].portType = pt /\ op \in DOMAIN wsdl.bindings[b].operations
              /\ \A j \in 1..done : wsdl.ports[j] # b
           THEN done + 1 \in UsersOf(pt, op)' /\ Max(UsersOf(pt, op)') = done + 1
           ELSE UsersOf(pt, op)' = UsersOf(pt, op)
  <1> DEFINE U == UsersOf(pt, op)'
  <1>1. /\ \A i \in U : i \in 1..(done + 1) /\ i \in Int /\ i <= done + 1
        /\ \A i \in 1..done : i \in U <=> i \in UsersOf(pt, op)
        /\ done + 1 \in U <=>
              /\ wsdl.bindings[b].portType = pt /\ op \in DOMAIN wsdl.bindings[b].operations
              /\ \A j \in 1..done : wsdl.ports[j] # b
    BY DEF UsersOf
  <1>2. \A i \in UsersOf(pt, op) : i \in 1..done
    BY DEF UsersOf
  <1>3. CASE done + 1 \in U
    <2>1. U \in SUBSET Int
      BY <1>1
    <2> HIDE DEF U
    <2>2. Max(U) = done + 1
      BY <1>1, <1>3, <2>1, MaxIs
    <2> QED BY <1>1, <1>3, <2>2 DEF U
  <1>4. CASE done + 1 \notin U
    <2>1. \A i \in 1..(done + 1) : i \in 1..done \/ i = done + 1
      OBVIOUS
    <2>2. U = UsersOf(pt, op)
      BY <1>1, <1>2, <1>4, <2>1
    <2> QED BY <1>1, <1>4, <2>2
  <1> QED BY <1>3, <1>4

\* A port writes its details on the methods of its portType, and on no other.
LEMMA OneBindingPort ==
    ASSUME Defs, AllOneBinding, PostProcessPort
    PROVE  AllOneBinding'
  <1>1. PICK b : b = wsdl.ports[done + 1]
    OBVIOUS
  <1>2. PICK name, bb : bb = wsdl.bindings[b] /\ name = bb.portType
    OBVIOUS
  <1>3. ~Ready /\ done' = done + 1 /\ wsdl' = wsdl /\ Posts(b, name) /\ done \in Nat
    BY <1>1, <1>2, PortIs DEF Defs
  <1>4. CASE /\ messages' = messages /\ methods' = methods
             /\ HasType(name) => \E i \in 1..done : wsdl.ports[i] = b
    <2>1. ASSUME NEW pt \in DOMAIN methods, NEW op \in DOMAIN methods[pt]
          PROVE  OneBinding(pt, op)'
      <3>1. HasType(pt) /\ OneBinding(pt, op)
        BY DEF Defs, AllOneBinding
      <3>2. UsersOf(pt, op)' = UsersOf(pt, op)
        BY <1>1, <1>2, <1>3, <1>4, <3>1, UsersAre
      <3> QED BY <1>3, <1>4, <3>1, <3>2, SameUsers
    <2> QED BY <1>4, <2>1 DEF AllOneBinding
  <1>5. CASE /\ HasType(name) /\ \A i \in 1..done : wsdl.ports[i] # b
             /\ LET d == PostProcessPortType(name)
                IN  /\ messages' = d.messages
                    /\ methods' = Entered(methods, name, Detailed(d.methods, wsdl.bindings[b]))
    <2>1. PICK d : d = PostProcessPortType(name)
      OBVIOUS
    <2>2. PICK dm : dm = d.methods
      OBVIOUS
    <2>3. PICK mm : mm = Detailed(dm, bb)
      OBVIOUS
    <2>4. methods' = Entered(methods, name, mm)
      BY <1>2, <1>5, <2>1, <2>2, <2>3
    <2>5. /\ DOMAIN methods' = DOMAIN methods \cup {name}
          /\ \A p \in DOMAIN methods' : methods'[p] = IF p = name THEN mm ELSE methods[p]
      BY <2>4 DEF Entered
    <2>6. MethodsOf(name, dm, d.messages) /\ (name \in DOMAIN methods => dm = methods[name])
      BY <1>3, <1>5, <2>1, <2>2, PortTypePosted
    <2>7. /\ DOMAIN mm = DOMAIN dm
          /\ \A op \in DOMAIN dm :
                mm[op] = IF op \in DOMAIN bb.operations THEN Details(dm[op], bb, op) ELSE dm[op]
      BY <2>3 DEF Detailed
    <2>8. ASSUME NEW pt \in DOMAIN methods', NEW op \in DOMAIN methods'[pt]
          PROVE  OneBinding(pt, op)'
      <3>1. CASE pt # name
        <4>1. pt \in DOMAIN methods /\ methods'[pt] = methods[pt] /\ op \in DOMAIN methods[pt]
          BY <2>5, <3>1
        <4>2. OneBinding(pt, op)
          BY <4>1 DEF AllOneBinding
        <4>3. UsersOf(pt, op)' = UsersOf(pt, op)
          BY <1>1, <1>2, <1>3, <3>1, UsersAre
        <4> QED BY <1>3, <4>1, <4>2, <4>3, SameUsers
      <3>2. CASE pt = name /\ op \in DOMAIN bb.operations
        <4>1. methods'[pt][op] = Details(dm[op], bb, op) /\ op \in DOMAIN dm
          BY <2>5, <2>7, <3>2
        <4>2. PICK m, e : m = dm[op] /\ e = Details(m, bb, op)
          OBVIOUS
        <4>3. IsMethod(m)
          BY <2>6, <4>1, <4>2 DEF MethodsOf, MethodOf
        <4>4. e.style = StyleOf(bb, op) /\ e.action = ActionOf(bb, op)
          BY <4>2, <4>3, DetailsAre
        <4>5. Detail(e, bb, op)
          BY <4>4 DEF Detail, StyleOf, ActionOf
        <4>6. Max(UsersOf(pt, op)') = done + 1
          <5>1. /\ wsdl.bindings[b].portType = pt /\ op \in DOMAIN wsdl.bindings[b].operations
                /\ \A j \in 1..done : wsdl.ports[j] # b
            BY <1>2, <1>5, <3>2
          <5> QED BY <1>1, <1>3, <5>1, UsersAre
        <4>7. wsdl.bindings[wsdl.ports[Max(UsersOf(pt, op)')]] = bb
          BY <1>1, <1>2, <4>6
        <4>8. methods'[pt][op] = e
          BY <4>1, <4>2
        <4> QED BY <1>3, <4>5, <4>7, <4>8 DEF OneBinding, Detail
      <3>3. CASE pt = name /\ op \notin DOMAIN bb.operations
        <4>1. methods'[pt][op] = dm[op] /\ op \in DOMAIN dm
          BY <2>5, <2>7, <3>3
        <4>2. UsersOf(pt, op)' = UsersOf(pt, op)
          BY <1>1, <1>2, <1>3, <3>3, UsersAre
        <4>3. CASE name \in DOMAIN methods
          <5>1. OneBinding(pt, op) /\ methods[pt][op] = dm[op]
            BY <2>6, <3>3, <4>1, <4>3 DEF AllOneBinding
          <5> QED BY <1>3, <4>1, <4>2, <5>1, SameUsers
        <4>4. CASE name \notin DOMAIN methods
          <5>1. UsersOf(pt, op) = {}
            <6> SUFFICES ASSUME NEW i \in UsersOf(pt, op) PROVE FALSE
              OBVIOUS
            <6>1. i \in 1..done /\ wsdl.bindings[wsdl.ports[i]].portType = pt
              BY DEF UsersOf
            <6>2. PortRead(i)
              BY <6>1 DEF Defs
            <6> QED BY <1>5, <3>3, <4>4, <6>1, <6>2 DEF PortRead
          <5> QED BY <4>2, <5>1 DEF OneBinding
        <4> QED BY <4>3, <4>4
      <3> QED BY <3>1, <3>2, <3>3
    <2> QED BY <2>8 DEF AllOneBinding
  <1> QED BY <1>3, <1>4, <1>5 DEF Posts

\* The parser writes none.
LEMMA OneBindingParse ==
    ASSUME AllOneBinding, ParseStep
    PROVE  AllOneBinding'
  <1>1. wsdl' = wsdl /\ done' = done /\ methods' = methods
    BY DEF ParseStep
  <1>2. \A pt, op : UsersOf(pt, op)' = UsersOf(pt, op)
    BY <1>1 DEF UsersOf
  <1> QED BY <1>1, <1>2, SameUsers DEF AllOneBinding

\* However many bindings share a portType, the style and the soapAction of a method are from
\* one binding, the last that has the operation (elements.ts:1004).
THEOREM DetailsAreOfOneBinding == Spec => []DetailsOfOneBinding
  <1>1. Init => AllOneBinding
    BY DEF Init, WsdlInit, AllOneBinding
  <1>2. Defs /\ AllOneBinding /\ [Next]_vars => AllOneBinding'
    BY ParseSteps, OneBindingPort, OneBindingParse
  <1>3. AllOneBinding => DetailsOfOneBinding
    BY DEF AllOneBinding, OneBinding, Detail, UsersOf, DetailsOfOneBinding
  <1> QED BY <1>1, <1>2, <1>3, DefsAlways, PTL DEF Spec
=============================================================================
