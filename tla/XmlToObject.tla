----------------------------- MODULE XmlToObject -----------------------------
(***************************************************************************)
(* Unmarshalling (src/wsdl/index.ts, xmlToObject): the automaton over the   *)
(* events of the XML parser that builds the object of a document, with      *)
(* schemas found by message and by xsi:type, repeated elements, nil, and    *)
(* multiRef, where elements refer to others by href and id.                 *)
(*                                                                          *)
(* The events are those of any well-formed document with an envelope and a  *)
(* body in which ids are unique.  Objects are numbered in the order of      *)
(* their start tags: 1 is root, 2 the Envelope, 3 the Body.  A text is a    *)
(* sequence of the pieces the parser reports it in (it is cut at comments,  *)
(* at CDATA and, in a stream, at 64 KB), and each piece a word, with        *)
(* whitespace at its edges or without, or whitespace alone.  One prefix     *)
(* stands for all that an xsi:type may use.                                 *)
(*                                                                          *)
(* Left out are headers, customDeserializer, XML inside CDATA, documents    *)
(* without an envelope, names that every JavaScript object has, properties  *)
(* that a Date is given, and that 0 and false are falsy.  What is inside a  *)
(* Fault has no types here.                                                 *)
(***************************************************************************)
EXTENDS WsdlDefinitions

CONSTANTS
    Fields,         \* [complex schema -> [name -> schema]]
    Many,           \* [complex schema -> the names it lists as "name[]"]
    Scalars,        \* the schemas of numbers, booleans and dates
    Dates,          \* those of dates
    String,         \* the schema xs:string
    TypeNamed,      \* [Uri -> the schema of the type that xsi:types name, NoSchema for none]
    OuterUri,       \* what the envelope declares the prefix as
    Vocabularies,   \* the start tags a document may have: a set of sets of Tag
    Words, NoWord,  \* what is left of pieces of text when they are trimmed; of some, nothing
    Pieces,         \* the pieces of text a document may have; see Piece
    AttributesKey,  \* options.attributesKey
    ValueKey,       \* options.valueKey
    MaxDocuments,   \* bound: documents
    MaxNodes,       \* bound: elements and pieces of text inside the bodies of all documents
    MaxDepth        \* bound: open elements, with root, Envelope and Body

Uri == DOMAIN TypeNamed
NoUri == "no uri"
NoId == "no id"

\* A start tag: its name, id and href, xsi:nil, xsi:type, and a declaration of the prefix.
Tag == [name : Names, id : STRING, href : STRING, nil : BOOLEAN, type : BOOLEAN,
        decl : Uri \cup {NoUri}]

\* A piece of text: whether there is whitespace at its edges, and whether it is CDATA.
Piece == [word : Words \cup {NoWord}, edges : BOOLEAN, cdata : BOOLEAN]

\* Values of properties.  The attributes of an element are a value too.  A text is the
\* concatenation of its pieces.
Null == [kind |-> "null"]
NoValue == [kind |-> "no value"]
Text(s) == [kind |-> "text", text |-> s]
EmptyText == Text(<<>>)
Number == [kind |-> "number"]
Date == [kind |-> "date"]
Object(o) == [kind |-> "object", object |-> o]
Array(s) == [kind |-> "array", items |-> s]
Attributes(t) == [kind |-> "attributes", id |-> t.id, href |-> t.href]

\* No element has the name of the default valueKey, "$value".  One with the name of a valueKey
\* of the user's is lost when its parent has attributes and a text after it.
ASSUME UnmarshalAssumption ==
    /\ \A t \in UNION Vocabularies : t \in Tag
    /\ Pieces \subseteq Piece /\ NoWord \notin Words /\ Dates \subseteq Scalars
    /\ DOMAIN Many = DOMAIN Fields /\ String \notin DOMAIN Fields
    /\ Scalars \cap ({String, NoSchema} \cup DOMAIN Fields) = {}
    /\ OuterUri \in Uri /\ NoUri \notin Uri
    /\ ValueKey \notin Names
    /\ {MaxDocuments, MaxNodes, MaxDepth} \subseteq Nat

VARIABLES
    phase,      \* "idle", "parsing", "returned", "threw"
    heap,       \* the objects made: properties, and what a reader of the document would know
    stack,      \* the open elements, root first
    refs,       \* multiRef: a sequence of [id, hrefs, obj]
    xmlns,      \* what the prefix was declared as last
    objectName, \* the name of the message, NoMessage before it is looked up
    reads,      \* the schemas body elements were read with: a set of <<name, schema>>
    vocabulary, \* the start tags the document may have
    documents,  \* documents begun
    nodes       \* elements and pieces of text read

parseVars == <<phase, heap, stack, refs, xmlns, objectName, reads, vocabulary,
               documents, nodes>>
vars == <<wsdlVars, parseVars>>

\* Whether attributes other than declarations are on the tag.
HasAttributes(tag) == tag.id # NoId \/ tag.href # NoId \/ tag.nil \/ tag.type

\* tag, the values of the children that were closed into the object, as <<name, value>>, and
\* the pieces of text in the element that are words: what the object should tell.  white are
\* the others but CDATA, `text` of the open element, which preserveWhitespace asks for.
NewObject(tag) ==
    [props |-> IF HasAttributes(tag) THEN Entered(<<>>, AttributesKey, Attributes(tag)) ELSE <<>>,
     tag |-> tag, kids |-> <<>>, words |-> <<>>, white |-> <<>>]

\* value is what replaced the object of the element, NoValue while it is the object.
\* scope is what the prefix stands for inside the element.
Frame(tag, o, schema, scope) ==
    [tag |-> tag, obj |-> o, value |-> NoValue, schema |-> schema,
     scope |-> scope]

Plain(name) == [name |-> name, id |-> NoId, href |-> NoId, nil |-> FALSE, type |-> FALSE,
                decl |-> NoUri]

\* schema[name] or schema[name + '[]'].
Child(schema, name) ==
    IF schema \in DOMAIN Fields /\ name \in DOMAIN Fields[schema]
    THEN Fields[schema][name] ELSE NoSchema

IsMany(schema, name) == schema \in DOMAIN Fields /\ name \in Many[schema]

Init ==
    /\ WsdlInit
    /\ phase = "idle" /\ heap = <<>> /\ stack = <<>> /\ refs = <<>> /\ xmlns = OuterUri
    /\ objectName = NoMessage /\ reads = {} /\ vocabulary = {} /\ documents = 0 /\ nodes = 0

----------------------------------------------------------------------------
(* A document. *)

\* xmlToObject is called, and the start tags of Envelope and Body are read.
Begin ==
    /\ Ready /\ phase # "parsing" /\ documents < MaxDocuments /\ nodes < MaxNodes
    /\ documents' = documents + 1
    /\ phase' = "parsing"
    /\ LET open == <<Plain("root"), Plain("Envelope"), Plain("Body")>>
       IN  /\ heap' = [i \in 1..3 |-> NewObject(open[i])]
           /\ stack' = [i \in 1..3 |-> Frame(open[i], i, NoSchema, OuterUri)]
    /\ refs' = <<>> /\ xmlns' = OuterUri /\ objectName' = NoMessage
    /\ vocabulary' \in Vocabularies
    /\ UNCHANGED <<wsdlVars, reads, nodes>>

Throw ==
    /\ phase' = "threw"
    /\ UNCHANGED <<heap, stack, refs, xmlns, objectName, reads>>

\* refs with an entry for id.
Noted(rs, id) ==
    IF id = NoId \/ \E i \in DOMAIN rs : rs[i].id = id THEN rs
    ELSE Append(rs, [id |-> id, hrefs |-> <<>>, obj |-> 0])

Entry(rs, id) == SelectInSeq(rs, LAMBDA r : r.id = id)

\* Mutant: an href is only registered when its id was seen before.
NoteRefsBackwards(tag, o) ==
    LET known == \E i \in DOMAIN refs : refs[i].id = tag.href
    IN  Noted(IF known THEN [refs EXCEPT ![Entry(refs, tag.href)].hrefs = Append(@, o)] ELSE refs,
              tag.id)

\* What the start tag of object o adds to refs.
NoteRefs(tag, o) ==
    LET rs == Noted(refs, tag.href)
    IN  Noted(IF tag.href = NoId THEN rs
              ELSE [rs EXCEPT ![Entry(rs, tag.href)].hrefs = Append(@, o)],
              tag.id)

\* Mutant: the xsi:type is resolved before the declarations of its tag are read.
UriBefore(tag) == xmlns

\* What the prefix stands for, as far as the code knows, once the tag is read.
UriAfter(tag) == IF tag.decl = NoUri THEN xmlns ELSE tag.decl

\* p.onopentag.  The first element of the Body, unless it is a Fault, belongs to a message.
OpenTag(tag) ==
    /\ phase = "parsing" /\ nodes < MaxNodes /\ tag \in vocabulary /\ Len(stack) \in 3..MaxDepth
    /\ tag.id = NoId \/ \A o \in DOMAIN heap : heap[o].tag.id # tag.id
    /\ nodes' = nodes + 1
    /\ UNCHANGED <<wsdl, done, methods, vocabulary, documents>>
    /\ LET top     == Last(stack)
           o       == Len(heap) + 1
           uri     == UriAfter(tag)
           isBody  == objectName = NoMessage /\ top.tag.name = "Body" /\ tag.name # "Fault"
           found   == Lookup(tag.name)
           declared == IF isBody THEN BodySchema(found) ELSE Child(top.schema, tag.name)
           schema  == IF tag.type /\ TypeNamed[uri] # NoSchema THEN TypeNamed[uri] ELSE declared
           scope   == IF tag.decl = NoUri THEN top.scope ELSE tag.decl
       IN  IF isBody /\ found.message = NoMessage
           THEN Throw /\ UNCHANGED messages
           ELSE /\ heap' = Append(heap, NewObject(tag))
                /\ stack' = Append(stack, Frame(tag, o, schema, scope))
                /\ refs' = NoteRefs(tag, o)
                /\ xmlns' = uri
                /\ IF isBody
                   THEN /\ objectName' = tag.name
                        /\ reads' = reads \cup {<<tag.name, declared>>}
                        /\ IF tag.name \in DOMAIN messages THEN UNCHANGED messages
                           ELSE CacheAlias(tag.name, found)
                   ELSE UNCHANGED <<objectName, reads, messages>>
                /\ UNCHANGED phase

\* Mutant: an array is read front to back.
PutFirst(props, name, value, many) ==
    IF name \notin DOMAIN props
    THEN Entered(props, name, IF many THEN Array(<<value>>) ELSE value)
    ELSE IF props[name].kind = "array"
         THEN [props EXCEPT ![name].items = <<value>> \o @]
         ELSE [props EXCEPT ![name] = Array(<<@, value>>)]

\* How a value becomes a property: elements of one name are collected in an array, which
\* is made for the first one when the schema lists the name as an array.
Put(props, name, value, many) ==
    IF name \notin DOMAIN props
    THEN Entered(props, name, IF many THEN Array(<<value>>) ELSE value)
    ELSE IF props[name].kind = "array"
         THEN [props EXCEPT ![name].items = Append(@, value)]
         ELSE [props EXCEPT ![name] = Array(<<@, value>>)]

\* The value of an element at its end tag: an object without properties is null, or a
\* string, empty but for the whitespace that is preserved.
Value(cur) ==
    IF cur.tag.nil THEN Null
    ELSE IF cur.value # NoValue THEN cur.value
    ELSE IF DOMAIN heap[cur.obj].props # {} THEN Object(cur.obj)
    ELSE IF cur.schema # String THEN Null
    ELSE IF wsdl.preserveWhitespace THEN Text(heap[cur.obj].white) ELSE EmptyText

\* p.onclosetag.  A nil element leaves nothing unless options.handleNilAsNull is set.  An
\* element inside one that has become a text or a number is an exception, and so is an
\* array where the attributes are.  Inside one that has become a Date it is lost with the
\* object the Date replaced.
CloseTag ==
    /\ phase = "parsing" /\ Len(stack) > 1
    /\ UNCHANGED <<wsdlVars, xmlns, objectName, reads, vocabulary, documents, nodes>>
    /\ LET cur   == Last(stack)
           top   == stack[Len(stack) - 1]
           name  == cur.tag.name
           value == Value(cur)
           many  == IsMany(top.schema, name)
           taken == many /\ name \in DOMAIN heap[top.obj].props
                      /\ heap[top.obj].props[name].kind # "array"
       IN  IF cur.tag.nil /\ ~wsdl.nilAsNull
           THEN stack' = Front(stack) /\ UNCHANGED <<phase, heap, refs>>
           ELSE IF top.value \notin {NoValue, Date} \/ (top.value = NoValue /\ taken)
           THEN phase' = "threw" /\ UNCHANGED <<heap, stack, refs>>
           ELSE /\ stack' = Front(stack)
                /\ heap' = IF top.value = Date THEN heap
                           ELSE [heap EXCEPT ![top.obj].props = Put(@, name, value, many),
                                             ![top.obj].kids = Append(@, <<name, value>>)]
                /\ refs' = IF cur.tag.id = NoId THEN refs
                           ELSE [refs EXCEPT ![Entry(refs, cur.tag.id)].obj =
                                    IF value = Null THEN 0 ELSE cur.obj]
                /\ UNCHANGED phase

\* A piece as strings keep it.
AsKept(piece) == IF wsdl.preserveWhitespace THEN piece ELSE [piece EXCEPT !.edges = FALSE]

\* Mutant: a piece of text replaces those before it.
LastPiece(top, piece) ==
    IF top.schema \in Dates THEN Date
    ELSE IF top.schema \in Scalars THEN Number ELSE Text(<<AsKept(piece)>>)

\* The value after a piece of text: strings grow, other types are read from the piece alone.
ReadText(top, piece) ==
    IF top.schema \in Dates THEN Date
    ELSE IF top.schema \in Scalars THEN Number
    ELSE IF top.value.kind = "text" THEN Text(Append(top.value.text, AsKept(piece)))
    ELSE Text(<<AsKept(piece)>>)

\* p.ontext, and p.oncdata without XML inside, of a piece that is whitespace alone.
OnWhitespace(piece) ==
    /\ phase = "parsing" /\ nodes < MaxNodes /\ Len(stack) > 3
    /\ piece.word = NoWord
    /\ nodes' = nodes + 1
    /\ heap' = IF piece.cdata THEN heap
               ELSE [heap EXCEPT ![Last(stack).obj].white = Append(@, piece)]
    /\ UNCHANGED <<wsdlVars, phase, stack, refs, xmlns, objectName, reads, vocabulary, documents>>

\* The same, of any other piece.  The text replaces the object of an element without
\* attributes, and with it the children read so far.
OnText(piece) ==
    /\ phase = "parsing" /\ nodes < MaxNodes /\ Len(stack) > 3
    /\ piece.word # NoWord
    /\ nodes' = nodes + 1
    /\ LET n     == Len(stack)
           top   == stack[n]
           props == heap[top.obj].props
           value == ReadText(top, piece)
           keyed == /\ top.value = NoValue /\ AttributesKey \in DOMAIN props
                    /\ props[AttributesKey] \notin {Null, EmptyText}
       IN  /\ heap' = [heap EXCEPT ![top.obj].words = Append(@, piece),
                                   ![top.obj].props = IF keyed THEN Entered(@, ValueKey, value)
                                                         ELSE @]
           /\ stack' = IF keyed THEN stack ELSE [stack EXCEPT ![n].value = value]
    /\ UNCHANGED <<wsdlVars, phase, refs, xmlns, objectName, reads, vocabulary, documents>>

\* Object.assign(href.obj, ref.obj) for the hrefs of an id.
JoinRef(h, ref) ==
    [o \in DOMAIN h |->
        IF ref.obj = 0 \/ o \notin ToSet(ref.hrefs) THEN h[o]
        ELSE [h[o] EXCEPT !.props = Overlay(h[ref.obj].props, @)]]

\* The order in which the ids are visited is that of their first use, but for ids that are
\* numbers.
Join(h, rs) == FoldLeft(JoinRef, h, rs)

\* Whether root.Envelope.Body.Fault is there.
HasFault(h) ==
    /\ DOMAIN h[3].props # {} /\ h[2].props["Body"].kind = "object"
    /\ "Fault" \in DOMAIN h[3].props /\ h[3].props["Fault"] # Null

\* finish, after the end tag of the Envelope: multiRef, then a Fault is thrown.
Finish ==
    /\ phase = "parsing" /\ Len(stack) = 1
    /\ \E order \in SetToSeqs(ToSet(refs)) : heap' = Join(heap, order)
    /\ phase' = IF HasFault(heap') THEN "threw" ELSE "returned"
    /\ UNCHANGED <<wsdlVars, stack, refs, xmlns, objectName, reads, vocabulary, documents, nodes>>

Next ==
    \/ PostProcessPort /\ UNCHANGED parseVars
    \/ Begin
    \/ \E tag \in UNION Vocabularies : OpenTag(tag)
    \/ CloseTag
    \/ \E piece \in Pieces : OnText(piece) \/ OnWhitespace(piece)
    \/ Finish

Spec == Init /\ [][Next]_vars

----------------------------------------------------------------------------
(* Properties. *)

KidsNamed(o, name) ==
    LET kids == Only(heap[o].kids, {k \in ToSet(heap[o].kids) : k[1] = name})
    IN  [i \in DOMAIN kids |-> kids[i][2]]

ValuesAt(o, name) ==
    LET p     == heap[o].props
        items == IF name \notin DOMAIN p THEN <<>>
                 ELSE IF p[name].kind = "array" THEN p[name].items ELSE <<p[name]>>
    IN  Only(items, {v \in ToSet(items) : v.kind # "attributes"})

\* Whatever the schema says of them, the children of one name are in the object, in the
\* order of the document, even those whose name is that of the attributes.  Excepted are
\* multi-reference elements once they are joined, and what an element has after the text
\* of a date in it.
ChildrenInOrder ==
    \A o \in DOMAIN heap : \A name \in Names :
        heap[o].tag.href = NoId \/ phase = "parsing" => ValuesAt(o, name) = KidsNamed(o, name)

\* When the document has been read, an element with an href has the properties of the
\* element with that id, before or after it or around it, unless that is nil or refers to
\* a third one.
MultiRefsAreJoined ==
    phase = "returned" =>
      \A h, t \in DOMAIN heap :
          /\ heap[h].tag.href # NoId /\ heap[t].tag.id = heap[h].tag.href
          /\ ~heap[t].tag.nil /\ heap[t].tag.href = NoId
          => \A k \in DOMAIN heap[t].props : /\ k \in DOMAIN heap[h].props
                                             /\ heap[h].props[k] = heap[t].props[k]

WordsOf(text) == [j \in DOMAIN text |-> text[j].word]

\* Of a text nothing but whitespace is lost, and that at the edges of its pieces only: in
\* however many pieces the parser reports the text of an element without attributes and
\* children, if it ended here its value would be all of their words, in order, and with
\* preserveWhitespace all that was around them, too, but for pieces of whitespace alone.
TextIsWhole ==
    phase = "parsing" => \A i \in DOMAIN stack :
        LET o == heap[stack[i].obj]
            v == Value(stack[i])
        IN  stack[i].schema \notin Scalars /\ ~HasAttributes(o.tag) /\ o.kids = <<>> =>
            IF o.words = <<>> THEN v \in {Null, EmptyText} \/ wsdl.preserveWhitespace
            ELSE /\ v.kind = "text" /\ WordsOf(v.text) = WordsOf(o.words)
                 /\ wsdl.preserveWhitespace => v.text = o.words

\* A prefix in an xsi:type means what it means at that element, unless an element that has
\* ended declared it: the declarations of a document are never undone (index.ts:246).
TypesMeanTheirScope ==
    \A i \in DOMAIN stack :
        /\ stack[i].tag.type /\ TypeNamed[stack[i].scope] # NoSchema
        /\ \A o \in 1..(stack[i].obj - 1) :
              heap[o].tag.decl # NoUri => \E j \in 1..i : stack[j].obj = o
        => stack[i].schema = TypeNamed[stack[i].scope]

\* What an element of the Body is read with.  The element of a message: its type in every
\* document, whatever documents were read before.  One that is named after an operation: the
\* type of its input if the name ends in Request or Solicit, else that of its output, or none;
\* or that of another message that is read under the same name.
MessagesKeepTheirTypes ==
    \A r \in reads :
        LET names == DOMAIN wsdl.messages
            owners == {m \in names : wsdl.messages[m].element = r[1]}
        IN  /\ \A m \in owners : Processed(m) /\ owners = {m} => r[2] = wsdl.messages[m].type
            /\ \/ r[1] \in names \/ r[2] = NoSchema \/ owners # {}
               \/ \E p \in DOMAIN methods : \E op \in DOMAIN methods[p] :
                     /\ op = Suffix[r[1]].base
                     /\ LET m == IF Suffix[r[1]].input THEN methods[p][op].input
                                 ELSE methods[p][op].output
                        IN  /\ m \in names
                            /\ \E n \in names :
                                  NameOf(n) = NameOf(m) /\ r[2] = wsdl.messages[n].type

\* "'cache' this alias to speed future lookups" (index.ts:315): the element of a message is
\* read with the same schema in every document.
AliasIsTransparent == \A r, s \in reads : r[1] = s[1] => r[2] = s[2]
=============================================================================
