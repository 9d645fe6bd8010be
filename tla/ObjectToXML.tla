----------------------------- MODULE ObjectToXML -----------------------------
(***************************************************************************)
(* Marshalling (src/wsdl/index.ts, objectToXML): the walk over an argument  *)
(* object and its schema, the prefixes it writes on elements and the xmlns  *)
(* attributes it writes for them.                                           *)
(*                                                                          *)
(* frames are the activations of the recursive function and Begin is the    *)
(* call from outside.  The object is chosen while it is walked; a value     *)
(* without properties is an object that is left at once.  The code          *)
(* writes an element's start tag after its content; it is known before, and *)
(* is kept here in the frame that marshals the content, so that the tags of *)
(* frames are the elements open around the place that is being written.     *)
(*                                                                          *)
(* Left out are overrideRootElement, overrideElementKey, ignoreBaseNameSpaces,*)
(* namespaceArrayElements = false, prefixes in the user's own keys, and the *)
(* default namespace, which unprefixed elements are in.                     *)
(***************************************************************************)
EXTENDS NamespaceContext

CONSTANTS
    Schemas,      \* the namespaces definitions.schemas has a schema for
    Qualified,    \* those of them with elementFormDefault="qualified"
    Xmlns,        \* [Schemas -> [Prefix \cup {Tns} -> Uri \cup {NoUri}]]: schema.xmlns, then
                  \* definitions.xmlns, NoUri for a prefix that is in neither
    Xsd,          \* the namespace of XML Schema
    Elements,     \* [Schemas -> SUBSET ElementType]: what its types may contain
    Roots,        \* the message elements: a set of [prefix, uri]
    XsiTypes,     \* the xsi_type of the user's objects: a set of [prefix, uri], NoPrefix for none
    Ignored,      \* options.ignoredNamespaces, which lists prefixes
    Envelope,     \* the declarations of the envelope: a set of Declaration
    Inside,       \* the pairs <<p, text>> where p occurs in a text it is not equal to
    MaxDepth,     \* bound: nested activations
    MaxElements   \* bound: properties and array items of one object

Tns == "__tns__"
NoType == "none"

\* An element of a type, by $name (prefix Tns) or by $ref.  form is "" for the default.
ElementType ==
    [ref : BOOLEAN, prefix : Prefix \cup {Tns}, target : Uri,
     form : {"qualified", "unqualified", ""}, type : Prefix \cup {Tns, NoType}]
Declaration == [prefix : Prefix, uri : Uri]
NoXsi == [prefix |-> NoPrefix, uri |-> NoUri]

ASSUME SchemaAssumption ==
    /\ Qualified \subseteq Schemas /\ Schemas \subseteq Uri /\ Xsd \in Uri \ Schemas
    /\ \A u \in Schemas : Elements[u] \subseteq ElementType
    /\ \A p \in Prefix : p \notin {NoPrefix, Tns, NoType}
\* The names the schemas give to elements and types have prefixes that are bound.
ASSUME XmlnsAssumption ==
    \A u \in Schemas :
        /\ Xmlns[u] \in [Prefix \cup {Tns} -> Uri \cup {NoUri}]
        /\ \A e \in Elements[u] : \A p \in {e.prefix, e.type} \ {NoType} : Xmlns[u][p] # NoUri
ASSUME ObjectAssumption ==
    /\ Roots \subseteq Declaration
    /\ XsiTypes \subseteq [prefix : Prefix \cup {NoPrefix}, uri : Uri]
    /\ Envelope \subseteq Declaration /\ Ignored \subseteq Prefix
    /\ MaxDepth \in Nat /\ MaxElements \in Nat

VARIABLES
    frames,     \* the activations of objectToXML, innermost last
    ctx,        \* nsContext
    elements    \* properties and items visited so far

vars == <<frames, ctx, elements>>

\* A start tag: its prefix, the namespace the schema has the element in (NoUri when no schema
\* says), the declarations written on it, and the prefixes whose declaration it lacks: those that
\* it does not declare, or not as one namespace, as the code takes it to.
Tag == [prefix : Prefix \cup {NoPrefix}, uri : Uri \cup {NoUri}, decls : SUBSET Declaration,
        omitted : SUBSET Prefix]
NoTag == [prefix |-> NoPrefix, uri |-> NoUri, decls |-> {}, omitted |-> {}]

\* parent and means: nsPrefix.parent of an array, and the namespace its items are in.
Frame ==
    [kind : {"object", "array"}, first : BOOLEAN, typed : BOOLEAN,
     prefix : Prefix \cup {NoPrefix}, uri : Uri \cup {NoUri},
     parent : Prefix \cup {NoPrefix}, means : Uri \cup {NoUri},
     xsi : Declaration \cup {NoXsi}, ns : Prefix \cup {NoPrefix},
     decls : Seq(Declaration), childDecl : Seq(Declaration), omitted : SUBSET Prefix, tag : Tag]

Init ==
    /\ frames = <<>>
    /\ ctx = [NewContext EXCEPT !.scopes = <<>>]
    /\ elements = 0

-----------------------------------------------------------------------------
(* One activation. *)

Lookup(uri, prefix) == IF prefix = NoPrefix THEN NoUri ELSE Xmlns[uri][prefix]

PrefixesOf(decls) == {d.prefix : d \in decls}

Unignored(prefix) == IF prefix \in Ignored THEN NoPrefix ELSE prefix

AttributeDecls(xsi) == {xsi} \ {NoXsi}

\* The prefix of the user's attributes when the context, a declaration of the schema's on the
\* same tag or the element itself has another namespace for it.
Clash(xsi, prefix, uri, decls, c) ==
    LET others == {d.uri : d \in {d \in decls : d.prefix = xsi.prefix}}
        own    == IF prefix = xsi.prefix THEN {uri} \ {NoUri} ELSE {}
    IN  IF xsi = NoXsi \/ others \cup own \cup {NamespaceURI(c, xsi.prefix)} = {xsi.uri} THEN {}
        ELSE {xsi.prefix}

\* The tag of a child of the activation f, in context c: it has all that f has declared so far.
StartTag(f, prefix, uri, xsi, c) ==
    [prefix |-> prefix, uri |-> uri, decls |-> ToSet(f.decls) \cup AttributeDecls(xsi),
     omitted |-> (f.omitted \ {xsi.prefix}) \cup Clash(xsi, prefix, uri, ToSet(f.decls), c)]

\* Up to the choice between array and object.  The prefix of the activation is written for
\* what has no prefix of its own, unless the schema is unqualified.
Activation(kind, first, typed, prefix, uri, tag) ==
    LET written == first \/ uri \in Qualified \/ uri \notin Schemas
    IN  [kind |-> kind, first |-> first, typed |-> typed, prefix |-> prefix, uri |-> uri,
         parent |-> NoPrefix, means |-> NoUri, xsi |-> NoXsi,
         ns |-> IF written THEN Unignored(prefix) ELSE NoPrefix,
         decls |-> IF first /\ prefix \notin Ignored
                   THEN <<[prefix |-> prefix, uri |-> uri]>> ELSE <<>>,
         childDecl |-> <<>>, omitted |-> {}, tag |-> tag]

Top == Last(frames)

\* processAttributes: a prefix the user gives is taken for declared from here on.
AttributesContext(xsi) ==
    IF xsi = NoXsi THEN ctx
    ELSE IF xsi.prefix = NoPrefix THEN RegisterNamespace(ctx, xsi.uri)
    ELSE DeclareNamespace(ctx, xsi.prefix, xsi.uri)

\* Mutant: the generated prefix does not reach the xsi_type.
AttributesUnnamed(xsi) == xsi

\* The xsi_type after processAttributes, which writes its prefix into the user's object.
Attributes(xsi) ==
    IF xsi = NoXsi \/ xsi.prefix # NoPrefix THEN xsi
    ELSE [xsi EXCEPT !.prefix = RegisteredPrefix(ctx, xsi.uri)]

\* An array has no attributes, and a prefix must be left to generate.
MayCarry(kind, xsi) == xsi = NoXsi \/ (kind = "object" /\ CanRegister(ctx, xsi.uri))

\* xmlnsAttrib.includes(prefix)
Includes(decls, prefix) ==
    \E d \in ToSet(decls) :
        prefix = d.prefix \/ \E text \in {"xmlns", d.prefix, d.uri} : <<prefix, text>> \in Inside

\* A step into the content of a child: f is the activation that goes on afterwards, g the new
\* one and context the namespaces of both.
Enter(f, g, context) ==
    /\ Len(frames) < MaxDepth
    /\ elements < MaxElements
    /\ frames' = Append([frames EXCEPT ![Len(frames)] = f], g)
    /\ ctx' = PushContext(context)
    /\ elements' = elements + 1

-----------------------------------------------------------------------------
(* The actions. *)

\* objectToDocumentXML, within the envelope, which is to declare a prefix that is ignored.
Begin(root, typed) ==
    LET declared == {d \in Envelope : d.prefix = root.prefix}
        envelope == [NoTag EXCEPT !.decls = Envelope,
                                  !.omitted = IF root.prefix \in Ignored /\ declared # {root}
                                              THEN {root.prefix} ELSE {}]
    IN  /\ frames = <<>>
        /\ frames' = <<Activation("object", TRUE, typed, root.prefix, root.uri, envelope)>>
        /\ ctx' = DeclareNamespace(NewContext, root.prefix, root.uri)
        /\ elements' = 0

\* The element of the message.  Unless its schema is qualified it has the prefix, ignored or not.
MessageElement(f, kind, xsi, known) ==
    LET ns == IF f.uri \in Qualified THEN f.ns ELSE f.prefix
        g == Activation(kind, FALSE, f.typed, f.prefix, f.uri, StartTag(f, ns, f.uri, xsi, known))
        items == [g EXCEPT !.means = f.uri, !.tag = NoTag,
                           !.omitted = f.omitted \cup PrefixesOf(ToSet(f.decls))]
    IN  /\ f.first
        /\ Enter([f EXCEPT !.ns = ns], IF kind = "array" THEN items ELSE [g EXCEPT !.xsi = xsi], known)

\* The prefix and the namespace of an element the schema has, in context c.
ElementPrefix(f, e, c) ==
    LET own == IF e.prefix = Tns THEN RegisteredPrefix(c, e.target) ELSE e.prefix
    IN  IF own \in Ignored THEN f.prefix ELSE own

ElementUri(f, e, c) ==
    IF e.prefix = Tns THEN e.target ELSE Lookup(f.uri, ElementPrefix(f, e, c))

Unqualified(uri, e) ==
    ~e.ref /\ (e.form = "unqualified" \/ (e.form = "" /\ uri \notin Qualified))

\* The namespaces once an element has its prefix, once that is declared, and with its type's.
RegisteredContext(e, c) == IF e.prefix = Tns THEN RegisterNamespace(c, e.target) ELSE c

DeclaredContext(prefix, uri, c) ==
    IF prefix = NoPrefix \/ uri = NoUri THEN c ELSE DeclareNamespace(c, prefix, uri)

TypeContext(f, e, c) ==
    IF e.type \in {NoType, Tns} \/ Lookup(f.uri, e.type) = Xsd THEN c
    ELSE AddNamespace(c, e.type, Lookup(f.uri, e.type))

ContentUri(f, e, uri) == IF e.type = NoType THEN uri ELSE Lookup(f.uri, e.type)

\* A declaration is written on the tags of the children from here on, or it is lost: the text of
\* another has its prefix in it.
Write(f, decl) ==
    IF ~Includes(f.decls, decl.prefix)
    THEN [f EXCEPT !.decls = Append(@, decl), !.childDecl = <<decl>>, !.omitted = @ \ {decl.prefix}]
    ELSE IF decl \in ToSet(f.decls) THEN f
    ELSE [f EXCEPT !.omitted = @ \cup {decl.prefix}]

\* The items of an array get the element's own declaration only, or when it has none the last
\* one that was written.  `named` are the namespaces once the element has its prefix.
EnterElement(f, e, kind, xsi, prefix, uri, named) ==
    LET new    == prefix # NoPrefix /\ uri # NoUri /\ Declares(named, prefix, uri)
        decl   == [prefix |-> prefix, uri |-> uri]
        after  == IF new THEN Write(f, decl) ELSE f
        own    == IF new THEN <<decl>> ELSE f.childDecl
        missed == after.omitted \cup PrefixesOf(ToSet(after.decls) \ ToSet(own))
        ns     == Unignored(prefix)
        means  == IF ns = NoPrefix THEN NoUri ELSE uri
        c      == DeclaredContext(prefix, uri, named)
        g      == Activation(kind, FALSE, TRUE, prefix, ContentUri(f, e, uri),
                             StartTag(after, ns, means, xsi, c))
        items  == [g EXCEPT !.parent = ns, !.means = means, !.decls = own, !.tag = NoTag,
                            !.omitted = missed \ (IF new THEN {prefix} ELSE {})]
    IN  Enter([after EXCEPT !.ns = ns], IF kind = "array" THEN items ELSE [g EXCEPT !.xsi = xsi],
              TypeContext(f, e, c))

\* A property the schema has an element for.
SchemaElement(f, e, kind, xsi, known) ==
    /\ ~f.first /\ f.typed
    /\ e.prefix = Tns => CanRegister(known, e.target)
    /\ EnterElement(f, e, kind, xsi,
                    IF Unqualified(f.uri, e) THEN NoPrefix ELSE ElementPrefix(f, e, known),
                    ElementUri(f, e, known), RegisteredContext(e, known))

\* A property no schema knows: in the namespace of the object's xsi_type if it has one, else
\* with the prefix that the property before it was given.
OtherElement(f, kind, xsi, known) ==
    LET typed == f.xsi # NoXsi /\ f.uri \in Schemas
        tag   == StartTag(f, IF typed THEN f.xsi.prefix ELSE Unignored(f.ns), NoUri, xsi, known)
        g     == Activation(kind, FALSE, FALSE, IF typed THEN f.xsi.prefix ELSE f.prefix,
                            IF typed THEN f.xsi.uri ELSE f.uri, tag)
    IN  /\ ~f.first
        /\ Enter([f EXCEPT !.ns = Unignored(@)],
                 IF kind = "array"
                 THEN [g EXCEPT !.tag = NoTag, !.omitted = f.omitted \cup PrefixesOf(ToSet(f.decls))]
                 ELSE [g EXCEPT !.xsi = xsi],
                 IF typed THEN AddNamespace(known, f.xsi.prefix, f.xsi.uri) ELSE known)

PropertyOf(f, kind, xsi, known) ==
    \/ MessageElement(f, kind, xsi, known)
    \/ OtherElement(f, kind, xsi, known)
    \/ f.uri \in Schemas /\ \E e \in Elements[f.uri] : SchemaElement(f, e, kind, xsi, known)

\* What the user's attributes declare in the context is written on the tag of one child only.
Carrying(f, xsi) ==
    IF xsi.prefix # NoPrefix /\ Declares(ctx, xsi.prefix, xsi.uri)
    THEN [f EXCEPT !.omitted = @ \cup {xsi.prefix}] ELSE f

\* A property of an object: its attributes are processed first.
Property(kind, xsi) ==
    /\ frames # <<>>
    /\ Top.kind = "object"
    /\ MayCarry(kind, xsi)
    /\ PropertyOf(Carrying(Top, xsi), kind, Attributes(xsi), AttributesContext(xsi))

ItemOf(f, xsi, known) ==
    LET tag == StartTag(f, IF f.parent # NoPrefix THEN f.parent ELSE f.ns, f.means, xsi, known)
        g == Activation("object", FALSE, f.typed, f.prefix, f.uri, tag)
    IN  Enter(f, [g EXCEPT !.xsi = xsi], known)

\* An item of an array.
Item(xsi) ==
    /\ frames # <<>>
    /\ Top.kind = "array"
    /\ MayCarry("object", xsi)
    /\ ItemOf(Carrying(Top, xsi), Attributes(xsi), AttributesContext(xsi))

\* The end of an activation.
Return ==
    /\ frames # <<>>
    /\ frames' = Front(frames)
    /\ ctx' = PopContext(ctx)
    /\ UNCHANGED elements

\* Mutant: this way out forgets its scope.
ReturnRawUnpopped ==
    /\ frames # <<>>
    /\ Top.kind = "object"
    /\ frames' = Front(frames)
    /\ UNCHANGED <<ctx, elements>>

\* The keys $xml and $value: the text is the whole content, whatever came before.
ReturnRaw ==
    /\ frames # <<>>
    /\ Top.kind = "object"
    /\ frames' = Front(frames)
    /\ ctx' = PopContext(ctx)
    /\ UNCHANGED elements

Next ==
    \/ \E root \in Roots, typed \in BOOLEAN : Begin(root, typed)
    \/ \E kind \in {"object", "array"}, xsi \in XsiTypes \cup {NoXsi} : Property(kind, xsi)
    \/ \E xsi \in XsiTypes \cup {NoXsi} : Item(xsi)
    \/ Return
    \/ ReturnRaw

Spec == Init /\ [][Next]_vars

-----------------------------------------------------------------------------
(* Properties *)

TypeOK ==
    /\ frames \in Seq(Frame)
    /\ ctx \in Context
    /\ elements \in 0..MaxElements

\* Every way out of objectToXML closes the scope that was opened on the way in: what a child
\* declares is never in force for its siblings, and nothing is once the message is written.
ScopesMatchFrames == Len(ctx.scopes) = Len(frames)

Declaring(i, prefix) == {j \in 1..i : prefix \in PrefixesOf(frames[j].tag.decls)}

\* Read where it stands, the prefix of the element of frame i means what the schema says.
Resolves(i) ==
    LET tag == frames[i].tag
        declaring == Declaring(i, tag.prefix)
        nearest == {d \in frames[Max(declaring)].tag.decls : d.prefix = tag.prefix}
    IN  /\ declaring # {}
        /\ tag.uri # NoUri => nearest = {[prefix |-> tag.prefix, uri |-> tag.uri]}

\* The nearest tag that has to do with the prefix of frame i's element lacks its declaration.
LeftOut(i) ==
    LET p == frames[i].tag.prefix
    IN  \E j \in 1..i : /\ p \in frames[j].tag.omitted
                         /\ \A k \in (j + 1)..i : p \notin PrefixesOf(frames[k].tag.decls)

\* Every prefix that is written resolves to the namespace of the schema, however the object is
\* nested and whatever was declared before, or its declaration was left out in one of five ways:
\* by an array (index.ts:934), for the text of another (893), by the envelope for an ignored
\* prefix (705), or because of a prefix that came with an xsi_type (1007), on the tag that has it
\* or on those of the siblings.
PrefixesResolve ==
    \A i \in DOMAIN frames : frames[i].tag.prefix = NoPrefix \/ LeftOut(i) \/ Resolves(i)

\* History.md, 0.19.0: "Fixed missing namespace declaration on Array if the namespace is already
\* declared with another prefix"; and #607: a sub-namespace is correct regardless of the order
\* of enumeration.  Of messages that are objects, and of the elements in them.
SubNamespaceIsCorrect ==
    \A i \in 3..Len(frames) :
        frames[2].kind = "object" /\ frames[i].tag.prefix # NoPrefix => Resolves(i)
=============================================================================
