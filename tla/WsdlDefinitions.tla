--------------------------- MODULE WsdlDefinitions ---------------------------
(***************************************************************************)
(* The definitions of a WSDL after parsing: how post-processing resolves    *)
(* services, ports, bindings and portTypes into methods (src/wsdl/          *)
(* elements.ts, the postProcess functions), and how xmlToObject then looks  *)
(* up the message a body belongs to (src/wsdl/index.ts).  Both write        *)
(* definitions.messages.                                                    *)
(*                                                                          *)
(* A message is known by the name the WSDL gives it; its element or its     *)
(* parts are one schema.  Messages whose element no schema has, and         *)
(* operations that list their output before their input, are left out.  So  *)
(* are messages with several parts of which the first has an element: as a  *)
(* part is taken off when it is processed (elements.ts:681), the second     *)
(* operation with such a message processes the next part in its place.      *)
(***************************************************************************)
EXTENDS Lists

CONSTANTS
    Wsdls,      \* the WSDLs that may be loaded; see Wsdl
    Names,      \* names of messages, elements and operations
    Suffix      \* [Names -> [base : Names, input : BOOLEAN]]: the name without /Response$/,
                \* /Request$/ or /Solicit$/, and whether it was one of the last two

NoMessage == "no message"
NoSchema == "none"

MessageName == Names \cup {NoMessage}
OperationType == [name : Names, input : MessageName, output : MessageName]

\* ports are the bindings of all ports, in the order of the services and of their ports;
\* bindings have a style and, for operations, one of their own and a soapAction, "" for none.
\* portTypes are in the order of definitions.portTypes.  nilAsNull is options.handleNilAsNull,
\* preserveWhitespace the option of that name.
Wsdl(w) ==
    /\ w.ports \in Seq(DOMAIN w.bindings)
    /\ \A b \in DOMAIN w.bindings :
          /\ w.bindings[b].portType \in STRING /\ w.bindings[b].style \in STRING
          /\ \A op \in DOMAIN w.bindings[b].operations :
                w.bindings[b].operations[op] \in [style : STRING, action : STRING]
    /\ w.portTypes \in Seq([name : STRING, operations : Seq(OperationType)])
    /\ {w.nilAsNull, w.preserveWhitespace} \subseteq BOOLEAN
    /\ DOMAIN w.messages \subseteq Names
    /\ \A m \in DOMAIN w.messages : w.messages[m] \in [element : MessageName, type : STRING]

ASSUME WsdlsAssumption ==
    /\ NoMessage \notin Names
    /\ \A w \in Wsdls : Wsdl(w)

ASSUME SuffixAssumption ==
    \A n \in Names : Suffix[n].base \in Names /\ Suffix[n].input \in BOOLEAN

VARIABLES
    wsdl,       \* the WSDL
    done,       \* the ports post-processed so far
    messages,   \* definitions.messages: a partial function from names to messages of wsdl
    methods     \* [the portTypes post-processed so far -> [operation -> method]]

wsdlVars == <<wsdl, done, messages, methods>>

\* message.element.$name or message.$name: the name its description has as its only key.
NameOf(m) == IF wsdl.messages[m].element = NoMessage THEN m ELSE wsdl.messages[m].element

PortType(name) == wsdl.portTypes[SelectInSeq(wsdl.portTypes, LAMBDA p : p.name = name)]

Ready == done = Len(wsdl.ports)

WsdlInit ==
    /\ wsdl \in Wsdls
    /\ done = 0
    /\ messages = [m \in DOMAIN wsdl.messages |-> m]
    /\ methods = <<>>

----------------------------------------------------------------------------
(* Post-processing. *)

\* The message a side (input, output) of an operation names, in the messages ms.
Side(ms, name) == IF name \in DOMAIN ms THEN ms[name] ELSE NoMessage

\* A message with an element is entered under the element's name too, over any other.
AliasElement(ms, m) ==
    IF m = NoMessage \/ wsdl.messages[m].element = NoMessage THEN ms ELSE Entered(ms, NameOf(m), m)

\* Mutant: input and output are exchanged.
PostProcessCrossed(d, op) ==
    LET in    == Side(d.messages, op.input)
        after == AliasElement(d.messages, in)
        out   == Side(after, op.output)
    IN  [messages |-> AliasElement(after, out),
         methods  |-> Entered(d.methods, op.name,
                              [input |-> out, output |-> in, style |-> "", action |-> ""])]

\* OperationElement.postProcess of an operation of a portType, on d = [messages, methods].
PostProcessOperation(d, op) ==
    LET in    == Side(d.messages, op.input)
        after == AliasElement(d.messages, in)
        out   == Side(after, op.output)
    IN  [messages |-> AliasElement(after, out),
         methods  |-> Entered(d.methods, op.name,
                              [input |-> in, output |-> out, style |-> "", action |-> ""])]

\* PortTypeElement.postProcess: the operations are taken off the portType, so that it
\* does nothing the second time.
PostProcessPortType(name) ==
    IF name \in DOMAIN methods THEN [messages |-> messages, methods |-> methods[name]]
    ELSE FoldLeft(PostProcessOperation, [messages |-> messages, methods |-> <<>>],
                  PortType(name).operations)

\* Mutant: the style is only set where there is none yet.
DetailsKept(method, binding, op) ==
    [method EXCEPT !.style = IF @ # "" THEN @
                             ELSE IF binding.operations[op].style # ""
                             THEN binding.operations[op].style ELSE binding.style,
                   !.action = binding.operations[op].action]

\* What an operation of a binding writes on the method of its portType.
Details(method, binding, op) ==
    [method EXCEPT !.style = IF binding.operations[op].style # ""
                             THEN binding.operations[op].style ELSE binding.style,
                   !.action = binding.operations[op].action]

\* BindingElement.postProcess.  Its $type is deleted, so that it too works once only.
PostProcessPort ==
    /\ ~Ready
    /\ LET b       == wsdl.ports[done + 1]
           binding == wsdl.bindings[b]
           d       == PostProcessPortType(binding.portType)
           again   == \E i \in 1..done : wsdl.ports[i] = b
       IN  IF again \/ ~\E i \in DOMAIN wsdl.portTypes :
                          wsdl.portTypes[i].name = binding.portType
           THEN UNCHANGED <<messages, methods>>
           ELSE /\ messages' = d.messages
                /\ methods' = Entered(methods, binding.portType,
                       [op \in DOMAIN d.methods |->
                           IF op \in DOMAIN binding.operations
                           THEN Details(d.methods[op], binding, op) ELSE d.methods[op]])
    /\ done' = done + 1
    /\ UNCHANGED wsdl

----------------------------------------------------------------------------
(* The lookup of the message a body's first element belongs to. *)

\* The first portType, in the order of the WSDL, with a method of that name; 0 for none.
PortTypeWith(op) ==
    SelectInSeq(wsdl.portTypes,
                LAMBDA p : p.name \in DOMAIN methods /\ op \in DOMAIN methods[p.name])

\* Mutant: a request is looked up like a response.
SideOfResponse(name) ==
    LET op == Suffix[name].base
    IN  IF PortTypeWith(op) = 0 THEN NoMessage
        ELSE methods[wsdl.portTypes[PortTypeWith(op)].name][op].output

\* The message a name that is no message's stands for: the input or the output of the
\* operation it is made from.  A name without a suffix is taken for a response.
SideNamed(name) ==
    LET op == Suffix[name].base
    IN  IF PortTypeWith(op) = 0 THEN NoMessage
        ELSE LET method == methods[wsdl.portTypes[PortTypeWith(op)].name][op]
             IN  IF Suffix[name].input THEN method.input ELSE method.output

\* What the lookup finds: the message, and the name whose entry of its description is the
\* schema.  An operation without that side, and a name that nothing has, are exceptions.
Lookup(name) ==
    IF name \in DOMAIN messages THEN [message |-> messages[name], name |-> name]
    ELSE LET m == SideNamed(name)
         IN  IF m = NoMessage THEN [message |-> NoMessage, name |-> name]
             ELSE [message |-> messages[NameOf(m)], name |-> NameOf(m)]

\* Only the messages of methods are post-processed; the others have no description.
Processed(m) ==
    \E pt \in DOMAIN methods : \E op \in DOMAIN methods[pt] :
        m \in {methods[pt][op].input, methods[pt][op].output}

\* message.description(definitions)[name].
BodySchema(found) ==
    IF Processed(found.message) /\ found.name = NameOf(found.message)
    THEN wsdl.messages[found.message].type ELSE NoSchema

\* `this.definitions.messages[originalName] = message`.
CacheAlias(name, found) == messages' = Entered(messages, name, found.message)

----------------------------------------------------------------------------
(* Properties. *)

\* Of operations with one name, the last takes the place of the others (elements.ts:942).
Operation(pt, op) == LET ops == PortType(pt).operations
                     IN  ops[SelectLastInSeq(ops, LAMBDA o : o.name = op)]

\* A method has the input and the output its operation names.  The entries that are made
\* for elements (elements.ts:904) are in the same table the names are looked up in: only
\* when another message has an element of that name may the method have that message.
OperationsKeepTheirMessages ==
    \A pt \in DOMAIN methods : \A op \in DOMAIN methods[pt] :
        LET Kept(m, name) ==
                \/ m = Side([n \in DOMAIN wsdl.messages |-> n], name)
                \/ \E other \in DOMAIN wsdl.messages :
                      other # name /\ wsdl.messages[other].element = name
        IN  /\ Kept(methods[pt][op].input, Operation(pt, op).input)
            /\ Kept(methods[pt][op].output, Operation(pt, op).output)

\* Bindings of one portType share its methods and the later port overwrites what the
\* earlier one wrote (elements.ts:1004): the style and the soapAction of a method still
\* come from one binding, and from the last one that has the operation.
DetailsOfOneBinding ==
    \A pt \in DOMAIN methods : \A op \in DOMAIN methods[pt] :
        LET users == {i \in 1..done :
                        /\ wsdl.bindings[wsdl.ports[i]].portType = pt
                        /\ op \in DOMAIN wsdl.bindings[wsdl.ports[i]].operations
                        /\ \A j \in 1..(i - 1) : wsdl.ports[j] # wsdl.ports[i]}
        IN  users # {} =>
              LET b == wsdl.bindings[wsdl.ports[Max(users)]]
              IN  /\ methods[pt][op].action = b.operations[op].action
                  /\ methods[pt][op].style \in {b.operations[op].style, b.style}
                  /\ methods[pt][op].style = "" => b.style = ""
=============================================================================
