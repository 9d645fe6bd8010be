---------------------------- MODULE MCXmlToObject ----------------------------
(* WSDLs and start tags for XmlToObject. *)
EXTENDS XmlToObject

CNames == {"Add", "AddResponse", "AddRequest", "AddIn", "AddOut", "Put", "PutIn", "Get", "a", "b",
           "attributes", "Fault"}
CSuffix == [n \in CNames |->
              CASE n = "AddResponse" -> [base |-> "Add", input |-> FALSE]
                [] n = "AddRequest"  -> [base |-> "Add", input |-> TRUE]
                [] OTHER             -> [base |-> n, input |-> FALSE]]

Op(name, in, out) == [name |-> name, input |-> in, output |-> out]
Msg(element, type) == [element |-> element, type |-> type]
Binding(pt, style, ops) == [portType |-> pt, style |-> style, operations |-> ops]
Own(style, action) == [style |-> style, action |-> action]

\* Document style, bindings that share a portType; a message, Put, has the name of another
\* message's element.
Document ==
    [ports |-> <<"b1", "b2", "b1">>, nilAsNull |-> FALSE, preserveWhitespace |-> FALSE,
     bindings |-> [b1 |-> Binding("pt", "document", [Add |-> Own("", "u1"), Put |-> Own("", "u1")]),
                   b2 |-> Binding("pt", "rpc", [Add |-> Own("", "u2")])],
     portTypes |-> <<[name |-> "pt", operations |-> <<Op("Put", "PutIn", NoMessage),
                                                      Op("Get", "Put", NoMessage),
                                                      Op("Add", "AddIn", "AddOut")>>]>>,
     messages |-> [AddIn |-> Msg("Add", "S"), AddOut |-> Msg("AddResponse", "T"),
                   PutIn |-> Msg("Put", "S"), Put |-> Msg("AddIn", "T")]]

\* rpc style, messages named apart from their operations; a portType no port uses.
Rpc ==
    [ports |-> <<"b1", "b2">>, nilAsNull |-> TRUE, preserveWhitespace |-> TRUE,
     bindings |-> [b1 |-> Binding("pt", "rpc", [Add |-> Own("", "u1")]),
                   b2 |-> Binding("missing", "rpc", [Put |-> Own("", "u1")])],
     portTypes |-> <<[name |-> "unused", operations |-> <<Op("Add", "PutIn", "PutIn")>>],
                     [name |-> "pt", operations |-> <<Op("Add", "AddIn", "AddOut"),
                                                      Op("Put", "PutIn", "Fault")>>]>>,
     messages |-> [AddIn |-> Msg(NoMessage, "T"), AddOut |-> Msg(NoMessage, "S"),
                   PutIn |-> Msg(NoMessage, "S")]]

CWsdls == {Document, Rpc}
RpcOnly == {Rpc}

CFields == [S |-> [a |-> "S", b |-> "string", attributes |-> "string"], T |-> [a |-> "date", b |-> "number"]]
CMany == [S |-> {"a"}, T |-> {}]
CTypeNamed == [u1 |-> "S", u2 |-> "T", u3 |-> NoSchema]

Node(name, id, href, nil, type, decl) ==
    [name |-> name, id |-> id, href |-> href, nil |-> nil, type |-> type, decl |-> decl]

Element(name) == Node(name, NoId, NoId, FALSE, FALSE, NoUri)

\* A word within whitespace, one without in CDATA, and whitespace.
Cut(word, edges, cdata) == [word |-> word, edges |-> edges, cdata |-> cdata]
CPieces == {Cut("x", TRUE, FALSE), Cut("y", FALSE, TRUE), Cut(NoWord, TRUE, FALSE)}
OneWord == {Cut("x", FALSE, FALSE)}

\* Messages; arrays, nil and faults; references; types.
CVocabularies ==
    {{Element(n) : n \in {"Add", "AddResponse", "AddRequest", "Put"}},
     {Element(n) : n \in {"Add", "a", "attributes", "Fault"}}
       \cup {Node("a", NoId, NoId, TRUE, FALSE, NoUri)},
     {Element("Add"), Element("b"), Node("a", "i", NoId, FALSE, FALSE, NoUri),
      Node("b", NoId, "i", FALSE, FALSE, NoUri), Node("a", "j", "i", FALSE, FALSE, NoUri)},
     {Element("Add"), Node("b", NoId, NoId, FALSE, FALSE, "u2"),
      Node("a", NoId, NoId, FALSE, TRUE, NoUri), Node("a", NoId, NoId, FALSE, TRUE, "u2"),
      Node("b", NoId, NoId, FALSE, TRUE, "u3")}}
Responses == {{Element("AddResponse"), Element("b")}}
=============================================================================
