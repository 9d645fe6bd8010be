---------------------------- MODULE MCObjectToXML ----------------------------
(***************************************************************************)
(* An instance of ObjectToXML for TLC.  The message is in a qualified       *)
(* schema u0 that uses a type and an element of the schema u1, and u1 an    *)
(* element of u2, which is unqualified and has no prefix in u0.  The prefix  *)
(* of the message may be the first that the context would generate, and is  *)
(* one the schemas refer to; q1 is u1 to some schemas and u0 to u2, the      *)
(* user has it for u3, and q2 occurs in the text of the namespace u0.        *)
(***************************************************************************)
EXTENDS ObjectToXML, TLC

MCPrefix == {"tns", "ns1", "ns2", "ns3", "q1", "q2", "xsd"}
MCGenerated == <<"ns1", "ns2", "ns3">>
MCSchemas == {"u0", "u1", "u2"}

\* Every schema's prefixes; q1 is the namespace u in u2.
XmlnsWith(u) ==
    [s \in MCSchemas |->
        [p \in MCPrefix \cup {"__tns__"} |->
            CASE p \in {"tns", "__tns__"} -> s
              [] p = "ns1" -> "u0"
              [] p = "q1"  -> IF s = "u2" THEN u ELSE "u1"
              [] p = "q2"  -> "u2"
              [] OTHER     -> "xsd"]]
MCXmlns == XmlnsWith("u0")
MCXmlnsArray == XmlnsWith("u1")

Local(target, form, type) ==
    [ref |-> FALSE, prefix |-> "__tns__", target |-> target, form |-> form, type |-> type]
RefTo(prefix, target) ==
    [ref |-> TRUE, prefix |-> prefix, target |-> target, form |-> "", type |-> "none"]

\* A local element of another schema comes from a base type that is extended.
MCElements ==
    [u0 |-> {Local("u0", "", "q1"), Local("u0", "unqualified", "tns"), RefTo("q1", "u0"),
             Local("u2", "", "xsd")},
     u1 |-> {Local("u1", "", "none"), Local("u0", "qualified", "none"), RefTo("q2", "u1"),
             RefTo("ns1", "u1")},
     u2 |-> {Local("u2", "qualified", "q1"), RefTo("q1", "u2")}]

MCInside == {<<"q2", "u0">>}

Decl(prefix, uri) == [prefix |-> prefix, uri |-> uri]
MCRoots == {Decl("ns1", "u0"), Decl("tns", "u0")}
MCEnvelope == {Decl("tns", "u0")}
MCXsiTypes == {Decl("", "u2"), Decl("q1", "u3")}

=============================================================================
