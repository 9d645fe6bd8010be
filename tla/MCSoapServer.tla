----------------------------- MODULE MCSoapServer -----------------------------
(***************************************************************************)
(* Instances of SoapServer for TLC.  The WSDL has one service with two      *)
(* ports on two bindings: "main" has an rpc operation, a document operation *)
(* and a one-way operation, "alt" has the document operation only.          *)
(***************************************************************************)
EXTENDS SoapServer, TLC

CONSTANTS f1, f2

Method(name, action, suffix, output, style) ==
    [name |-> name, action |-> action, suffix |-> suffix, output |-> output, style |-> style]

MCServices ==
    << [name |-> "S", ports |-> << [name |-> "P1", path |-> "/main", binding |-> "main"],
                                   [name |-> "P2", path |-> "/alt", binding |-> "alt"] >>] >>

MCBindings ==
    [main |-> [style |-> "document",
               methods |-> << Method("Get", "urn/Get", "Get", TRUE, ""),
                              Method("Sum", "urn/Sum", "Sum", TRUE, "rpc"),
                              Method("Put", "urn/Put", "Put", FALSE, ""),
                              Method("Old", "urn/Old", "Old", FALSE, "") >>,
               top |-> [GetRequest |-> "Get", PutRequest |-> "Put", OldRequest |-> "Old"]],
     alt |-> [style |-> "document",
              methods |-> << Method("Get", "urn/Get", "Get", TRUE, "") >>,
              top |-> [GetRequest |-> "Get"]]]

Msg(path, action, element, headers) ==
    [path |-> path, action |-> action, element |-> element, headers |-> headers,
     parse |-> "ok"]

Auth(calls, keeps, how, what) ==
    [calls |-> calls, keeps |-> keeps, how |-> how, what |-> what]
Meth(calls, keeps, how, what) ==
    [calls |-> calls, catches |-> FALSE, keeps |-> keeps, how |-> how, what |-> what]
Catches(beh) == [beh EXCEPT !.catches = TRUE]

Gives(e, v) == [error |-> e, result |-> v]

MCMessages ==
    {Msg("/main", "", "GetRequest", TRUE), Msg("/main", "Put", "PutRequest", FALSE),
     Msg("/main", "urn/Sum", "Sum", FALSE), Msg("/main", "urn/Old", "OldRequest", FALSE),
     Msg("/main", "", "Gone", FALSE), Msg("/alt", "", "GetRequest", FALSE)}
    \cup {[Msg("/main", "", "GetRequest", FALSE) EXCEPT !.parse = p] : p \in {"invalid", "fault"}}

MCMessagesFew == {Msg("/main", "", "GetRequest", FALSE), Msg("/main", "Put", "PutRequest", TRUE)}

MCImplemented == {<<"S", "P1">>}

MCHandlers == {<<"S", "P1", "Get">>, <<"S", "P1", "Sum">>, <<"S", "P1", "Put">>}

\* Synchronous, callback, promise, both at once, and authenticate functions that throw.
MCAuth ==
    {Auth("none", FALSE, "return", "yes"), Auth("none", FALSE, "return", "no"),
     Auth("yes", FALSE, "return", "no"), Auth("none", TRUE, "return", "undefined"),
     Auth("none", TRUE, "promise", "undefined"), Auth("yes", TRUE, "promise", "undefined"),
     Auth("none", TRUE, "throw", "undefined"), Auth("yes", FALSE, "throw", f2)}

MCMeth ==
    {Meth(NoCall, FALSE, "return", "ok"), Meth(NoCall, FALSE, "return", "bad"),
     Meth(NoCall, TRUE, "return", "undefined"), Meth(NoCall, TRUE, "promise", "undefined"),
     Meth(Gives(f1, "undefined"), TRUE, "return", "ok"),
     Meth(Gives("error", "undefined"), FALSE, "throw", "error"),
     Meth(NoCall, FALSE, "throw", f1), Meth(NoCall, TRUE, "throw", "error")}
    \cup {Meth(Gives("null", "bad"), FALSE, "return", "undefined"),
          Catches(Meth(Gives("null", "bad"), TRUE, "promise", "undefined")),
          Catches(Meth(Gives("null", "bad"), FALSE, "throw", "error"))}

MCMethThrows == {Meth(NoCall, FALSE, "throw", f1)}

MCMethOneWay == {Meth(NoCall, FALSE, "return", "ok"), Meth(NoCall, FALSE, "throw", "error")}

MCAuthYes == {Auth("none", FALSE, "return", "yes")}

MCOutcome == {Gives("null", "ok"), Gives("null", "bad"), Gives(f1, "undefined"),
              Gives("error", "undefined"), Gives("error", "ok")}

MCFaultStatus == (f1 :> 400) @@ (f2 :> 0)
=============================================================================
