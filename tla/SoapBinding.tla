----------------------------- MODULE SoapBinding -----------------------------
(***************************************************************************)
(* How the server chooses the port and the operation of a request           *)
(* (src/server.ts, _process).  The WSDL is a constant: the services in the  *)
(* order of `wsdl.definitions.services`, the ports of each in the order of  *)
(* `service.ports`, and the bindings the ports point at.  These are the     *)
(* orders JavaScript's for..in visits them in.                              *)
(***************************************************************************)
EXTENDS Integers, SequencesExt

CONSTANTS
    Services,   \* sequence of [name, ports]; ports is a sequence of [name, path, binding]
    Bindings    \* [binding -> [style, methods, top]]; see MethodEntry

\* A method of a binding: its name, its soapAction, the last '/'-separated part of the
\* soapAction, whether the WSDL gives it an output, and its own style ("" for none).
\* Bindings[b].methods is a sequence of them, in the order of `binding.methods`, and
\* Bindings[b].top maps the name of a top-level element to a method (`topElements`).
MethodEntry == [name : STRING, action : STRING, suffix : STRING,
                output : BOOLEAN, style : STRING]

\* Every port with its service, in the order the two nested loops visit them.
Ports ==
    FlattenSeq([i \in 1..Len(Services) |->
        [j \in 1..Len(Services[i].ports) |->
            [service |-> Services[i].name, name |-> Services[i].ports[j].name,
             path |-> Services[i].ports[j].path,
             binding |-> Services[i].ports[j].binding]]])

\* What the model takes the WSDL to be.  The second and third conjuncts follow from the
\* first and the definition of Ports, a fold that the provers do not unfold.
ASSUME WsdlAssumption ==
    /\ Services \in Seq([name : STRING, ports : Seq([name : STRING, path : STRING,
                                                     binding : DOMAIN Bindings])])
    /\ Ports \in Seq([service : STRING, name : STRING, path : STRING,
                      binding : DOMAIN Bindings])
    /\ Ports # <<>> => Services # <<>>
    /\ \A b \in DOMAIN Bindings :
         Bindings[b].methods \in Seq(MethodEntry) /\ Bindings[b].style \in STRING

\* The binding the request is dispatched on, with the values the closure variables
\* serviceName and portName hold once the search is over.  A port whose location has
\* the request's path stops both loops.  Otherwise the first port's binding is used,
\* but the two names are those of the last service and of the last port visited.
FindBinding(path) ==
    LET hits == {i \in DOMAIN Ports : Ports[i].path = path}
        p    == Ports[Min(hits)]
    IN  IF hits # {}
        THEN [binding |-> p.binding, service |-> p.service, port |-> p.name]
        ELSE [binding |-> Ports[1].binding,
              service |-> Services[Len(Services)].name, port |-> Ports[Len(Ports)].name]

\* services[service].ports[port] exists / its binding.
HasPort(service, port) ==
    \E i \in DOMAIN Ports : Ports[i].service = service /\ Ports[i].name = port

BindingAt(service, port) ==
    (CHOOSE p \in ToSet(Ports) : p.service = service /\ p.name = port).binding

HasMethod(b, name) == \E i \in DOMAIN Bindings[b].methods : Bindings[b].methods[i].name = name

MethodOf(b, name) == CHOOSE m \in ToSet(Bindings[b].methods) : m.name = name

\* The method a SOAPAction header names: the first one with exactly that soapAction,
\* else the first one whose soapAction ends in "/<header>", else none ("").
MethodBySoapAction(b, action) ==
    LET ms     == Bindings[b].methods
        exact  == SelectInSeq(ms, LAMBDA m : m.action = action)
        suffix == SelectInSeq(ms, LAMBDA m : m.suffix = action)
    IN  IF exact # 0 THEN ms[exact].name
        ELSE IF suffix # 0 THEN ms[suffix].name ELSE ""

\* `pair`: the topElements entry of the body's first element, else of the SOAPAction.
HasPair(b, msg) ==
    \/ msg.element \in DOMAIN Bindings[b].top
    \/ msg.action \in DOMAIN Bindings[b].top

PairMethod(b, msg) ==
    IF msg.element \in DOMAIN Bindings[b].top THEN Bindings[b].top[msg.element]
    ELSE Bindings[b].top[msg.action]

\* The method a request is for.  Only without a SOAPAction does the body decide.
TargetMethod(b, msg) ==
    IF msg.action # "" THEN MethodBySoapAction(b, msg.action)
    ELSE IF HasPair(b, msg) THEN PairMethod(b, msg) ELSE msg.element

StyleOf(b, name) ==
    LET own == MethodOf(b, name).style IN IF own # "" THEN own ELSE Bindings[b].style
=============================================================================
