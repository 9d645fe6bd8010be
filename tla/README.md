# A TLA+ development of node-soap

This directory specifies the parts of node-soap (`src/src/`) in which order,
concurrency and failure matter, checks them with TLC on small instances and
proves the most important properties with TLAPS for all instances.
`PROJECT.json` lists components, runs, findings, hazards, theorems and, under
`map`, the lines each definition stands for.

    tlc -workers 2 -config MCSoapServer.cfg MCSoapServer     # a run
    tlapm SoapServerProofs.tla                               # the proofs

## The system

node-soap turns a WSDL into a client whose methods are the operations of the
service, and serves a WSDL from user functions on an HTTP server. All of it runs
on Node's event loop: one callback runs at a time, from an empty stack to an empty
stack, and whatever is not passed along may have changed when the next one
begins. User code is called from inside these callbacks and may answer by
returning, by a callback, by a promise, by throwing, or by several of these.

| Component | State | Operations | Hard because |
|---|---|---|---|
| **WSDL cache and loader** (`soap.ts`, `wsdl/index.ts`, `wsdl/elements.ts`) | the default cache; per load: `WSDL_CACHE`, the definitions of each document, the pending includes | `createClient`, reading, parsing, `processIncludes`, merging, post-processing | documents include one another in circles; loads of one url interleave; the user's callback runs inside the loader's try clauses |
| **Server: request processing** (`server.ts`) | per request: what arrived, auth result, `handled`, the response; `soapHeaders`; the user's fault objects | `_requestListener`, `_process`, `processAuthResult`, `_executeMethod`, `handleResult`, `_sendError` | three ways for user code to answer, in any order, more than once; exceptions after an answer |
| **Server: listener chain** (`server.ts:131`) | the `request` listeners of an HTTP server | becoming ready, `authorizeConnection`, dispatch | servers take over one another's listeners in the order in which their WSDLs load |
| **Client: exchanges** (`client.ts`, `http.ts`) | `httpHeaders`, `lastResponse` and the other `last...` fields; per call: stage, events | `_invoke`, `parseSync`, `finish`, streams, multipart | exchanges share fields; streams fail several times; a promise chain calls user code |
| **Client: construction and options** (`client.ts:173`) | the options of a WSDL object | `createClient`, `Client`, `_initializeOptions` | clients of one cached WSDL share its options, and who shares it depends on when loads end |
| **Security objects** (`security/`) | the references of a WS-Security signer | `postProcess` | references outlive a message; clients may share a signer |
| **Marshalling** (`objectToXML`, `nscontext.ts`) | the stack of namespace scopes, the attributes still to be written | the recursion over objects, arrays and raw values | what is declared in the context must be declared in the text |
| **WSDL parsing and post-processing** (`elements.ts`) | services, bindings, portTypes, operations, messages | `postProcess` of each of them | ports and bindings share methods; messages are entered under several names |
| **Unmarshalling** (`xmlToObject`) | a stack of elements, the objects, `multiRef`, `xmlns`, `definitions.messages` | the handlers of the XML parser | text comes in pieces; elements refer to others; documents leave something behind for the next |
| **Types and exports** | none | none | – |

They interact by calls. The loader hands a WSDL object to `new Client` and
`listen`; client and server marshal with it; the client calls an HTTP client that
calls back; the server calls `authenticate` and the service's methods; servers on
one HTTP server call each other's listeners; clients of one document meet in the
options of its WSDL, and in a security object they share.

What makes each correct: a load answers once, with everything its WSDL includes
or with an error, and the cache never holds less; a request is answered once, its
method runs once and only when authenticated, what was decided first stands; a
method of the client calls back once, an error is not followed by a result, and
what the callback finds in the client is of its own exchange; a prefix that is
written means, where it stands, the namespace the schema says; an object holds what
its document says, in order, whole and typed, whatever was read before; a request
that several servers could take is taken once; a client that asked for a WSDL of its
own has one; a signature covers this message and nothing of another.

## The modules

| Module | Models |
|---|---|
| `SoapBinding` | the choice of port, binding and operation in `_process` (pure) |
| `SoapServer` | request processing; EXTENDS `SoapBinding` |
| `SoapExchange` | abstract: what the server promises about one exchange |
| `ListenerChain` | several servers and listeners of the application on one HTTP server |
| `RequestRouting` | abstract: which of those that are registered gets a request |
| `Lists` | what several modules know of lists and functions: the elements that are in a set, in their order; functions with a value entered, or laid over one another |
| `WsdlLoader` | `createClient` up to its callback |
| `WsdlProvider` | abstract: what `createClient` promises |
| `SoapClient` | the exchanges of one client |
| `WSSecurityCert` | the references of a WS-Security signer, as operators (pure) |
| `ClientOptions` | clients that share WSDLs and signers; EXTENDS `WSSecurityCert` |
| `NamespaceContext` | `nscontext.ts`, as operators on a context (pure) |
| `ObjectToXML` | the walk of `objectToXML`; EXTENDS `NamespaceContext` |
| `WsdlDefinitions` | post-processing, and the lookup of messages it shares with `xmlToObject` |
| `XmlToObject` | unmarshalling; EXTENDS `WsdlDefinitions` |
| `SoapServerProofs`, `ListenerChainProofs`, `WsdlLoaderProofs`, `SoapClientProofs`, `ClientOptionsProofs`, `ObjectToXMLProofs`, `XmlToObjectProofs` | theorems |
| `FoldTheorems` | lemmas: induction over the natural numbers, what folds yield |
| `MC...` | instances for TLC |

Operators and actions have the names of the functions they stand for. An operator
whose comment starts with "Mutant:" is no part of a specification. It is the
operator after it with a bug someone could have written (a forgotten guard, a
missing reset, an early write), and for every property of a passing run there is
one under which that run finds the property violated: the property does depend on
that code.

**SoapServer.** An action is one callback of the event loop. The operators take
the record of a request through the functions the callback calls; a thrown
exception is the field `exc`, cleared by the operator of the nearest catch clause,
so that `TypeOK` also says that every exception met one or was uncaught. What
`authenticate` and a method do in one call (call their callback, keep it, return,
promise, throw) is a record chosen from a constant set. A method may also catch what
its callback throws (`catches`), as every async one does: then an exception of
`handleResult` stays in the method, and what the method goes on to reject or throw finds
`handled` set. `faultStatus` is the `statusCode` property of the user's fault objects,
which `_sendError` writes.
`SoapExchange` is implemented with a refinement mapping that keeps the first
response only.

**WsdlLoader.** A call that misses the cache loads documents one after the other.
One callback is several actions here, and `running` keeps all others disabled until
the stack is empty. `tries` counts the try clauses (`index.ts:139`) an exception
would meet on its way out. `merged`, `schema` and `content` follow which
definitions a WSDL holds, including the sharing of `SchemaElement` objects by
merged definitions. `WsdlProvider` is implemented: the first answer of a call is
an error or everything within reach, and only what is about to be answered is
stored.

**SoapClient.** The four modes are the ways `_invoke` takes a response: as text,
as multipart, as a stream, as a stream handed over. `history` is what the user
sees, events and calls of the callback in order; `once()` is the guard of
`Answer`. Whether a callback throws is chosen at each call.

**ListenerChain.** `wrappers` are the listeners that servers made, each with the
listeners it saved (`server.ts:150`); a server whose callback throws is delivered
again and makes a second one. A dispatch is several actions: `pending` is what Node
and the wrappers still have to call, and nothing else happens until it is empty.
`express` is chosen at the start. `RequestRouting` has no chain: it decides from the
order of registration alone who takes a request and which listeners of the
application hear of it, and the chain is shown to do that.

**ClientOptions and WSSecurityCert.** The code copies about a dozen options one by
one, in three ways; the model has one option for each way and the list of ignored
namespaces, which is a case of its own. `wsdls` are the WSDL objects, `made` the
order in which clients were constructed, which is what the outcome depends on. A
message is what `_invoke` builds and signs with the options of that moment.

**WsdlDefinitions and XmlToObject.** The ports are post-processed in their order,
because methods and messages are shared and written by each. Then documents are read,
one event of the XML parser per action: `stack` and `heap` are the code's stack and
the objects it builds, with `kids` as a history of what the document says. `reads` is
a history of the schema each element of a body was read with. A text is the sequence of
the pieces the parser reports it in, and a piece a word, with whitespace at its edges or
without, or whitespace alone; each is trimmed, or dropped if nothing is left, as the code
does without `preserveWhitespace`. `words` is a history of the pieces as they were.

**NamespaceContext and ObjectToXML.** `frames` are the activations of the
recursion, and the object is chosen while it is walked. A start tag is written
after its content but known before; the model keeps it in the frame of the
content, so that the tags of the frames are the open elements, in which a prefix
is looked up as an XML parser would.

The code decides from its context what to declare, and the context is not what it
writes. So a tag has an account, `omitted`, of the prefixes whose declaration it lacks,
and an activation one of those its children will lack. There are five ways to lose one:

- an array hands its items the element's own declaration only (`index.ts:934`);
- a declaration is not written if its prefix occurs in the text of those that are, be it
  in another prefix, in a namespace or in `xmlns` (893);
- the message's own prefix is not declared if it is ignored, so that the envelope has to
  (705), and the envelope may not;
- a prefix that comes with an xsi_type is declared in the scope of all siblings, but
  written on one tag (1007);
- on that tag it may meet another declaration of the same prefix, or the element's own.

Where the prefix found for an element is ignored, the prefix of the activation takes its
place (`index.ts:865`): with a local element's own namespace, while for a reference the
namespace is looked up anew, and `uri` of the tag is the one the code ends up with.

## The runs

| Run | Asks |
|---|---|
| `server` | one request, every behaviour of `authenticate` (8) and of the method (11, with results that cannot be serialised, given in a callback, in one whose exception the method catches, and returned), five late outcomes, a list of SOAP headers that changes meanwhile: is it answered, how often, with what; implements `SoapExchange` |
| `loader` | two calls over six documents, cached or not: is a call answered once, with everything; implements `WsdlProvider` |
| `client` | two exchanges in flight in each mode, 18 responses, errors and broken bodies: is a callback called once, after its events, with its own `lastResponse` |
| `marshal` | messages of up to five elements over three schemas, with prefixes that are ignored, generated, used for two namespaces, part of other texts, or the user's: does each mean its namespace where it stands, unless its declaration was left out in one of five ways |
| `unmarshal` | one of two WSDLs is post-processed, up to two documents of four elements and pieces of text are read, with `preserveWhitespace` or without: do methods and objects hold what the WSDL and the documents say |
| `listeners` | two servers and two listeners of the application on one HTTP server, ready in any order: who gets a request; implements `RequestRouting` |
| `clients` | three clients of one document and three signers: whose options hold, and what is signed |

Properties that a test would hardly reach:

- `RepliesPaidByThrows`: whatever races, responses never exceed one plus the
  number of user functions that threw. The code has no other protection against a
  second response than its two one-shot guards, and this says they suffice up to
  exceptions.
- `CallbacksPaidByThrows`, for `createClient`: the callback is called again only
  as often as it threw, since it runs inside the try clauses of the loader.
- `SuccessIsWhole`: in a circle of includes a document is merged half-loaded; the
  order in which callbacks unwind still makes the WSDL that was asked for whole.
- `CallbackFollowsEvents`: no end of a stream turns an error into a result, and no
  callback comes before the event of its response.
- `LastResponseIsOwn`: no other exchange gets between the writing of `lastResponse`
  and the callback that reads it, save in the two cases the property names.
- `PrefixesResolve`: what the context takes for declared is declared in the text, and
  what the text lacks was left out in one of the ways named above, and in no other.
- `TextIsWhole`: wherever the parser cuts a text, all words are read, in order, and with
  `preserveWhitespace` the whitespace at the edges of each piece, too.
- `MessagesKeepTheirTypes`: what earlier documents left in the table of messages
  never changes the type of a message's element.
- `TakenOnce` and `ImplementsRouting`: a request that several servers could take is
  taken by one, which the order of the registrations decides.
- `WhoDecides`: of clients that share a WSDL, some options are decided by the one
  whose load ended first, some by the one made last, some by the last that gave one.
- `FailsForever`: exactly when a signer whose envelope key has changed stops signing.

Runs that end with a violation show where the code and its documents disagree;
`findings` quotes both sides.

| Run | Shows |
|---|---|
| `server_oneway` | a one-way operation whose method throws is answered twice |
| `server_fault` | a fault object used twice loses its HTTP status the second time |
| `marshal_array` | an array's items are written with a prefix only their siblings declare |
| `unmarshal_alias` | the second response of an rpc operation is read without types: numbers come back as strings |
| `clients_excluded` | a signer with the `signatureAlgorithm` rsa-sha256 signs the Body though it is excluded from signing |

Other disagreements were met while modelling. They are in the models, as what the
code does, but have no run of their own:

- after `clearHttpHeaders` a call is sent without `extraHeaders` and `SOAPAction`
  (`client.ts:490`; Readme.md:834);
- "Cannot parse response" is not reported by `soapError` (`client.ts:338`;
  Readme.md:953);
- a response that is handed over as a stream has no `response` event
  (`client.ts:550`; Readme.md:960);
- when no port has the request's path, the operation found on the binding of the first
  port is executed on the last port, whose names the search has left in `serviceName` and
  `portName` (`server.ts:407`-`435`);
- with `preserveWhitespace`, a piece of text that is whitespace alone is lost when it
  stands beside a word, and a blank CDATA is never read (`index.ts:446`, `412`;
  Readme.md:127). Without the option whitespace is lost wherever a text is cut, at a
  comment, at CDATA or at 64 KB, which `TextIsWhole` allows: `foo <!-- c --> bar` is read
  as `foobar`;
- the `authorizeConnection` of the server that became ready last is asked for, and
  may refuse, requests for the paths of all the others (`server.ts:153`).

### Bounds

- *Server.* Requests share nothing but fault objects and the header list, which the
  environment may change at any time, so that one request with every behaviour shows
  what there is; `server_fault` has two, for the fault objects. Two headers are
  enough to tell a changed list from a cleared one. The WSDL has two bindings, an
  rpc, a document and two one-way operations, one without a function.
- *Loader.* The documents contain a circle of two, a document that includes
  itself, a schema replaced by a later one of its namespace, one that does not
  parse, one whose post-processing fails, and one given as text. `MaxThrows` = 3 is
  the deepest nesting of try clauses these documents lead to. Two calls meet in
  the cache in every order.
- *Client.* Each body with status 200, the statuses that make a difference, one
  multipart response of each kind. `MaxErrors` = 2: a second error shows all that a
  third would.
- *Marshalling.* Five elements in four nested activations are the smallest message
  in which an array is left without its declaration. `tns` is ignored, and may be the
  message's own prefix; `ns1` is used by the schemas and the first that is generated;
  `q1` is one namespace to two schemas, another to the third, and a third one to the
  user; `q2` occurs in the text of a namespace. One element is extended from another
  schema. `marshal_array` has the plain case:
  nothing ignored, no xsi types, `q1` with one meaning.
- *Unmarshalling.* One WSDL has two bindings of one portType and a message with the
  name of another's element, the other is rpc with messages named apart from their
  operations. Four vocabularies of start tags keep apart what does not meet: messages;
  arrays, nil, faults and a child named like the attributes; references before, after
  and around what they refer to; types. Two documents, because what the first leaves
  behind is read by the second. The pieces of text are a word within whitespace,
  a word without in CDATA, and whitespace alone. Four elements and pieces are enough for a
  reference to an element with a child, and `MaxDepth` = 6 nests three elements inside the body.
- *Listeners.* The paths overlap, so that there are requests for one server, for
  both and for neither, and a server refuses requests that are not its own. Handlers
  keep nothing from one request to the next, so one request suffices; one exception
  delivers a WSDL twice.
- *Clients.* A third client is the first for which the one that was made last, the
  one that gave an option last and the one that loaded can all be different. Three
  messages let a signer meet a key, another, and the first again. Two values tell the
  first that gave an option from the last. The signers are one with neither
  `signatureAlgorithm` nor exclusions, one with `signatureAlgorithm` that excludes the
  Body, and one with exclusions and an additional reference that is given twice.
  `clients_excluded` has one client.

The run `clients` uses symmetry over the clients: they are model values that the
specification and its invariants only compare, no constant names one, and no liveness
property is checked. No other run uses symmetry. Deadlock is not checked where a
system may come to rest: requests, calls, documents and exchanges are finite in number
and end.

### Fairness

`FairSpec` of the server assumes that a promise or a retained callback of user
code is settled in the end; of the loader, that a file or a request is answered
or fails, that `nextTick` runs and callbacks return; of the client, that a request
ends, a body ends or breaks off, and promises settle; of the listeners, that WSDLs are
delivered and that the calls Node and the loader make return. That is what Node's event
loop and its sockets do, and for user code it is the contract without which no
server could answer. Nothing makes a program call `createClient` or a method, end a
request body, or change headers, so no fairness is assumed of those actions.
`Answered` names the cases in which the code leaves a request without an answer: an auth
result that is neither a boolean nor an Error, and a result that cannot be serialised
whose exception stays with the user's code. `handleResult` sets `handled` before it
renders the result (`server.ts:638`), so that nothing answers after that: not when the
callback comes later, with nothing around it that catches, nor when the method catches
what its callback throws, be it with a try clause or by being async; the rejection that
follows is dropped.

## The proofs

| Module | Theorem | States |
|---|---|---|
| `SoapServerProofs` | `TypeCorrect`, `RepliesArePaid`, `ExecutionIsAuthorised` | `TypeOK`, `RepliesPaidByThrows`, `ExecutionAuthorised` |
| | `ServerImplementsExchange`, `DecisionsStand`, `HeadersStand`, `OneWayResultsAreDropped` | `ImplementsExchange`, `FirstResultStands`, `HeadersOfInvocation`, `OneWayDisregardsResult` |
| `ListenerChainProofs` | `TypeCorrect`, `RequestsAreTakenOnce`, `AuthorizationIsAskedOnce`, `RequestsAreRouted` | `TypeOK`, `TakenOnce`, `AskedOnce`, `ImplementsRouting` |
| `WsdlLoaderProofs` | `CallbacksArePaid`, `TypeCorrect`, `IncludesAreEnteredOnce`, `SuccessesAreWhole`, `CachedWsdlsAreWhole`, `LoaderImplementsProvider` | `CallbacksPaidByThrows`, `TypeOK`, `IncludesEnteredOnce`, `SuccessIsWhole`, `CacheIsSound`, `ImplementsProvider` |
| `SoapClientProofs` | `TypeCorrect`, `CallsBackOnce`, `OwnLastResponse`, `CallbacksFollowEvents` | `TypeOK`, `CallbackOnce`, `LastResponseIsOwn`, `CallbackFollowsEvents` |
| `ClientOptionsProofs` | `PrivateWsdls`, `PrivateOptions`, `TheOptionsAreShared`, `SignedWholly`, `SignersFailForever` | `PrivateWsdlStands`; that nobody changes the options of such a WSDL; `WhoDecides`, `SignedMessagesAreWhole`, `FailsForever` |
| `ObjectToXMLProofs` | `ScopesAreClosed`, `TypeCorrect`, `PrefixesMeanTheirNamespaces` | `ScopesMatchFrames`, `TypeOK`, `PrefixesResolve` |
| `XmlToObjectProofs` | `TextsAreWhole`, `TypesAreThoseOfTheirScope`, `ChildrenKeepTheirOrder`, `ReferencesAreJoined` | `TextIsWhole`, `TypesMeanTheirScope`, `ChildrenInOrder`, `MultiRefsAreJoined` |
| | `OperationsKeepMessages`, `DetailsAreOfOneBinding`, `MessagesKeepTypes` | `OperationsKeepTheirMessages`, `DetailsOfOneBinding`, `MessagesKeepTheirTypes` |

**The server.** `SoapServerProofs` proves for every WSDL, every set of requests and
all behaviours of user code:

- `TypeCorrect`: `Spec => []TypeOK`;
- `RepliesArePaid`: `Spec => []RepliesPaidByThrows`;
- `ExecutionIsAuthorised`: `Spec => []ExecutionAuthorised`.

`RepliesPaidByThrows` is not inductive: nothing in it keeps a request that has been
answered from answering again. The argument is a balance. A request owes a response
as long as its auth result or the result of its method has not been taken, and one
for an exception in flight; responses sent and owed never exceed one plus the
throws. `IInv` states this of every request at rest (`Quiet`), with the type of the
state and with what `ExecutionAuthorised` needs, that a method has run only after a
positive verdict that no refusal preceded. Each operator has a lemma that says how
it changes the balance, in the order in which the code calls them, from `Throw` and
`Emit` up to `ProcessRequestXml`; `NextIInv` has one step per action.

The assumptions are those named in the modules: `WsdlAssumption` (the shape of the
WSDL, and that `Ports`, which is computed from it, is a sequence),
`FaultAssumption`, `BehaviourAssumption`, `OptionAssumption`, `BoundAssumption` and
`NullAssumption`. TLC evaluates all of them in each run of the server.

**The server implements its exchange.** `ServerImplementsExchange` is the refinement
of `SoapExchange`. `IInv` does not say that a result which was sent belongs to a
method that ran. So `JInv` adds `Backed`: a request with a result among its
responses, or one that waits for a method, has run a method. Each operator is shown
to make a record grow (`Grows`): every response stays where it is, an execution
stays, `Backed` stays. `Moves` is what `SoapExchange` lets a step do to one record,
as a relation without variables; a record that grows and keeps the shape of `IInv`
moves. `NextJInv` has one step per action, and `StepJInv` makes of a move of one
request a step of the exchange. `DecisionsStand` comes from the same steps: a record
that grows `Stands` if nothing had arrived before, if a later auth result is
dropped, or if a later outcome keeps what `HandleLaterKeeps` names.

`HeadersStand` and `OneWayResultsAreDropped` are about where a result came from.
`Faithful` says of one record that results are only sent for an operation and carry
the headers that were registered when it was invoked, and that a one-way operation
has been accepted (`Accepted`): its response is sent, its guard closed and no result
is among the responses. That rests on an order of the code, which answers a one-way
call before it calls the method. `Follows` is what a step makes of such a record; it
is transitive, each operator has a lemma for it, and `NextKInv` adds `Faithful` to
`IInv`.

**Listeners.** `TakenOnce` rests on the shape of lists: the listener of a server is
only ever the head of a list, because it takes the others off when it comes, so that
what is left to call after a server has taken a request are the application's own.
`IInv` = `TypeOK` /\ `Untouched` /\ `Chained` /\ `Settled` /\ `TakenOnce` says this
of `listeners`, of `pending` and of what each wrapper saved. The bounds are not
used. `AskedOnce` is a comparison of two counts. A server has one wrapper more than
exceptions of its callback (`Delivered`). On Node's server a wrapper has saved older
ones only, so those that have asked about the request are newer than the one that is
called next (`Descending`); on Express the route that asks passes nothing on
(`Routed`).

`RequestsAreRouted` is the refinement of `RequestRouting`. The registrations of the
abstract specification are a history that the code does not keep, so the argument is
what the chain makes of it. Each wrapper has a place in `log` (`Placed`): what it
saved, and what is registered with Node now, is the listener of the last server
before that place and the application's listeners that came after it, and nothing
older. While a request is dispatched, `NodeOk` says that what is left to call is
that of a server, and no newer one would take the request, or that of the
application, after the last server that would take it has; on Express `ExpressOk`
says that what is left is the registrations from some place on, and none before it
takes the request. Both speak of the list of outcomes through the three things that
`RequestRouting` tells apart (`Says`). When nothing is left to call, `Return` is its
`Route`; `Deliver`, `AddListener` and `SetAuthorizeConnection` are its `Register`
and `Guard`; all other steps stutter. The listeners of the application that were
called are a filter of a list, and so a fold: `FoldTheorems` proves what it does to
the elements and to the parts of a list.

**The loader.** `CallbacksPaidByThrows` is a balance again: a call that is not done
owes one callback. It needs nothing of what is parsed, so the invariant is about the
fields that `Kept` names, and one lemma per statement says that these are kept.

`SuccessIsWhole` is not inductive: it says nothing of a load that is on its way.
`Loading` says how far the depth-first search of one load has come. What was parsed
is merged into a document that is still on the stack (`Merged`, `Explored`), the
documents on the stack include one another and begin with the URL of the call
(`Stacked`), and a document that left the stack is completed, with all that it
includes parsed. So when the last one is completed, what was parsed is closed under
inclusion: it is `Reach`, and the WSDL of the call holds all of it (`Finished`).
`LoadInv` is `Loading` of every call; what is cached is `Finished`; and what a call
has answered or will answer is `Honest`: an error, its own load once it is finished,
or one that it took from the cache. `TypeOK`, `IncludesEnteredOnce`,
`SuccessIsWhole` and `CacheIsSound` follow. So does the refinement of
`WsdlProvider`: `CreateClient` is its `Ask`, the step that completes the first
document its `Store`, the first callback of a call its `Fail` or `Succeed`, and all
other steps stutter. Used are `DocumentAssumption` and `IncludesAssumption` (the
shape of the WSDLs and their includes), not the bounds.

**The client.** `CallbackOnce` has two arguments: with streams `once()` lets no
second call through, without them an exchange that is not done owes one (`Balanced`).
`LastResponseIsOwn` is an action property: each action changes the record of one
exchange and keeps `Balanced`, and one that calls back writes `lastResponse` first
(`Sound`).

`CallbackFollowsEvents` is about the order of a history, and needs to know what an
exchange at rest may still do. `Tells` says it by stage: before the response is
complete the callback was not called; while a stream goes on it was not, or first
with an error; a stream that is closing was announced; without streams there are as
many events of responses as calls of the callback. In one step an event comes first,
then the callback; a `soapError` comes where nothing but an error was delivered
before, and the error follows in the same step.

**Clients.** A WSDL is shared only through the cache. So it is enough that the cache
never holds the WSDL of a client with `disableCache` (`NotCached`), that such a client
never takes one from it (`Staged`), and that a load makes an object that nobody has.

`WhoDecides` is inductive once it is stated of the places in the history of the
clients that were made (`DecideInv` adds only the types): a new client is the last
one of its WSDL object and leaves the first one, and all other objects, as they are.

`SignedMessagesAreWhole` and `FailsForever` follow from what a signer's references
are after each message (`SignInv`): what is found by name, and the Bodies in the
envelope keys that the signer has met; if the Body is excluded, that in the first of
these keys at most. What one message adds is a fold over the additional references
(`AddingAdds`). A message is sent if and only if each Body that the signer remembers
is there, which is so under its own key only; so, unless the Body is excluded, one
message under another key is enough to fail all that follow, under either key. Used
is `OptionsAssumption`, not the bounds.

**Folds.** The induction theorems of the library take an operator as a parameter,
which no prover here can instantiate. `FoldTheorems` has the induction it needs as a
statement about sets: a set of natural numbers that is not empty has a least
element, which is the theorem on well-founded inclusion of finite sets. With it the
recursive function that the community modules' `FoldLeft` chooses is shown to exist,
so that it satisfies its equation.

**Marshalling.** `ObjectToXMLProofs` proves `ScopesAreClosed` for all schemas and
objects. The lemmas on sequences (append, front, replacement) need no type of the
elements; with them each operator of `NamespaceContext` is shown to leave the number
of scopes alone, so that only `Enter` opens one and only the two returns close one.
The invariant `Balanced` adds to `ScopesMatchFrames` only that both stacks are
sequences. No assumption about the schemas is used, nor the bounds. `TypeCorrect` adds
the types (`Typed`), and needs the shape of schemas and objects (`SchemaAssumption`,
`XmlnsAssumption`, `ObjectAssumption`); among it that the prefixes which a schema gives to
elements and types are bound there, so that what is declared is a namespace.

`PrefixesMeanTheirNamespaces` has no hypothesis about which prefixes the schemas, the
user or the options choose. `PrefixesResolve` compares the text with the schemas, while
the code decides what to declare from its context, so the invariant (`Typed` /\
`Balanced` /\ `AllSound`) ties the three together:

- A scope has at most one mapping of a prefix (`Tidy`). What the scopes take to be
  declared at an activation (`Believed`) its children would show (`Claimed`).
- `Shows` is about the nearest open tag that has to do with a prefix (`Concerns`): it
  declares the prefix as that namespace and no other, or has it in its account of what it
  lacks (`Agrees`).
- What an activation may still write is shown as well (`Kept`): its own prefix, the
  one that the property before was given, and the prefix its items have; and the prefix
  of each open tag is (`Sound`).

Each operator of `NamespaceContext` that the walk calls lets a context follow another
(`Follows`): what it takes to be declared was so before, or is one of the declarations
that the operator names. So a step has two things to show: that the activation may go on
with the new context (`Resumed`), what was declared being written or in its account, and
that the one that is entered may begin (`Opened`). `EnterSound` makes the invariant of
the two. There is one lemma for each kind of element and step (`MessageElementSound`,
`SchemaElementSound`, `OtherElementSound`, `ItemSound`, `BeginSound`, `ReturnSound`), and
`SoundResolves` reads `PrefixesResolve` off the invariant. TLC has checked `AllSound` in
the instance of the run `marshal`. Used are `SchemaAssumption`, `XmlnsAssumption`,
`ObjectAssumption` and `PrefixAssumption`, not the bounds.

**Unmarshalling.** None of the first four invariants is inductive. A lemma per action
(`OpenIs`, `CloseIs`, `TextIs`, `BeginIs`, `FinishIs`) restates it as what it does to
the open elements, the objects and the references, which leaves out how schemas and
messages are found; `StepsAre` says that there is nothing else. `Unmarshals` is the
inductive invariant:

- `Shaped`: the types; an open element has its object, and one that is open inside
  another has a younger one; references point to objects.
- `Bare` /\ `TextIsWhole`: an object without attributes has no properties before it has
  a child. So a piece of text finds the words that the pieces before it left, in their
  order, and nothing else; with `preserveWhitespace` it finds these pieces as they were.
- `ScopesKnown` /\ `TypesMeanTheirScope`: the scope of an element is its own declaration
  or that of the element around it, and as long as all that declared the prefix are
  open, `xmlns` has what it means at the innermost of them. An element that ends without
  having declared it leaves `xmlns` right for the one around it.
- `RefsKnown` /\ `ChildrenInOrder`: there is one reference for each id, and an object is
  an href of the id it refers to and of no other. The end of an element puts its value
  behind those of its name, in the object and in what the document says alike
  (`PutAdds`, `KidsAdded`); at the end of the document an object that refers to nothing
  is not joined.
- `TargetsKnown` /\ `MultiRefsAreJoined`: an element with an id that has ended, and is
  not nil, is the object of its reference, or has no properties. `JoinSweeps` follows
  one object through all joins, in any order: it changes in the join of the id it refers
  to and in no other, and what it refers to does not change if that refers to nothing.

Joining is a fold over the references, and the order is any: `FoldChain` makes a run
from first to last of it. TLC has checked `Nested`, `Bare`, `ScopesKnown`, `RefsKnown`
and `TargetsKnown` in the instance of the run `unmarshal`; `ParseTyped` quantifies over
infinite sets. Used is `UnmarshalAssumption`, not the bounds. That no element is called
like the option `valueKey` is so by default; with a name of the user's choice, a text
replaces such a child. That the values of declarations are none of them "no declaration"
is a matter of the model.

**Post-processing and the lookup of messages.** One table holds messages under their
names and under those of their elements, and both post-processing and documents write
it. `Defs` says what it is at any time. A message's name stands for that message or for
one with an element of that name (`NamesKept`); every method has the messages its
operation names, and their elements stand for messages that have them (`MethodsOf`); the
portType of each port that was read has its methods (`PortRead`). Until all ports are
read, there is nothing else in the table (`Entries`). Then documents add names, but only
new ones, so that no element loses its message (`StillOwned`).

The operations of a portType are posted by a fold. `PostRuns` makes a run of it, and
`Told` says of each prefix of that run that a method is that of the last operation of its
name. `DetailsOfOneBinding` and what `MessagesKeepTheirTypes` says of each element that
was read (`ReadRight`) are inductive with `Defs`: a port writes on the methods of its
portType and of no other, one without methods had no port before (`PortRead`), and what
an element is read with depends on the WSDL and the methods alone, except for its
message, which is the one that has it. Used is `WsdlsAssumption`, the shape of the WSDLs.
WSDLs may be stranger than those of the run, with several operations of one name and
messages that share an element: for these, an element named after an operation may be
read with the type of another message of the same element, and the property says so.

Only liveness (`Answered`, `DispatchEnds`) is model-checked and not proved: liveness
under fairness is outside what these provers do. The runs that end with a violation
check properties that do not hold, of which there is nothing to prove.

## Not modelled

- Event listeners and log functions of the user that throw; what a GET is answered
  with; the text of envelopes, faults and timestamps; what Node does when a response is
  written after its end.
- A `wsdlCache` or `options.WSDL_CACHE` that the user passes.
- Parsing WSDLs and describing schemas (`SchemaElement` and its parts): functions from
  XML to definitions, with no order or failure of their own, of which the models take
  the results as constants.
- NTLM and custom HTTP clients, but for their errors that carry a body; the fields
  `last...` other than `lastResponse`, which are written with it.
- In marshalling: `objectToRpcXML`, the lookup of an element in its type, options
  that override names or prefixes, types extended from other namespaces
  (`$baseNameSpace`), the default namespace. Declarations of a tag are a set, so an
  attribute that is written twice does not show.
- In unmarshalling: headers, `customDeserializer`, XML inside CDATA, documents without an
  envelope, properties that a Date is given, and that 0 and false are falsy.
- Messages with several parts of which the first has an element. As
  `MessageElement.postProcess` takes off the part that it processes (`elements.ts:681`),
  the second operation with such a message processes the next part in its place.
- In the client: the body of an error that a custom HTTP client's error carries and that
  breaks off while it is awaited (`client.ts:521`).
- The definition of a client's methods and their promisified names; the text of an HTTP
  request; security objects that keep no state.
- Types: declarations without behaviour.

## The plan

What is left, in this order:

1. A `wsdlCache` of the user's that drops entries between `has` and `get`
   (`soap.ts:35`).
2. `objectToRpcXML` and the lookup of elements in types, with `$baseNameSpace`.
3. Messages with several parts, each with an element (`elements.ts:681`).
4. The headers of a request after `clearHttpHeaders` (`client.ts:490`), composed with
   `ClientOptions`.
