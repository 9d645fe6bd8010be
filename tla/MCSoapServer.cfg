\* One request, every behaviour, and a header list that changes meanwhile,
\* under fairness of the user code.
SPECIFICATION FairSpec
CONSTANTS
    f1 = f1
    f2 = f2
    NoMessage = NoMessage
    NoOperation = NoOperation
    Services <- MCServices
    Bindings <- MCBindings
    Req = {r1}
    Message <- MCMessages
    Fault = {f1, f2}
    FaultStatus <- MCFaultStatus
    Implemented <- MCImplemented
    Handlers <- MCHandlers
    AuthMode = "function"
    AuthBehaviour <- MCAuth
    MethodBehaviour <- MCMeth
    Outcome <- MCOutcome
    OneWayCode = 202
    OneWayEnvelope = TRUE
    Header = {"h1", "h2"}
    MaxHeaders = 2
INVARIANTS
    TypeOK
    RepliesPaidByThrows
    ExecutionAuthorised
    OneWayDisregardsResult
PROPERTIES
    HeadersOfInvocation
    FirstResultStands
    Answered
    ImplementsExchange
CHECK_DEADLOCK FALSE
