\* A one-way operation whose method throws.
SPECIFICATION Spec
CONSTANTS
    f1 = f1
    f2 = f2
    NoMessage = NoMessage
    NoOperation = NoOperation
    Services <- MCServices
    Bindings <- MCBindings
    Req = {r1}
    Message <- MCMessagesFew
    Fault = {f1, f2}
    FaultStatus <- MCFaultStatus
    Implemented <- MCImplemented
    Handlers <- MCHandlers
    AuthMode = "function"
    AuthBehaviour <- MCAuthYes
    MethodBehaviour <- MCMethOneWay
    Outcome <- MCOutcome
    OneWayCode = 202
    OneWayEnvelope = TRUE
    Header = {}
    MaxHeaders = 0
INVARIANTS
    OneWaySingleReply
CHECK_DEADLOCK FALSE
