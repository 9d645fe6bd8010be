\* Two exchanges in flight, for each kind of client.
SPECIFICATION FairSpec
CONSTANTS
    c1 = c1
    c2 = c2
    Call = {c1, c2}
    NoCall = NoCall
    Mode = {"plain", "mtom", "stream", "sax"}
    Response <- MCResponse
    Invocation <- MCInvocation
    MaxErrors = 2
INVARIANTS
    TypeOK
    CallbackOnce
    CallbackFollowsEvents
PROPERTIES
    LastResponseIsOwn
    Answered
CHECK_DEADLOCK FALSE
