\* Three clients of one document, three security objects and three messages.
SPECIFICATION Spec
CONSTANTS
    plain = plain
    algorithm = algorithm
    excluding = excluding
    soapenv = soapenv
    v = v
    w = w
    Signers = {plain, algorithm, excluding}
    SignerOptions <- MCSignerOptions
    Keys = {soap, soapenv}
    NoKey = NoKey
    Clients = {c1, c2, c3}
    Values = {v, w}
    Headers = {"To"}
    None = None
    Given <- MCGiven
    SoapKey = soap
    MaxCalls = 3
SYMMETRY MCSymmetry
INVARIANTS
    WhoDecides
    PrivateWsdlStands
    SignedMessagesAreWhole
    FailsForever
CHECK_DEADLOCK FALSE
