\* The same clients and security objects, and what is excluded from signing.
SPECIFICATION Spec
CONSTANTS
    plain = plain
    algorithm = algorithm
    excluding = excluding
    soapenv = soapenv
    v = v
    w = w
    Signers = {plain, algorithm, excluding}
    SignerOptions <- MCSignerOptions
    Keys = {soap, soapenv}
    NoKey = NoKey
    Clients = {c1}
    Values = {v, w}
    Headers = {"To"}
    None = None
    Given <- MCGiven
    SoapKey = soap
    MaxCalls = 3
INVARIANTS
    ExcludedIsNotSigned
CHECK_DEADLOCK FALSE
