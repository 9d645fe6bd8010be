SPECIFICATION Spec
CONSTANTS
    Prefix <- MCPrefix
    Uri = {"u0", "u1", "u2", "u3", "xsd"}
    Generated <- MCGenerated
    NoUri = "none"
    Schemas <- MCSchemas
    Qualified = {"u0", "u1"}
    Xmlns <- MCXmlns
    Xsd = "xsd"
    Elements <- MCElements
    Roots <- MCRoots
    XsiTypes <- MCXsiTypes
    Ignored = {"tns"}
    Envelope <- MCEnvelope
    Inside <- MCInside
    MaxDepth = 4
    MaxElements = 5
INVARIANTS TypeOK ScopesMatchFrames PrefixesResolve
