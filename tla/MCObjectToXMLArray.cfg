SPECIFICATION Spec
CONSTANTS
    Prefix <- MCPrefix
    Uri = {"u0", "u1", "u2", "u3", "xsd"}
    Generated <- MCGenerated
    NoUri = "none"
    Schemas <- MCSchemas
    Qualified = {"u0", "u1"}
    Xmlns <- MCXmlnsArray
    Xsd = "xsd"
    Elements <- MCElements
    Roots <- MCRoots
    XsiTypes = {}
    Ignored = {}
    Envelope <- MCEnvelope
    Inside = {}
    MaxDepth = 4
    MaxElements = 5
INVARIANT SubNamespaceIsCorrect
