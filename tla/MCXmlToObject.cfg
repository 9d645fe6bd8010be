CONSTANTS
    Names <- CNames
    Suffix <- CSuffix
    Wsdls <- CWsdls
    Fields <- CFields
    Many <- CMany
    Scalars = {"number", "date"}
    Dates = {"date"}
    Words = {"x", "y"}
    NoWord = "no word"
    Pieces <- CPieces
    String = "string"
    TypeNamed <- CTypeNamed
    OuterUri = "u1"
    Vocabularies <- CVocabularies
    AttributesKey = "attributes"
    ValueKey = "$value"
    MaxDocuments = 2
    MaxNodes = 4
    MaxDepth = 6
SPECIFICATION Spec
CHECK_DEADLOCK FALSE
INVARIANTS
    OperationsKeepTheirMessages
    DetailsOfOneBinding
    ChildrenInOrder
    MultiRefsAreJoined
    TextIsWhole
    TypesMeanTheirScope
    MessagesKeepTheirTypes
