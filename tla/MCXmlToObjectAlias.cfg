CONSTANTS
    Names <- CNames
    Suffix <- CSuffix
    Wsdls <- RpcOnly
    Fields <- CFields
    Many <- CMany
    Scalars = {"number", "date"}
    Dates = {"date"}
    Words = {"x", "y"}
    NoWord = "no word"
    Pieces <- OneWord
    String = "string"
    TypeNamed <- CTypeNamed
    OuterUri = "u1"
    Vocabularies <- Responses
    AttributesKey = "attributes"
    ValueKey = "$value"
    MaxDocuments = 2
    MaxNodes = 2
    MaxDepth = 4
SPECIFICATION Spec
CHECK_DEADLOCK FALSE
INVARIANT AliasIsTransparent
