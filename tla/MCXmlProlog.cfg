SPECIFICATION Spec
CONSTANTS
    DeclHandler = "EStatusOk"
    GroupChunk = 2
    Tokens <- SomeTokens
    Names <- SomeNames
    Seeds <- SomeSeeds
INVARIANTS LanguageIsXml DtdAsDeclared
CHECK_DEADLOCK FALSE
