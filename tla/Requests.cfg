SPECIFICATION Spec
CONSTANTS
    PayloadSpecs <- MCPayloadSpecs
    I64Max = 1000
    EchoBodyLimit = 2
    Docs <- MCDocs
    Principals <- MCPrincipals
    Calls <- MCCalls
    Configs <- MCConfigs
    Beginnings <- MCBeginnings
    Names <- MCNames
    ReadBackLimit = 2
    Tolerance = 3
    MaxSteps = 2
INVARIANTS ErrorsExplainThemselves AnswersTellTheTruth NothingUncheckedIsStored PostsStayPublic
CHECK_DEADLOCK FALSE
