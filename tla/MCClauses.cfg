SPECIFICATION Spec
CONSTANTS
    NULL = NULL
    DirectiveCount = 3
    ClauseCount = 3
    MaxTable = 4
    MaxArguments = 4
    MaxClauses = 3
    MaxModifiers = 4
    Texts = {text1, text2}
    NoText = NoText
    MaxCalls = 4
    MaxTokens = 10
    MaxTexts = 2
    MaxMore = 4
    MaxPeek = 3
INVARIANTS
    SelectorFaithful
    SelectorVerdict
    CallIsAtomic
    AnswerIsMembership
    VerdictsAreByRule
    PayloadsPrintedAsBuilt
    NestedTextsKept
    PiecesInPlace
PROPERTIES
    NothingTakenBack
CHECK_DEADLOCK FALSE
