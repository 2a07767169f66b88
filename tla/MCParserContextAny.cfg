SPECIFICATION ParserSpec
CONSTANTS
    MaxDirectives = 3
    MaxClauses = 3
    MaxParses = 2
    Forms = {"nested", "misplaced", "order-comma", "silent-comma"}
    NULL = NULL
    OMPC_order = "order"
    Lang_unknown = Lang_unknown
    Lang_C = Lang_C
    ParserLang = Lang_C
    Directive <- MCDirective
    Clause <- MCClause
    Kind <- MCKind
    BaseLang <- MCBaseLang
INVARIANTS
    ParserTypeOK
    SoleHolder
\* The texts of a behaviour are bounded, so the parser may run out of input.
CHECK_DEADLOCK FALSE
