SPECIFICATION StoreSpec
CONSTANTS
    d1 = d1
    d2 = d2
    d3 = d3
    c1 = c1
    c2 = c2
    c3 = c3
    OMPC_order = OMPC_order
    OMPC_private = OMPC_private
    Lang_unknown = Lang_unknown
    Lang_C = Lang_C
    Lang_Fortran = Lang_Fortran
    Directive <- MCDirective
    Clause <- MCClause
    Kind <- MCKind
    BaseLang <- MCBaseLang
SYMMETRY Symmetry
INVARIANTS
    TypeOK
    StoreAlwaysValid
    SingleOwner
    IndexInSourceOrder
    LanguageOfOwner
PROPERTIES
    SourceOrderKept
    RefinesClauseList
