SPECIFICATION Spec
CONSTANTS
    NULL = NULL
    C = C
    CXX = CXX
    FTN = FTN
    par = par
    refmod = refmod
    fomp = fomp
    ompx = ompx
    unsound = unsound
    t1 = t1
    t2 = t2
    Thread = {t1, t2}
    Request <- Parallel
    MaxDepth = 2
    Fortran = FTN
    Lang <- Languages
    Text <- Texts
    Marked <- SentinelTexts
    Parsable <- ParsableTexts
    Sound <- SoundTexts
    Extended <- ExtendedTexts
    Fragments <- FragmentCounts
    HostReport <- Reports
INVARIANTS
    OneOwner
PROPERTIES
    AnswersItsOwnCall
