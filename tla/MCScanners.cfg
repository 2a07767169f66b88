SPECIFICATION Spec
INVARIANTS
    ScannersAgree
    CutsAreExact
    NamesReadBack
    PiecesLocated
    KindsRecognised
CHECK_DEADLOCK FALSE
