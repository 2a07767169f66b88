SPECIFICATION Spec
CONSTANTS
    Root = Root
    d2 = d2
    d3 = d3
    NULL = NULL
    Directive <- MCDirective
    Attachments <- MCAttachments
INVARIANTS
    TypeOK
    WalksReachAll
    AuditedOnce
    CyclesReported
    DepthBounded
PROPERTIES
    WalksEnd
\* The walks are over when the policy walk is.
CHECK_DEADLOCK FALSE
