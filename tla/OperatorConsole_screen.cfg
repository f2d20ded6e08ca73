SPECIFICATION Spec
CHECK_DEADLOCK FALSE
CONSTANTS
    c1 = c1
    c2 = c2
    Commands = {c1, c2}
    VerdictOf <- TwoAsked
    SingleKey = {TRUE, FALSE}
    Terminal = {TRUE, FALSE}
    Lines <- AllLines
INVARIANTS
    TypeOK
    ScreenInSync
    BellOnce
    LedgerTruth
SYMMETRY Symmetric
