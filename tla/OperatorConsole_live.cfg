SPECIFICATION FairSpec
CHECK_DEADLOCK FALSE
CONSTANTS
    c1 = c1
    c2 = c2
    Commands = {c1, c2}
    VerdictOf <- AskedAndAllowed
    SingleKey = {TRUE}
    Terminal = {FALSE}
    Lines <- BareLines
PROPERTIES
    PendingIsShown
    LedgerComplete
