SPECIFICATION FairSpec
CHECK_DEADLOCK FALSE
CONSTANTS
    n1 = n1
    n2 = n2
    Conns = {n1}
    Kinds = {"exec", "add", "list", "stray"}
    Seconds = {"cancel", "cancel other", "exec", "junk"}
    MaxReports = 1
INVARIANTS
    TypeOK
    CancelRecognised
    OutcomeTruth
PROPERTIES
    DepartureEnds
    ResultReaches
    ShutdownEnds
