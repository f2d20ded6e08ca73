SPECIFICATION Spec
CHECK_DEADLOCK FALSE
CONSTANTS
    p1 = p1
    p2 = p2
    Proposers = {p1, p2}
    Programs = {"journalctl", "uptime", "reboot"}
    Operands <- TheOperands
    Log <- TheLog
    Old = 7
    Bounded = {"journalctl"}
    Exact = {"uptime"}
    Units = {"redis", "nginx", "example"}
    Sensitive = {"token"}
    Typical = "redis"
    Example = "example"
    Nothing = ""
    Improper = "--all"
    Baseline <- Suite
    Active <- Local
    Upstreams <- TheUpstreams
    ConfigMinimum = 2
    FlagMinimums = {0, 3}
    Preflights = 2
    MaxRuns = 3
    MaxEdits = 1
INVARIANTS
    TypeOK
PROPERTIES
    
    WidensOnly
    EvidenceHolds
    ReportedHasRules
SYMMETRY Symmetric
