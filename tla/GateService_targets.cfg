SPECIFICATION Spec
CHECK_DEADLOCK FALSE
CONSTANTS
    c1 = c1
    c2 = c2
    a1 = a1
    t1 = t1
    t2 = t2
    ask = ask
    allow = allow
    deny = deny
    pipe = pipe
    Commands = {c1, c2}
    Capabilities = {}
    Agents = {a1}
    Targets = {t1, t2}
    NoTarget = NoTarget
    Payloads = {ask, allow, deny, pipe}
    Composed = {pipe}
    StoreFaults = FALSE
    PayloadOf <- TwoAsk
    PolicyOf <- Policy
INVARIANTS
    HumanBehindEveryRun
    DenialHolds
    ConnectedAuditComplete
PROPERTIES
    RulesAreEarned
SYMMETRY Symmetric
