SPECIFICATION Spec
CHECK_DEADLOCK FALSE
CONSTANTS
    c1 = c1
    c2 = c2
    a1 = a1
    t1 = t1
    t2 = t2
    ask = ask
    allow = allow
    deny = deny
    pipe = pipe
    Commands = {c1, c2}
    Capabilities = {c2}
    Agents = {a1}
    Targets = {t1}
    NoTarget = NoTarget
    Payloads = {ask, allow, deny, pipe}
    Composed = {pipe}
    StoreFaults = TRUE
    PayloadOf <- AllowAndPipe
    PolicyOf <- Policy
INVARIANTS
    TypeOK
    AuditBeforeRun
    ProcessIsTracked
PROPERTIES
    ImplementsLifecycle
