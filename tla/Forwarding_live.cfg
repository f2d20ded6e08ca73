SPECIFICATION FairSpec
CHECK_DEADLOCK FALSE
CONSTANTS
    r1 = r1
    r2 = r2
    r3 = r3
    h1 = h1
    Removers = {m1}
    Operator = operator
    Targets = {t1, t2}
    Hostnames = {h1}
    Foreign = {}
    Nobody = Nobody
    t1 = t1
    t2 = t2
    Requests = {r2}
    KindOf <- OneAliasKinds
    PortOf <- OneAliasPorts
    NameOf <- OneAliasNames
PROPERTIES
    JobsEnd
    DeadForwardsLeave
