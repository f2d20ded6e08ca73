SPECIFICATION Spec
CHECK_DEADLOCK FALSE
CONSTANTS
    r1 = r1
    r2 = r2
    r3 = r3
    h1 = h1
    Removers = {m1}
    Operator = operator
    Targets = {t1}
    Hostnames = {h1}
    Foreign = {}
    Nobody = Nobody
    t1 = t1
    t2 = t2
    Requests = {r2, r3}
    KindOf <- TwoAliasKinds
    PortOf <- TwoAliasPorts
    NameOf <- TwoAliasNames
INVARIANTS
    TypeOK
    RowsMirrorAliases
    OneLinePerName
    TunnelsOwned
PROPERTIES
    ClosedOnce
SYMMETRY Symmetric
