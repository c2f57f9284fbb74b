SPECIFICATION Spec
CONSTANTS
    s1 = s1
    o1 = o1
    g1 = g1
    f1 = f1
    Nobody = Nobody
    NoDir = NoDir
    Starters <- MCStarters
    Operators <- MCOperators
    Managed <- MCManaged
    Foreground <- MCForeground
    MaxCrashes = 1
INVARIANTS
    TypeOK
    RootExclusive
PROPERTY ImplementsLease
