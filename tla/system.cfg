SPECIFICATION SysSpec
CONSTANTS
    p1 = p1  team = team  db = db  x = x  y = y  k1 = k1  r1 = r1
    Absent = Absent  Foreign = Foreign  NoPod = NoPod  NoSecret = NoSecret
    Namespaces = {team}
    SecretNames = {db}
    Registered = {"aws-secretsmanager", "bitwarden"}
    Configured = {"bitwarden"}
    Pods = {p1}
    Replicas = {r1}
    Keys = {k1}
    Paths = {x, y}
    Annotations <- ThreeProviders
    NamespaceOf <- MCNamespaceOf
    CacheTTL = 1
    MaxEdits = 2
    MaxFaults = 2
    MaxPending = 2
    ClockPeriod = 2
INVARIANTS
    SysTypeOK
    UnsupportedIsReal
PROPERTIES
    NeverOlder
    ComesBack
    EventuallyServed
    EventuallyTold
