SPECIFICATION Spec
CONSTANTS
    p1 = p1  p2 = p2  p3 = p3  team = team  other = other  db = db
    x = x  y = y  k1 = k1  k2 = k2  r1 = r1  r2 = r2
    Absent = Absent  Foreign = Foreign  NoPod = NoPod  NoSecret = NoSecret
    Namespaces = {team}
    SecretNames = {db}
    Registered = {"aws"}
    Pods = {p1}
    Replicas = {r1}
    Keys = {k1, k2}
    Paths = {x}
    Annotations <- TwoMappings
    NamespaceOf <- MCNamespaceOfOne
    MaxEdits = 2
    MaxFaults = 0
    MaxPending = 2
    ClockPeriod = 2
INVARIANTS
    OnlySpecifiedKeys
