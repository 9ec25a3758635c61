CONSTANTS
    c1 = c1
    c2 = c2
    m1 = m1
    None = None
    Clients = {c1, c2}
    Commands = {m1}
    Operations = {o1}
    Grants = {g1, g2}
    Requests = {r1, r2}
    Invocations = {i1}
    CommandOf <- MCCommandOf
    Effectful <- MCEffectful
    Contract <- MCContract
    Policy <- MCPolicy
    Workload <- MCWorkload
    MaxPrepared = 1
    MaxGrants = 2
    MaxRequests = 3
    MaxGeneration = 1
    Initial1 = {}
    Other = {"request", "reduce"}
    Configurations = 1
    Last = {m1}
    Busy = {"prepare", "request", "invoke"}
    Faults = {"io"}
SPECIFICATION FairSpec
INVARIANTS RecordsSound
PROPERTIES ReplayProtectionKept CallsSettle
