CONSTANTS
    c1 = c1
    c2 = c2
    m1 = m1
    None = None
    Clients = {c1, c2}
    Commands = {m1}
    Operations = {o1}
    Grants = {g1}
    Requests = {r1}
    Invocations = {i1, i2}
    CommandOf <- MCCommandOf
    Effectful <- MCEffectful
    Contract <- MCContract
    Policy <- MCPolicy
    Workload <- MCWorkload
    MaxPrepared = 1
    MaxGrants = 1
    MaxRequests = 2
    MaxGeneration = 3
    Initial1 = {m1}
    Other = {"observe", "invoke", "reduce", "discard"}
    Configurations = 2
    Last = {}
    Busy = {"prepare", "request", "invoke"}
    Faults = {"io", "crash", "contention"}
SPECIFICATION Spec
SYMMETRY Ids
INVARIANTS GrantMatchesOperation EffectFollowsIntent
PROPERTIES ImplementsPreparedOnce EntersUnderAuthority
