CONSTANTS
    a1 = a1
    a2 = a2
    v1 = v1
    v2 = v2
    s0 = s0
    s1 = s1
    Agents = {a1, a2}
    Validators = {v1, v2}
    Polling = {v1, v2}
    Slots = {s0, s1}
    DefaultSlot = s0
    Quorum = 2
    MaxAttemptsPerVersion = 1
    MaxInfraRetryGrants = 1
    MaxAgentInfraRetryGrants = 1
    ManualGrantBound = 0
SPECIFICATION Spec
INVARIANT OneLeasePerSlot
PROPERTY PromiseKept
SYMMETRY Symmetry
