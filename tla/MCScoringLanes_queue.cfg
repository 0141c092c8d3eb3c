CONSTANTS
    a1 = a1
    a2 = a2
    v1 = v1
    s0 = s0
    s1 = s1
    Agents = {a1, a2}
    Validators = {v1}
    Polling = {v1}
    Slots = {s0, s1}
    DefaultSlot = s0
    Quorum = 1
    MaxAttemptsPerVersion = 1
    MaxInfraRetryGrants = 0
    MaxAgentInfraRetryGrants = 0
    ManualGrantBound = 0
    LeaseBound = 3
SPECIFICATION LanesSpec
INVARIANT OneLeasePerSlot
PROPERTY RetestsServedInOrder
SYMMETRY Symmetry
