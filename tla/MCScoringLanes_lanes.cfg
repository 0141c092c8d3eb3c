CONSTANTS
    a1 = a1
    v1 = v1
    v2 = v2
    v3 = v3
    s0 = s0
    Agents = {a1}
    Validators = {v1, v2, v3}
    Polling = {v1, v2, v3}
    Slots = {s0}
    DefaultSlot = s0
    Quorum = 2
    MaxAttemptsPerVersion = 1
    MaxInfraRetryGrants = 0
    MaxAgentInfraRetryGrants = 0
    ManualGrantBound = 0
    LeaseBound = 2
SPECIFICATION LanesSpec
INVARIANTS LanesTypeOK FinalizedKeepsQuorum
SYMMETRY Symmetry
