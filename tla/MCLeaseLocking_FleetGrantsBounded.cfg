CONSTANTS
    a1 = a1
    v1 = v1
    v2 = v2
    v3 = v3
    s1 = s1
    s2 = s2
    NoAgent = NoAgent
    Agents = {a1}
    Validators = {v1, v2, v3}
    Slots = {s1}
    DefaultSlot = s1
    PollBound = 2
    Quorum = 2
    MaxAttemptsPerVersion = 1
    MaxInfraRetryGrants = 1
    MaxAgentInfraRetryGrants = 1
SPECIFICATION Spec
INVARIANT FleetGrantsBounded
SYMMETRY Symmetry
