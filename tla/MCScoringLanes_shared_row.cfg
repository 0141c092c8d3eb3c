CONSTANTS
    a1 = a1
    v1 = v1
    v2 = v2
    s0 = s0
    Agents = {a1}
    Validators = {v1, v2}
    Polling = {v1, v2}
    Slots = {s0}
    DefaultSlot = s0
    Quorum = 2
    MaxAttemptsPerVersion = 1
    MaxInfraRetryGrants = 0
    MaxAgentInfraRetryGrants = 0
    ManualGrantBound = 0
    LeaseBound = 4
SPECIFICATION LanesSpec
INVARIANTS EvidenceApart RetestOwnsRow
PROPERTY ReplacedOnlyOnRequest
SYMMETRY Symmetry
