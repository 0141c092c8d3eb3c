CONSTANTS
    a1 = a1
    v1 = v1
    v2 = v2
    v3 = v3
    s0 = s0
    Agents = {a1}
    Validators = {v1, v2, v3}
    Polling = {v1, v2}
    Slots = {s0}
    DefaultSlot = s0
    Quorum = 2
    MaxAttemptsPerVersion = 1
    MaxInfraRetryGrants = 1
    MaxAgentInfraRetryGrants = 2
    ManualGrantBound = 1
SPECIFICATION FairSpec
PROPERTIES NoSilentStall LeasesEnd
