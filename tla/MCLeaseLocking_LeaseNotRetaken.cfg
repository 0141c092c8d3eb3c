CONSTANTS
    a1 = a1
    v1 = v1
    v2 = v2
    v3 = v3
    s1 = s1
    s2 = s2
    NoAgent = NoAgent
    Agents = {a1}
    Validators = {v1}
    Slots = {s1, s2}
    DefaultSlot = s1
    PollBound = 2
    Quorum = 2
    MaxAttemptsPerVersion = 2
    MaxInfraRetryGrants = 0
    MaxAgentInfraRetryGrants = 0
SPECIFICATION Spec
PROPERTY LeaseNotRetaken
SYMMETRY Symmetry
