CONSTANTS
    a1 = a1
    v1 = v1
    v2 = v2
    v3 = v3
    v4 = v4
    s0 = s0
    Agents = {a1}
    Validators = {v1, v2, v3, v4}
    Polling = {v1, v2, v3, v4}
    Slots = {s0}
    DefaultSlot = s0
    Quorum = 3
    MaxAttemptsPerVersion = 1
    MaxInfraRetryGrants = 1
    MaxAgentInfraRetryGrants = 2
    ManualGrantBound = 1
SPECIFICATION Spec
INVARIANTS TypeOK QuorumSeats LedgerAgrees SettledAtQuorum NoWastedLease BudgetRespected
PROPERTIES ScoresWriteOnce GrantsAccounted
SYMMETRY Symmetry
