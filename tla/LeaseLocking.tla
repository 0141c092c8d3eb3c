----------------------------- MODULE LeaseLocking -----------------------------
(***************************************************************************)
(* Module Tickets takes each handler as one atomic step.  This module      *)
(* opens the three hot ones at the places where a READ COMMITTED           *)
(* transaction reads before it locks, to see what the locks really give:   *)
(*   - request_job: the overdue sweep reads rows and then updates them by  *)
(*     primary key; the candidate statement judges already_mine on its own *)
(*     snapshot and locks the agent's row afterwards;                      *)
(*   - submit_score: holds the agent's and the ticket's row locks from the *)
(*     lease check to the commit;                                          *)
(*   - fail_job: locks its ticket row, looks up whether the platform       *)
(*     itself revoked the lease's inference, sums the fleet's grants over  *)
(*     rows it did not lock, and writes its own.                           *)
(* Operators, re-tests and confirmations are left to the other modules.    *)
(***************************************************************************)
EXTENDS TicketRow, Sequences, FiniteSets, FiniteSetsExt

CONSTANTS
    Agents, Validators, Quorum, NoAgent,
    PollBound   \* model bound: polls in flight at once

ASSUME LockingAssumption ==
    /\ IsFiniteSet(Validators)
    /\ Quorum \in Nat \ {0}
    /\ NoAgent \notin Agents
    /\ PollBound \in Nat

VARIABLES
    agentStatus, tickets, scores,
    finals,    \* score counts of the agent_finalized audit entries, in order
    polls,     \* per validator and slot: the poll holding that advisory lock
    submits,   \* per ticket row: submit_score holds it and its agent's row,
               \* with the other validators' scores it counted
    fails,     \* per ticket row: fail_job holds it, with the fleet sum it read
    exempt     \* history: grants per agent that the fleet bound does not govern

vars == <<agentStatus, tickets, scores, finals, polls, submits, fails, exempt>>

IdlePoll == [pc |-> "idle", seen |-> {}, pick |-> NoAgent]

NoSubmit == [open |-> FALSE, counted |-> 0]

NoFail == [open |-> FALSE, fleet |-> 0]

\* Types of the variables.
TypeOK ==
    /\ agentStatus \in [Agents -> {"evaluating", "scored"}]
    /\ tickets \in [Agents -> [Validators -> Row]]
    /\ scores \in [Agents -> [Validators -> Nat]]
    /\ finals \in [Agents -> Seq(Nat)]
    /\ polls \in [Validators -> [Slots ->
         [pc : {"idle", "sweeping", "picked"},
          seen : SUBSET (Agents \X Validators), pick : Agents \cup {NoAgent}]]]
    /\ submits \in [Agents -> [Validators -> [open : BOOLEAN, counted : Nat]]]
    /\ fails \in [Agents -> [Validators -> [open : BOOLEAN, fleet : Nat]]]
    /\ exempt \in [Agents -> Nat]

Init ==
    /\ agentStatus = [a \in Agents |-> "evaluating"]
    /\ tickets = [a \in Agents |-> [v \in Validators |-> NoRow]]
    /\ scores = [a \in Agents |-> [v \in Validators |-> 0]]
    /\ finals = [a \in Agents |-> <<>>]
    /\ polls = [v \in Validators |-> [s \in Slots |-> IdlePoll]]
    /\ submits = [a \in Agents |-> [v \in Validators |-> NoSubmit]]
    /\ fails = [a \in Agents |-> [v \in Validators |-> NoFail]]
    /\ exempt = [a \in Agents |-> 0]

Voters(a) == {v \in Validators : scores[a][v] # 0}

LiveRows(a) == {v \in Validators : Live(tickets[a][v])}

FleetInfraGrants(a) ==
    MapThenSumSet(LAMBDA v : tickets[a][v].infra, Validators)

\* Mutant: scores accepted so far are counted instead of seats taken.
SeatLeftByScores(a) == Cardinality(Voters(a)) < Quorum

SeatLeft(a) == Cardinality(LiveRows(a)) < Quorum

\* Mutant: the agent's row is read without FOR UPDATE.
AgentNeverLocked(a) == FALSE

AgentLocked(a) == \E v \in Validators : submits[a][v].open

PollsInFlight ==
    {p \in Validators \X Slots : polls[p[1]][p[2]].pc # "idle"}

RowLocked(a, v) == submits[a][v].open \/ fails[a][v].open
-----------------------------------------------------------------------------
\* SELECT the issued rows whose deadline has passed, without locking them.
ReadOverdue(v, s) ==
    /\ polls[v][s].pc = "idle"
    /\ Cardinality(PollsInFlight) < PollBound
    /\ polls' = [polls EXCEPT ![v][s] = [@ EXCEPT !.pc = "sweeping",
         !.seen = {r \in Agents \X Validators :
                     /\ tickets[r[1]][r[2]].status = "issued"
                     /\ tickets[r[1]][r[2]].late}]]
    /\ UNCHANGED <<agentStatus, finals, tickets, scores, submits, fails, exempt>>

\* UPDATE the rows read, by key, once nobody else holds them; whatever they
\* hold by then is overwritten.
SweptRows(seen) ==
    [a \in Agents |-> [v \in Validators |->
        IF <<a, v>> \in seen THEN Closed(tickets[a][v], TRUE)
                             ELSE tickets[a][v]]]

\* Flush the sweep, check the slot, and pick a candidate on this snapshot.
SweepAndSelect(v, s) ==
    LET T == SweptRows(polls[v][s].seen)
        slotFree == \A a \in Agents :
                      ~(T[a][v].status = "issued" /\ T[a][v].slot = s)
    IN  /\ polls[v][s].pc = "sweeping"
        /\ \A r \in polls[v][s].seen : ~RowLocked(r[1], r[2])
        /\ tickets' = T
        /\ \/ polls' = [polls EXCEPT ![v][s] = IdlePoll]
           \/ \E a \in Agents :
                /\ slotFree
                /\ agentStatus[a] = "evaluating"
                /\ ~AlreadyMine(T[a][v])
                /\ polls' = [polls EXCEPT ![v][s] =
                               [pc |-> "picked", seen |-> {}, pick |-> a]]
        /\ UNCHANGED <<agentStatus, finals, scores, submits, fails, exempt>>

\* Lock the candidate's agent row (SKIP LOCKED; a changed status is rechecked
\* on the locked version), recount its tickets, write the lease, commit.
IssueLease(v, s) ==
    LET a == polls[v][s].pick
    IN  /\ polls[v][s].pc = "picked"
        /\ ~fails[a][v].open
        /\ IF /\ ~AgentLocked(a)
              /\ agentStatus[a] = "evaluating"
              /\ SeatLeft(a)
           THEN tickets' = [tickets EXCEPT
                              ![a][v] = Reissued(@, s, "canonical_quorum")]
           ELSE UNCHANGED tickets
        /\ polls' = [polls EXCEPT ![v][s] = IdlePoll]
        /\ UNCHANGED <<agentStatus, finals, scores, submits, fails, exempt>>
-----------------------------------------------------------------------------
\* submit_score up to its checks: both row locks are held from here on.
OpenSubmit(a, v, lease) ==
    /\ ~AgentLocked(a) /\ ~RowLocked(a, v)
    /\ OpenLease(tickets[a][v], lease)
    /\ scores[a][v] # 0 => agentStatus[a] = "evaluating"
    /\ submits' = [submits EXCEPT ![a][v] =
         [open |-> TRUE, counted |-> Cardinality(Voters(a) \ {v})]]
    /\ UNCHANGED <<agentStatus, finals, tickets, scores, polls, fails, exempt>>

\* Store the score and consume the ticket.  The audit gets an entry when the
\* quorum settles the agent, and for a further validator's score after that.
CommitSubmit(a, v) ==
    LET count == submits[a][v].counted + 1
    IN
    /\ submits[a][v].open
    /\ scores' = [scores EXCEPT ![a][v] = tickets[a][v].attempts]
    /\ tickets' = [tickets EXCEPT ![a][v] = Consumed(@)]
    /\ agentStatus' = [agentStatus EXCEPT ![a] =
         IF count >= Quorum THEN "scored" ELSE @]
    /\ finals' = [finals EXCEPT ![a] =
         IF count >= Quorum /\ (agentStatus[a] = "evaluating" \/ scores[a][v] = 0)
         THEN Append(@, count) ELSE @]
    /\ submits' = [submits EXCEPT ![a][v] = NoSubmit]
    /\ UNCHANGED <<polls, fails, exempt>>

\* fail_job up to the unlocked sum over the fleet's rows.
OpenFail(a, v, lease) ==
    /\ ~RowLocked(a, v)
    /\ OpenLease(tickets[a][v], lease)
    /\ fails' = [fails EXCEPT ![a][v] =
         [open |-> TRUE, fleet |-> FleetInfraGrants(a)]]
    /\ UNCHANGED <<agentStatus, finals, tickets, scores, polls, submits, exempt>>

\* fail_job's billing.  The platform may have revoked the lease's inference
\* itself; unless such a lease is reported as an infrastructure failure, it is
\* compensated outside the fleet bound.
CommitFail(a, v, reason, revoked) ==
    LET bill == Failed(tickets[a][v], reason, revoked, fails[a][v].fleet)
    IN  /\ fails[a][v].open
        /\ tickets' = [tickets EXCEPT ![a][v] = bill]
        /\ exempt' = [exempt EXCEPT ![a] =
             IF reason = "infrastructure" THEN @
             ELSE @ + (bill.infra - tickets[a][v].infra)]
        /\ fails' = [fails EXCEPT ![a][v] = NoFail]
        /\ UNCHANGED <<agentStatus, finals, scores, polls, submits>>
-----------------------------------------------------------------------------
LeaseRunsOut(a, v) ==
    /\ tickets[a][v].status = "issued" /\ ~tickets[a][v].late
    /\ tickets' = [tickets EXCEPT ![a][v].late = TRUE]
    /\ UNCHANGED <<agentStatus, finals, scores, polls, submits, fails, exempt>>

CooldownEnds(a, v) ==
    /\ tickets[a][v].cooling
    /\ tickets' = [tickets EXCEPT ![a][v].cooling = FALSE]
    /\ UNCHANGED <<agentStatus, finals, scores, polls, submits, fails, exempt>>

Poll(v, s) == ReadOverdue(v, s) \/ SweepAndSelect(v, s) \/ IssueLease(v, s)

Report(a, v) ==
    \/ \E lease \in 1 .. tickets[a][v].attempts :
         OpenSubmit(a, v, lease) \/ OpenFail(a, v, lease)
    \/ CommitSubmit(a, v)
    \/ \E reason \in FailureReason, revoked \in BOOLEAN :
         CommitFail(a, v, reason, revoked)

Next ==
    \/ \E v \in Validators, s \in Slots : Poll(v, s)
    \/ \E a \in Agents, v \in Validators :
         Report(a, v) \/ LeaseRunsOut(a, v) \/ CooldownEnds(a, v)

Spec == Init /\ [][Next]_vars
-----------------------------------------------------------------------------
\* The agent's row lock and the recount under it are enough: polls of
\* different validators that picked the same agent concurrently never take
\* more than the quorum of its tickets.
RowsWithinQuorum == \A a \in Agents : Cardinality(LiveRows(a)) <= Quorum

\* Of concurrent submissions that could each be the quorum-th score exactly
\* one performs the finalization: between transactions an agent is settled
\* exactly when its ledger holds a quorum, and then the quorum was audited
\* once, and nothing was audited before.
NoLostFinalization ==
    \A a \in Agents :
        LET settling == {i \in DOMAIN finals[a] : finals[a][i] = Quorum}
        IN  IF Cardinality(Voters(a)) >= Quorum
            THEN agentStatus[a] = "scored" /\ Cardinality(settling) = 1
            ELSE agentStatus[a] = "evaluating" /\ finals[a] = <<>>

\* The grants earned by infrastructure verdicts that validators reported,
\* the ones MAX_AGENT_INFRA_RETRY_GRANTS is there to stop.
ReportedGrants(a) == FleetInfraGrants(a) - exempt[a]

\* Reading the fleet's grants without locking the other rows can overshoot
\* the fleet bound, but reported failures exceed it only by those that can be
\* in flight at once, one less than the agent has seats, however many leases
\* the platform revokes and compensates meanwhile.
GrantOvershootBounded ==
    \A a \in Agents :
        ReportedGrants(a) <= MaxAgentInfraRetryGrants + Quorum - 1
-----------------------------------------------------------------------------
\* "Consume the ticket (one ticket, one score); the slot stays occupied"
\* (submit_score): a consumed ticket is never reopened by a sweep that read
\* it while it was still issued.
ConsumedStaysOccupied ==
    \A a \in Agents, v \in Validators :
        scores[a][v] # 0 => tickets[a][v].status = "scored"

\* "Agents this validator must not receive right now: live/scored tickets"
\* (issue_ticket): a lease is never taken over by a sibling slot's poll.
LeaseNotRetaken ==
    [][\A a \in Agents, v \in Validators :
         tickets[a][v].status = "issued"
           => tickets'[a][v].attempts = tickets[a][v].attempts]_tickets

\* "Reported infrastructure verdicts stop earning grants once the fleet total
\* reaches it" (MAX_AGENT_INFRA_RETRY_GRANTS); the grants of leases that the
\* platform revoked are not counted against it here.
FleetGrantsBounded ==
    \A a \in Agents : ReportedGrants(a) <= MaxAgentInfraRetryGrants
=============================================================================
