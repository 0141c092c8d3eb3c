---------------------------- MODULE TicketsProofs ----------------------------
(***************************************************************************)
(* Proofs about module Tickets, for any finite set of validators, any set  *)
(* of agents and slots, any quorum and any budgets.                        *)
(***************************************************************************)
EXTENDS Tickets, FiniteSetTheorems, TLAPS

\* What BudgetRespected says of one row.
WithinBudget(t) ==
    /\ t.status = "none" => t.attempts = 0
    /\ t.attempts <= Cap(t)
    /\ t.infra <= MaxInfraRetryGrants

\* u rewrites t without opening a lease or consuming the ticket, takes no
\* budget back, and leaves a used-up row at most one lease.
QuietRow(t, u) ==
    /\ u \in Row
    /\ u.status = t.status \/ (t.status = "issued" /\ u.status = "expired")
    /\ u.attempts = t.attempts /\ u.slot = t.slot
    /\ WithinBudget(t) => WithinBudget(u)
    /\ Cap(t) <= Cap(u)
    /\ WithinBudget(t) /\ Exhausted(t) => Cap(u) <= t.attempts + 1
-----------------------------------------------------------------------------
\* The ticket rows stay typed under issuing and consuming.
LEMMA RowTypes ==
    ASSUME NEW t \in Row, NEW s \in Slots, NEW p \in TicketPurpose
    PROVE  /\ NoRow \in Row
           /\ Reissued(t, s, p) \in Row
           /\ Consumed(t) \in Row
<1>1. NoRow \in Row
  BY RowAssumption DEF Row, NoRow, TicketStatus, TicketPurpose
<1>2. Reissued(t, s, p) \in Row
  BY DEF Row, Reissued, TicketStatus, TicketPurpose
<1>3. Consumed(t) \in Row
  BY DEF Row, Consumed, TicketStatus
<1> QED BY <1>1, <1>2, <1>3

\* The cap is a number, and a new row has nothing to answer for.
LEMMA CapType ==
    /\ \A t \in Row : Cap(t) \in Nat
    /\ WithinBudget(NoRow)
<1>1. ASSUME NEW t \in Row PROVE Cap(t) \in Nat
  BY RowAssumption DEF Row, Cap
<1>2. WithinBudget(NoRow)
  BY RowAssumption DEF WithinBudget, NoRow, Cap
<1> QED BY <1>1, <1>2

\* A row whose status, if anything, goes from "issued" to "expired", with its
\* counters as they were, is a quiet rewrite.
LEMMA QuietSameBudget ==
    ASSUME NEW t \in Row, NEW u \in Row,
           u.status = t.status \/ (t.status = "issued" /\ u.status = "expired"),
           u.attempts = t.attempts, u.slot = t.slot,
           u.manual = t.manual, u.infra = t.infra
    PROVE  QuietRow(t, u) /\ Cap(u) = Cap(t)
<1>1. Cap(u) = Cap(t) /\ Cap(t) \in Nat /\ t.attempts \in Nat
  BY CapType DEF Cap, Row
<1>2. WithinBudget(t) => WithinBudget(u)
  BY <1>1 DEF WithinBudget
<1>3. WithinBudget(t) /\ Exhausted(t) => Cap(u) <= t.attempts + 1
  BY <1>1 DEF Exhausted, BudgetSpent
<1> QED BY <1>1, <1>2, <1>3 DEF QuietRow

\* Leaving a row alone, letting its deadline or its cooldown pass, and closing
\* an open or closed lease are quiet rewrites that leave the budget alone.
LEMMA QuietBasics ==
    ASSUME NEW t \in Row, NEW c \in BOOLEAN
    PROVE  /\ QuietRow(t, t)
           /\ QuietRow(t, [t EXCEPT !.late = TRUE])
           /\ QuietRow(t, [t EXCEPT !.cooling = FALSE])
           /\ t.status \in {"issued", "expired"}
                => QuietRow(t, Closed(t, c)) /\ Cap(Closed(t, c)) = Cap(t)
<1>1. QuietRow(t, t)
  BY QuietSameBudget
<1>2. QuietRow(t, [t EXCEPT !.late = TRUE])
  <2> DEFINE u == [t EXCEPT !.late = TRUE]
  <2>1. /\ u \in Row /\ u.status = t.status /\ u.attempts = t.attempts
        /\ u.slot = t.slot /\ u.manual = t.manual /\ u.infra = t.infra
    BY DEF Row
  <2> HIDE DEF u
  <2>2. QuietRow(t, u)
    BY <2>1, QuietSameBudget
  <2> QED BY <2>2 DEF u
<1>3. QuietRow(t, [t EXCEPT !.cooling = FALSE])
  <2> DEFINE u == [t EXCEPT !.cooling = FALSE]
  <2>1. /\ u \in Row /\ u.status = t.status /\ u.attempts = t.attempts
        /\ u.slot = t.slot /\ u.manual = t.manual /\ u.infra = t.infra
    BY DEF Row
  <2> HIDE DEF u
  <2>2. QuietRow(t, u)
    BY <2>1, QuietSameBudget
  <2> QED BY <2>2 DEF u
<1>4. ASSUME t.status \in {"issued", "expired"}
      PROVE  QuietRow(t, Closed(t, c)) /\ Cap(Closed(t, c)) = Cap(t)
  <2> DEFINE u == Closed(t, c)
  <2>1. /\ u \in Row /\ u.status = "expired" /\ u.attempts = t.attempts
        /\ u.slot = t.slot /\ u.manual = t.manual /\ u.infra = t.infra
    BY DEF Row, Closed, TicketStatus
  <2> HIDE DEF u
  <2>2. QuietRow(t, u) /\ Cap(u) = Cap(t)
    BY <1>4, <2>1, QuietSameBudget
  <2> QED BY <2>2 DEF u
<1> QED BY <1>1, <1>2, <1>3, <1>4

\* So is the overdue sweep.
LEMMA QuietSweep ==
    ASSUME NEW t \in Row
    PROVE  QuietRow(t, Swept(t))
BY QuietBasics DEF Swept

\* So is every way fail_job can bill a failure of an open lease.
LEMMA QuietFailure ==
    ASSUME NEW t \in Row, t.status = "issued",
           NEW reason, NEW revoked \in BOOLEAN, NEW fleet
    PROVE  QuietRow(t, Failed(t, reason, revoked, fleet))
<1>1. ASSUME NEW b \in BOOLEAN
      PROVE  /\ Granted(t, b, fleet) \in Row
             /\ Granted(t, b, fleet).status = t.status
             /\ Granted(t, b, fleet).attempts = t.attempts
             /\ Granted(t, b, fleet).slot = t.slot
             /\ WithinBudget(t) => WithinBudget(Granted(t, b, fleet))
             /\ Cap(t) <= Cap(Granted(t, b, fleet))
  <2>1. CASE MayGrant(t, b, fleet)
    <3>1. Granted(t, b, fleet) = [t EXCEPT !.infra = @ + 1]
      BY <2>1 DEF Granted, Row
    <3>2. t.infra < MaxInfraRetryGrants
      BY <2>1 DEF MayGrant
    <3> QED BY <3>1, <3>2, RowAssumption DEF Row, WithinBudget, Cap
  <2>2. CASE ~MayGrant(t, b, fleet)
    <3>1. Granted(t, b, fleet) = t /\ Cap(t) \in Nat
      BY <2>2, CapType DEF Granted, Row
    <3> QED BY <3>1
  <2> QED BY <2>1, <2>2
<1>2. ASSUME NEW b \in BOOLEAN
      PROVE  QuietRow(t, Closed(Granted(t, b, fleet), TRUE))
  <2> DEFINE g == Granted(t, b, fleet)
             u == Closed(g, TRUE)
  <2>1. QuietRow(g, u) /\ Cap(u) = Cap(g)
    BY <1>1, QuietBasics
  <2>2. ~Exhausted(t)
    BY DEF Exhausted
  <2> QED BY <1>1, <2>1, <2>2 DEF QuietRow
<1>3. QuietRow(t, Closed(t, reason = "sandbox_oom"))
  BY QuietBasics
<1> QED BY <1>2, <1>3 DEF Failed

\* So are the operators' grants: a recovery of an exhausted row and a rebuild.
LEMMA QuietGrants ==
    ASSUME NEW t \in Row
    PROVE  /\ Exhausted(t) => QuietRow(t, Recovered(t))
           /\ t.status \in {"issued", "expired"}
                => /\ QuietRow(t, ClosedForRebuild(t))
                   /\ Cap(t) + 1 <= Cap(ClosedForRebuild(t))
<1>1. ASSUME Exhausted(t) PROVE QuietRow(t, Recovered(t))
  <2> DEFINE manual == t.manual + t.attempts - Cap(t) + 1
             u == [t EXCEPT !.manual = manual, !.cooling = FALSE]
  <2>1. manual \in Nat /\ manual >= t.manual
    BY <1>1, CapType DEF Exhausted, BudgetSpent, Row
  <2> HIDE DEF manual
  <2>2. QuietRow(t, u)
    <3>1. u \in Row
      BY <2>1 DEF Row
    <3>2. /\ u.status = t.status /\ u.attempts = t.attempts
          /\ u.infra = t.infra /\ u.manual = manual /\ u.slot = t.slot
      BY DEF Row
    <3>3. Cap(u) >= Cap(t)
      BY <2>1, <3>2, RowAssumption DEF Cap, Row
    <3>4. t.attempts \in Nat /\ Cap(t) \in Nat /\ Cap(u) \in Nat
      BY <3>1, CapType DEF Row
    <3> HIDE DEF u
    <3>5. WithinBudget(t) => WithinBudget(u)
      BY <3>2, <3>3, <3>4 DEF WithinBudget
    <3>6. Cap(u) = t.attempts + 1
      <4>1. /\ Cap(u) = MaxAttemptsPerVersion + manual + t.infra
            /\ Cap(t) = MaxAttemptsPerVersion + t.manual + t.infra
        BY <3>2 DEF Cap
      <4>2. t.manual \in Nat /\ t.infra \in Nat
        BY DEF Row
      <4> QED BY <3>4, <4>1, <4>2, RowAssumption DEF manual
    <3> QED BY <3>1, <3>2, <3>3, <3>4, <3>5, <3>6 DEF QuietRow
  <2>3. Recovered(t) = u
    BY DEF Recovered, manual
  <2> QED BY <2>2, <2>3
<1>2. ASSUME t.status \in {"issued", "expired"}
      PROVE  /\ QuietRow(t, ClosedForRebuild(t))
             /\ Cap(t) + 1 <= Cap(ClosedForRebuild(t))
  <2> DEFINE missing == t.attempts - Cap(t) + 1
             extra == IF missing > 1 THEN missing ELSE 1
             u == [t EXCEPT !.manual = @ + extra]
  <2>1. /\ extra \in Nat /\ extra >= 1
        /\ t.attempts <= Cap(t) => extra = 1
    BY CapType DEF Row
  <2> HIDE DEF extra
  <2>2. /\ u \in Row /\ u.status = t.status /\ u.attempts = t.attempts
        /\ u.slot = t.slot /\ u.infra = t.infra /\ u.manual = t.manual + extra
    BY <2>1 DEF Row
  <2> HIDE DEF u
  <2>3. Cap(u) = Cap(t) + extra
    BY <2>1, <2>2, RowAssumption DEF Cap, Row
  <2>4. t.attempts \in Nat /\ Cap(t) \in Nat
    BY CapType DEF Row
  <2>5. QuietRow(t, u)
    BY <2>1, <2>2, <2>3, <2>4
       DEF QuietRow, WithinBudget, Exhausted, BudgetSpent
  <2>6. QuietRow(u, Closed(u, FALSE)) /\ Cap(Closed(u, FALSE)) = Cap(u)
    BY <1>2, <2>2, QuietBasics
  <2>7. QuietRow(t, Closed(u, FALSE))
    BY <2>2, <2>5, <2>6 DEF QuietRow
  <2>8. ClosedForRebuild(t) = Closed(u, FALSE)
    BY DEF ClosedForRebuild, extra, u
  <2>9. Cap(t) + 1 <= Cap(u)
    BY <2>1, <2>3, <2>4
  <2> QED BY <2>6, <2>7, <2>8, <2>9
<1> QED BY <1>1, <1>2
-----------------------------------------------------------------------------
\* The inductive invariant.  No conjunct is inductive alone: the quorum bound
\* needs the ledger to agree with the tickets (issue_ticket counts tickets,
\* submit_score counts scores), and settling at exactly the quorum needs that
\* a lease can only be open on an agent still evaluated.
IInv ==
    /\ TypeOK
    /\ LedgerAgrees
    /\ QuorumSeats
    /\ SettledAtQuorum
    /\ NoWastedLease
    /\ BudgetRespected

\* A step that opens no lease, accepts no score and leaves no lease behind on
\* an agent it removes or whose image it takes away; removing or reinstating
\* an agent pays nothing, and taking its image away gives the lease back.
QuietStep ==
    /\ tickets' \in [Agents -> [Validators -> Row]]
    /\ removed' \in [Agents -> BOOLEAN]
    /\ imageReady' \in [Agents -> BOOLEAN]
    /\ \A a \in Agents, v \in Validators :
         QuietRow(tickets[a][v], tickets'[a][v])
    /\ \A a \in Agents :
         (removed'[a] /\ ~removed[a]) \/ (imageReady[a] /\ ~imageReady'[a])
           => \A v \in Validators : tickets'[a][v].status # "issued"
    /\ \A a \in Agents, v \in Validators :
         /\ removed'[a] # removed[a] => Cap(tickets'[a][v]) = Cap(tickets[a][v])
         /\ imageReady[a] /\ ~imageReady'[a] /\ tickets[a][v].status = "issued"
              => Cap(tickets[a][v]) + 1 <= Cap(tickets'[a][v])
    /\ UNCHANGED <<agentStatus, scores, finals>>

\* Sets of validators are finite.
LEMMA ValidatorSets ==
    ASSUME NEW S \in SUBSET Validators
    PROVE  IsFiniteSet(S) /\ Cardinality(S) \in Nat
BY TicketsAssumption, FS_Subset, FS_CardinalityType

\* A subset of an agent's seats is no larger than the quorum.
LEMMA FewerSeats ==
    ASSUME NEW S \in SUBSET Validators, NEW T \in SUBSET S,
           Cardinality(S) <= Quorum
    PROVE  Cardinality(T) <= Quorum
<1>1. IsFiniteSet(S) /\ Cardinality(S) \in Nat /\ Cardinality(T) \in Nat
  BY ValidatorSets
<1>2. Cardinality(T) <= Cardinality(S)
  BY <1>1, FS_Subset
<1> QED BY <1>1, <1>2, TicketsAssumption

\* Quiet steps preserve the invariant: seats can only be given back.
LEMMA QuietPreserves == IInv /\ QuietStep => IInv'
<1> SUFFICES ASSUME IInv, QuietStep PROVE IInv'
  OBVIOUS
<1>0. \A a \in Agents, v \in Validators :
        /\ tickets[a][v] \in Row
        /\ tickets'[a][v] \in Row
        /\ QuietRow(tickets[a][v], tickets'[a][v])
  BY DEF IInv, TypeOK, QuietStep
<1>1. TypeOK'
  BY DEF IInv, TypeOK, QuietStep
<1>2. LedgerAgrees'
  <2>1. scores' = scores
    BY Zenon DEF QuietStep
  <2>2. \A a \in Agents, v \in Validators :
          /\ tickets'[a][v].status = "scored" <=> tickets[a][v].status = "scored"
          /\ tickets'[a][v].attempts = tickets[a][v].attempts
    BY <1>0 DEF QuietRow
  <2>3. LedgerAgrees
    BY Zenon DEF IInv
  <2> QED BY <2>1, <2>2, <2>3 DEF LedgerAgrees
<1>3. QuorumSeats'
  <2> SUFFICES ASSUME NEW a \in Agents PROVE Cardinality(Seats(a)') <= Quorum
    BY DEF QuorumSeats
  <2>1. Seats(a)' \subseteq Seats(a)
    BY <1>0 DEF Seats, LiveRows, Voters, Live, QuietRow, QuietStep
  <2>2. Seats(a) \subseteq Validators
    BY DEF Seats, LiveRows, Voters
  <2>3. Cardinality(Seats(a)) <= Quorum
    BY DEF IInv, QuorumSeats
  <2> QED BY <2>1, <2>2, <2>3, FewerSeats
<1>4. SettledAtQuorum'
  BY DEF IInv, SettledAtQuorum, QuietStep, ScoreCount, Voters
<1>5. NoWastedLease'
  <2> SUFFICES ASSUME NEW a \in Agents, NEW v \in Validators,
                      agentStatus'[a] # "evaluating" \/ removed'[a]
                        \/ ~imageReady'[a]
               PROVE  tickets'[a][v].status # "issued"
    BY DEF NoWastedLease, NoLease
  <2>1. CASE agentStatus[a] # "evaluating" \/ removed[a] \/ ~imageReady[a]
    <3>1. tickets[a][v].status # "issued"
      BY <2>1 DEF IInv, NoWastedLease, NoLease
    <3> QED BY <1>0, <3>1 DEF QuietRow
  <2>2. CASE ~(agentStatus[a] # "evaluating" \/ removed[a] \/ ~imageReady[a])
    BY <2>2 DEF QuietStep
  <2> QED BY <2>1, <2>2
<1>6. BudgetRespected'
  BY <1>0 DEF IInv, BudgetRespected, QuietRow, WithinBudget
<1> QED BY <1>1, <1>2, <1>3, <1>4, <1>5, <1>6 DEF IInv
-----------------------------------------------------------------------------
\* Rewriting one row quietly is a quiet step.
LEMMA QuietOneRow ==
    ASSUME TypeOK, NEW a \in Agents, NEW v \in Validators, NEW u,
           QuietRow(tickets[a][v], u),
           tickets' = [tickets EXCEPT ![a][v] = u],
           UNCHANGED <<agentStatus, removed, imageReady, scores, finals>>
    PROVE  QuietStep
<1>1. u \in Row
  BY DEF QuietRow
<1>2. ASSUME NEW b \in Agents, NEW w \in Validators
      PROVE  QuietRow(tickets[b][w], tickets'[b][w])
  <2>1. CASE b = a /\ w = v
    BY <2>1 DEF TypeOK
  <2>2. CASE ~(b = a /\ w = v)
    <3>1. tickets'[b][w] = tickets[b][w] /\ tickets[b][w] \in Row
      BY <2>2 DEF TypeOK
    <3> QED BY <3>1, QuietBasics
  <2> QED BY <2>1, <2>2
<1> QED BY <1>1, <1>2 DEF QuietStep, TypeOK

\* Rewriting all rows of one agent quietly is quiet too, whatever happens to
\* the agent's removal and image, as long as no lease outlives them.
LEMMA QuietOneAgent ==
    ASSUME TypeOK, NEW a \in Agents, NEW rows \in [Validators -> Row],
           \A v \in Validators : QuietRow(tickets[a][v], rows[v]),
           tickets' = [tickets EXCEPT ![a] = rows],
           NEW r \in BOOLEAN, removed' = [removed EXCEPT ![a] = r],
           NEW i \in BOOLEAN, imageReady' = [imageReady EXCEPT ![a] = i],
           (r /\ ~removed[a]) \/ (imageReady[a] /\ ~i)
             => \A v \in Validators : rows[v].status # "issued",
           r # removed[a]
             => \A v \in Validators : Cap(rows[v]) = Cap(tickets[a][v]),
           imageReady[a] /\ ~i
             => \A v \in Validators : tickets[a][v].status = "issued"
                  => Cap(tickets[a][v]) + 1 <= Cap(rows[v]),
           UNCHANGED <<agentStatus, scores, finals>>
    PROVE  QuietStep
<1>1. tickets'[a] = rows
  BY DEF TypeOK
<1>2. \A b \in Agents \ {a} : tickets'[b] = tickets[b]
  BY DEF TypeOK
<1>3. ASSUME NEW b \in Agents, NEW w \in Validators
      PROVE  QuietRow(tickets[b][w], tickets'[b][w])
  <2>1. CASE b = a
    BY <1>1, <2>1
  <2>2. CASE b # a
    <3>1. tickets'[b][w] = tickets[b][w] /\ tickets[b][w] \in Row
      BY <1>2, <2>2 DEF TypeOK
    <3> QED BY <3>1, QuietBasics
  <2> QED BY <2>1, <2>2
<1>4. tickets' \in [Agents -> [Validators -> Row]]
  BY <1>1 DEF TypeOK
<1>5. removed' \in [Agents -> BOOLEAN] /\ imageReady' \in [Agents -> BOOLEAN]
  BY DEF TypeOK
<1>6. ASSUME NEW b \in Agents,
             (removed'[b] /\ ~removed[b]) \/ (imageReady[b] /\ ~imageReady'[b])
      PROVE  \A v \in Validators : tickets'[b][v].status # "issued"
  <2>1. b = a
    BY <1>6 DEF TypeOK
  <2>2. removed'[a] = r /\ imageReady'[a] = i
    BY DEF TypeOK
  <2> QED BY <1>1, <1>6, <2>1, <2>2
<1>7. ASSUME NEW b \in Agents, NEW w \in Validators
      PROVE  /\ removed'[b] # removed[b]
                  => Cap(tickets'[b][w]) = Cap(tickets[b][w])
             /\ imageReady[b] /\ ~imageReady'[b] /\ tickets[b][w].status = "issued"
                  => Cap(tickets[b][w]) + 1 <= Cap(tickets'[b][w])
  <2>1. CASE b = a
    <3>1. removed'[a] = r /\ imageReady'[a] = i
      BY DEF TypeOK
    <3> QED BY <1>1, <2>1, <3>1
  <2>2. CASE b # a
    <3>1. removed'[b] = removed[b] /\ imageReady'[b] = imageReady[b]
      BY <2>2 DEF TypeOK
    <3> QED BY <3>1
  <2> QED BY <2>1, <2>2
<1> QED BY <1>3, <1>4, <1>5, <1>6, <1>7 DEF QuietStep

\* The sweep of every poll is quiet.
LEMMA SweepQuiet == TypeOK /\ RequestNothing => QuietStep
<1> SUFFICES ASSUME TypeOK, RequestNothing PROVE QuietStep
  OBVIOUS
<1>1. ASSUME NEW a \in Agents, NEW v \in Validators
      PROVE  QuietRow(tickets[a][v], tickets'[a][v]) /\ tickets'[a][v] \in Row
  <2>1. tickets[a][v] \in Row /\ tickets'[a][v] = Swept(tickets[a][v])
    BY DEF TypeOK, RequestNothing, SweptTickets
  <2> QED BY <2>1, QuietSweep DEF QuietRow
<1>2. tickets' \in [Agents -> [Validators -> Row]]
  BY <1>1 DEF RequestNothing, SweptTickets
<1> QED BY <1>1, <1>2 DEF QuietStep, RequestNothing, TypeOK

\* Every report of a failure, and the passing of time, is quiet.
LEMMA ReportsQuiet ==
    ASSUME TypeOK, NEW a \in Agents, NEW v \in Validators
    PROVE  /\ \A lease, reason : \A revoked \in BOOLEAN :
                FailJob(a, v, lease, reason, revoked) => QuietStep
           /\ TimePasses(a, v) => QuietStep
           /\ \A lease : ReleaseAssignment(a, v, lease) => QuietStep
<1>0. tickets[a][v] \in Row
  BY DEF TypeOK
<1>1. ASSUME NEW lease, NEW reason, NEW revoked \in BOOLEAN,
             FailJob(a, v, lease, reason, revoked)
      PROVE  QuietStep
  <2>1. QuietRow(tickets[a][v],
                 Failed(tickets[a][v], reason, revoked, FleetInfraGrants(a)))
    BY <1>0, <1>1, QuietFailure DEF FailJob, OpenLease
  <2> QED BY <1>1, <2>1, QuietOneRow DEF FailJob
<1>2. ASSUME TimePasses(a, v) PROVE QuietStep
  <2>1. CASE LeaseRunsOut(a, v)
    <3>1. tickets' = [tickets EXCEPT ![a][v] =
                        [tickets[a][v] EXCEPT !.late = TRUE]]
      BY <2>1 DEF LeaseRunsOut
    <3>2. QuietRow(tickets[a][v], [tickets[a][v] EXCEPT !.late = TRUE])
      BY <1>0, QuietBasics
    <3> QED BY <2>1, <3>1, <3>2, QuietOneRow DEF LeaseRunsOut
  <2>2. CASE CooldownEnds(a, v)
    <3>1. tickets' = [tickets EXCEPT ![a][v] =
                        [tickets[a][v] EXCEPT !.cooling = FALSE]]
      BY <2>2 DEF CooldownEnds
    <3>2. QuietRow(tickets[a][v], [tickets[a][v] EXCEPT !.cooling = FALSE])
      BY <1>0, QuietBasics
    <3> QED BY <2>2, <3>1, <3>2, QuietOneRow DEF CooldownEnds
  <2> QED BY <1>2, <2>1, <2>2 DEF TimePasses
<1>3. ASSUME NEW lease, ReleaseAssignment(a, v, lease) PROVE QuietStep
  <2>1. QuietRow(tickets[a][v], Closed(tickets[a][v], TRUE))
    BY <1>0, <1>3, QuietBasics DEF ReleaseAssignment, OpenLease
  <2> QED BY <1>3, <2>1, QuietOneRow DEF ReleaseAssignment
<1> QED BY <1>1, <1>2, <1>3

\* So is every operator action that is not part of a copy review.
LEMMA OperatorsQuiet ==
    ASSUME TypeOK, NEW a \in Agents
    PROVE  /\ \A reachable : Recover(a, reachable) => QuietStep
           /\ Withdraw(a) => QuietStep
           /\ Evict(a) => QuietStep
           /\ Reinstate(a) => QuietStep
           /\ RebuildScreenedImage(a) => QuietStep
           /\ ScreenedImageVerified(a) => QuietStep
<1>0. /\ \A v \in Validators : /\ tickets[a][v] \in Row
                               /\ QuietRow(tickets[a][v], tickets[a][v])
      /\ tickets[a] \in [Validators -> Row]
      /\ tickets = [tickets EXCEPT ![a] = tickets[a]]
      /\ removed[a] \in BOOLEAN /\ removed = [removed EXCEPT ![a] = removed[a]]
      /\ imageReady[a] \in BOOLEAN
      /\ imageReady = [imageReady EXCEPT ![a] = imageReady[a]]
  BY QuietBasics DEF TypeOK
<1>1. ASSUME NEW reachable, Recover(a, reachable) PROVE QuietStep
  <2>1. PICK S \in RevivableSets(a, reachable) :
          tickets' = [tickets EXCEPT ![a] =
            [v \in Validators |-> IF v \in S THEN Recovered(tickets[a][v])
                                             ELSE tickets[a][v]]]
    BY <1>1 DEF Recover
  <2> DEFINE rows == [v \in Validators |->
                        IF v \in S THEN Recovered(tickets[a][v])
                                   ELSE tickets[a][v]]
  <2>2. \A v \in S : Exhausted(tickets[a][v])
    BY <2>1 DEF RevivableSets, kSubset, ExhaustedRows
  <2>3. \A v \in Validators : QuietRow(tickets[a][v], rows[v])
    BY <1>0, <2>2, QuietGrants
  <2>4. rows \in [Validators -> Row]
    BY <2>3 DEF QuietRow
  <2> HIDE DEF rows
  <2>5. tickets' = [tickets EXCEPT ![a] = rows]
    BY <2>1 DEF rows
  <2>6. UNCHANGED <<agentStatus, removed, imageReady, scores, finals>>
    BY <1>1 DEF Recover
  <2> QED BY <1>0, <2>3, <2>4, <2>5, <2>6, QuietOneAgent
<1>2. ASSUME Withdraw(a) PROVE QuietStep
  BY <1>0, <1>2, QuietOneAgent DEF Withdraw, NoLease
<1>3. ASSUME Evict(a) PROVE QuietStep
  <2> DEFINE rows == [v \in Validators |->
                        IF tickets[a][v].status = "issued"
                        THEN Closed(tickets[a][v], FALSE) ELSE tickets[a][v]]
  <2>1. \A v \in Validators : QuietRow(tickets[a][v], rows[v])
    BY <1>0, QuietBasics
  <2>2. rows \in [Validators -> Row]
    BY <2>1 DEF QuietRow
  <2>3. \A v \in Validators : rows[v].status # "issued"
    BY <1>0 DEF Closed, Row
  <2>4. tickets' = [tickets EXCEPT ![a] = rows]
    BY <1>3 DEF Evict
  <2>5. \A v \in Validators : Cap(rows[v]) = Cap(tickets[a][v])
    BY <1>0, QuietBasics
  <2> HIDE DEF rows
  <2> QED BY <1>0, <1>3, <2>1, <2>2, <2>3, <2>4, <2>5, QuietOneAgent DEF Evict
<1>4. ASSUME Reinstate(a) PROVE QuietStep
  BY <1>0, <1>4, QuietOneAgent DEF Reinstate
<1>5. ASSUME RebuildScreenedImage(a) PROVE QuietStep
  <2> DEFINE rows == [v \in Validators |->
                        IF tickets[a][v].status \in {"issued", "expired"}
                        THEN ClosedForRebuild(tickets[a][v])
                        ELSE tickets[a][v]]
  <2>1. \A v \in Validators : QuietRow(tickets[a][v], rows[v])
    BY <1>0, QuietGrants
  <2>2. rows \in [Validators -> Row]
    BY <2>1 DEF QuietRow
  <2>3. \A v \in Validators : rows[v].status # "issued"
    BY <1>0 DEF ClosedForRebuild, Closed, Row
  <2>4. tickets' = [tickets EXCEPT ![a] = rows]
    BY <1>5 DEF RebuildScreenedImage
  <2>6. \A v \in Validators : tickets[a][v].status = "issued"
          => Cap(tickets[a][v]) + 1 <= Cap(rows[v])
    BY <1>0, QuietGrants
  <2> HIDE DEF rows
  <2>5. /\ imageReady' = [imageReady EXCEPT ![a] = FALSE]
        /\ UNCHANGED <<agentStatus, removed, scores, finals>>
    BY <1>5 DEF RebuildScreenedImage
  <2> QED BY <1>0, <2>1, <2>2, <2>3, <2>4, <2>5, <2>6, QuietOneAgent
<1>6. ASSUME ScreenedImageVerified(a) PROVE QuietStep
  BY <1>0, <1>6, QuietOneAgent DEF ScreenedImageVerified
<1> QED BY <1>1, <1>2, <1>3, <1>4, <1>5, <1>6
-----------------------------------------------------------------------------
\* Every stored score has a live ticket behind it, so the tickets counted by
\* issue_ticket are all the seats there are.
LEMMA VotersHoldTickets ==
    ASSUME IInv, NEW a \in Agents
    PROVE  /\ Voters(a) \subseteq LiveRows(tickets, a)
           /\ Seats(a) = LiveRows(tickets, a)
           /\ Seats(a) \in SUBSET Validators
           /\ IsFiniteSet(Voters(a)) /\ ScoreCount(a) \in Nat
           /\ ScoreCount(a) <= Quorum
<1>1. Voters(a) \subseteq LiveRows(tickets, a)
  BY DEF IInv, LedgerAgrees, Voters, LiveRows, Live
<1>2. Seats(a) = LiveRows(tickets, a) /\ Seats(a) \in SUBSET Validators
  BY <1>1 DEF Seats, LiveRows
<1>3. Voters(a) \in SUBSET Seats(a)
  BY DEF Seats
<1>4. Cardinality(Seats(a)) <= Quorum
  BY DEF IInv, QuorumSeats
<1>5. Cardinality(Voters(a)) <= Quorum
  BY <1>2, <1>3, <1>4, FewerSeats
<1>6. IsFiniteSet(Voters(a)) /\ Cardinality(Voters(a)) \in Nat
  BY <1>2, <1>3, ValidatorSets
<1> QED BY <1>1, <1>2, <1>5, <1>6 DEF ScoreCount

\* Issuing a lease preserves the invariant.
LEMMA RequestJobPreserves ==
    ASSUME IInv, NEW a \in Agents, NEW v \in Validators, NEW s \in Slots,
           RequestJob(v, s, a)
    PROVE  IInv'
<1> DEFINE T == SweptTickets
           new == Reissued(T[a][v], s, "canonical_quorum")
<1>0. /\ T \in [Agents -> [Validators -> Row]]
      /\ \A b \in Agents, w \in Validators :
           /\ tickets[b][w] \in Row /\ T[b][w] \in Row
           /\ QuietRow(tickets[b][w], T[b][w])
  <2>1. ASSUME NEW b \in Agents, NEW w \in Validators
        PROVE  /\ tickets[b][w] \in Row /\ T[b][w] \in Row
               /\ QuietRow(tickets[b][w], T[b][w])
    <3>1. tickets[b][w] \in Row /\ T[b][w] = Swept(tickets[b][w])
      BY DEF IInv, TypeOK, SweptTickets
    <3> QED BY <3>1, QuietSweep DEF QuietRow
  <2> QED BY <2>1 DEF SweptTickets
<1>1. /\ ~AlreadyMine(T[a][v])
      /\ Cardinality(LiveRows(T, a)) < Quorum
      /\ agentStatus[a] = "evaluating" /\ imageReady[a] /\ ~removed[a]
      /\ UNCHANGED <<agentStatus, removed, imageReady, scores, finals>>
  BY DEF RequestJob, Candidate
<1>2. tickets' = [T EXCEPT ![a][v] = new]
  BY DEF RequestJob
<1> HIDE DEF T
<1>3. new \in Row /\ new.status = "issued" /\ new.attempts = T[a][v].attempts + 1
      /\ new.manual = T[a][v].manual /\ new.infra = T[a][v].infra
  BY <1>0, RowTypes DEF Reissued, TicketPurpose
<1> HIDE DEF new
<1>4. /\ tickets' \in [Agents -> [Validators -> Row]]
      /\ tickets'[a][v] = new
      /\ \A b \in Agents, w \in Validators :
           b # a \/ w # v => tickets'[b][w] = T[b][w]
  BY <1>0, <1>2, <1>3
<1>q. \A b \in Agents, w \in Validators :
         b # a \/ w # v => QuietRow(tickets[b][w], tickets'[b][w])
  BY <1>0, <1>4
<1>5. TypeOK'
  BY <1>1, <1>4 DEF IInv, TypeOK
<1>20. \A b \in Agents, w \in Validators :
        /\ T[b][w].status = "scored" <=> tickets[b][w].status = "scored"
        /\ T[b][w].status = "issued" => tickets[b][w].status = "issued"
        /\ WithinBudget(tickets[b][w]) => WithinBudget(T[b][w])
  BY <1>0 DEF QuietRow
<1>21. \A b \in Agents, w \in Validators :
        T[b][w].status = "scored" <=> scores[b][w] # 0
  BY <1>20 DEF IInv, LedgerAgrees
<1>6. scores[a][v] = 0
  BY <1>1, <1>21 DEF AlreadyMine, Live
<1>7. LedgerAgrees'
  <2> SUFFICES ASSUME NEW b \in Agents, NEW w \in Validators
               PROVE  /\ tickets'[b][w].status = "scored" <=> scores[b][w] # 0
                      /\ scores[b][w] # 0
                           => scores[b][w] = tickets'[b][w].attempts
    BY <1>1 DEF LedgerAgrees
  <2>1. CASE b = a /\ w = v
    BY <1>3, <1>4, <1>6, <2>1
  <2>2. CASE ~(b = a /\ w = v)
    <3>1. /\ tickets'[b][w] = T[b][w]
          /\ T[b][w].attempts = tickets[b][w].attempts
      <4>1. tickets'[b][w] = T[b][w]
        BY <1>4, <2>2, Zenon
      <4>2. QuietRow(tickets[b][w], T[b][w])
        BY <1>0, Zenon
      <4> QED BY <4>1, <4>2, Zenon DEF QuietRow
    <3>2. scores[b][w] # 0 => scores[b][w] = tickets[b][w].attempts
      BY DEF IInv, LedgerAgrees
    <3> QED BY <1>21, <3>1, <3>2
  <2> QED BY <2>1, <2>2
<1>8. QuorumSeats'
  <2> SUFFICES ASSUME NEW b \in Agents PROVE Cardinality(Seats(b)') <= Quorum
    BY DEF QuorumSeats
  <2>1. CASE b = a
    <3>1. Seats(a)' \subseteq LiveRows(T, a) \cup {v}
      <4>1. Voters(a)' \subseteq LiveRows(T, a)
        BY <1>1, <1>21 DEF LiveRows, Voters, Live
      <4>2. LiveRows(tickets', a) \subseteq LiveRows(T, a) \cup {v}
        BY <1>4 DEF LiveRows
      <4> QED BY <4>1, <4>2 DEF Seats, LiveRows
    <3>2. LiveRows(T, a) \in SUBSET Validators
      BY DEF LiveRows
    <3>3. IsFiniteSet(LiveRows(T, a)) /\ Cardinality(LiveRows(T, a)) \in Nat
      BY <3>2, ValidatorSets
    <3>4. Cardinality(LiveRows(T, a) \cup {v}) <= Quorum
      <4> DEFINE L == LiveRows(T, a)
      <4>1. IsFiniteSet(L) /\ Cardinality(L) \in Nat /\ Cardinality(L) < Quorum
        BY <1>1, <3>3
      <4> HIDE DEF L
      <4>2. Cardinality(L \cup {v}) \in {Cardinality(L), Cardinality(L) + 1}
        BY <4>1, FS_AddElement
      <4>3. Cardinality(L \cup {v}) <= Quorum
        BY <4>1, <4>2, TicketsAssumption
      <4> QED BY <4>3 DEF L
    <3> QED BY <2>1, <3>1, <3>2, <3>4, FewerSeats
  <2>2. CASE b # a
    <3>1. Seats(b)' \subseteq Seats(b)
      <4>1. \A w \in Validators : Live(tickets'[b][w]) => Live(tickets[b][w])
        BY <1>4, <1>20, <2>2 DEF Live
      <4> QED BY <1>1, <4>1 DEF Seats, LiveRows, Voters
    <3>2. Seats(b) \subseteq Validators /\ Cardinality(Seats(b)) <= Quorum
      BY DEF IInv, QuorumSeats, Seats, LiveRows, Voters
    <3> QED BY <3>1, <3>2, FewerSeats
  <2> QED BY <2>1, <2>2
<1>9. SettledAtQuorum'
  BY <1>1 DEF IInv, SettledAtQuorum, ScoreCount, Voters
<1>10. NoWastedLease'
  <2> SUFFICES ASSUME NEW b \in Agents, NEW w \in Validators,
                      agentStatus[b] # "evaluating" \/ removed[b]
                        \/ ~imageReady[b]
               PROVE  tickets'[b][w].status # "issued"
    BY <1>1 DEF NoWastedLease, NoLease
  <2>1. b # a
    BY <1>1
  <2>2. tickets[b][w].status # "issued"
    BY DEF IInv, NoWastedLease, NoLease
  <2> QED BY <1>q, <2>1, <2>2 DEF QuietRow
<1>11. BudgetRespected'
  <2> SUFFICES ASSUME NEW b \in Agents, NEW w \in Validators
               PROVE  WithinBudget(tickets'[b][w])
    BY DEF BudgetRespected, WithinBudget
  <2>1. WithinBudget(T[b][w])
    <3>1. WithinBudget(tickets[b][w])
      BY DEF IInv, BudgetRespected, WithinBudget
    <3> QED BY <1>20, <3>1
  <2>2. CASE b = a /\ w = v
    <3>1. Cap(new) = Cap(T[a][v])
      BY <1>3 DEF Cap
    <3>2. T[a][v].attempts < Cap(T[a][v])
      <4>1. T[a][v].status \in {"none", "expired"}
        BY <1>0, <1>1 DEF AlreadyMine, Live, Row, TicketStatus
      <4>2. T[a][v].attempts \in Nat /\ Cap(T[a][v]) \in Nat \ {0}
        <5>1. /\ T[a][v].attempts \in Nat /\ T[a][v].manual \in Nat
              /\ T[a][v].infra \in Nat
          BY <1>0 DEF Row
        <5> QED BY <5>1, RowAssumption DEF Cap
      <4>3. T[a][v].status = "expired" => ~(T[a][v].attempts >= Cap(T[a][v]))
        BY <1>1, Zenon DEF AlreadyMine, BudgetSpent
      <4>4. T[a][v].status = "none" => T[a][v].attempts = 0
        BY <2>1, <2>2, Zenon DEF WithinBudget
      <4> QED BY <4>1, <4>2, <4>3, <4>4
    <3>3. T[a][v].attempts \in Nat /\ Cap(T[a][v]) \in Nat
      BY <1>0, CapType DEF Row
    <3>4. /\ new.status # "none" /\ new.attempts <= Cap(new)
          /\ new.infra = T[a][v].infra
      BY <1>3, <3>1, <3>2, <3>3
    <3>5. WithinBudget(new)
      BY <2>1, <2>2, <3>4 DEF WithinBudget
    <3> QED BY <1>4, <2>2, <3>5
  <2>3. CASE ~(b = a /\ w = v)
    BY <1>4, <2>1, <2>3
  <2> QED BY <2>2, <2>3
<1> QED BY <1>5, <1>7, <1>8, <1>9, <1>10, <1>11 DEF IInv

\* Accepting a score preserves the invariant: the submitter held one of the
\* agent's seats and had not voted, so the ledger grows by exactly one, and
\* when it reaches the quorum every seat is a vote and no lease is left.
LEMMA SubmitScorePreserves ==
    ASSUME IInv, NEW a \in Agents, NEW v \in Validators,
           NEW lease \in Nat \ {0}, SubmitScore(a, v, lease)
    PROVE  /\ IInv'
           /\ agentStatus[a] = "evaluating" /\ v \notin Voters(a)
           /\ Voters(a)' = Voters(a) \cup {v}
           /\ \A b \in Agents \ {a} : Voters(b)' = Voters(b)
           /\ agentStatus'[a] # "evaluating"
                <=> Cardinality(Voters(a) \cup {v}) = Quorum
           /\ \A b \in Agents \ {a} : agentStatus'[b] # "evaluating"
                                         <=> agentStatus[b] # "evaluating"
<1> DEFINE new == Consumed(tickets[a][v])
<1>0. /\ agentStatus \in [Agents -> AgentStatus]
      /\ tickets \in [Agents -> [Validators -> Row]]
      /\ scores \in [Agents -> [Validators -> Nat]]
      /\ finals \in [Agents -> Seq(Nat)]
      /\ \A b \in Agents, w \in Validators : tickets[b][w] \in Row
  BY DEF IInv, TypeOK
<1>1. /\ tickets[a][v].status = "issued" /\ tickets[a][v].attempts = lease
      /\ scores' = [scores EXCEPT ![a][v] = lease]
      /\ tickets' = [tickets EXCEPT ![a][v] = new]
      /\ UNCHANGED <<removed, imageReady>>
  BY DEF SubmitScore, OpenLease
<1>2. /\ new \in Row /\ new.status = "scored" /\ new.attempts = lease
      /\ WithinBudget(tickets[a][v]) => WithinBudget(new)
  <2>1. new \in Row
    BY <1>0, RowAssumption, RowTypes DEF TicketPurpose
  <2>2. /\ new.status = "scored" /\ new.attempts = lease
        /\ new.manual = tickets[a][v].manual /\ new.infra = tickets[a][v].infra
    BY <1>0, <1>1 DEF Consumed, Row
  <2> QED BY <1>1, <2>1, <2>2 DEF WithinBudget, Cap
<1> HIDE DEF new
<1>3. /\ tickets' \in [Agents -> [Validators -> Row]] /\ tickets'[a][v] = new
      /\ scores' \in [Agents -> [Validators -> Nat]] /\ scores'[a][v] = lease
      /\ \A b \in Agents, w \in Validators : b # a \/ w # v =>
           tickets'[b][w] = tickets[b][w] /\ scores'[b][w] = scores[b][w]
  BY <1>0, <1>1, <1>2
<1>4. /\ scores[a][v] = 0
      /\ agentStatus[a] = "evaluating" /\ ~removed[a] /\ imageReady[a]
  <2>1. scores[a][v] = 0
    BY <1>1 DEF IInv, LedgerAgrees
  <2>2. agentStatus[a] = "evaluating" /\ ~removed[a] /\ imageReady[a]
    BY <1>1 DEF IInv, NoWastedLease, NoLease
  <2> QED BY <2>1, <2>2
<1>5. /\ v \notin Voters(a) /\ Voters(a)' = Voters(a) \cup {v}
      /\ \A b \in Agents \ {a} : Voters(b)' = Voters(b)
  BY <1>3, <1>4 DEF Voters
<1>6. /\ ScoreCount(a) \in Nat /\ ScoreCount(a) < Quorum
      /\ Cardinality(Voters(a) \cup {v}) = ScoreCount(a) + 1
  <2>1. ScoreCount(a) # Quorum
    BY <1>4 DEF IInv, SettledAtQuorum
  <2>2. /\ IsFiniteSet(Voters(a))
        /\ ScoreCount(a) \in Nat /\ ScoreCount(a) <= Quorum
    BY VotersHoldTickets
  <2>3. ScoreCount(a) < Quorum
    BY <2>1, <2>2, TicketsAssumption
  <2>4. Cardinality(Voters(a) \cup {v}) = Cardinality(Voters(a)) + 1
    BY <1>5, <2>2, FS_AddElement
  <2> QED BY <2>2, <2>3, <2>4 DEF ScoreCount
<1>7. CountAfter(a) = ScoreCount(a) + 1 /\ ScoreCount(a)' = ScoreCount(a) + 1
  BY <1>5, <1>6 DEF CountAfter, Voters, ScoreCount
<1>8. /\ agentStatus' \in [Agents -> AgentStatus]
      /\ finals' \in [Agents -> Seq(Nat)]
      /\ \A b \in Agents \ {a} :
           /\ agentStatus'[b] # "evaluating" <=> agentStatus[b] # "evaluating"
           /\ finals'[b] = finals[b]
      /\ IF ScoreCount(a) + 1 = Quorum
         THEN agentStatus'[a] # "evaluating" /\ finals'[a] = <<Quorum>>
         ELSE agentStatus'[a] = "evaluating" /\ finals'[a] = <<>>
  <2>1. Finalize(a, scores[a][v] = 0) /\ finals[a] = <<>>
    BY <1>4 DEF SubmitScore, IInv, SettledAtQuorum
  <2>2. CASE ScoreCount(a) + 1 = Quorum
    <3>1. CountAfter(a) >= Quorum /\ CountAfter(a) = Quorum
      BY <1>6, <1>7, <2>2
    <3> DEFINE S == [agentStatus EXCEPT ![a] = "scored"]
    <3>2. /\ agentStatus' \in HoldsAfter(S)
          /\ finals' = [finals EXCEPT ![a] = Append(@, CountAfter(a))]
      BY <1>4, <2>1, <3>1 DEF Finalize
    <3>3. PICK H \in SUBSET {b \in Agents : S[b] = "scored"} :
            agentStatus' = [b \in Agents |-> IF b \in H
                              THEN "ath_pending_review" ELSE S[b]]
      BY <3>2 DEF HoldsAfter
    <3>4. /\ S[a] = "scored"
          /\ \A b \in Agents : /\ S[b] \in AgentStatus
                               /\ b # a => S[b] = agentStatus[b]
      BY <1>0 DEF AgentStatus
    <3>5. /\ agentStatus' \in [Agents -> AgentStatus]
          /\ agentStatus'[a] # "evaluating"
      BY <3>3, <3>4 DEF AgentStatus
    <3>6. ASSUME NEW b \in Agents \ {a}
          PROVE  agentStatus'[b] # "evaluating" <=> agentStatus[b] # "evaluating"
      BY <3>3, <3>4
    <3>7. /\ finals' \in [Agents -> Seq(Nat)] /\ finals'[a] = <<Quorum>>
          /\ \A b \in Agents \ {a} : finals'[b] = finals[b]
      BY <1>0, <2>1, <3>1, <3>2, TicketsAssumption
    <3> QED BY <2>2, <3>5, <3>6, <3>7
  <2>3. CASE ScoreCount(a) + 1 # Quorum
    <3>1. ~(CountAfter(a) >= Quorum)
      BY <1>6, <1>7, <2>3, TicketsAssumption
    <3>2. UNCHANGED <<agentStatus, finals>>
      BY <1>4, <2>1, <3>1 DEF Finalize
    <3> QED BY <1>0, <1>4, <2>1, <2>3, <3>2
  <2> QED BY <2>2, <2>3
<1>9. TypeOK'
  BY <1>1, <1>3, <1>8 DEF IInv, TypeOK
<1>10. LedgerAgrees'
  <2> SUFFICES ASSUME NEW b \in Agents, NEW w \in Validators
               PROVE  /\ tickets'[b][w].status = "scored" <=> scores'[b][w] # 0
                      /\ scores'[b][w] # 0
                           => scores'[b][w] = tickets'[b][w].attempts
    BY DEF LedgerAgrees
  <2>1. CASE b = a /\ w = v
    BY <1>2, <1>3, <2>1
  <2>2. CASE ~(b = a /\ w = v)
    BY <1>3, <2>2 DEF IInv, LedgerAgrees
  <2> QED BY <2>1, <2>2
<1>11. QuorumSeats'
  <2> SUFFICES ASSUME NEW b \in Agents PROVE Cardinality(Seats(b)') <= Quorum
    BY DEF QuorumSeats
  <2>1. Seats(b)' \subseteq Seats(b)
    BY <1>1, <1>3 DEF Seats, LiveRows, Voters, Live
  <2>2. Seats(b) \subseteq Validators /\ Cardinality(Seats(b)) <= Quorum
    BY DEF IInv, QuorumSeats, Seats, LiveRows, Voters
  <2> QED BY <2>1, <2>2, FewerSeats
<1>12. SettledAtQuorum'
  <2> SUFFICES ASSUME NEW b \in Agents
               PROVE  /\ agentStatus'[b] # "evaluating" <=> ScoreCount(b)' = Quorum
                      /\ finals'[b] = IF agentStatus'[b] = "evaluating"
                                      THEN <<>> ELSE <<Quorum>>
    BY DEF SettledAtQuorum
  <2>1. CASE b = a
    BY <1>7, <1>8, <2>1
  <2>2. CASE b # a
    BY <1>5, <1>8, <2>2 DEF IInv, SettledAtQuorum, ScoreCount
  <2> QED BY <2>1, <2>2
<1>13. NoWastedLease'
  <2> SUFFICES ASSUME NEW b \in Agents, NEW w \in Validators,
                      agentStatus'[b] # "evaluating" \/ removed[b]
                        \/ ~imageReady[b]
               PROVE  tickets'[b][w].status # "issued"
    BY <1>1 DEF NoWastedLease, NoLease
  <2>1. CASE b = a
    <3>1. Cardinality(Voters(a)') = Quorum
      BY <1>4, <1>5, <1>6, <1>8, <2>1
    <3>2. Seats(a)' \in SUBSET Validators /\ Voters(a)' \in SUBSET Seats(a)'
      BY DEF Seats, LiveRows, Voters
    <3>3. IsFiniteSet(Seats(a)') /\ Cardinality(Seats(a)') \in Nat
      BY <3>2, ValidatorSets
    <3>4. /\ Cardinality(Seats(a)') <= Quorum
          /\ Cardinality(Voters(a)') <= Cardinality(Seats(a)')
      BY <1>11, <3>2, <3>3, FS_Subset DEF QuorumSeats
    <3>5. Seats(a)' = Voters(a)'
      <4>1. Cardinality(Voters(a)') = Cardinality(Seats(a)')
        BY <3>1, <3>3, <3>4, TicketsAssumption
      <4> QED BY <3>2, <3>3, <4>1, FS_Subset
    <3>6. tickets'[a][w].status = "issued" => w \in Voters(a)'
      BY <3>5 DEF Seats, LiveRows, Live
    <3> QED BY <1>10, <2>1, <3>6 DEF Voters, LedgerAgrees
  <2>2. CASE b # a
    <3>1. agentStatus[b] # "evaluating" \/ removed[b] \/ ~imageReady[b]
      BY <1>8, <2>2
    <3>2. tickets[b][w].status # "issued"
      BY <3>1 DEF IInv, NoWastedLease, NoLease
    <3> QED BY <1>3, <2>2, <3>2
  <2> QED BY <2>1, <2>2
<1>14. BudgetRespected'
  <2> SUFFICES ASSUME NEW b \in Agents, NEW w \in Validators
               PROVE  WithinBudget(tickets'[b][w])
    BY DEF BudgetRespected, WithinBudget
  <2>1. WithinBudget(tickets[b][w])
    BY DEF IInv, BudgetRespected, WithinBudget
  <2> QED BY <1>2, <1>3, <2>1
<1>15. IInv'
  BY <1>9, <1>10, <1>11, <1>12, <1>13, <1>14 DEF IInv
<1> QED BY <1>4, <1>5, <1>6, <1>8, <1>15

\* A copy review moves a settled agent between settled statuses only.
LEMMA CopyReviewPreserves ==
    ASSUME IInv, NEW a \in Agents, OpenCopyReview(a) \/ ResolveCopyReview(a)
    PROVE  /\ IInv'
           /\ \A b \in Agents : /\ agentStatus'[b] # "evaluating"
                                   <=> agentStatus[b] # "evaluating"
                                /\ Voters(b)' = Voters(b)
<1>1. /\ UNCHANGED <<removed, imageReady, tickets, scores, finals>>
      /\ agentStatus \in [Agents -> AgentStatus]
  BY DEF OpenCopyReview, ResolveCopyReview, IInv, TypeOK
<1>2. PICK st \in AgentStatus \ {"evaluating"} :
        agentStatus' = [agentStatus EXCEPT ![a] = st]
  BY DEF OpenCopyReview, ResolveCopyReview, AgentStatus
<1>3. agentStatus[a] # "evaluating"
  BY DEF OpenCopyReview, ResolveCopyReview
<1>4. \A b \in Agents : agentStatus'[b] # "evaluating"
                          <=> agentStatus[b] # "evaluating"
  BY <1>1, <1>2, <1>3
<1>5. \A b \in Agents : /\ Voters(b)' = Voters(b) /\ ScoreCount(b)' = ScoreCount(b)
                        /\ Seats(b)' = Seats(b)
  BY <1>1 DEF Voters, ScoreCount, Seats, LiveRows
<1>6. TypeOK'
  BY <1>1, <1>2 DEF IInv, TypeOK
<1>7. SettledAtQuorum'
  BY <1>1, <1>4, <1>5 DEF IInv, SettledAtQuorum
<1>8. NoWastedLease'
  BY <1>1, <1>4 DEF IInv, NoWastedLease, NoLease
<1>9. LedgerAgrees' /\ QuorumSeats' /\ BudgetRespected'
  BY <1>1, <1>5 DEF IInv, LedgerAgrees, QuorumSeats, BudgetRespected
<1> QED BY <1>4, <1>5, <1>6, <1>7, <1>8, <1>9 DEF IInv
-----------------------------------------------------------------------------
\* The platform starts in the invariant.
LEMMA InitIInv == Init => IInv
<1> SUFFICES ASSUME Init PROVE IInv
  OBVIOUS
<1>1. /\ NoRow \in Row /\ WithinBudget(NoRow)
      /\ NoRow.status = "none"
  BY RowAssumption, CapType DEF NoRow, Row, TicketStatus, TicketPurpose
<1>2. \A a \in Agents, v \in Validators :
        tickets[a][v] = NoRow /\ scores[a][v] = 0
  BY DEF Init
<1>3. TypeOK
  BY <1>1 DEF Init, TypeOK, AgentStatus
<1>4. \A a \in Agents : Voters(a) = {} /\ Seats(a) = {}
  BY <1>1, <1>2 DEF Voters, Seats, LiveRows, Live
<1>5. \A a \in Agents : ScoreCount(a) = 0 /\ Cardinality(Seats(a)) = 0
  BY <1>4, FS_EmptySet DEF ScoreCount
<1>6. LedgerAgrees
  BY <1>1, <1>2 DEF LedgerAgrees
<1>7. QuorumSeats
  BY <1>5, TicketsAssumption DEF QuorumSeats
<1>8. SettledAtQuorum
  BY <1>5, TicketsAssumption DEF SettledAtQuorum, Init
<1>9. NoWastedLease
  BY <1>1, <1>2 DEF NoWastedLease, NoLease
<1>10. BudgetRespected
  BY <1>1, <1>2 DEF BudgetRespected, WithinBudget
<1> QED BY <1>3, <1>6, <1>7, <1>8, <1>9, <1>10 DEF IInv

\* What each step is: quiet, a lease, an accepted score or a copy review.
LEMMA StepKinds ==
    ASSUME IInv, Next
    PROVE  \/ QuietStep
           \/ \E v \in Validators, s \in Slots, a \in Agents : RequestJob(v, s, a)
           \/ \E a \in Agents, v \in Validators, lease \in Nat \ {0} :
                SubmitScore(a, v, lease)
           \/ \E a \in Agents : OpenCopyReview(a) \/ ResolveCopyReview(a)
<1>0. TypeOK
  BY DEF IInv
<1>1. CASE \E v \in Validators : Poll(v)
  BY <1>0, <1>1, SweepQuiet DEF Poll
<1>2. CASE \E a \in Agents, v \in Validators : Report(a, v) \/ TimePasses(a, v)
  <2>1. PICK a \in Agents, v \in Validators : Report(a, v) \/ TimePasses(a, v)
    BY <1>2
  <2>2. CASE TimePasses(a, v)
    BY <1>0, <2>2, ReportsQuiet
  <2>3. CASE Report(a, v)
    <3>1. PICK lease \in 1 .. tickets[a][v].attempts :
            \/ SubmitScore(a, v, lease)
            \/ \E reason \in FailureReason, revoked \in BOOLEAN :
                 FailJob(a, v, lease, reason, revoked)
      BY <2>3 DEF Report
    <3>2. lease \in Nat \ {0}
      BY <1>0 DEF TypeOK, Row
    <3> QED BY <1>0, <3>1, <3>2, ReportsQuiet
  <2> QED BY <2>1, <2>2, <2>3
<1>3. CASE \E a \in Agents : Operator(a) \/ ScreenedImageVerified(a)
  <2>1. PICK a \in Agents : Operator(a) \/ ScreenedImageVerified(a)
    BY <1>3
  <2>2. CASE \E v \in Validators : \E lease \in 1 .. tickets[a][v].attempts :
               ReleaseAssignment(a, v, lease)
    BY <1>0, <2>2, ReportsQuiet
  <2>3. CASE \/ \E reachable \in SUBSET Validators : Recover(a, reachable)
             \/ Withdraw(a) \/ Evict(a) \/ Reinstate(a)
             \/ RebuildScreenedImage(a) \/ ScreenedImageVerified(a)
    BY <1>0, <2>3, OperatorsQuiet
  <2> QED BY <2>1, <2>2, <2>3 DEF Operator
<1> QED BY <1>1, <1>2, <1>3 DEF Next

\* Every step of the platform preserves the invariant.
LEMMA NextIInv == IInv /\ [Next]_vars => IInv'
<1> SUFFICES ASSUME IInv, [Next]_vars PROVE IInv'
  OBVIOUS
<1>1. CASE Next
  <2>1. CASE QuietStep
    BY <2>1, QuietPreserves
  <2>2. CASE \E v \in Validators, s \in Slots, a \in Agents : RequestJob(v, s, a)
    BY <2>2, RequestJobPreserves
  <2>3. CASE \E a \in Agents, v \in Validators, lease \in Nat \ {0} :
               SubmitScore(a, v, lease)
    BY <2>3, SubmitScorePreserves
  <2>4. CASE \E a \in Agents : OpenCopyReview(a) \/ ResolveCopyReview(a)
    BY <2>4, CopyReviewPreserves
  <2> QED BY <1>1, <2>1, <2>2, <2>3, <2>4, StepKinds
<1>2. CASE UNCHANGED vars
  <2>1. UNCHANGED <<agentStatus, removed, imageReady, tickets, scores, finals>>
    BY <1>2 DEF vars
  <2>2. TypeOK' /\ LedgerAgrees' /\ BudgetRespected'
    BY <2>1 DEF IInv, TypeOK, LedgerAgrees, BudgetRespected
  <2>3. QuorumSeats' /\ SettledAtQuorum' /\ NoWastedLease'
    BY <2>1 DEF IInv, QuorumSeats, Seats, LiveRows, Voters,
         SettledAtQuorum, ScoreCount, NoWastedLease, NoLease
  <2> QED BY <2>2, <2>3 DEF IInv
<1> QED BY <1>1, <1>2

\* The inductive invariant holds in every reachable state.
LEMMA InvariantHolds == Spec => []IInv
BY InitIInv, NextIInv, PTL DEF Spec
-----------------------------------------------------------------------------
\* Types, for every instance: rows, scores and audited counts stay in their
\* domains whatever the handlers do (no grant or attempt count goes negative).
THEOREM TypeCorrect == Spec => []TypeOK
BY InvariantHolds, PTL DEF IInv

\* For every fleet and every quorum: leases and accepted scores together
\* never claim more than k of an agent's seats.
THEOREM QuorumSeatsHolds == Spec => []QuorumSeats
BY InvariantHolds, PTL DEF IInv

\* For every instance the tickets and the ledger tell the same story.
THEOREM LedgerAgreesHolds == Spec => []LedgerAgrees
BY InvariantHolds, PTL DEF IInv

\* For every instance an agent settles exactly at its k-th score, and exactly
\* one finalization, of k scores, is audited.
THEOREM SettledAtQuorumHolds == Spec => []SettledAtQuorum
BY InvariantHolds, PTL DEF IInv

\* For every instance nobody runs a benchmark whose result cannot count.
THEOREM NoWastedLeaseHolds == Spec => []NoWastedLease
BY InvariantHolds, PTL DEF IInv

\* For every instance the retry budget holds.
THEOREM BudgetRespectedHolds == Spec => []BudgetRespected
BY InvariantHolds, PTL DEF IInv

\* For every instance accepted scores are write-once.
THEOREM ScoresWriteOnceHolds == Spec => ScoresWriteOnce
<1> DEFINE Kept == \A a \in Agents, v \in Validators :
                     scores[a][v] # 0 => scores'[a][v] = scores[a][v]
<1>1. ASSUME IInv, [Next]_vars PROVE [Kept]_scores
  <2>1. CASE Next
    <3>1. CASE QuietStep
      BY <3>1 DEF QuietStep
    <3>2. CASE \E v \in Validators, s \in Slots, a \in Agents :
                 RequestJob(v, s, a)
      BY <3>2 DEF RequestJob
    <3>3. CASE \E a \in Agents, v \in Validators, lease \in Nat \ {0} :
                 SubmitScore(a, v, lease)
      <4>1. PICK a \in Agents, v \in Validators, lease \in Nat \ {0} :
              SubmitScore(a, v, lease)
        BY <3>3
      <4>2. scores[a][v] = 0
        BY <1>1, <4>1, SubmitScorePreserves DEF Voters
      <4>3. scores' = [scores EXCEPT ![a][v] = lease]
        BY <4>1 DEF SubmitScore
      <4> QED BY <1>1, <4>2, <4>3 DEF IInv, TypeOK
    <3>4. CASE \E a \in Agents : OpenCopyReview(a) \/ ResolveCopyReview(a)
      BY <3>4 DEF OpenCopyReview, ResolveCopyReview
    <3> QED BY <1>1, <2>1, <3>1, <3>2, <3>3, <3>4, StepKinds
  <2>2. CASE UNCHANGED vars
    BY <2>2 DEF vars
  <2> QED BY <1>1, <2>1, <2>2
<1> QED BY <1>1, InvariantHolds, PTL DEF Spec, ScoresWriteOnce

\* For every instance the leases a validator may still take are accounted
\* for: quiet steps by what they grant, and a poll spends exactly one.
THEOREM GrantsAccountedHolds == Spec => GrantsAccounted
<1> DEFINE Accounted(a, v) ==
             /\ Cap(tickets[a][v]) <= Cap(tickets'[a][v])
             /\ Exhausted(tickets[a][v]) => Remaining(tickets'[a][v]) <= 1
             /\ removed'[a] # removed[a]
                  => Remaining(tickets'[a][v]) = Remaining(tickets[a][v])
             /\ imageReady[a] /\ ~imageReady'[a] /\ tickets[a][v].status = "issued"
                  => Remaining(tickets'[a][v]) >= Remaining(tickets[a][v]) + 1
<1>1. ASSUME IInv, [Next]_vars, NEW a \in Agents, NEW v \in Validators
      PROVE  Accounted(a, v) \/ UNCHANGED vars
  <2> DEFINE t == tickets[a][v]
             u == tickets'[a][v]
  <2>0. /\ t \in Row /\ t.attempts \in Nat /\ Cap(t) \in Nat
        /\ WithinBudget(t)
    BY <1>1, CapType DEF IInv, TypeOK, BudgetRespected, WithinBudget, Row
  <2>1. ASSUME QuietRow(t, u), UNCHANGED <<removed, imageReady>>
        PROVE  Accounted(a, v)
    <3>1. /\ Cap(t) <= Cap(u) /\ u.attempts = t.attempts /\ Cap(u) \in Nat
          /\ Exhausted(t) => Cap(u) <= t.attempts + 1
      <4> HIDE DEF t, u
      <4> QED BY <2>0, <2>1, CapType DEF QuietRow
    <3>2. Cap(u) <= t.attempts + 1 => Remaining(u) <= 1
      <4> HIDE DEF t, u
      <4> QED BY <2>0, <3>1 DEF Remaining
    <3> QED BY <2>1, <3>1, <3>2
  <2>2. ASSUME u \in Row, Cap(u) = Cap(t), u.attempts \in {t.attempts, t.attempts + 1},
               UNCHANGED <<removed, imageReady>>
        PROVE  Accounted(a, v)
    <3>1. Exhausted(t) => Cap(t) <= t.attempts
      BY <2>0 DEF Exhausted, BudgetSpent
    <3>2. Cap(t) <= Cap(u) /\ (Cap(t) <= t.attempts => Remaining(u) <= 1)
      <4> HIDE DEF t, u
      <4> QED BY <2>0, <2>2 DEF Remaining
    <3> QED BY <2>2, <3>1, <3>2
  <2>3. CASE QuietStep
    <3>1. /\ Cap(t) <= Cap(u) /\ u.attempts = t.attempts /\ Cap(u) \in Nat
          /\ Exhausted(t) => Cap(u) <= t.attempts + 1
      <4>1. QuietRow(t, u)
        BY <2>3 DEF QuietStep
      <4> HIDE DEF t, u
      <4> QED BY <2>0, <4>1, CapType DEF QuietRow
    <3>2. /\ removed'[a] # removed[a] => Cap(u) = Cap(t)
          /\ imageReady[a] /\ ~imageReady'[a] /\ t.status = "issued"
               => Cap(t) + 1 <= Cap(u)
      BY <2>3 DEF QuietStep
    <3>3. /\ Cap(u) <= t.attempts + 1 => Remaining(u) <= 1
          /\ Cap(u) = Cap(t) => Remaining(u) = Remaining(t)
          /\ Cap(t) + 1 <= Cap(u) => Remaining(u) >= Remaining(t) + 1
      <4> HIDE DEF t, u
      <4> QED BY <2>0, <3>1 DEF Remaining
    <3> HIDE DEF t, u
    <3>4. /\ Cap(t) <= Cap(u)
          /\ Exhausted(t) => Remaining(u) <= 1
          /\ removed'[a] # removed[a] => Remaining(u) = Remaining(t)
          /\ imageReady[a] /\ ~imageReady'[a] /\ t.status = "issued"
               => Remaining(u) >= Remaining(t) + 1
      BY <3>1, <3>2, <3>3, Zenon
    <3> QED BY <3>4, Zenon DEF t, u
  <2>4. ASSUME NEW w \in Validators, NEW s \in Slots, NEW b \in Agents,
               RequestJob(w, s, b)
        PROVE  Accounted(a, v)
    <3>1. /\ SweptTickets[a][v] = Swept(t)
          /\ UNCHANGED <<removed, imageReady>>
          /\ u = IF a = b /\ v = w
                 THEN Reissued(Swept(t), s, "canonical_quorum") ELSE Swept(t)
      BY <2>4 DEF RequestJob, SweptTickets
    <3>2. QuietRow(t, Swept(t)) /\ Swept(t) \in Row /\ Cap(Swept(t)) = Cap(t)
      BY <2>0, QuietSweep, QuietBasics DEF Swept, QuietRow
    <3>3. CASE a = b /\ v = w
      <4>1. u = Reissued(Swept(t), s, "canonical_quorum")
        BY <3>1, <3>3
      <4>4. Swept(t).attempts = t.attempts
        BY <3>2 DEF QuietRow
      <4>5. u \in Row
        <5>1. "canonical_quorum" \in TicketPurpose
          BY DEF TicketPurpose
        <5> HIDE DEF t, u
        <5> QED BY <3>2, <4>1, <5>1, RowTypes
      <4>6. /\ u.attempts = Swept(t).attempts + 1
            /\ u.manual = Swept(t).manual /\ u.infra = Swept(t).infra
        <5> DEFINE r == Swept(t)
        <5>1. u = Reissued(r, s, "canonical_quorum")
          BY <4>1
        <5> HIDE DEF t, u, r
        <5>2. /\ u.attempts = r.attempts + 1
              /\ u.manual = r.manual /\ u.infra = r.infra
          BY <5>1 DEF Reissued
        <5> QED BY <5>2 DEF r
      <4>2. u \in Row /\ u.attempts = t.attempts + 1
            /\ u.manual = Swept(t).manual /\ u.infra = Swept(t).infra
        BY <4>4, <4>5, <4>6
      <4>3. Cap(u) = Cap(t)
        BY <3>2, <4>2 DEF Cap
      <4> QED BY <2>2, <3>1, <4>2, <4>3
    <3>4. CASE ~(a = b /\ v = w)
      BY <2>1, <3>1, <3>2, <3>4
    <3> QED BY <3>3, <3>4
  <2>5. ASSUME NEW b \in Agents, NEW w \in Validators,
               NEW lease \in Nat \ {0}, SubmitScore(b, w, lease)
        PROVE  Accounted(a, v)
    <3>1. /\ UNCHANGED <<removed, imageReady>>
          /\ u = IF a = b /\ v = w THEN Consumed(t) ELSE t
      BY <1>1, <2>5 DEF SubmitScore, IInv, TypeOK
    <3>2. /\ Consumed(t) \in Row /\ Consumed(t).attempts = t.attempts
          /\ Consumed(t).manual = t.manual /\ Consumed(t).infra = t.infra
      BY <2>0 DEF Consumed, Row, TicketStatus
    <3>3. Cap(Consumed(t)) = Cap(t)
      BY <3>2 DEF Cap
    <3> QED BY <2>0, <2>2, <3>1, <3>2, <3>3
  <2>6. CASE \E b \in Agents : OpenCopyReview(b) \/ ResolveCopyReview(b)
    BY <2>0, <2>2, <2>6 DEF OpenCopyReview, ResolveCopyReview
  <2> QED BY <1>1, <2>3, <2>4, <2>5, <2>6, StepKinds
<1>2. IInv /\ [Next]_vars
        => [\A a \in Agents, v \in Validators : Accounted(a, v)]_vars
  BY <1>1
<1>3. GrantsAccounted
        <=> [][\A a \in Agents, v \in Validators : Accounted(a, v)]_vars
  BY PTL DEF GrantsAccounted
<1> QED BY <1>2, <1>3, InvariantHolds, PTL DEF Spec

\* For every instance a slot runs one benchmark at a time: a poll issues only
\* on a slot it found free after its own sweep, and no other handler opens or
\* moves a lease.
THEOREM OneLeasePerSlotHolds == Spec => []OneLeasePerSlot
<1>1. Init => OneLeasePerSlot
  <2> SUFFICES ASSUME Init PROVE OneLeasePerSlot
    OBVIOUS
  <2>1. NoRow.status # "issued"
    BY DEF NoRow
  <2>2. \A a \in Agents, v \in Validators : tickets[a][v] = NoRow
    BY DEF Init
  <2>3. \A a \in Agents, v \in Validators : tickets[a][v].status # "issued"
    BY <2>1, <2>2, Zenon
  <2> QED BY <2>3, Zenon DEF OneLeasePerSlot
<1>2. IInv /\ OneLeasePerSlot /\ [Next]_vars => OneLeasePerSlot'
  <2> SUFFICES ASSUME IInv, OneLeasePerSlot, [Next]_vars PROVE OneLeasePerSlot'
    OBVIOUS
  <2>1. CASE QuietStep
    <3>1. \A a \in Agents, v \in Validators :
            /\ tickets'[a][v].status = "issued" => tickets[a][v].status = "issued"
            /\ tickets'[a][v].slot = tickets[a][v].slot
      <4> SUFFICES ASSUME NEW a \in Agents, NEW v \in Validators
                   PROVE  /\ tickets'[a][v].status = "issued"
                               => tickets[a][v].status = "issued"
                          /\ tickets'[a][v].slot = tickets[a][v].slot
        OBVIOUS
      <4>1. QuietRow(tickets[a][v], tickets'[a][v])
        BY <2>1 DEF QuietStep
      <4> QED BY <4>1 DEF QuietRow
    <3> QED BY <3>1 DEF OneLeasePerSlot
  <2>2. ASSUME NEW v \in Validators, NEW s \in Slots, NEW a \in Agents,
               RequestJob(v, s, a)
        PROVE  OneLeasePerSlot'
    <3> DEFINE T == SweptTickets
    <3>1. \A b \in Agents, w \in Validators :
            /\ T[b][w].status = "issued" => tickets[b][w].status = "issued"
            /\ T[b][w].slot = tickets[b][w].slot
      <4> SUFFICES ASSUME NEW b \in Agents, NEW w \in Validators
                   PROVE  QuietRow(tickets[b][w], T[b][w])
        BY DEF QuietRow
      <4>1. tickets[b][w] \in Row /\ T[b][w] = Swept(tickets[b][w])
        BY DEF IInv, TypeOK, SweptTickets
      <4> QED BY <4>1, QuietSweep
    <3>2. \A b \in Agents : ~(T[b][v].status = "issued" /\ T[b][v].slot = s)
      BY <2>2 DEF RequestJob, SlotFree
    <3>3. /\ tickets'[a][v].status = "issued" /\ tickets'[a][v].slot = s
          /\ \A b \in Agents, w \in Validators :
               b # a \/ w # v => tickets'[b][w] = T[b][w]
      BY <2>2 DEF RequestJob, Reissued, SweptTickets
    <3> HIDE DEF T
    <3> SUFFICES ASSUME NEW b \in Agents, NEW c \in Agents, NEW w \in Validators,
                        tickets'[b][w].status = "issued",
                        tickets'[c][w].status = "issued",
                        tickets'[b][w].slot = tickets'[c][w].slot
                 PROVE  b = c
      BY DEF OneLeasePerSlot
    <3>7. ASSUME tickets'[b][w] = T[b][w], tickets'[c][w] = T[c][w]
          PROVE  b = c
      <4>1. /\ tickets[b][w].status = "issued" /\ tickets[c][w].status = "issued"
            /\ tickets[b][w].slot = tickets[c][w].slot
        BY <3>1, <3>7
      <4> QED BY <4>1 DEF OneLeasePerSlot
    <3>4. CASE w # v
      BY <3>3, <3>4, <3>7
    <3>5. CASE w = v /\ b # a /\ c # a
      BY <3>3, <3>5, <3>7
    <3>6. CASE w = v /\ (b = a \/ c = a)
      BY <3>2, <3>3, <3>6
    <3> QED BY <3>4, <3>5, <3>6
  <2>3. ASSUME NEW a \in Agents, NEW v \in Validators,
               NEW lease \in Nat \ {0}, SubmitScore(a, v, lease)
        PROVE  OneLeasePerSlot'
    <3>1. tickets' = [tickets EXCEPT ![a][v] = Consumed(tickets[a][v])]
      BY <2>3 DEF SubmitScore
    <3>2. Consumed(tickets[a][v]).status = "scored"
      BY DEF IInv, TypeOK, Consumed, Row
    <3>3. \A b \in Agents, w \in Validators :
            tickets'[b][w].status = "issued" => tickets'[b][w] = tickets[b][w]
      BY <3>1, <3>2 DEF IInv, TypeOK
    <3> SUFFICES ASSUME NEW b \in Agents, NEW c \in Agents, NEW w \in Validators,
                        tickets'[b][w].status = "issued",
                        tickets'[c][w].status = "issued",
                        tickets'[b][w].slot = tickets'[c][w].slot
                 PROVE  b = c
      BY Zenon DEF OneLeasePerSlot
    <3>4. tickets'[b][w] = tickets[b][w] /\ tickets'[c][w] = tickets[c][w]
      BY <3>3, Zenon
    <3>5. /\ tickets[b][w].status = "issued" /\ tickets[c][w].status = "issued"
          /\ tickets[b][w].slot = tickets[c][w].slot
      BY <3>4, Zenon
    <3> QED BY <3>5, Zenon DEF OneLeasePerSlot
  <2>4. CASE \E a \in Agents : OpenCopyReview(a) \/ ResolveCopyReview(a)
    <3>1. UNCHANGED tickets
      BY <2>4 DEF OpenCopyReview, ResolveCopyReview
    <3> QED BY <3>1 DEF OneLeasePerSlot
  <2>5. CASE UNCHANGED vars
    BY <2>5 DEF vars, OneLeasePerSlot
  <2> QED BY <2>1, <2>2, <2>3, <2>4, <2>5, StepKinds
<1> QED BY <1>1, <1>2, InvariantHolds, PTL DEF Spec

\* For every instance the ticket machinery implements the promise made to the
\* submitter: accepting a score is a vote, everything else is invisible.
THEOREM PromiseKeptHolds == Spec => PromiseKept
<1> DEFINE votes == [a \in Agents |-> Voters(a)]
           settled == [a \in Agents |-> agentStatus[a] # "evaluating"]
<1>1. Init => Promise!Init
  <2> SUFFICES ASSUME Init PROVE Promise!Init
    OBVIOUS
  <2>1. \A a \in Agents : /\ Voters(a) = {}
                          /\ (agentStatus[a] # "evaluating") = FALSE
    BY DEF Init, Voters
  <2>2. votes = [a \in Agents |-> {}]
    BY <2>1
  <2>3. settled = [a \in Agents |-> FALSE]
    BY <2>1, Zenon
  <2> QED BY <2>2, <2>3 DEF Promise!Init
<1>2. IInv /\ [Next]_vars => [Promise!Next]_(Promise!promiseVars)
  <2> SUFFICES ASSUME IInv, [Next]_vars
               PROVE  [Promise!Next]_(Promise!promiseVars)
    OBVIOUS
  <2>1. ASSUME \A b \in Agents : Voters(b)' = Voters(b),
               \A b \in Agents : agentStatus'[b] # "evaluating"
                                   <=> agentStatus[b] # "evaluating"
        PROVE  UNCHANGED Promise!promiseVars
    <3>1. votes' = votes
      BY <2>1 DEF Voters
    <3>2. \A b \in Agents : (agentStatus'[b] # "evaluating")
                              = (agentStatus[b] # "evaluating")
      BY <2>1, Zenon
    <3>3. settled' = settled
      BY <3>2, Zenon
    <3> QED BY <3>1, <3>3 DEF Promise!promiseVars
  <2>2. CASE QuietStep
    BY <2>1, <2>2 DEF QuietStep, Voters
  <2>3. CASE \E v \in Validators, s \in Slots, a \in Agents : RequestJob(v, s, a)
    BY <2>1, <2>3 DEF RequestJob, Voters
  <2>4. ASSUME NEW a \in Agents, NEW v \in Validators,
               NEW lease \in Nat \ {0}, SubmitScore(a, v, lease)
        PROVE  Promise!Vote(a, v)
    <3>1. /\ agentStatus[a] = "evaluating" /\ v \notin Voters(a)
          /\ Voters(a)' = Voters(a) \cup {v}
          /\ \A b \in Agents \ {a} : Voters(b)' = Voters(b)
          /\ agentStatus'[a] # "evaluating"
               <=> Cardinality(Voters(a) \cup {v}) = Quorum
          /\ \A b \in Agents \ {a} : agentStatus'[b] # "evaluating"
                                        <=> agentStatus[b] # "evaluating"
      BY <2>4, SubmitScorePreserves
    <3>2. votes' = [votes EXCEPT ![a] = @ \cup {v}]
      BY <3>1
    <3>3. settled' = [settled EXCEPT ![a] =
                        votes[a] \cup {v} \in kSubset(Quorum, Validators)]
      <4>1. (agentStatus'[a] # "evaluating")
              = (Voters(a) \cup {v} \in kSubset(Quorum, Validators))
        <5>1. Voters(a) \cup {v} \in SUBSET Validators
          BY DEF Voters
        <5>2. Voters(a) \cup {v} \in kSubset(Quorum, Validators)
                <=> Cardinality(Voters(a) \cup {v}) = Quorum
          BY <5>1 DEF kSubset
        <5>3. agentStatus'[a] # "evaluating"
                <=> Voters(a) \cup {v} \in kSubset(Quorum, Validators)
          BY <3>1, <5>2
        <5> QED BY <5>3
      <4>2. \A b \in Agents \ {a} : (agentStatus'[b] # "evaluating")
                                      = (agentStatus[b] # "evaluating")
        BY <3>1, Zenon
      <4> QED BY <3>1, <4>1, <4>2
    <3>4. ~settled[a] /\ v \notin votes[a]
      BY <3>1
    <3> QED BY <3>2, <3>3, <3>4 DEF Promise!Vote
  <2>5. CASE \E a \in Agents : OpenCopyReview(a) \/ ResolveCopyReview(a)
    BY <2>1, <2>5, CopyReviewPreserves
  <2>6. CASE UNCHANGED vars
    BY <2>1, <2>6 DEF vars, Voters
  <2> QED BY <2>2, <2>3, <2>4, <2>5, <2>6, StepKinds DEF Promise!Next
<1> QED BY <1>1, <1>2, InvariantHolds, PTL DEF Spec, PromiseKept, Promise!Spec
=============================================================================
