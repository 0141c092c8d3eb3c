------------------------------ MODULE TicketRow ------------------------------
(***************************************************************************)
(* One row of the validator_tickets table and the ways the handlers        *)
(* rewrite it.  The table's key is (agent, benchmark version, validator);  *)
(* this module is the value stored under one key at one version.           *)
(*                                                                         *)
(* Time is kept as two facts about a row, not as clock readings:           *)
(*   late     the lease deadline has passed (read only while "issued");    *)
(*   cooling  retry_after lies in the future.                              *)
(* attempts numbers the leases of a row.  Every (re)issue stamps a fresh   *)
(* deadline, and a validator authenticates a result with the deadline it   *)
(* was given, so the lease number stands for that exact-deadline match.    *)
(***************************************************************************)
EXTENDS Integers

CONSTANTS
    Slots,                    \* execution slots of a validator
    DefaultSlot,              \* the column default, "slot-0"
    MaxAttemptsPerVersion,    \* leases a validator may spend by default (1)
    MaxInfraRetryGrants,      \* no-fault grants one row may collect (8)
    MaxAgentInfraRetryGrants  \* fleet-wide bound for one agent (12)

ASSUME RowAssumption ==
    /\ DefaultSlot \in Slots
    /\ MaxAttemptsPerVersion \in Nat \ {0}
    /\ MaxInfraRetryGrants \in Nat
    /\ MaxAgentInfraRetryGrants \in Nat

TicketStatus == {"none", "issued", "scored", "expired"}

TicketPurpose == {"canonical_quorum", "continual_retest"}

Row == [status : TicketStatus, purpose : TicketPurpose, slot : Slots,
        attempts : Nat, manual : Nat, infra : Nat,
        late : BOOLEAN, cooling : BOOLEAN]

\* The value under a key that has no row yet.
NoRow == [status |-> "none", purpose |-> "canonical_quorum",
          slot |-> DefaultSlot, attempts |-> 0, manual |-> 0, infra |-> 0,
          late |-> FALSE, cooling |-> FALSE]
-----------------------------------------------------------------------------
\* Leases this validator may spend on this agent and version.
Cap(t) == MaxAttemptsPerVersion + t.manual + t.infra

BudgetSpent(t) == t.attempts >= Cap(t)

\* The row counts against the agent's quorum (_LIVE_TICKET_STATUSES).
Live(t) == t.status \in {"issued", "scored"}

Exhausted(t) == t.status = "expired" /\ BudgetSpent(t)

\* Mutant: the spent budget is not looked at.
AlreadyMineIgnoringBudget(t) == Live(t) \/ (t.status = "expired" /\ t.cooling)

\* The validator must not be handed this agent now.
AlreadyMine(t) ==
    Live(t) \/ (t.status = "expired" /\ (t.cooling \/ BudgetSpent(t)))

\* Mutant: any lease of the row will do, a superseded one included.
OpenLeaseOfAnyAttempt(t, lease) == t.status = "issued" /\ ~t.late

\* The result or failure names the lease that is open now.
OpenLease(t, lease) == t.status = "issued" /\ ~t.late /\ t.attempts = lease
-----------------------------------------------------------------------------
\* Mutant: a reused row keeps the identity of its previous lease.
ReissuedSameLease(t, s, p) ==
    [t EXCEPT !.status = "issued", !.purpose = p, !.slot = s,
              !.attempts = IF t.status = "none" THEN 1 ELSE @,
              !.late = FALSE, !.cooling = FALSE]

\* A fresh lease on a new or a reused row.
Reissued(t, s, p) ==
    [status |-> "issued", purpose |-> p, slot |-> s,
     attempts |-> t.attempts + 1, manual |-> t.manual, infra |-> t.infra,
     late |-> FALSE, cooling |-> FALSE]

\* The lease is over without a result and, by itself, without a grant:
\* eviction compensates nobody, and fail_job adds its grant before this.
Closed(t, cool) ==
    [t EXCEPT !.status = "expired", !.late = FALSE, !.cooling = cool]

\* Mutant: the deadline comparison is the wrong way round.
SweptBeforeDeadline(t) ==
    IF t.status = "issued" /\ ~t.late THEN Closed(t, TRUE) ELSE t

\* What the overdue sweep leaves of a row.
Swept(t) == IF t.status = "issued" /\ t.late THEN Closed(t, TRUE) ELSE t

\* The result was accepted: the ticket is spent and its seat stays taken.
Consumed(t) == [t EXCEPT !.status = "scored", !.late = FALSE]

\* A re-test is given up: the ticket backs its preserved score again.
Restored(t) == [Consumed(t) EXCEPT !.cooling = FALSE]

\* Mutant: the fleet's total is not compared.
MayGrantPerRowOnly(t, reported, fleet) == t.infra < MaxInfraRetryGrants

\* grant_no_fault_retry: the per-row bound always applies, the fleet bound
\* only when the caller passes the fleet's total.
MayGrant(t, reported, fleet) ==
    /\ t.infra < MaxInfraRetryGrants
    /\ reported => fleet < MaxAgentInfraRetryGrants

\* Mutant: the attempt is refunded by taking a grant away.
GrantedBySubtracting(t, reported, fleet) ==
    [t EXCEPT !.infra = IF MayGrant(t, reported, fleet) THEN @ - 1 ELSE @]

Granted(t, reported, fleet) ==
    [t EXCEPT !.infra = IF MayGrant(t, reported, fleet) THEN @ + 1 ELSE @]

FailureReason == {"infrastructure", "scoring_error", "sandbox_oom"}

\* fail_job's billing.  An infrastructure failure, and any failure of a lease
\* whose inference the platform itself revoked, is compensated and backs off;
\* an out-of-memory sandbox cools down; a scoring error retries at once.
Failed(t, reason, revoked, fleet) ==
    IF reason = "infrastructure" \/ revoked
    THEN Closed(Granted(t, reason = "infrastructure", fleet), TRUE)
    ELSE Closed(t, reason = "sandbox_oom")

\* An operator recovery raises the cap to exactly one future lease.
Recovered(t) ==
    [t EXCEPT !.manual = @ + t.attempts - Cap(t) + 1, !.cooling = FALSE]

\* An image rebuild closes a row and leaves it at least one future lease.
ClosedForRebuild(t) ==
    LET missing == t.attempts - Cap(t) + 1
    IN  Closed([t EXCEPT !.manual = @ + (IF missing > 1 THEN missing ELSE 1)],
               FALSE)
=============================================================================
