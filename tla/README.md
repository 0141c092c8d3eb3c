# A verification development for ditto-platform

ditto-platform is the coordination server of a benchmark subnet. Miners upload
agents, screeners build and admit them, validators lease agents, run the
benchmark and post signed scores, and three distinct scores settle an agent.
Operators repair what gets stuck. The state lives in Postgres; the handlers are
transactions under READ COMMITTED that run concurrently on several replicas.

This directory models that core in TLA+, checks it with TLC on small instances
and proves the main results with TLAPS for every value of the constants.

## The system and what is modelled

| Part | Source (under `src/ditto/`) | Module |
|---|---|---|
| Ticket row, retry budget, billing of failures | `db/models.py`, `db/queries/retry_budget.py` | `TicketRow` |
| Issue, submit, fail; quorum and finalization | `db/queries/tickets.py`, `api_server/endpoints/validator.py` | `Tickets` |
| Recovery, withdrawal, eviction, reinstatement | `api_server/endpoints/admin_validation_retry.py`, `db/queries/retry_state.py` | `Tickets` |
| Copy review and holds; image rebuild; release of an assignment | `admin_copy_review.py`, `admin_quarantine.py` | `Tickets` |
| What scoring promises a submitter | (abstract) | `ScoringPromise` |
| Operator re-tests and their queue | `db/queries/score_retests.py`, `admin_validation_retry.py` | `ScoringLanes` |
| Top-five confirmation lane | `db/queries/tickets.py`, `validator.py` | `ScoringLanes` |
| Transactions of poll, submit and fail, statement by statement | `db/queries/tickets.py`, `validator.py` | `LeaseLocking` |
| Heartbeats and lease liveness | `db/queries/lease_liveness.py`, `heartbeats.py` | planned |
| Benchmark rollout, carryover, retirement | `db/queries/benchmark_rollout.py` and others | planned |
| Screening attempts, quarantine | `db/queries/screening.py`, `screener.py` | planned |
| Upload, payments | `upload.py`, `db/queries/payments.py` | planned |
| Inference grants | `db/queries/inference.py` | planned |
| Audit hash chain | `db/queries/audit.py` | planned |
| King of the hill | `api_server/koth.py` | planned |
| Queue order, owner fairness | `db/queries/queue_order.py` | planned (owner ceiling) |
| Views, fingerprints, statistics, chain client, simulator, dashboard | various | not modelled |

`PROJECT.json` lists every component with its reason, the source lines behind
each definition, and the hazards.

## How the modules correspond to the code

**TicketRow** is the value under one key `(agent, version, validator)` and one
operator per way a handler rewrites it: `Reissued` (a new lease), `Swept`,
`Failed`, `Closed`, `Consumed`, `Restored`, `Recovered`, `ClosedForRebuild`.
Time is two facts per row: `late` (the deadline has passed) and `cooling`
(`retry_after` is in the future). `attempts` identifies the lease: every reissue
stamps a fresh deadline, and results are matched on the exact deadline.

**Tickets** has one action per handler: `RequestJob`/`RequestNothing`,
`SubmitScore`, `FailJob`, `Recover`, `Withdraw`, `Evict`, `Reinstate`,
`ReleaseAssignment`, `RebuildScreenedImage`, `ScreenedImageVerified`,
`OpenCopyReview`, `ResolveCopyReview`, and two for the clock. A report may name
any lease the validator ever held, so late and duplicate messages are included.
`submit_score` may also hold other finalized agents (deferred source review);
`HoldsAfter` is that choice. Which admissible agent a poll gets is left free.
`finals` is the sequence of counts that `agent_finalized` entries carry, so a
finalization performed twice is visible. `RecoveryAllowed` is the verdict of
`recovery_gate`: unspent budget of a validator that is not reachable does not
keep an operator from reviving the others.

**ScoringPromise** says that distinct validators vote one at a time and that an
agent settles in the very step in which its voters become decisive.

**ScoringLanes** extends Tickets with the audit log's re-test lifecycle and
confirmation evidence. All three lanes reissue the same rows. As in the code
there is no stored queue: `Waiting` derives it from the latest entry of each
agent, in the order of the log. `QueueRetests` is the whole route, which takes a
batch of items and ends with one activation; `ActivateNext` is
`activate_next_score_retest` as a whole, the walk over stale requests included.

**LeaseLocking** opens the transactions of poll, submit and fail where they read
before they lock, to see what the row and advisory locks guarantee. Whether the
platform revoked a failing lease is a free choice of `CommitFail`; such a failure
is compensated outside the fleet bound unless it was reported as infrastructure,
and the history variable `exempt` counts those grants apart.

## Runs

| Run | Instance | Question | Distinct states |
|---|---|---|---|
| quorum | 1 agent, 4 validators, quorum 3 | seats, ledger, settlement, wasted leases, budgets, grants, write-once scores | 47,240 |
| liveness | 1 agent, 3 validators of which 2 keep polling, quorum 2 | no silent stall; leases end | 32,753 |
| slots | 2 agents, 2 validators, 2 slots, quorum 2 | one lease per slot; Tickets implements ScoringPromise | 208,354 |
| lanes | 1 agent, 3 validators, quorum 2, 2 leases a row | settled agents keep their quorum | 35,410 |
| shared_row | 1 agent, 2 validators, 4 leases a row | lanes credited apart; re-tests own their row | 229,567 |
| retest_queue | 2 agents, 1 validator, 2 slots | re-tests neither lost nor served out of turn; slots not doubled | 310,780 |
| locks | 1 agent, 3 validators, quorum 2 | locks keep seats; finalization once and never lost; overshoot bounded | 554,758 |

Bounds. One validator more than the quorum makes seats contested. Base budget 1
and allowances of 1 and 2 put the per-row and fleet limits within reach (the
code has 8 and 12). `ManualGrantBound` caps operator grants per row and
`LeaseBound` caps leases per row in the lanes, where re-tests would otherwise
go on for ever; four leases let each lane follow each other one. Two agents are
used where agents interact: on a validator's slots and in its queue. `PollBound`
caps the polls in flight at once at two, enough for a race between two polls;
submissions and failures in flight are not capped. Validators are
interchangeable and so are agents; the runs that use that symmetry name it in
their cfg, and the liveness run does not.

Fairness (liveness run): the validators of `Polling` stay up, poll in a loop and
are given a lease while they may have one (weak fairness of `RequestJob`); every
poll sweeps; deadlines and cooldowns pass by themselves. Nothing obliges the
other validators to poll again, any validator to report, the screener to
deliver, or an operator to act, and an offline validator may keep its budget for
ever. `NoSilentStall` assumes that `Polling` is a quorum and that the image is
ready from some point on, and concludes that the agent settles, is removed, or
returns again and again to a state in which `recovery_gate` lets an operator
revive it. `LeasesEnd` needs only that somebody polls.

### Runs that find a disagreement

| Run | What the code does |
|---|---|
| extra_voter | A re-test of a provisional agent that fails or expires frees a seat whose score is on the ledger; a further validator scores, so there are more voters than the quorum |
| retest_stays_pending | A replacement accepted for a provisional or held agent leaves its request pending |
| consumed_then_expired | The sweep reads unlocked and writes by key, and turns a ticket consumed in between into an expired one |
| lease_retaken | Two slots of one validator polling together can lease the same row twice (outside the completion-first lane) |
| fleet_allowance_overshot | Concurrent reported failures exceed the fleet allowance; the `locks` run and `GrantOvershootBounded` show by how much |

Each quotes the sentence it contradicts in `PROJECT.json`.
The first two need operator re-tests and are absent from module Tickets. The
other three need statement-level interleaving and are absent from the atomic
modules; the proofs below hold of handlers taken as atomic.

Two further behaviours are in ScoringLanes without a sentence to hold them to: a
replacement on a provisional agent appends `agent_finalized` with a count below
the quorum, and a re-test may open a lease on a withdrawn submission.

## Proofs

`TicketsProofs` proves, for every set of agents, finite set of validators, quorum
and allowance (`RowAssumption`, `TicketsAssumption`): `TypeOK`, `QuorumSeats`,
`LedgerAgrees`, `SettledAtQuorum`, `NoWastedLease`, `BudgetRespected`,
`OneLeasePerSlot`, the action properties `ScoresWriteOnce` and
`GrantsAccounted`, and the refinement of `ScoringPromise`.

None of these is inductive alone. Seats stay within the quorum when a score is
stored only because the ticket and the ledger agree; settlement is exact only
because seats are bounded; no lease outlives settlement only because a full
ledger leaves no seat for one. The inductive invariant `IInv` is their
conjunction. Most handlers neither grant a lease nor store a score: the proof
collects them as *quiet* steps, on which rows only lose their lease or gain
budget, and preserves `IInv` once for all of them. `RequestJob`, `SubmitScore`
and the copy review are treated one by one. `OneLeasePerSlot` is a second
induction on top; `GrantsAccounted` follows from what a quiet step may do to a
row's cap and from `BudgetRespected`; and the refinement maps `SubmitScore` to a vote and everything
else to a stutter.

Only model-checked: the liveness properties (fairness is out of the prover's
reach), and all properties of ScoringLanes and LeaseLocking so far.

## Not modelled

Seeds, dataset pins and signatures; nonces; the rollout branches of
`request_job`, with the forced expiry of a lease of another era and the grant
it adds (`Closed` is the expiry without one); the membership and pacing of the confirmation lane (any finalized
agent may be claimed); the policy re-screening that sends an agent back from
evaluation; the completion-first lane's waiting lock and the deadlocks Postgres
breaks; floating-point scores and everything computed from them.

## Plan

1. `LeaseLiveness`: heartbeats, forced expiry, two benchmark eras, inherited
   `first_reported_at`.
2. `Screening`: attempts, expiry, re-screening, quarantine, deferred review;
   composed with Tickets so that agents enter and leave evaluation.
3. `Rollout`: collecting, activation, carryover and retirement, over two
   versions of Tickets; abstract specification of a version switch.
4. `InferenceGrants`: grants tied to leases, replacing the free revocation flag.
5. `Upload`: payment credits, used once.
6. `AuditChain` and `Koth`: pure definitions against reference definitions.
7. LeaseLocking: the completion-first lane and the copy-review transaction.
8. Proofs: `RowsWithinQuorum` and `NoLostFinalization` of LeaseLocking,
   `EvidenceApart`, `RetestOwnsRow` and `FinalizedKeepsQuorum` of ScoringLanes,
   and the invariants of the new modules.
