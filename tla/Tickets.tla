------------------------------- MODULE Tickets -------------------------------
(***************************************************************************)
(* Canonical k-of-n scoring at one benchmark version: validators poll for  *)
(* leases, run the benchmark, and report a score or a failure; deadlines   *)
(* pass; operators recover, withdraw, evict and reinstate submissions.     *)
(*                                                                         *)
(* Every handler of the API server is one database transaction that takes  *)
(* the agent's row lock (or the locks of the ticket rows it rewrites), so  *)
(* each one is a single action here.  Module LeaseLocking opens the        *)
(* transactions that read before they lock.                                *)
(*                                                                         *)
(* Queue order and owner fairness decide WHICH admissible agent a poll is  *)
(* given; the model lets it be any of them, or none.                       *)
(***************************************************************************)
EXTENDS TicketRow, Sequences, FiniteSets, FiniteSetsExt

CONSTANTS
    Agents,
    Validators,
    Polling,           \* the validators that stay up and go on polling
    Quorum,            \* SCORING_QUORUM (3)
    ManualGrantBound   \* model bound: operator grants one row may collect

ASSUME TicketsAssumption ==
    /\ IsFiniteSet(Validators)
    /\ Polling \subseteq Validators
    /\ Quorum \in Nat \ {0}
    /\ ManualGrantBound \in Nat

VARIABLES
    agentStatus,  \* Agent.status
    removed,      \* a queue removal (withdrawal or eviction) is in force
    imageReady,   \* the agent has a complete, verified screened image
    tickets,      \* validator_tickets at this version
    scores,       \* scores: the lease that produced the accepted score, or 0
    finals        \* score counts of the agent_finalized audit entries, in order

vars == <<agentStatus, removed, imageReady, tickets, scores, finals>>

\* "scored" stands for SCORED and for the legacy LIVE, which every handler
\* treats alike.
AgentStatus == {"evaluating", "scored", "ath_pending_review", "banned"}

\* Types of the variables.
TypeOK ==
    /\ agentStatus \in [Agents -> AgentStatus]
    /\ removed \in [Agents -> BOOLEAN]
    /\ imageReady \in [Agents -> BOOLEAN]
    /\ tickets \in [Agents -> [Validators -> Row]]
    /\ scores \in [Agents -> [Validators -> Nat]]
    /\ finals \in [Agents -> Seq(Nat)]

\* Agents as screening hands them over: accepted, image verified, no lease.
Init ==
    /\ agentStatus = [a \in Agents |-> "evaluating"]
    /\ removed = [a \in Agents |-> FALSE]
    /\ imageReady = [a \in Agents |-> TRUE]
    /\ tickets = [a \in Agents |-> [v \in Validators |-> NoRow]]
    /\ scores = [a \in Agents |-> [v \in Validators |-> 0]]
    /\ finals = [a \in Agents |-> <<>>]
-----------------------------------------------------------------------------
Voters(a) == {v \in Validators : scores[a][v] # 0}

ScoreCount(a) == Cardinality(Voters(a))

LiveRows(T, a) == {v \in Validators : Live(T[a][v])}

NoLease(a) == \A v \in Validators : tickets[a][v].status # "issued"

\* SUM(infra_retry_grants) over the agent's rows.
FleetInfraGrants(a) ==
    MapThenSumSet(LAMBDA v : tickets[a][v].infra, Validators)

\* Rows an operator grant could revive: exhausted, and no score of theirs
\* is on the ledger.
ExhaustedRows(a) ==
    {v \in Validators : scores[a][v] = 0 /\ Exhausted(tickets[a][v])}
-----------------------------------------------------------------------------
\* expire_overdue_tickets, the first thing every poll does.
SweptTickets ==
    [a \in Agents |-> [v \in Validators |-> Swept(tickets[a][v])]]

\* Mutant: slots are counted, not told apart.
SlotFreeByCount(T, v, s) ==
    Cardinality({a \in Agents : T[a][v].status = "issued"}) < Cardinality(Slots)

\* Mutant: a closed lease still occupies its slot.
SlotFreeOfClosedLeases(T, v, s) ==
    \A a \in Agents : ~(T[a][v].status # "none" /\ T[a][v].slot = s)

\* No issued row of v sits on slot s.
SlotFree(T, v, s) ==
    \A a \in Agents : ~(T[a][v].status = "issued" /\ T[a][v].slot = s)

\* Mutant: consumed tickets give their seat back.
CandidateCountingIssued(T, a, v) ==
    /\ agentStatus[a] = "evaluating" /\ imageReady[a] /\ ~removed[a]
    /\ ~AlreadyMine(T[a][v])
    /\ Cardinality({w \in Validators : T[a][w].status = "issued"}) < Quorum

\* issue_ticket may give agent a to validator v.
Candidate(T, a, v) ==
    /\ agentStatus[a] = "evaluating"
    /\ imageReady[a]
    /\ ~removed[a]
    /\ ~AlreadyMine(T[a][v])
    /\ Cardinality(LiveRows(T, a)) < Quorum

\* A poll of slot s that ends with a lease on agent a.
RequestJob(v, s, a) ==
    /\ SlotFree(SweptTickets, v, s)
    /\ Candidate(SweptTickets, a, v)
    /\ tickets' = [SweptTickets EXCEPT
                     ![a][v] = Reissued(@, s, "canonical_quorum")]
    /\ UNCHANGED <<agentStatus, removed, imageReady, scores, finals>>

\* A poll that resumes the slot's lease or is given nothing: only the sweep.
RequestNothing ==
    /\ tickets' = SweptTickets
    /\ UNCHANGED <<agentStatus, removed, imageReady, scores, finals>>
-----------------------------------------------------------------------------
\* Mutant: the count is read before the new score is flushed.
CountBefore(a) == ScoreCount(a)

\* Mutant: the new score is counted on top of a count that includes it.
CountTwice(a) == Cardinality({w \in Validators : scores'[a][w] # 0}) + 1

\* The scores the ledger holds once the submitted one is flushed.
CountAfter(a) == Cardinality({w \in Validators : scores'[a][w] # 0})

\* Anti-copy and deferred source review look at the ledger a new result has
\* changed: any finalized agent, the scored one included, may be held.
HoldsAfter(S) ==
    {[b \in Agents |-> IF b \in H THEN "ath_pending_review" ELSE S[b]] :
        H \in SUBSET {b \in Agents : S[b] = "scored"}}

\* The status and audit half of submit_score, run after the score is stored.
Finalize(a, first) ==
    LET count == CountAfter(a)
    IN  \/ /\ agentStatus[a] = "evaluating" /\ count >= Quorum
           /\ agentStatus' \in HoldsAfter([agentStatus EXCEPT ![a] = "scored"])
           /\ finals' = [finals EXCEPT ![a] = Append(@, count)]
        \/ /\ agentStatus[a] = "scored" /\ first /\ count >= Quorum
           /\ finals' = [finals EXCEPT ![a] = Append(@, count)]
           /\ UNCHANGED agentStatus
        \/ /\ ~(agentStatus[a] = "evaluating" /\ count >= Quorum)
           /\ ~(agentStatus[a] = "scored" /\ first /\ count >= Quorum)
           /\ UNCHANGED <<agentStatus, finals>>

\* submit_score for a lease that carries no operator re-test.  The message
\* may be late or a duplicate: it names any lease the validator ever held.
SubmitScore(a, v, lease) ==
    /\ agentStatus[a] \in {"evaluating", "scored", "ath_pending_review"}
    /\ OpenLease(tickets[a][v], lease)
    /\ tickets[a][v].purpose = "canonical_quorum"
    /\ scores[a][v] # 0 => agentStatus[a] # "scored"
    /\ scores' = [scores EXCEPT ![a][v] = lease]
    /\ tickets' = [tickets EXCEPT ![a][v] = Consumed(@)]
    /\ Finalize(a, scores[a][v] = 0)
    /\ UNCHANGED <<removed, imageReady>>

\* fail_job: the validator gives the lease back.
FailJob(a, v, lease, reason, revoked) ==
    /\ OpenLease(tickets[a][v], lease)
    /\ tickets' = [tickets EXCEPT
                     ![a][v] = Failed(@, reason, revoked, FleetInfraGrants(a))]
    /\ UNCHANGED <<agentStatus, removed, imageReady, scores, finals>>
-----------------------------------------------------------------------------
LeaseRunsOut(a, v) ==
    /\ tickets[a][v].status = "issued" /\ ~tickets[a][v].late
    /\ tickets' = [tickets EXCEPT ![a][v].late = TRUE]
    /\ UNCHANGED <<agentStatus, removed, imageReady, scores, finals>>

CooldownEnds(a, v) ==
    /\ tickets[a][v].cooling
    /\ tickets' = [tickets EXCEPT ![a][v].cooling = FALSE]
    /\ UNCHANGED <<agentStatus, removed, imageReady, scores, finals>>
-----------------------------------------------------------------------------
\* recovery_gate's verdict.  Budget left with a validator that is not
\* reachable now does not keep the operator from reviving the others.
RecoveryAllowed(a, reachable) ==
    /\ agentStatus[a] = "evaluating" /\ ~removed[a]
    /\ ScoreCount(a) < Quorum
    /\ NoLease(a)
    /\ ~\E v \in reachable : /\ scores[a][v] = 0
                             /\ tickets[a][v].status = "expired"
                             /\ ~BudgetSpent(tickets[a][v])
    /\ Cardinality(ExhaustedRows(a)) >= Quorum - ScoreCount(a)

\* recovery_gate's choice of rows to revive: as many exhausted rows as scores
\* are missing, those of reachable validators first.
RevivableSets(a, reachable) ==
    {S \in kSubset(Quorum - ScoreCount(a), ExhaustedRows(a)) :
        S \subseteq reachable \/ (ExhaustedRows(a) \cap reachable) \subseteq S}

\* An audited operator retry; reachable validators are polling right now.
Recover(a, reachable) ==
    /\ RecoveryAllowed(a, reachable)
    /\ \E S \in RevivableSets(a, reachable) :
         /\ \A v \in S : Recovered(tickets[a][v]).manual <= ManualGrantBound
         /\ tickets' = [tickets EXCEPT ![a] =
              [v \in Validators |-> IF v \in S THEN Recovered(@[v]) ELSE @[v]]]
    /\ UNCHANGED <<agentStatus, removed, imageReady, scores, finals>>

\* Withdrawal: only once enough rows are exhausted and nobody holds a lease.
Withdraw(a) ==
    /\ agentStatus[a] = "evaluating" /\ ~removed[a]
    /\ ScoreCount(a) < Quorum
    /\ NoLease(a)
    /\ Cardinality(ExhaustedRows(a)) >= Quorum - ScoreCount(a)
    /\ removed' = [removed EXCEPT ![a] = TRUE]
    /\ UNCHANGED <<agentStatus, imageReady, tickets, scores, finals>>

\* Mutant: the evicted leases are left running.
EvictKeepingLeases(a) ==
    /\ agentStatus[a] = "evaluating" /\ ~removed[a]
    /\ ScoreCount(a) < Quorum
    /\ removed' = [removed EXCEPT ![a] = TRUE]
    /\ UNCHANGED <<agentStatus, imageReady, tickets, scores, finals>>

\* Mutant: eviction also discards the evidence collected so far.
EvictDiscardingScores(a) ==
    /\ agentStatus[a] = "evaluating" /\ ~removed[a]
    /\ ScoreCount(a) < Quorum
    /\ removed' = [removed EXCEPT ![a] = TRUE]
    /\ tickets' = [tickets EXCEPT ![a] =
         [v \in Validators |-> IF Live(@[v]) THEN Closed(@[v], FALSE) ELSE @[v]]]
    /\ scores' = [scores EXCEPT ![a] = [v \in Validators |-> 0]]
    /\ UNCHANGED <<agentStatus, imageReady, finals>>

\* Mutant: the evicted leases are compensated like expired ones.
EvictCompensating(a) ==
    /\ agentStatus[a] = "evaluating" /\ ~removed[a]
    /\ ScoreCount(a) < Quorum
    /\ removed' = [removed EXCEPT ![a] = TRUE]
    /\ tickets' = [tickets EXCEPT ![a] =
         [v \in Validators |->
            IF @[v].status = "issued"
            THEN Closed(Granted(@[v], FALSE, 0), FALSE) ELSE @[v]]]
    /\ UNCHANGED <<agentStatus, imageReady, scores, finals>>

\* Eviction: revoke every lease without compensation, and withdraw.
Evict(a) ==
    /\ agentStatus[a] = "evaluating" /\ ~removed[a]
    /\ ScoreCount(a) < Quorum
    /\ removed' = [removed EXCEPT ![a] = TRUE]
    /\ tickets' = [tickets EXCEPT ![a] =
         [v \in Validators |->
            IF @[v].status = "issued" THEN Closed(@[v], FALSE) ELSE @[v]]]
    /\ UNCHANGED <<agentStatus, imageReady, scores, finals>>

Reinstate(a) ==
    /\ removed[a]
    /\ agentStatus[a] = "evaluating"
    /\ ScoreCount(a) < Quorum
    /\ removed' = [removed EXCEPT ![a] = FALSE]
    /\ UNCHANGED <<agentStatus, imageReady, tickets, scores, finals>>

\* The operator clears one exact live lease; it cools down in full.
ReleaseAssignment(a, v, lease) ==
    /\ OpenLease(tickets[a][v], lease)
    /\ tickets' = [tickets EXCEPT ![a][v] = Closed(@, TRUE)]
    /\ UNCHANGED <<agentStatus, removed, imageReady, scores, finals>>

\* rebuild_screened_image: nothing may run against the image being replaced.
RebuildScreenedImage(a) ==
    /\ agentStatus[a] = "evaluating" /\ imageReady[a]
    /\ Voters(a) = {}
    /\ \A v \in Validators :
         tickets[a][v].status \in {"issued", "expired"} =>
             ClosedForRebuild(tickets[a][v]).manual <= ManualGrantBound
    /\ imageReady' = [imageReady EXCEPT ![a] = FALSE]
    /\ tickets' = [tickets EXCEPT ![a] =
         [v \in Validators |->
            IF @[v].status \in {"issued", "expired"}
            THEN ClosedForRebuild(@[v]) ELSE @[v]]]
    /\ UNCHANGED <<agentStatus, removed, scores, finals>>

\* The screener delivers the rebuilt image.
ScreenedImageVerified(a) ==
    /\ ~imageReady[a]
    /\ imageReady' = [imageReady EXCEPT ![a] = TRUE]
    /\ UNCHANGED <<agentStatus, removed, tickets, scores, finals>>

\* A rejected submission may be reconsidered.
OpenCopyReview(a) ==
    /\ agentStatus[a] \in {"scored", "banned"}
    /\ agentStatus' = [agentStatus EXCEPT ![a] = "ath_pending_review"]
    /\ UNCHANGED <<removed, imageReady, tickets, scores, finals>>

ResolveCopyReview(a) ==
    /\ agentStatus[a] = "ath_pending_review"
    /\ \E st \in {"scored", "banned"} :
         agentStatus' = [agentStatus EXCEPT ![a] = st]
    /\ UNCHANGED <<removed, imageReady, tickets, scores, finals>>
-----------------------------------------------------------------------------
Poll(v) == RequestNothing \/ \E s \in Slots, a \in Agents : RequestJob(v, s, a)

Report(a, v) ==
    \E lease \in 1 .. tickets[a][v].attempts :
        \/ SubmitScore(a, v, lease)
        \/ \E reason \in FailureReason, revoked \in BOOLEAN :
             FailJob(a, v, lease, reason, revoked)

TimePasses(a, v) == LeaseRunsOut(a, v) \/ CooldownEnds(a, v)

Operator(a) ==
    \/ \E reachable \in SUBSET Validators : Recover(a, reachable)
    \/ Withdraw(a) \/ Evict(a) \/ Reinstate(a)
    \/ \E v \in Validators : \E lease \in 1 .. tickets[a][v].attempts :
         ReleaseAssignment(a, v, lease)
    \/ RebuildScreenedImage(a)
    \/ OpenCopyReview(a) \/ ResolveCopyReview(a)

Next ==
    \/ \E v \in Validators : Poll(v)
    \/ \E a \in Agents, v \in Validators : Report(a, v) \/ TimePasses(a, v)
    \/ \E a \in Agents : Operator(a) \/ ScreenedImageVerified(a)

Spec == Init /\ [][Next]_vars
-----------------------------------------------------------------------------
\* Leases the row's validator may still be given.
Remaining(t) == Cap(t) - t.attempts

\* Validators with a claim on one of the agent's k seats: an open lease, a
\* consumed ticket, or a score on the ledger.
Seats(a) == LiveRows(tickets, a) \cup Voters(a)

\* issue_ticket counts tickets and submit_score counts scores; between polls,
\* expiries, failures, evictions and recoveries of any number of validators
\* the two counts together never exceed the quorum.
QuorumSeats == \A a \in Agents : Cardinality(Seats(a)) <= Quorum

\* The ticket table and the score ledger tell the same story: a ticket is
\* consumed exactly when its validator's score is stored, and that score came
\* from the row's latest lease, never from one that was closed or superseded
\* before the result arrived.
LedgerAgrees ==
    \A a \in Agents, v \in Validators :
        /\ tickets[a][v].status = "scored" <=> scores[a][v] # 0
        /\ scores[a][v] # 0 => scores[a][v] = tickets[a][v].attempts

\* Finalization is neither lost nor repeated nor early: an agent has left
\* "evaluating" exactly when its quorum is on the ledger, and then exactly one
\* agent_finalized entry, with the quorum as its count, was audited.
SettledAtQuorum ==
    \A a \in Agents :
        /\ agentStatus[a] # "evaluating" <=> ScoreCount(a) = Quorum
        /\ finals[a] = IF agentStatus[a] = "evaluating" THEN <<>> ELSE <<Quorum>>

\* No validator keeps running a submission whose result can no longer count:
\* settled, removed from the queue, or with its image being rebuilt.
NoWastedLease ==
    \A a \in Agents :
        agentStatus[a] # "evaluating" \/ removed[a] \/ ~imageReady[a]
            => NoLease(a)

\* The retry budget holds over any mix of failures, sweeps, operator grants
\* and evict/reinstate cycles: spending starts at zero, no row is leased
\* beyond its cap, and automatic grants alone never raise the cap past the
\* no-fault allowance.
BudgetRespected ==
    \A a \in Agents, v \in Validators :
        /\ tickets[a][v].status = "none" => tickets[a][v].attempts = 0
        /\ tickets[a][v].attempts <= Cap(tickets[a][v])
        /\ tickets[a][v].infra <= MaxInfraRetryGrants

\* A validator slot runs one benchmark at a time: the handlers never rely on
\* the partial unique index to refuse a second issued row.
OneLeasePerSlot ==
    \A a, b \in Agents, v \in Validators :
        /\ tickets[a][v].status = "issued" /\ tickets[b][v].status = "issued"
        /\ tickets[a][v].slot = tickets[b][v].slot
        => a = b

\* An accepted canonical score is write-once: duplicates, late results and
\* every operator action leave it as it is.
ScoresWriteOnce ==
    [][\A a \in Agents, v \in Validators :
         scores[a][v] # 0 => scores'[a][v] = scores[a][v]]_scores

\* Every lease a row may still take is accounted for.  No step takes budget
\* back; a validator that had used its budget up gets at most one more lease
\* from an operator's recovery or anybody else; removing a submission from
\* the queue, even from under a running validator, and reinstating it pay
\* nobody a retry; and a lease closed by an image rebuild is given back, with
\* room for at least one on the new image.
GrantsAccounted ==
    [][\A a \in Agents, v \in Validators :
         LET t == tickets[a][v]
             u == tickets'[a][v]
         IN  /\ Cap(t) <= Cap(u)
             /\ Exhausted(t) => Remaining(u) <= 1
             /\ removed'[a] # removed[a] => Remaining(u) = Remaining(t)
             /\ imageReady[a] /\ ~imageReady'[a] /\ t.status = "issued"
                  => Remaining(u) >= Remaining(t) + 1]_vars
-----------------------------------------------------------------------------
\* The validators of Polling stay up, poll in a loop and are given a lease
\* while they may have one; every poll sweeps; clocks advance.  Nothing obliges
\* the other validators to poll, any validator to report, the screener to
\* deliver, nor an operator to act.
Fairness ==
    /\ Polling # {} => WF_vars(RequestNothing)
    /\ \A v \in Polling :
         WF_vars(\E s \in Slots, a \in Agents : RequestJob(v, s, a))
    /\ \A a \in Agents, v \in Validators :
         WF_vars(LeaseRunsOut(a, v)) /\ WF_vars(CooldownEnds(a, v))

FairSpec == Spec /\ Fairness

\* No submission is stuck out of sight.  As long as a quorum of validators
\* keeps polling and the image is eventually left alone, then whatever the
\* other validators do (never poll, or take a lease and vanish) and whatever
\* all of them report, the submission settles, is removed, or reaches a state
\* in which, with the others counted as gone, the operator's recovery gate is
\* open: no lease and no unspent budget of theirs keeps it shut.
NoSilentStall ==
    Cardinality(Polling) >= Quorum =>
        \A a \in Agents :
            <>[]imageReady[a] =>
                []<>(\/ agentStatus[a] # "evaluating" \/ removed[a]
                     \/ RecoveryAllowed(a, Polling))

\* A lease never pins a seat for ever: even when its holder vanishes, the seat
\* is consumed by a score or given back as long as somebody polls.
LeasesEnd ==
    \A a \in Agents, v \in Validators :
        tickets[a][v].status = "issued" ~> tickets[a][v].status # "issued"
-----------------------------------------------------------------------------
Promise == INSTANCE ScoringPromise WITH
    voters <- [a \in Agents |-> Voters(a)],
    settled <- [a \in Agents |-> agentStatus[a] # "evaluating"],
    Decisive <- kSubset(Quorum, Validators)

\* The ticket machinery implements the promise: every handler either counts
\* one new distinct validator, settling the agent exactly at the k-th, or is
\* invisible to the submitter.
PromiseKept == Promise!Spec
=============================================================================
