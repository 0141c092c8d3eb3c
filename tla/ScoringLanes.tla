----------------------------- MODULE ScoringLanes -----------------------------
(***************************************************************************)
(* The canonical lane of module Tickets together with the two lanes that   *)
(* rewrite the same ticket rows after a score exists:                      *)
(*   - operator re-tests: an accepted score is queued or reopened, and a   *)
(*     new run replaces it (an append-only audit log keeps the lifecycle); *)
(*   - continual confirmations: top-five agents are re-run on shared seeds *)
(*     and the result is appended as evidence, never as a score.           *)
(***************************************************************************)
EXTENDS Tickets, SequencesExt

CONSTANT LeaseBound   \* model bound: leases one row may collect

ASSUME LanesAssumption == LeaseBound \in Nat

VARIABLES
    retest,    \* latest re-test entry of the audit log: its event, its run
               \* and, while it waits, its place in the log's order
    evidence   \* leases whose confirmation result was appended

laneVars == <<retest, evidence>>
allVars == <<vars, laneVars>>

RetestEvent == {"none", "queued", "requested", "released", "invalidated"}

NoRetest == [event |-> "none", run |-> 0, seq |-> 0]

\* Mutant: the entry is stamped with the route's name, not with an event.
RequestedByRoute(run) == [event |-> "replace_score", run |-> run, seq |-> 0]

\* The audit entry that makes a re-test of the given run pending.
Requested(run) == [event |-> "requested", run |-> run, seq |-> 0]

\* The audit entry that gives a re-test of the given run up.
Released(run) == [event |-> "released", run |-> run, seq |-> 0]

\* Types of the lanes' variables, on top of the canonical lane's.
LanesTypeOK ==
    /\ TypeOK
    /\ retest \in [Agents -> [Validators ->
         [event : RetestEvent, run : Nat, seq : Nat]]]
    /\ evidence \in [Agents -> [Validators -> SUBSET Nat]]

LanesInit ==
    /\ Init
    /\ retest = [a \in Agents |-> [v \in Validators |-> NoRetest]]
    /\ evidence = [a \in Agents |-> [v \in Validators |-> {}]]

\* Agents whose latest entry for validator v of the log R is "queued".
QueuedFor(R, v) == {a \in Agents : R[a][v].event = "queued"}

\* Mutant: the newest request is served first.
WaitingNewestFirst(R, v) ==
    SetToSortSeq(QueuedFor(R, v), LAMBDA a, b : R[a][v].seq > R[b][v].seq)

\* The queue of validator v: there is no stored one, every activation derives
\* it from the log, oldest request first.
Waiting(R, v) ==
    SetToSortSeq(QueuedFor(R, v), LAMBDA a, b : R[a][v].seq < R[b][v].seq)

\* The log R once a batch of agents is queued, one after the other, behind
\* everything that waits for validator v.
QueuedBehind(R, v, batch) ==
    LET last == Max({0} \cup {R[a][v].seq : a \in QueuedFor(R, v)})
        place(a) == last + SelectInSeq(batch, LAMBDA b : b = a)
    IN  [a \in Agents |->
           IF a \in Range(batch)
           THEN [R[a] EXCEPT ![v] = [event |-> "queued", run |-> scores[a][v],
                                     seq |-> place(a)]]
           ELSE R[a]]

RetestOpen(a, v) == retest[a][v].event \in {"queued", "requested"}

\* Mutant: only confirmation leases keep a validator busy.
LeasesOfConfirmations(T, v) ==
    {a \in Agents : /\ T[a][v].status = "issued"
                    /\ T[a][v].purpose = "continual_retest"}

LeasesOf(T, v) == {a \in Agents : T[a][v].status = "issued"}

BelowLeaseBound(t) == t.attempts < LeaseBound
-----------------------------------------------------------------------------
\* A queued request can be served: the agent is still finalized, its ticket
\* is consumed, and the accepted score is the one the operator looked at.
Runnable(T, R, a, v) ==
    /\ agentStatus[a] = "scored"
    /\ T[a][v].status = "scored"
    /\ scores[a][v] = R[a][v].run

\* Walk validator v's queue oldest first: requests that went stale are
\* released, and the first runnable one is given slot s.  T and R are the
\* tickets and the log the walk starts from.
Promote(T, R, v, s, supported) ==
    LET q == Waiting(R, v)
        ready == {i \in DOMAIN q : Runnable(T, R, q[i], v)}
        head == IF ready = {} THEN Len(q) + 1 ELSE Min(ready)
        stale == {q[i] : i \in 1 .. (head - 1)}
        closed == [a \in Agents |->
                     IF a \in stale
                     THEN [R[a] EXCEPT ![v] = Released(@.run)] ELSE R[a]]
    IN  IF ~supported
        THEN tickets' = T /\ retest' = R
        ELSE IF ready = {}
        THEN tickets' = T /\ retest' = closed
        ELSE /\ BelowLeaseBound(T[q[head]][v])
             /\ tickets' = [T EXCEPT ![q[head]][v] =
                              Reissued(@, s, "canonical_quorum")]
             /\ retest' = [closed EXCEPT ![q[head]][v] = Requested(@.run)]

\* activate_next_score_retest.  The validator may have stopped advertising
\* the benchmark version (supported), and the liveness gate may or may not
\* prove a lease idle (idle).
ActivateNext(T, R, v, s, supported, idle) ==
    LET issued == LeasesOf(T, v)
        active == {a \in issued : /\ T[a][v].purpose = "canonical_quorum"
                                  /\ R[a][v].event = "requested"}
    IN  IF issued = {} THEN Promote(T, R, v, s, supported)
        ELSE IF active = {}
        THEN tickets' = T /\ retest' = R
        ELSE \E a \in active :
               IF /\ T[a][v].slot = s
                  /\ T[a][v].late \/ (~supported /\ idle)
               THEN Promote([T EXCEPT ![a][v] = Restored(@)],
                            [R EXCEPT ![a][v] = Released(@.run)],
                            v, s, supported)
               ELSE tickets' = T /\ retest' = R
-----------------------------------------------------------------------------
\* A poll of slot s that ends with a canonical lease.
LanesRequestJob(v, s, a) ==
    /\ BelowLeaseBound(tickets[a][v])
    /\ RequestJob(v, s, a)
    /\ UNCHANGED laneVars

\* A poll that leaves without one turns to the re-test queue; a validator
\* gated out of the version never reaches the sweep.
RequestRetest(v, s) ==
    /\ \/ ActivateNext(SweptTickets, retest, v, s, TRUE, FALSE)
       \/ \E idle \in BOOLEAN :
            ActivateNext(tickets, retest, v, s, FALSE, idle)
    /\ UNCHANGED <<agentStatus, removed, imageReady, scores, finals, evidence>>

\* submit_score on a lease without an open re-test of an existing score.
LanesSubmitScore(a, v, lease) ==
    /\ scores[a][v] = 0 \/ retest[a][v].event # "requested"
    /\ SubmitScore(a, v, lease)
    /\ UNCHANGED laneVars

\* Mutant: the replacement leaves the request pending.
RequestStillOpen(a, v) == retest

RequestAfterReplacement(a, v) ==
    IF agentStatus[a] = "scored"
    THEN [retest EXCEPT ![a][v].event = "invalidated"] ELSE retest

\* The statuses a replacement may lead to: the quorum check still runs, and
\* the source review of a finalized agent's ledger runs again.
StatusAfterReplacement(a) ==
    IF agentStatus[a] = "evaluating" /\ ScoreCount(a) >= Quorum
    THEN HoldsAfter([agentStatus EXCEPT ![a] = "scored"])
    ELSE IF agentStatus[a] = "scored" THEN HoldsAfter(agentStatus)
    ELSE {agentStatus}

\* submit_score replacing the very score the operator asked to re-test.  It
\* audits a finalization whatever the count, and closes the request only
\* for a finalized agent that is not held.
SubmitReplacement(a, v, lease) ==
    /\ agentStatus[a] \in {"evaluating", "scored", "ath_pending_review"}
    /\ OpenLease(tickets[a][v], lease)
    /\ tickets[a][v].purpose = "canonical_quorum"
    /\ scores[a][v] # 0
    /\ retest[a][v] = Requested(scores[a][v])
    /\ scores' = [scores EXCEPT ![a][v] = lease]
    /\ tickets' = [tickets EXCEPT ![a][v] = Consumed(@)]
    /\ retest' = RequestAfterReplacement(a, v)
    /\ finals' = [finals EXCEPT ![a] = Append(@, ScoreCount(a))]
    /\ agentStatus' \in StatusAfterReplacement(a)
    /\ UNCHANGED <<removed, imageReady, evidence>>
-----------------------------------------------------------------------------
\* replace-score: the operator reopens one consumed ticket on the spot.
ReplaceScore(a, v) ==
    /\ agentStatus[a] \in {"evaluating", "scored"}
    /\ scores[a][v] # 0
    /\ tickets[a][v].status = "scored"
    /\ \A b \in Agents \ {a} : tickets[b][v].status # "issued"
    /\ BelowLeaseBound(tickets[a][v])
    /\ tickets' = [tickets EXCEPT
                     ![a][v] = Reissued(@, @.slot, "canonical_quorum")]
    /\ retest' = [retest EXCEPT ![a][v] = Requested(scores[a][v])]
    /\ UNCHANGED <<agentStatus, removed, imageReady, scores, finals, evidence>>

\* Orders in which the items of one request may come.
Batches == {b \in SeqOf(Agents, Cardinality(Agents)) : b # <<>> /\ IsInjective(b)}

\* The queue-re-tests route: every item that passes the gate is queued, in the
\* order of the request, and one activation follows.
QueueRetests(batch, v, supported, idle) ==
    /\ \A a \in Range(batch) : /\ agentStatus[a] = "scored"
                                /\ scores[a][v] # 0
                                /\ tickets[a][v].status = "scored"
                                /\ ~RetestOpen(a, v)
    /\ ActivateNext(tickets, QueuedBehind(retest, v, batch),
                    v, DefaultSlot, supported, idle)
    /\ UNCHANGED <<agentStatus, removed, imageReady, scores, finals, evidence>>

\* release-ticket: give a pending re-test up, and activate the next one.
ReleaseRetest(a, v, supported, idle) ==
    /\ retest[a][v].event = "requested"
    /\ scores[a][v] # 0
    /\ tickets[a][v].status \in {"issued", "expired"}
    /\ ActivateNext([tickets EXCEPT ![a][v] = Restored(@)],
            [retest EXCEPT ![a][v] = Released(@.run)],
            v, DefaultSlot, supported, idle)
    /\ UNCHANGED <<agentStatus, removed, imageReady, scores, finals, evidence>>
-----------------------------------------------------------------------------
\* Mutant: a pending re-test does not keep the confirmation lane off.
ConfirmableOverRetest(T, a, v) ==
    /\ T[a][v].status # "issued" /\ ~T[a][v].cooling
    /\ agentStatus[a] = "scored"

\* issue_confirmation_ticket may reopen the row.
Confirmable(T, a, v) ==
    /\ T[a][v].status # "issued" /\ ~T[a][v].cooling
    /\ agentStatus[a] = "scored"
    /\ retest[a][v].event # "requested"

\* request_top5_confirmation_job for an agent of the emission set.
ClaimConfirmation(a, v, s) ==
    LET T == SweptTickets
    IN  /\ SlotFree(T, v, s)
        /\ Confirmable(T, a, v)
        /\ BelowLeaseBound(T[a][v])
        /\ tickets' = [T EXCEPT ![a][v] = Reissued(@, s, "continual_retest")]
        /\ UNCHANGED <<agentStatus, removed, imageReady, scores, finals>>
        /\ UNCHANGED laneVars

\* submit_top5_confirmation_score: append the evidence, consume the ticket.
SubmitConfirmation(a, v, lease) ==
    /\ agentStatus[a] = "scored"
    /\ OpenLease(tickets[a][v], lease)
    /\ tickets[a][v].purpose = "continual_retest"
    /\ evidence' = [evidence EXCEPT ![a][v] = @ \cup {lease}]
    /\ tickets' = [tickets EXCEPT ![a][v] = Consumed(@)]
    /\ UNCHANGED <<agentStatus, removed, imageReady, scores, finals>>
    /\ UNCHANGED retest
-----------------------------------------------------------------------------
\* Everything else of the canonical lane leaves the other lanes alone.
CanonicalStep ==
    \/ RequestNothing
    \/ \E a \in Agents, v \in Validators :
         \/ TimePasses(a, v)
         \/ \E lease \in 1 .. tickets[a][v].attempts,
               reason \in FailureReason, revoked \in BOOLEAN :
              FailJob(a, v, lease, reason, revoked)
    \/ \E a \in Agents : Operator(a) \/ ScreenedImageVerified(a)

RetestStep ==
    \E v \in Validators :
        \/ \E s \in Slots : RequestRetest(v, s)
        \/ \E supported, idle \in BOOLEAN :
             \/ \E batch \in Batches : QueueRetests(batch, v, supported, idle)
             \/ \E a \in Agents : ReleaseRetest(a, v, supported, idle)
        \/ \E a \in Agents : ReplaceScore(a, v)

LanesReport(a, v) ==
    \E lease \in 1 .. tickets[a][v].attempts :
        \/ LanesSubmitScore(a, v, lease)
        \/ SubmitReplacement(a, v, lease)
        \/ SubmitConfirmation(a, v, lease)

LanesNext ==
    \/ CanonicalStep /\ UNCHANGED laneVars
    \/ RetestStep
    \/ \E a \in Agents, v \in Validators :
         \/ LanesReport(a, v)
         \/ \E s \in Slots : LanesRequestJob(v, s, a) \/ ClaimConfirmation(a, v, s)

LanesSpec == LanesInit /\ [][LanesNext]_allVars
-----------------------------------------------------------------------------
\* However re-tests and confirmations fail, expire or are given up, a
\* settled agent keeps a full quorum of accepted scores.
FinalizedKeepsQuorum ==
    \A a \in Agents : agentStatus[a] # "evaluating" => ScoreCount(a) >= Quorum

\* One run never counts twice: the lease behind a canonical score is not
\* also confirmation evidence, although both lanes reissue the same row and a
\* validator may send either kind of result for any lease it ever held.
EvidenceApart ==
    \A a \in Agents, v \in Validators : scores[a][v] \notin evidence[a][v]

\* An operator's pending re-test owns the row until it is completed or
\* released: no confirmation lease is ever opened over it.
RetestOwnsRow ==
    \A a \in Agents, v \in Validators :
        retest[a][v].event = "requested" /\ tickets[a][v].status = "issued"
            => tickets[a][v].purpose = "canonical_quorum"

\* Request b of validator v waits, and was queued before request a was.
QueuedBefore(b, a, v) ==
    /\ b # a
    /\ retest[b][v].event = "queued"
    /\ retest[a][v].event = "queued" => retest[b][v].seq < retest[a][v].seq

\* activate_next_score_retest loses no waiting request and serves none out
\* of turn, although it derives the queue afresh each time and polls,
\* releases and new requests all call it: a request stops waiting only by
\* being released when it can no longer be served, or by becoming a lease on
\* exactly the accepted run; and unless the operator names an agent by
\* replace-score, nothing becomes a lease while an older request waits on.
RetestsServedInOrder ==
    [][\A a \in Agents, v \in Validators :
         LET served == /\ retest'[a][v] # retest[a][v]
                       /\ retest'[a][v] = Requested(scores[a][v])
                       /\ tickets'[a][v].status = "issued"
         IN  /\ retest[a][v].event = "queued"
                => \/ retest'[a][v] = retest[a][v]
                   \/ served
                   \/ /\ retest'[a][v].event = "released"
                      /\ ~Runnable(tickets, retest, a, v)
             /\ served /\ ~ReplaceScore(a, v)
                => \A b \in Agents :
                     QueuedBefore(b, a, v) => retest'[b][v].event # "queued"
      ]_allVars

\* The canonical score of a settled agent, held for review or not, changes
\* only through a re-test of exactly that score, and unless the agent is held
\* the request is used up by it.
ReplacedOnlyOnRequest ==
    [][\A a \in Agents, v \in Validators :
         agentStatus[a] # "evaluating" /\ scores[a][v] # 0
           /\ scores'[a][v] # scores[a][v]
         => /\ retest[a][v] = Requested(scores[a][v])
            /\ agentStatus[a] = "scored"
                 => retest'[a][v].event = "invalidated"]_allVars
-----------------------------------------------------------------------------
\* "A submission is scored by exactly three validators" (ValidatorTicket).
AtMostQuorumVoters == \A a \in Agents : ScoreCount(a) <= Quorum

\* A re-test is pending only "until it is completed or released"
\* (issue_confirmation_ticket): a consumed ticket has no pending re-test.
CompletedRetestCloses ==
    \A a \in Agents, v \in Validators :
        retest[a][v].event = "requested" => tickets[a][v].status # "scored"
=============================================================================
