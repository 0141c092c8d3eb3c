---------------------------- MODULE ScoringPromise ----------------------------
(***************************************************************************)
(* What k-of-n scoring promises a submitter, with no tickets, deadlines or *)
(* operators in sight: distinct validators vote one at a time, and the     *)
(* submission settles, for good, in the very step in which its voters      *)
(* become decisive.                                                        *)
(***************************************************************************)
CONSTANTS
    Agents,
    Validators,
    Decisive    \* the sets of validators whose votes settle a submission

VARIABLES
    voters,   \* validators whose canonical score counts, per agent
    settled   \* the agent has left evaluation

promiseVars == <<voters, settled>>

Init ==
    /\ voters = [a \in Agents |-> {}]
    /\ settled = [a \in Agents |-> FALSE]

Vote(a, v) ==
    /\ ~settled[a]
    /\ v \notin voters[a]
    /\ voters' = [voters EXCEPT ![a] = @ \cup {v}]
    /\ settled' = [settled EXCEPT ![a] = voters[a] \cup {v} \in Decisive]

Next == \E a \in Agents, v \in Validators : Vote(a, v)

Spec == Init /\ [][Next]_promiseVars
=============================================================================
