---------------------------- MODULE JobLifecycle ----------------------------
(***************************************************************************)
(* What the system promises of a job: it waits until it is claimed, a      *)
(* claim is settled by one outcome or lost, and an end is an end.  The     *)
(* requests of its owner change its status, at any moment, but they        *)
(* neither make a claim nor settle one.                                    *)
(***************************************************************************)
EXTENDS Integers

CONSTANTS Jobs, CronJobs, Limits, MaxRetries

VARIABLES
    status,   \* the status of every job, as its row has it
    claimed,  \* the jobs somebody has the right to settle
    tries,    \* the failed attempts counted in its retry_count
    limits    \* the values of its max_retries that may still decide: the
              \* one it has, and older ones its messages were made with

vars == <<status, claimed, tries, limits>>

Init ==
    /\ status = [j \in Jobs |-> "active"]
    /\ claimed = {}
    /\ tries = [j \in Jobs |-> 0]
    /\ \E limit \in [Jobs -> Limits] : limits = [j \in Jobs |-> {limit[j]}]

-----------------------------------------------------------------------------
(* The pipeline                                                            *)

\* Nothing adds to the limits of a job but its owner; old ones go with the
\* messages that carry them.
AtMost(allowed) ==
    /\ limits' \in [Jobs -> SUBSET Limits]
    /\ \A j \in Jobs : limits'[j] \subseteq allowed[j]

Claim(j) ==
    /\ status[j] = "active" /\ j \notin claimed
    /\ claimed' = claimed \cup {j}
    /\ AtMost(limits) /\ UNCHANGED <<status, tries>>

EndClaim(j) ==
    j \in claimed /\ claimed' = claimed \ {j} /\ AtMost(limits)

\* The message is dropped, its process dies, or its job has been deleted:
\* nothing is counted.
Lose(j) == EndClaim(j) /\ UNCHANGED <<status, tries>>

Becomes(j, to) ==
    status[j] # "deleted" /\ status' = [status EXCEPT ![j] = to]

\* retry_count is counted up to MaxRetries, as in JobTable.
CountTry(j) ==
    tries' = [tries EXCEPT ![j] = IF @ < MaxRetries THEN @ + 1 ELSE @]

Succeed(j) ==
    /\ EndClaim(j)
    /\ \/ j \in CronJobs /\ tries' = [tries EXCEPT ![j] = 0]
          /\ UNCHANGED status
       \/ j \notin CronJobs /\ Becomes(j, "completed") /\ UNCHANGED tries

Fail(j) == EndClaim(j) /\ CountTry(j) /\ UNCHANGED status

\* A cron job may be given up early: the attempt a deposed leader publishes
\* can belong to a run that another scheduler has brought to its end.
GiveUp(j) ==
    /\ EndClaim(j)
    /\ j \in CronJobs \/ \E limit \in limits[j] : tries[j] + 1 >= limit
    /\ Becomes(j, "failed_permanent") /\ CountTry(j)

Forget == AtMost(limits) /\ UNCHANGED <<status, claimed, tries>>

Next ==
    \/ Forget
    \/ \E j \in Jobs :
          Claim(j) \/ Lose(j) \/ Succeed(j) \/ Fail(j) \/ GiveUp(j)

Spec == Init /\ [][Next]_vars

-----------------------------------------------------------------------------
(* Its owner                                                               *)

\* A request acts on a row it has read before: it pauses or resumes what has
\* been claimed, settled or ended meanwhile.
Pause(j) == Becomes(j, "paused") /\ UNCHANGED <<claimed, tries, limits>>
Resume(j) == Becomes(j, "active") /\ UNCHANGED <<claimed, tries, limits>>

Delete(j) ==
    /\ status' = [status EXCEPT ![j] = "deleted"]
    /\ tries' = [tries EXCEPT ![j] = 0]
    /\ UNCHANGED <<claimed, limits>>

SetLimit(j) ==
    /\ status[j] # "deleted"
    /\ \E limit \in Limits : AtMost([limits EXCEPT ![j] = @ \cup {limit}])
    /\ UNCHANGED <<status, claimed, tries>>

Manage == \E j \in Jobs : Pause(j) \/ Resume(j) \/ Delete(j) \/ SetLimit(j)

ManagedSpec == Init /\ [][Next \/ Manage]_vars

=============================================================================
