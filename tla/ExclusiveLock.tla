---------------------------- MODULE ExclusiveLock ---------------------------
(***************************************************************************)
(* What lib/distributed-lock.js promises the workers, who execute a job    *)
(* under its lock, and the nodes, who lead under the leader key: a lock is *)
(* granted while it is free, used by its holder, given back by whoever     *)
(* has used it, and it lapses.                                             *)
(***************************************************************************)
CONSTANTS
    Locks, Holders,
    Nobody,        \* the lock is free
    LeasesLapse    \* a lock may lapse under a holder that still uses it

VARIABLES
    holder,   \* whose token is under the key of a lock
    users     \* who acts as if the lock was theirs

vars == <<holder, users>>

Init ==
    /\ holder = [l \in Locks |-> Nobody]
    /\ users = [l \in Locks |-> {}]

AddUser(l, h) == users' = [users EXCEPT ![l] = @ \cup {h}]

\* The holder may learn of the lock at once, later (Begin), or never, when the
\* reply is lost.
Grant(l, h) ==
    /\ holder[l] = Nobody
    /\ holder' = [holder EXCEPT ![l] = h]
    /\ AddUser(l, h) \/ UNCHANGED users

Begin(l, h) ==
    /\ LeasesLapse \/ holder[l] = h
    /\ AddUser(l, h)
    /\ UNCHANGED holder

\* Only a holder gives the lock back; one that dies or fails leaves it behind.
Finish(l, h) ==
    /\ h \in users[l]
    /\ users' = [users EXCEPT ![l] = @ \ {h}]
    /\ \/ UNCHANGED holder
       \/ holder[l] = h /\ holder' = [holder EXCEPT ![l] = Nobody]

\* The lock's time to live is over: nobody renews it.
Lapse(l) ==
    /\ LeasesLapse \/ holder[l] \notin users[l]
    /\ holder' = [holder EXCEPT ![l] = Nobody]
    /\ UNCHANGED users

Next ==
    \E l \in Locks :
       \/ \E h \in Holders : Grant(l, h) \/ Begin(l, h) \/ Finish(l, h)
       \/ Lapse(l)

Spec == Init /\ [][Next]_vars

-----------------------------------------------------------------------------
(* Properties, proved in ExclusiveLockProofs                               *)

TypeOK ==
    /\ holder \in [Locks -> Holders \cup {Nobody}]
    /\ users \in [Locks -> SUBSET Holders]

\* distributed-lock.js:5 "Mutual exclusion: only one holder at a time": a lock
\* is used by nobody but its holder.
HolderUses == \A l \in Locks : users[l] \subseteq {holder[l]}

\* distributed-lock.js:7 "Safe release: only the holder can release": a lock
\* passes from one holder to another by way of being free, and it is freed by
\* no step of anybody else.
NoTheft ==
    [][\A l \in Locks :
          holder[l] # Nobody /\ holder'[l] # holder[l] =>
             /\ holder'[l] = Nobody
             /\ \A h \in Holders \ {holder[l]} :
                   h \in users[l] <=> h \in users'[l]]_vars

=============================================================================
