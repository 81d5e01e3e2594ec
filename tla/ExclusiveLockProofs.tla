------------------------- MODULE ExclusiveLockProofs ------------------------
(***************************************************************************)
(* What every user of a lock may rely on, worker or leader: consequences   *)
(* of ExclusiveLock for any number of locks and holders.                   *)
(***************************************************************************)
EXTENDS ExclusiveLock, TLAPS

LEMMA TypeInit == Init => TypeOK
BY DEF Init, TypeOK

LEMMA TypeStep == TypeOK /\ [Next]_vars => TypeOK'
BY DEF TypeOK, Next, Grant, Begin, Finish, Lapse, AddUser, vars

LEMMA UsesStep ==
    ASSUME Nobody \notin Holders, ~ LeasesLapse,
           TypeOK, HolderUses, [Next]_vars
    PROVE  HolderUses'
<1> USE DEF TypeOK, HolderUses
<1>1. ASSUME NEW l \in Locks, NEW h \in Holders, Grant(l, h)
      PROVE  HolderUses'
  <2>1. users[l] = {}
    BY <1>1 DEF Grant
  <2> QED
    BY <1>1, <2>1 DEF Grant, AddUser
<1>2. ASSUME NEW l \in Locks, NEW h \in Holders, Begin(l, h)
      PROVE  HolderUses'
  BY <1>2 DEF Begin, AddUser
<1>3. ASSUME NEW l \in Locks, NEW h \in Holders, Finish(l, h)
      PROVE  HolderUses'
  BY <1>3 DEF Finish
<1>4. ASSUME NEW l \in Locks, Lapse(l)
      PROVE  HolderUses'
  <2>1. users[l] = {}
    BY <1>4 DEF Lapse
  <2> QED
    BY <1>4, <2>1 DEF Lapse
<1> QED
  BY <1>1, <1>2, <1>3, <1>4 DEF Next, vars

\* While no lease lapses under its holder, nobody but the holder acts under a
\* lock: what a worker that executes a job and a node that leads rely on, and
\* all of it follows from the comparison of tokens and the renewal.
THEOREM LockExcludes ==
    ASSUME Nobody \notin Holders, ~ LeasesLapse
    PROVE  Spec => []HolderUses
<1>1. Init => TypeOK /\ HolderUses
  BY TypeInit DEF Init, HolderUses
<1>2. TypeOK /\ HolderUses /\ [Next]_vars => TypeOK' /\ HolderUses'
  BY TypeStep, UsesStep
<1> QED
  BY <1>1, <1>2, PTL DEF Spec

\* Also when leases lapse, a lock changes hands only by way of being free and
\* is freed by its holder or by its time to live.
THEOREM NobodyStealsLock ==
    ASSUME Nobody \notin Holders
    PROVE  Spec => NoTheft
<1> DEFINE Step ==
      \A l \in Locks :
         holder[l] # Nobody /\ holder'[l] # holder[l] =>
            /\ holder'[l] = Nobody
            /\ \A h \in Holders \ {holder[l]} : h \in users[l] <=> h \in users'[l]
<1>1. TypeOK /\ [Next]_vars => Step
  BY DEF TypeOK, Next, Grant, Begin, Finish, Lapse, AddUser, vars
<1>2. NoTheft <=> [][Step]_vars
  BY DEF NoTheft
<1> HIDE DEF Step
<1> QED
  BY <1>1, <1>2, TypeInit, TypeStep, PTL DEF Spec

=============================================================================
