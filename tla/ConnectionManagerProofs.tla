----------------------- MODULE ConnectionManagerProofs -----------------------
(***************************************************************************)
(* What holds of ConnectionManager for every number of handlers, renewals, *)
(* timers and leases and for every delay: the types, the exclusion of      *)
(* rotations, that the pool in force is always open and given up only into *)
(* its retirement, and that every step keeps to the life cycle of pools.   *)
(***************************************************************************)
EXTENDS ConnectionManager, TLAPS

\* The kinds of activations are disjoint, and None is no lease.
LEMMA Distinct ==
    /\ Boot \in Rotator /\ Stop \notin Rotator /\ Boot # Stop
    /\ Request \subseteq Rotator /\ Renewal \subseteq Rotator
    /\ Rotator \subseteq Proc /\ Stop \in Proc
    /\ Boot \notin Request /\ Boot \notin Renewal
    /\ Stop \notin Request /\ Stop \notin Renewal
    /\ Request \intersect Renewal = {}
    /\ None \notin Lease
BY ManagerAssumption DEF Rotator, Proc

\* MaxDelay is the greatest of the three delays it is chosen from.
LEMMA MaxDelayBounds ==
    /\ MaxDelay \in Nat
    /\ RenewDelay(DefaultTtl) <= MaxDelay
    /\ RenewDelay(FallbackTtl) \in 1..MaxDelay
    /\ RetryDelay \in 0..MaxDelay
<1>1. \A d \in Nat : RenewDelay(d) \in Nat \ {0}
  BY DEF RenewDelay
<1>2. RenewDelay(DefaultTtl) \in Nat /\ RenewDelay(FallbackTtl) \in Nat \ {0} /\ RetryDelay \in Nat
  BY <1>1, ManagerAssumption, VaultAssumption
<1>3. \A i, j, k \in Nat : \E d \in {i, j, k} : \A e \in {i, j, k} : e <= d
  OBVIOUS
<1>. DEFINE delays == {RenewDelay(DefaultTtl), RenewDelay(FallbackTtl), RetryDelay}
<1>4. \E d \in delays : \A e \in delays : e <= d
  BY <1>2, <1>3
<1>5. MaxDelay \in delays /\ \A e \in delays : e <= MaxDelay
  BY <1>4 DEF MaxDelay
<1>. QED BY <1>2, <1>5

\* A renewal is scheduled at least one and at most MaxDelay units ahead.
LEMMA DelayBounds ==
    ASSUME NEW d \in 0..DefaultTtl
    PROVE  RenewDelay(d) \in 1..MaxDelay
<1>. DEFINE share(n) == (n * 6) \div 10
<1>1. share(d) \in Nat /\ share(DefaultTtl) \in Nat /\ share(d) <= share(DefaultTtl)
  BY VaultAssumption
<1>2. RenewDelay(d) = IF share(d) > 1 THEN share(d) ELSE 1
  BY DEF RenewDelay
<1>3. RenewDelay(DefaultTtl) = IF share(DefaultTtl) > 1 THEN share(DefaultTtl) ELSE 1
  BY DEF RenewDelay
<1>4. RenewDelay(d) \in Nat \ {0} /\ RenewDelay(DefaultTtl) \in Nat /\ RenewDelay(d) <= RenewDelay(DefaultTtl)
  <2>. HIDE DEF share
  <2>. QED BY <1>1, <1>2, <1>3
<1>. QED BY <1>4, MaxDelayBounds

\* There is a slot for a timer.
LEMMA SomeTimer == (CHOOSE t \in Timer : TRUE) \in Timer
BY ManagerAssumption

-----------------------------------------------------------------------------
(* Types.  Lemmas for the operators the actions share.                     *)

\* An activation that suspends remembers values of the right types.
LEMMA SuspendType ==
    ASSUME TypeOK, NEW p \in Proc,
           NEW where \in {"idle", "using"} \union Calling,
           NEW l \in Lease \union {None}, NEW replaced \in Lease \union {None},
           NEW why \in {"startup", "expired", "low-ttl", "renew-failure"},
           NEW answer \in 0..DefaultTtl, NEW hold \in 0..MaxHold,
           suspend(p, where, l, replaced, why, answer, hold)
    PROVE  /\ pc' \in [Proc -> {"idle", "using"} \union Calling]
           /\ subject' \in [Proc -> Lease \union {None}]
           /\ old' \in [Proc -> Lease \union {None}]
           /\ reason' \in [Proc -> {"startup", "expired", "low-ttl", "renew-failure"}]
           /\ grant' \in [Proc -> 0..DefaultTtl]
           /\ holdLeft' \in [Proc -> 0..MaxHold]
BY DEF TypeOK, suspend

\* An activation that ends leaves idle locals behind.
LEMMA FinishType ==
    ASSUME TypeOK, NEW p \in Proc, finish(p)
    PROVE  /\ pc' \in [Proc -> {"idle", "using"} \union Calling]
           /\ subject' \in [Proc -> Lease \union {None}]
           /\ old' \in [Proc -> Lease \union {None}]
           /\ reason' \in [Proc -> {"startup", "expired", "low-ttl", "renew-failure"}]
           /\ grant' \in [Proc -> 0..DefaultTtl]
           /\ holdLeft' \in [Proc -> 0..MaxHold]
BY ManagerAssumption, VaultAssumption DEF TypeOK, finish, suspend

\* rotate() up to its first await keeps the types of the locals.
LEMMA BeginType ==
    ASSUME TypeOK, NEW p \in Proc, NEW why \in {"startup", "expired", "low-ttl", "renew-failure"},
           beginRotation(p, why)
    PROVE  /\ pc' \in [Proc -> {"idle", "using"} \union Calling]
           /\ subject' \in [Proc -> Lease \union {None}]
           /\ old' \in [Proc -> Lease \union {None}]
           /\ reason' \in [Proc -> {"startup", "expired", "low-ttl", "renew-failure"}]
           /\ grant' \in [Proc -> 0..DefaultTtl]
           /\ holdLeft' \in [Proc -> 0..MaxHold]
           /\ rotating' \in BOOLEAN
BY ManagerAssumption, VaultAssumption
   DEF TypeOK, beginRotation, suspend, Calling, InRotation

\* scheduleRenew() arms a slot with a delay within bounds.
LEMMA ScheduleType ==
    ASSUME TypeOK, NEW d \in 0..DefaultTtl \union {FallbackTtl}, scheduleRenew(d)
    PROVE  due' \in [Timer -> {Off} \union 0..MaxDelay]
<1>1. RenewDelay(d) \in 0..MaxDelay
  BY DelayBounds, MaxDelayBounds
<1>. QED BY <1>1 DEF TypeOK, scheduleRenew

\* The retry timer takes a slot that exists and a delay within bounds.
LEMMA RetryType ==
    ASSUME TypeOK, retryLater
    PROVE  timer' \in Timer /\ due' \in [Timer -> {Off} \union 0..MaxDelay]
<1>. DEFINE free == {t \in Timer : due[t] = Off}
<1>1. timer' = IF free = {} THEN timer ELSE CHOOSE t \in free : TRUE
  BY DEF retryLater
<1>2. free # {} => (CHOOSE t \in free : TRUE) \in free
  OBVIOUS
<1>3. timer' \in Timer
  BY <1>1, <1>2 DEF TypeOK
<1>4. due' = [due EXCEPT ![timer'] = RetryDelay]
  BY DEF retryLater
<1>. QED BY <1>3, <1>4, MaxDelayBounds DEF TypeOK

\* A process that ends leaves a memory of the right types.
LEMMA ExitType ==
    ASSUME exit, outage' \in BOOLEAN, LeaseTypeOK'
    PROVE  TypeOK'
<1>1. 0 \in 0..DefaultTtl /\ 0 \in 0..DrainDelay /\ 0 \in 0..MaxHold
  BY ManagerAssumption, VaultAssumption
<1>2. timer' \in Timer
  BY SomeTimer DEF exit
<1>3. /\ due' \in [Timer -> {Off} \union 0..MaxDelay]
      /\ grant' \in [Proc -> 0..DefaultTtl]
      /\ holdLeft' \in [Proc -> 0..MaxHold]
      /\ drainLeft' \in [Lease -> 0..DrainDelay]
  BY <1>1 DEF exit
<1>4. /\ pc' \in [Proc -> {"idle", "using"} \union Calling]
      /\ subject' \in [Proc -> Lease \union {None}]
      /\ old' \in [Proc -> Lease \union {None}]
      /\ reason' \in [Proc -> {"startup", "expired", "low-ttl", "renew-failure"}]
      /\ pool' \in [Lease -> PoolState]
  BY DEF exit, PoolState
<1>5. /\ phase' = "down" /\ active' = None /\ rotating' = FALSE
      /\ duration' \in 0..DefaultTtl /\ expiresIn' \in 0..DefaultTtl
  BY <1>1 DEF exit
<1>. QED BY <1>2, <1>3, <1>4, <1>5 DEF TypeOK

\* A failed rotation keeps the types, whoever started it.
LEMMA FailureType ==
    ASSUME TypeOK, NEW p \in Rotator, UNCHANGED ttl,
           NEW pools \in [Lease -> PoolState],
           rotationFails(p, pools)
    PROVE  TypeOK'
<1>0. p \in Proc
  BY Distinct
<1>1. CASE p = Boot /\ exit /\ UNCHANGED outage
  <2>1. outage' \in BOOLEAN /\ LeaseTypeOK'
    BY <1>1 DEF TypeOK, LeaseTypeOK
  <2>. QED BY <1>1, <2>1, ExitType
<1>2. CASE /\ rotating' = FALSE /\ finish(p) /\ pool' = pools
           /\ UNCHANGED <<phase, active, duration, expiresIn, timer, due, drainLeft, outage>>
  BY <1>0, <1>2, FinishType DEF TypeOK, LeaseTypeOK
<1>3. CASE /\ beginRotation(p, "renew-failure") /\ pool' = pools
           /\ UNCHANGED <<phase, active, duration, expiresIn, timer, due, drainLeft, outage>>
  BY <1>0, <1>3, BeginType DEF TypeOK, LeaseTypeOK
<1>4. CASE /\ rotating' = FALSE /\ retryLater /\ finish(p) /\ pool' = pools
           /\ UNCHANGED <<phase, active, duration, expiresIn, drainLeft, outage>>
  BY <1>0, <1>4, FinishType, RetryType DEF TypeOK, LeaseTypeOK
<1>. QED BY <1>1, <1>2, <1>3, <1>4 DEF rotationFails

\* What counts down stays within its bound.
LEMMA CountDownType ==
    ASSUME NEW n \in Int, NEW m \in Int, n \in 0..m \/ n = -1
    PROVE  (n \in 0..m => CountDown(n) \in 0..m) /\ (n = -1 => CountDown(n) = -1)
BY DEF CountDown

\* The types hold in the beginning.
LEMMA InitType == Init => TypeOK
<1>. SUFFICES ASSUME Init PROVE TypeOK
  OBVIOUS
<1>1. 0 \in 0..DefaultTtl /\ 0 \in 0..DrainDelay /\ 0 \in 0..MaxHold
  BY ManagerAssumption, VaultAssumption
<1>2. timer \in Timer
  BY SomeTimer DEF Init, Blank
<1>3. /\ due \in [Timer -> {Off} \union 0..MaxDelay]
      /\ grant \in [Proc -> 0..DefaultTtl]
      /\ holdLeft \in [Proc -> 0..MaxHold]
      /\ drainLeft \in [Lease -> 0..DrainDelay]
      /\ LeaseTypeOK
  BY <1>1 DEF Init, Blank, NoLeases, LeaseTypeOK
<1>4. /\ pc \in [Proc -> {"idle", "using"} \union Calling]
      /\ subject \in [Proc -> Lease \union {None}]
      /\ old \in [Proc -> Lease \union {None}]
      /\ reason \in [Proc -> {"startup", "expired", "low-ttl", "renew-failure"}]
      /\ pool \in [Lease -> PoolState]
  BY DEF Init, Blank, PoolState
<1>5. /\ phase = "down" /\ active = None /\ rotating = FALSE /\ outage = FALSE
      /\ duration \in 0..DefaultTtl /\ expiresIn \in 0..DefaultTtl
  BY <1>1 DEF Init, Blank
<1>. QED BY <1>2, <1>3, <1>4, <1>5 DEF TypeOK

\* A lease that Vault issues has a lifetime and no pool.
LEMMA VaultIssueTypes ==
    ASSUME TypeOK, NEW l \in Lease, VaultIssues(l)
    PROVE  ttl' \in [Lease -> 0..DefaultTtl] /\ pool' \in [Lease -> PoolState]
BY VaultAssumption DEF VaultIssues, issueLease, TypeOK, LeaseTypeOK, PoolState

\* Every await of rotate() keeps the types.
LEMMA RotateType ==
    ASSUME TypeOK, NEW p \in Rotator, RotateStep(p) \/ FetchLosesAnswer(p)
    PROVE  TypeOK'
<1>0. p \in Proc /\ 0 \in 0..DefaultTtl /\ 0 \in 0..MaxHold /\ DefaultTtl \in 0..DefaultTtl
  BY Distinct, ManagerAssumption, VaultAssumption
<1>1. CASE FetchReturns(p)
  <2>1. PICK l \in Lease : VaultIssues(l) /\ suspend(p, "connect", l, old[p], reason[p], 0, 0)
    BY <1>1 DEF FetchReturns
  <2>2. ttl' \in [Lease -> 0..DefaultTtl] /\ pool' \in [Lease -> PoolState]
    BY <1>0, <2>1, VaultIssueTypes
  <2>3. "connect" \in Calling /\ old[p] \in Lease \union {None}
        /\ reason[p] \in {"startup", "expired", "low-ttl", "renew-failure"}
    BY <1>0 DEF Calling, InRotation, TypeOK
  <2>4. /\ pc' \in [Proc -> {"idle", "using"} \union Calling]
        /\ subject' \in [Proc -> Lease \union {None}]
        /\ old' \in [Proc -> Lease \union {None}]
        /\ reason' \in [Proc -> {"startup", "expired", "low-ttl", "renew-failure"}]
        /\ grant' \in [Proc -> 0..DefaultTtl]
        /\ holdLeft' \in [Proc -> 0..MaxHold]
    BY <1>0, <2>1, <2>3 DEF suspend, TypeOK
  <2>. QED BY <1>1, <2>2, <2>4 DEF FetchReturns, TypeOK, LeaseTypeOK, managerVars
<1>2. CASE FetchLosesAnswer(p)
  <2>1. ttl' \in [Lease -> 0..DefaultTtl] /\ pool' \in [Lease -> PoolState]
    BY <1>0, <1>2, VaultIssueTypes DEF FetchLosesAnswer
  <2>. QED BY <1>2, <2>1 DEF FetchLosesAnswer, TypeOK, LeaseTypeOK, managerVars, procVars
<1>3. CASE FetchThrows(p)
  BY <1>3, FailureType DEF FetchThrows, TypeOK
<1>4. CASE ConnectReturns(p)
  BY <1>4 DEF ConnectReturns, TypeOK, LeaseTypeOK, PoolState, managerVars, Calling, InRotation
<1>5. CASE ConnectThrows(p)
  BY <1>5, FailureType DEF ConnectThrows, TypeOK
<1>6. CASE RotateCompletes(p)
  <2>1. due' \in [Timer -> {Off} \union 0..MaxDelay]
    BY <1>0, <1>6, ScheduleType DEF RotateCompletes
  <2>2. /\ pc' \in [Proc -> {"idle", "using"} \union Calling]
        /\ subject' \in [Proc -> Lease \union {None}]
        /\ old' \in [Proc -> Lease \union {None}]
        /\ reason' \in [Proc -> {"startup", "expired", "low-ttl", "renew-failure"}]
        /\ grant' \in [Proc -> 0..DefaultTtl]
        /\ holdLeft' \in [Proc -> 0..MaxHold]
    <3>1. CASE p \in Request
      <4>1. suspend(p, "using", subject[p], None, "startup", 0, MaxHold)
        BY <1>6, <3>1 DEF RotateCompletes, serve
      <4>2. subject[p] \in Lease \union {None} /\ MaxHold \in 0..MaxHold
        BY <1>0, ManagerAssumption DEF TypeOK
      <4>. QED BY <1>0, <4>1, <4>2, SuspendType
    <3>2. CASE p \notin Request
      BY <1>0, <1>6, <3>2, FinishType DEF RotateCompletes
    <3>. QED BY <3>1, <3>2
  <2>3. /\ pool' \in [Lease -> PoolState]
        /\ drainLeft' \in [Lease -> 0..DrainDelay]
    BY <1>6, ManagerAssumption DEF RotateCompletes, retire, TypeOK, PoolState, poolVars
  <2>4. /\ active' \in Lease \union {None} /\ rotating' \in BOOLEAN
        /\ duration' \in 0..DefaultTtl /\ expiresIn' \in 0..DefaultTtl
        /\ phase' \in {"down", "starting", "ready", "stopping"}
        /\ timer' \in Timer /\ outage' \in BOOLEAN /\ ttl' \in [Lease -> 0..DefaultTtl]
    BY <1>0, <1>6 DEF RotateCompletes, TypeOK, LeaseTypeOK
  <2>. QED BY <2>1, <2>2, <2>3, <2>4 DEF TypeOK, LeaseTypeOK
<1>7. CASE ProbeThrows(p)
  <2>1. [pool EXCEPT ![subject[p]] = "lost"] \in [Lease -> PoolState]
    BY DEF TypeOK, PoolState
  <2>. QED BY <1>7, <2>1, FailureType DEF ProbeThrows
<1>. QED BY <1>1, <1>2, <1>3, <1>4, <1>5, <1>6, <1>7 DEF RotateStep

\* repo() keeps the types.
LEMMA RequestType ==
    ASSUME TypeOK, NEW r \in Request, RequestStep(r) \/ HandlerDone(r)
    PROVE  TypeOK'
<1>0. r \in Proc /\ 0 \in 0..DefaultTtl /\ MaxHold \in 0..MaxHold
  BY Distinct, ManagerAssumption, VaultAssumption
<1>1. CASE RepoServes(r)
  <2>1. suspend(r, "using", active, None, "startup", 0, MaxHold)
    BY <1>1 DEF RepoServes, serve
  <2>2. active \in Lease \union {None}
    BY DEF TypeOK
  <2>. QED BY <1>0, <1>1, <2>1, <2>2, SuspendType
           DEF RepoServes, TypeOK, LeaseTypeOK, managerVars, poolVars
<1>2. CASE RepoRotates(r)
  BY <1>0, <1>2, BeginType DEF RepoRotates, TypeOK, LeaseTypeOK, poolVars
<1>3. CASE HandlerDone(r)
  BY <1>0, <1>3, FinishType DEF HandlerDone, TypeOK, LeaseTypeOK, managerVars, poolVars
<1>. QED BY <1>1, <1>2, <1>3 DEF RequestStep

\* renewOrRotate() keeps the types.
LEMMA RenewalType ==
    ASSUME TypeOK, NEW n \in Renewal, RenewalStep(n)
    PROVE  TypeOK'
<1>0. n \in Proc /\ 0 \in 0..DefaultTtl /\ 0 \in 0..MaxHold
  BY Distinct, ManagerAssumption, VaultAssumption
<1>1. ASSUME NEW t \in Timer, TimerFires(t, n) PROVE TypeOK'
  <2>1. due' \in [Timer -> {Off} \union 0..MaxDelay]
    BY <1>1 DEF TimerFires, TypeOK
  <2>2. CASE active = None
    BY <1>1, <2>1, <2>2 DEF TimerFires, TypeOK, LeaseTypeOK, procVars, poolVars
  <2>3. CASE active # None
    <3>1. suspend(n, "renewing", active, None, "startup", 0, 0)
      BY <1>1, <2>3 DEF TimerFires
    <3>2. "renewing" \in Calling /\ active \in Lease \union {None}
      BY DEF Calling, TypeOK
    <3>. QED BY <1>0, <1>1, <2>1, <3>1, <3>2, SuspendType
             DEF TimerFires, TypeOK, LeaseTypeOK, poolVars
  <2>. QED BY <2>2, <2>3
<1>2. CASE VaultRenews(n)
  <2>1. PICK d \in 1..DefaultTtl :
          extendLease(subject[n], d) /\ suspend(n, "granted", subject[n], None, "startup", d, 0)
    BY <1>2 DEF VaultRenews
  <2>0. d \in 0..DefaultTtl
    BY VaultAssumption
  <2>2. ttl' \in [Lease -> 0..DefaultTtl]
    BY <2>0, <2>1 DEF extendLease, TypeOK, LeaseTypeOK
  <2>3. "granted" \in Calling /\ subject[n] \in Lease \union {None} /\ d \in 0..DefaultTtl
    BY <1>0, <2>0 DEF Calling, TypeOK
  <2>. QED BY <1>0, <1>2, <2>1, <2>2, <2>3, SuspendType
           DEF VaultRenews, TypeOK, LeaseTypeOK, managerVars, poolVars
<1>3. CASE RenewReturns(n)
  <2>1. duration' \in 0..DefaultTtl /\ expiresIn' \in 0..DefaultTtl
    BY <1>0, <1>3 DEF RenewReturns, TypeOK
  <2>2. (IF active = None THEN FallbackTtl ELSE duration') \in 0..DefaultTtl \union {FallbackTtl}
    BY <2>1
  <2>3. CASE scheduleRenew(IF active = None THEN FallbackTtl ELSE duration')
             /\ finish(n) /\ UNCHANGED rotating
    BY <1>0, <1>3, <2>1, <2>2, <2>3, ScheduleType, FinishType
       DEF RenewReturns, TypeOK, LeaseTypeOK, poolVars
  <2>4. CASE beginRotation(n, "low-ttl") /\ UNCHANGED due
    BY <1>0, <1>3, <2>1, <2>4, BeginType DEF RenewReturns, TypeOK, LeaseTypeOK, poolVars
  <2>5. CASE finish(n) /\ UNCHANGED <<rotating, due>>
    BY <1>0, <1>3, <2>1, <2>5, FinishType DEF RenewReturns, TypeOK, LeaseTypeOK, poolVars
  <2>. QED BY <1>3, <2>3, <2>4, <2>5 DEF RenewReturns
<1>4. CASE RenewThrows(n)
  <2>1. CASE beginRotation(n, "renew-failure")
    BY <1>0, <1>4, <2>1, BeginType DEF RenewThrows, TypeOK, LeaseTypeOK, poolVars
  <2>2. CASE finish(n) /\ UNCHANGED rotating
    BY <1>0, <1>4, <2>2, FinishType DEF RenewThrows, TypeOK, LeaseTypeOK, poolVars
  <2>. QED BY <1>4, <2>1, <2>2 DEF RenewThrows
<1>. QED BY <1>1, <1>2, <1>3, <1>4 DEF RenewalStep

\* The drain timer and what follows it keep the types.
LEMMA DrainType ==
    ASSUME TypeOK, NEW l \in Lease, DrainStep(l)
    PROVE  TypeOK'
<1>1. ttl' \in [Lease -> 0..DefaultTtl]
  BY VaultAssumption
     DEF DrainStep, DrainFires, DestroyReturns, RevokeReturns, RetireThrows,
         endLease, TypeOK, LeaseTypeOK
<1>2. pool' \in [Lease -> PoolState]
  BY DEF DrainStep, DrainFires, DestroyReturns, RevokeReturns, RetireThrows, TypeOK, PoolState
<1>3. UNCHANGED <<phase, managerVars, procVars, drainLeft, outage>>
  BY DEF DrainStep, DrainFires, DestroyReturns, RevokeReturns, RetireThrows
<1>. QED BY <1>1, <1>2, <1>3 DEF TypeOK, LeaseTypeOK, managerVars, procVars

\* Start, shutdown and death of the process keep the types.
LEMMA ProcessType ==
    ASSUME TypeOK, Start \/ onModuleDestroy \/ StopStep \/ Kill
    PROVE  TypeOK'
<1>0. Boot \in Proc /\ Stop \in Proc /\ 0 \in 0..DefaultTtl /\ 0 \in 0..MaxHold
  BY Distinct, ManagerAssumption, VaultAssumption
<1>1. CASE Start
  BY <1>0, <1>1, BeginType DEF Start, TypeOK, LeaseTypeOK, poolVars
<1>2. CASE onModuleDestroy
  <2>1. "closing" \in Calling /\ active \in Lease \union {None}
    BY DEF Calling, TypeOK
  <2>2. suspend(Stop, "closing", active, None, "startup", 0, 0)
    BY <1>2 DEF onModuleDestroy
  <2>3. due' \in [Timer -> {Off} \union 0..MaxDelay]
        /\ pool' \in [Lease -> PoolState]
    BY <1>2 DEF onModuleDestroy, TypeOK, PoolState
  <2>. QED BY <1>0, <1>2, <2>1, <2>2, <2>3, SuspendType DEF onModuleDestroy, TypeOK, LeaseTypeOK
<1>3. CASE StopDestroyed \/ StopDestroyThrows
  BY <1>3 DEF StopDestroyed, StopDestroyThrows, stopDestroying, TypeOK, LeaseTypeOK,
     PoolState, managerVars, Calling
<1>4. CASE StopRevoked
  <2>1. LeaseTypeOK'
    BY <1>0, <1>4 DEF StopRevoked, endLease, TypeOK, LeaseTypeOK
  <2>. QED BY <1>4, <2>1, ExitType DEF StopRevoked, TypeOK
<1>5. CASE Kill
  <2>1. LeaseTypeOK' /\ outage' \in BOOLEAN
    BY <1>5 DEF Kill, TypeOK, LeaseTypeOK
  <2>. QED BY <1>5, <2>1, ExitType DEF Kill
<1>. QED BY <1>1, <1>2, <1>3, <1>4, <1>5 DEF StopStep

\* The passing of time keeps the types.
LEMMA TickType ==
    ASSUME TypeOK, Tick
    PROVE  TypeOK'
<1>0. DefaultTtl \in Nat /\ DrainDelay \in Nat /\ MaxHold \in Nat /\ MaxDelay \in Nat
  BY ManagerAssumption, VaultAssumption, MaxDelayBounds
<1>1. ttl' \in [Lease -> 0..DefaultTtl]
  BY <1>0 DEF Tick, elapseLeases, TypeOK, LeaseTypeOK, CountDown
<1>2. due' \in [Timer -> {Off} \union 0..MaxDelay]
  BY <1>0 DEF Tick, TypeOK, CountDown, Off
<1>3. drainLeft' \in [Lease -> 0..DrainDelay]
  BY <1>0 DEF Tick, TypeOK, CountDown
<1>4. holdLeft' \in [Proc -> 0..MaxHold]
  BY <1>0 DEF Tick, TypeOK, CountDown
<1>5. expiresIn' \in 0..DefaultTtl
  BY <1>0 DEF Tick, TypeOK, CountDown
<1>. QED BY <1>1, <1>2, <1>3, <1>4, <1>5 DEF Tick, TypeOK, LeaseTypeOK

\* Every step keeps the types.
LEMMA TypeStep == TypeOK /\ [Next]_vars => TypeOK'
<1>. SUFFICES ASSUME TypeOK, [Next]_vars PROVE TypeOK'
  OBVIOUS
<1>1. CASE OutageBegins \/ OutageEnds
  BY <1>1 DEF OutageBegins, OutageEnds, TypeOK, LeaseTypeOK, managerVars, procVars, poolVars
<1>2. CASE RevokeByHand
  <2>1. ttl' \in [Lease -> 0..DefaultTtl]
    BY <1>2, VaultAssumption DEF RevokeByHand, endLease, TypeOK, LeaseTypeOK
  <2>. QED BY <1>2, <2>1 DEF RevokeByHand, TypeOK, LeaseTypeOK, managerVars, procVars, poolVars
<1>3. CASE UNCHANGED vars
  BY <1>3 DEF vars, TypeOK, LeaseTypeOK, managerVars, procVars, poolVars
<1>. QED BY <1>1, <1>2, <1>3, RotateType, RequestType, RenewalType, DrainType,
            ProcessType, TickType DEF Next

\* The variables keep their types, the delays their bounds.
THEOREM TypeCorrect == Spec => []TypeOK
BY InitType, TypeStep, PTL DEF Spec

-----------------------------------------------------------------------------
(* The inductive invariant.  OneRotation and PoolInForceIsOpen are not     *)
(* inductive without the parts below: a process that is down must have     *)
(* forgotten everything, the pool of a rotation must differ from the ones  *)
(* others may close, and so must the pool that a shutdown is closing; an   *)
(* open pool that has not been lost is in force or about to be.            *)

DownIsBlank ==
    phase = "down" =>
        /\ active = None
        /\ rotating = FALSE
        /\ \A p \in Proc : pc[p] = "idle"
        /\ \A t \in Timer : due[t] = Off
        /\ \A l \in Lease : pool[l] = "none"

FreshPool ==
    \A p \in Rotator : pc[p] \in {"connect", "probe"} =>
        /\ subject[p] \in Lease
        /\ subject[p] \notin {active, old[p], subject[Stop]}
        /\ pool[subject[p]] = IF pc[p] = "probe" THEN "open" ELSE "none"

StopApart ==
    /\ subject[Stop] # None => subject[Stop] # active
    /\ pc[Stop] \in {"closing", "revoking"} =>
         /\ subject[Stop] \in Lease
         /\ pool[subject[Stop]] \in {pc[Stop]} \union (IF pc[Stop] = "revoking" THEN {"lost"} ELSE {})

OpenIsKnown ==
    \A l \in Lease : pool[l] = "open" =>
        l = active \/ \E p \in Rotating : pc[p] = "probe" /\ subject[p] = l

IInv ==
    /\ TypeOK
    /\ DownIsBlank
    /\ OneRotation
    /\ FreshPool
    /\ StopApart
    /\ PoolInForceIsOpen
    /\ OpenIsKnown

\* A process that has not been started satisfies the invariant.
LEMMA InitInv == Init => IInv
<1>. SUFFICES ASSUME Init PROVE IInv
  OBVIOUS
<1>1. TypeOK
  BY InitType
<1>2. DownIsBlank /\ OneRotation
  BY Distinct DEF IInv, DownIsBlank, OneRotation, Rotating, InRotation, Init,
     Blank
<1>3. FreshPool /\ StopApart
  BY Distinct DEF IInv, FreshPool, StopApart, Init, Blank
<1>4. PoolInForceIsOpen /\ OpenIsKnown
  BY DEF IInv, PoolInForceIsOpen, OpenIsKnown, Init, Blank
<1>. QED BY <1>1, <1>2, <1>3, <1>4 DEF IInv

\* Nothing is left to go wrong of a process that is gone.
LEMMA ExitInv == ASSUME TypeOK', exit PROVE IInv'
<1>1. DownIsBlank' /\ OneRotation'
  BY Distinct DEF IInv, DownIsBlank, OneRotation, Rotating, InRotation, exit
<1>2. FreshPool' /\ StopApart'
  BY Distinct DEF IInv, FreshPool, StopApart, exit
<1>3. PoolInForceIsOpen' /\ OpenIsKnown'
  BY DEF IInv, PoolInForceIsOpen, OpenIsKnown, exit
<1>. QED BY <1>1, <1>2, <1>3 DEF IInv

\* A failed rotation releases this.rotating, or goes straight into the next
\* one, and takes no pool but its own.
LEMMA FailureInv ==
    ASSUME IInv, TypeOK', NEW p \in Rotator, NEW pools,
           rotationFails(p, pools),
           \/ pc[p] \in {"fetch", "connect"} /\ pools = pool
           \/ pc[p] = "probe" /\ pools = [pool EXCEPT ![subject[p]] = "lost"]
    PROVE  IInv'
<1>0. \A l \in Lease : \/ pools[l] = pool[l] /\ (pc[p] = "probe" => l # subject[p])
                       \/ l = subject[p] /\ pc[p] = "probe" /\ pools[l] = "lost"
  <2>1. CASE pc[p] \in {"fetch", "connect"} /\ pools = pool
    BY <2>1
  <2>2. CASE pc[p] = "probe" /\ pools = [pool EXCEPT ![subject[p]] = "lost"]
    <3>1. pool \in [Lease -> PoolState]
      BY DEF IInv, TypeOK
    <3>. QED BY <2>2, <3>1
  <2>. QED BY <2>1, <2>2
<1>1. CASE exit
  BY <1>1, ExitInv
<1>2. CASE /\ finish(p) /\ rotating' = FALSE /\ pool' = pools
           /\ UNCHANGED <<phase, active>> /\ p # Boot
           /\ phase = "down" => UNCHANGED due
  <2>1. DownIsBlank' /\ OneRotation'
    BY <1>0, <1>2 DEF IInv, TypeOK, DownIsBlank, OneRotation, Rotating,
       InRotation, suspend, finish
  <2>2. FreshPool' /\ StopApart'
    BY <1>0, <1>2 DEF IInv, TypeOK, OneRotation, FreshPool, StopApart,
       Rotating, InRotation, suspend, finish
  <2>3. PoolInForceIsOpen' /\ OpenIsKnown'
    BY <1>0, <1>2 DEF IInv, TypeOK, FreshPool, PoolInForceIsOpen,
       OpenIsKnown, Rotating, suspend, finish
  <2>. QED BY <2>1, <2>2, <2>3 DEF IInv
<1>3. CASE /\ beginRotation(p, "renew-failure") /\ pool' = pools
           /\ UNCHANGED <<phase, active, due>>
  <2>1. DownIsBlank' /\ OneRotation'
    BY <1>0, <1>3 DEF IInv, DownIsBlank, OneRotation, Rotating, InRotation,
       suspend, beginRotation
  <2>2. FreshPool' /\ StopApart'
    BY <1>0, <1>3 DEF IInv, TypeOK, OneRotation, FreshPool, StopApart,
       Rotating, InRotation, suspend, beginRotation
  <2>3. PoolInForceIsOpen' /\ OpenIsKnown'
    BY <1>0, <1>3 DEF IInv, TypeOK, FreshPool, PoolInForceIsOpen,
       OpenIsKnown, Rotating, suspend, beginRotation
  <2>. QED BY <2>1, <2>2, <2>3 DEF IInv
<1>4. phase # "down"
  BY Distinct DEF IInv, DownIsBlank
<1>. QED
  BY <1>1, <1>2, <1>3, <1>4, Distinct DEF rotationFails

\* Every await of rotate(): the rotation under way stays the only one.
LEMMA RotateInv ==
    ASSUME IInv, TypeOK', NEW p \in Rotator, RotateStep(p) \/ FetchLosesAnswer(p)
    PROVE  IInv'
<1>1. CASE FetchReturns(p)
  <2>1. DownIsBlank' /\ OneRotation'
    BY <1>1 DEF IInv, DownIsBlank, OneRotation, Rotating, InRotation, suspend,
       managerVars, FetchReturns
  <2>2. FreshPool' /\ StopApart'
    BY <1>1, Distinct DEF IInv, TypeOK, FreshPool, StopApart, suspend,
       managerVars, FetchReturns, VaultIssues, Free
  <2>3. PoolInForceIsOpen' /\ OpenIsKnown'
    BY <1>1 DEF IInv, PoolInForceIsOpen, OpenIsKnown, Rotating, suspend,
       TypeOK, managerVars, FetchReturns, VaultIssues, Free
  <2>. QED BY <2>1, <2>2, <2>3 DEF IInv
<1>2. CASE FetchLosesAnswer(p)
  <2>1. DownIsBlank' /\ OneRotation'
    BY <1>2 DEF IInv, DownIsBlank, OneRotation, Rotating, InRotation,
       managerVars, procVars, FetchLosesAnswer
  <2>2. FreshPool' /\ StopApart'
    BY <1>2, Distinct DEF IInv, TypeOK, FreshPool, StopApart, managerVars, procVars,
       FetchLosesAnswer, VaultIssues, Free
  <2>3. PoolInForceIsOpen' /\ OpenIsKnown'
    BY <1>2 DEF IInv, TypeOK, PoolInForceIsOpen, OpenIsKnown, Rotating,
       managerVars, procVars, FetchLosesAnswer, VaultIssues, Free
  <2>. QED BY <2>1, <2>2, <2>3 DEF IInv
<1>3. CASE ConnectReturns(p)
  <2>1. DownIsBlank' /\ OneRotation'
    BY <1>3 DEF IInv, DownIsBlank, OneRotation, Rotating, InRotation,
       managerVars, ConnectReturns
  <2>2. FreshPool' /\ StopApart'
    BY <1>3, Distinct DEF IInv, TypeOK, OneRotation, FreshPool, StopApart,
       Rotating, InRotation, managerVars, ConnectReturns
  <2>3. PoolInForceIsOpen' /\ OpenIsKnown'
    BY <1>3 DEF IInv, TypeOK, PoolInForceIsOpen, OpenIsKnown, Rotating,
       InRotation, managerVars, ConnectReturns
  <2>. QED BY <2>1, <2>2, <2>3 DEF IInv
<1>4. CASE RotateCompletes(p)
  <2>1. DownIsBlank' /\ OneRotation'
    BY <1>4, Distinct DEF IInv, TypeOK, DownIsBlank, OneRotation, Rotating,
       InRotation, suspend, finish, serve, RotateCompletes
  <2>2. FreshPool' /\ StopApart'
    BY <1>4, Distinct DEF IInv, TypeOK, OneRotation, FreshPool, StopApart,
       Rotating, InRotation, suspend, finish, serve, poolVars, RotateCompletes,
       retire
  <2>3. PoolInForceIsOpen' /\ OpenIsKnown'
    BY <1>4, Distinct DEF IInv, TypeOK, OneRotation, FreshPool,
       PoolInForceIsOpen, OpenIsKnown, Rotating, poolVars, RotateCompletes,
       retire
  <2>. QED BY <2>1, <2>2, <2>3 DEF IInv
<1>5. CASE FetchThrows(p) \/ ConnectThrows(p) \/ ProbeThrows(p)
  BY <1>5, FailureInv DEF FetchThrows, ConnectThrows, ProbeThrows
<1>. QED BY <1>1, <1>2, <1>3, <1>4, <1>5 DEF RotateStep

\* repo() starts a rotation only when there is none.
LEMMA RequestInv ==
    ASSUME IInv, TypeOK', NEW r \in Request, RequestStep(r) \/ HandlerDone(r)
    PROVE  IInv'
<1>1. CASE RepoServes(r)
  <2>1. DownIsBlank' /\ OneRotation'
    BY <1>1 DEF IInv, DownIsBlank, OneRotation, Rotating, InRotation, suspend,
       serve, managerVars, RepoServes
  <2>2. FreshPool' /\ StopApart'
    BY <1>1, Distinct DEF IInv, FreshPool, StopApart, suspend, serve,
       managerVars, poolVars, RepoServes
  <2>3. PoolInForceIsOpen' /\ OpenIsKnown'
    BY <1>1 DEF IInv, PoolInForceIsOpen, OpenIsKnown, Rotating, suspend,
       serve, managerVars, poolVars, RepoServes
  <2>. QED BY <2>1, <2>2, <2>3 DEF IInv
<1>2. CASE RepoRotates(r)
  <2>1. DownIsBlank' /\ OneRotation'
    BY <1>2, Distinct DEF IInv, TypeOK, DownIsBlank, OneRotation, Rotating,
       InRotation, suspend, beginRotation, RepoRotates
  <2>2. FreshPool' /\ StopApart'
    BY <1>2, Distinct DEF IInv, FreshPool, StopApart, suspend, beginRotation,
       poolVars, RepoRotates
  <2>3. PoolInForceIsOpen' /\ OpenIsKnown'
    BY <1>2 DEF IInv, PoolInForceIsOpen, OpenIsKnown, Rotating, suspend,
       beginRotation, poolVars, RepoRotates
  <2>. QED BY <2>1, <2>2, <2>3 DEF IInv
<1>3. CASE HandlerDone(r)
  <2>1. DownIsBlank' /\ OneRotation'
    BY <1>3 DEF IInv, TypeOK, DownIsBlank, OneRotation, Rotating, InRotation,
       suspend, finish, managerVars, HandlerDone
  <2>2. FreshPool' /\ StopApart'
    BY <1>3, Distinct DEF IInv, FreshPool, StopApart, suspend, finish,
       managerVars, poolVars, HandlerDone
  <2>3. PoolInForceIsOpen' /\ OpenIsKnown'
    BY <1>3 DEF IInv, PoolInForceIsOpen, OpenIsKnown, Rotating, suspend,
       finish, managerVars, poolVars, HandlerDone
  <2>. QED BY <2>1, <2>2, <2>3 DEF IInv
<1>. QED BY <1>1, <1>2, <1>3 DEF RequestStep

\* renewOrRotate() starts a rotation only when there is none.
LEMMA RenewalInv ==
    ASSUME IInv, TypeOK', NEW n \in Renewal, RenewalStep(n)
    PROVE  IInv'
<1>1. ASSUME NEW t \in Timer, TimerFires(t, n) PROVE IInv'
  <2>1. DownIsBlank' /\ OneRotation'
    BY <1>1, Distinct DEF IInv, TypeOK, DownIsBlank, OneRotation, Rotating,
       InRotation, suspend, procVars, poolVars, TimerFires
  <2>2. FreshPool' /\ StopApart'
    BY <1>1, Distinct DEF IInv, TypeOK, FreshPool, StopApart, suspend,
       procVars, poolVars, TimerFires
  <2>3. PoolInForceIsOpen' /\ OpenIsKnown'
    BY <1>1, Distinct DEF IInv, TypeOK, PoolInForceIsOpen, OpenIsKnown,
       Rotating, suspend, procVars, poolVars, TimerFires
  <2>. QED BY <2>1, <2>2, <2>3 DEF IInv
<1>2. CASE VaultRenews(n)
  <2>1. DownIsBlank' /\ OneRotation'
    BY <1>2 DEF IInv, TypeOK, DownIsBlank, OneRotation, Rotating, InRotation,
       suspend, managerVars, VaultRenews
  <2>2. FreshPool' /\ StopApart'
    BY <1>2 DEF IInv, FreshPool, StopApart, suspend, managerVars, poolVars,
       VaultRenews
  <2>3. PoolInForceIsOpen' /\ OpenIsKnown'
    BY <1>2 DEF IInv, PoolInForceIsOpen, OpenIsKnown, Rotating, suspend,
       managerVars, poolVars, VaultRenews
  <2>. QED BY <2>1, <2>2, <2>3 DEF IInv
<1>3. CASE RenewReturns(n)
  <2>1. DownIsBlank' /\ OneRotation'
    BY <1>3, Distinct DEF IInv, TypeOK, DownIsBlank, OneRotation, Rotating,
       InRotation, suspend, finish, beginRotation, RenewReturns
  <2>2. FreshPool' /\ StopApart'
    BY <1>3, Distinct DEF IInv, TypeOK, FreshPool, StopApart, suspend, finish,
       beginRotation, poolVars, RenewReturns
  <2>3. PoolInForceIsOpen' /\ OpenIsKnown'
    BY <1>3, Distinct DEF IInv, TypeOK, PoolInForceIsOpen, OpenIsKnown,
       Rotating, suspend, finish, beginRotation, poolVars, RenewReturns
  <2>. QED BY <2>1, <2>2, <2>3 DEF IInv
<1>4. CASE RenewThrows(n)
  <2>1. DownIsBlank' /\ OneRotation'
    BY <1>4, Distinct DEF IInv, TypeOK, DownIsBlank, OneRotation, Rotating,
       InRotation, suspend, finish, beginRotation, RenewThrows
  <2>2. FreshPool' /\ StopApart'
    BY <1>4, Distinct DEF IInv, TypeOK, FreshPool, StopApart, suspend, finish,
       beginRotation, poolVars, RenewThrows
  <2>3. PoolInForceIsOpen' /\ OpenIsKnown'
    BY <1>4, Distinct DEF IInv, TypeOK, PoolInForceIsOpen, OpenIsKnown,
       Rotating, suspend, finish, beginRotation, poolVars, RenewThrows
  <2>. QED BY <2>1, <2>2, <2>3 DEF IInv
<1>. QED BY <1>1, <1>2, <1>3, <1>4 DEF RenewalStep

\* Draining, destroying and revoking concern no open pool.
LEMMA DrainInv ==
    ASSUME IInv, TypeOK', NEW l \in Lease, DrainStep(l)
    PROVE  IInv'
<1>1. DownIsBlank' /\ OneRotation'
  BY DEF IInv, DownIsBlank, OneRotation, Rotating, managerVars, procVars,
     DrainStep, DrainFires, DestroyReturns, RevokeReturns, RetireThrows,
     Retired
<1>2. FreshPool' /\ StopApart'
  BY DEF IInv, TypeOK, FreshPool, StopApart, managerVars, procVars, DrainStep,
     DrainFires, DestroyReturns, RevokeReturns, RetireThrows, Retired
<1>3. PoolInForceIsOpen' /\ OpenIsKnown'
  BY DEF IInv, TypeOK, PoolInForceIsOpen, OpenIsKnown, Rotating,
     managerVars, procVars, DrainStep, DrainFires, DestroyReturns,
     RevokeReturns, RetireThrows, Retired
<1>. QED BY <1>1, <1>2, <1>3 DEF IInv

\* Start, shutdown and death of the process.
LEMMA ProcessInv ==
    ASSUME IInv, TypeOK', Start \/ onModuleDestroy \/ StopStep \/ Kill
    PROVE  IInv'
<1>1. CASE Start
  <2>1. DownIsBlank' /\ OneRotation'
    BY <1>1, Distinct DEF IInv, TypeOK, DownIsBlank, OneRotation, Rotating,
       InRotation, suspend, beginRotation, Start
  <2>2. FreshPool' /\ StopApart'
    BY <1>1, Distinct DEF IInv, TypeOK, FreshPool, StopApart, suspend,
       beginRotation, poolVars, Start
  <2>3. PoolInForceIsOpen' /\ OpenIsKnown'
    BY <1>1 DEF IInv, DownIsBlank, PoolInForceIsOpen, OpenIsKnown,
       poolVars, Start
  <2>. QED BY <2>1, <2>2, <2>3 DEF IInv
<1>2. CASE onModuleDestroy
  <2>1. DownIsBlank' /\ OneRotation'
    BY <1>2, Distinct DEF IInv, DownIsBlank, OneRotation, Rotating, suspend,
       onModuleDestroy
  <2>2. FreshPool' /\ StopApart'
    BY <1>2, Distinct DEF IInv, TypeOK, FreshPool, StopApart,
       PoolInForceIsOpen, suspend, onModuleDestroy
  <2>3. PoolInForceIsOpen' /\ OpenIsKnown'
    BY <1>2, Distinct DEF IInv, TypeOK, PoolInForceIsOpen, OpenIsKnown,
       Rotating, suspend, onModuleDestroy
  <2>. QED BY <2>1, <2>2, <2>3 DEF IInv
<1>3. CASE StopDestroyed \/ StopDestroyThrows
  <2>0. PICK state \in {"revoking", "lost"} : stopDestroying(state)
    BY <1>3 DEF StopDestroyed, StopDestroyThrows
  <2>1. /\ pc[Stop] = "closing" /\ pc' = [pc EXCEPT ![Stop] = "revoking"]
        /\ pool' = [pool EXCEPT ![subject[Stop]] = state]
        /\ UNCHANGED <<phase, active, rotating, due, subject, old>>
    BY <2>0 DEF stopDestroying, managerVars
  <2>2. \A p \in Rotator : pc'[p] = pc[p]
    BY <2>1, Distinct DEF IInv, TypeOK
  <2>3. pool[subject[Stop]] = "closing" /\ \A l \in Lease : l # subject[Stop] => pool'[l] = pool[l]
    BY <2>1 DEF IInv, TypeOK, StopApart
  <2>4. Rotating' = Rotating
    BY <2>2 DEF Rotating
  <2>5. DownIsBlank' /\ OneRotation'
    BY <2>1, <2>2, <2>4, Distinct DEF IInv, DownIsBlank, OneRotation
  <2>6. FreshPool' /\ StopApart'
    BY <2>1, <2>2, <2>3, Distinct DEF IInv, TypeOK, FreshPool, StopApart
  <2>7. PoolInForceIsOpen' /\ OpenIsKnown'
    BY <2>1, <2>2, <2>3, <2>4 DEF IInv, TypeOK, PoolInForceIsOpen, OpenIsKnown, Rotating
  <2>. QED BY <2>5, <2>6, <2>7 DEF IInv
<1>4. CASE StopRevoked \/ Kill
  BY <1>4, ExitInv DEF StopRevoked, Kill
<1>. QED BY <1>1, <1>2, <1>3, <1>4 DEF StopStep

\* The surroundings and the clock change nothing that IInv speaks of, except
\* that an armed timer comes nearer.
LEMMA OutsideInv ==
    ASSUME IInv, TypeOK', OutageBegins \/ OutageEnds \/ RevokeByHand \/ Tick \/ UNCHANGED vars
    PROVE  IInv'
<1>0. /\ UNCHANGED <<phase, active, rotating, pc, subject, old, pool>>
      /\ \A t \in Timer : due[t] = Off => due'[t] = Off
  BY DEF IInv, CountDown, Off, managerVars, procVars, poolVars, OutageBegins,
     OutageEnds, RevokeByHand, Tick, vars
<1>1. DownIsBlank' /\ OneRotation'
  BY <1>0 DEF IInv, DownIsBlank, OneRotation, Rotating
<1>2. FreshPool' /\ StopApart'
  BY <1>0 DEF IInv, FreshPool, StopApart
<1>3. PoolInForceIsOpen' /\ OpenIsKnown'
  BY <1>0 DEF IInv, PoolInForceIsOpen, OpenIsKnown, Rotating
<1>. QED BY <1>1, <1>2, <1>3 DEF IInv

\* Every step preserves the invariant.
LEMMA StepInv == IInv /\ [Next]_vars => IInv'
<1>. SUFFICES ASSUME IInv, [Next]_vars PROVE IInv'
  OBVIOUS
<1>1. TypeOK'
  BY TypeStep DEF IInv
<1>. QED BY <1>1, RotateInv, RequestInv, RenewalInv, DrainInv, ProcessInv, OutsideInv DEF Next

\* The invariant holds in every reachable state.
THEOREM Invariance == Spec => []IInv
BY InitInv, StepInv, PTL DEF Spec

\* Rotations exclude each other, and this.rotating tells the truth.
THEOREM RotationsExclude == Spec => []OneRotation
<1>1. IInv => OneRotation
  BY DEF IInv
<1>. QED BY <1>1, Invariance, PTL

\* While the service is ready it has a pool in force, open and not retired.
THEOREM PoolInForceStaysOpen == Spec => []PoolInForceIsOpen
<1>1. IInv => PoolInForceIsOpen
  BY DEF IInv
<1>. QED BY <1>1, Invariance, PTL

-----------------------------------------------------------------------------
(* The connection manager implements PoolLifecycle, the promise it shares  *)
(* with the managers of libs/shared/mongo and src/database: every action   *)
(* opens a candidate, discards or promotes it, advances a pool, shuts down *)
(* or exits, or leaves pools and the pool in force alone.  IInv says why   *)
(* a promotion meets the pool that the rotation has remembered.            *)

LifecycleStep == [Lifecycle!Next]_<<active, pool>>

\* A process that ends takes its pools with it.
LEMMA ExitRefines == ASSUME exit PROVE LifecycleStep
BY DEF exit, LifecycleStep, Lifecycle!Next, Lifecycle!Exit

\* A rotation that fails before its pool is open leaves the pools alone.
LEMMA FailureRefines ==
    ASSUME IInv, NEW p \in Rotator, rotationFails(p, pool)
    PROVE  LifecycleStep
<1>1. CASE exit
  BY <1>1, ExitRefines
<1>2. CASE UNCHANGED <<active, pool>>
  BY <1>2 DEF LifecycleStep
<1>. QED BY <1>1, <1>2 DEF rotationFails

\* The rotation is the only one, so there is no other candidate.
LEMMA OpenRefines ==
    ASSUME IInv, NEW p \in Rotator, ConnectReturns(p)
    PROVE  LifecycleStep
<1>1. subject[p] \in Lease /\ pool[subject[p]] = "none"
  BY DEF ConnectReturns, IInv, FreshPool
<1>2. \A m \in Lease : ~Lifecycle!Candidate(m)
  BY DEF ConnectReturns, IInv, OneRotation, OpenIsKnown, Rotating, InRotation,
         Lifecycle!Candidate
<1>3. pool' = [pool EXCEPT ![subject[p]] = "open"] /\ UNCHANGED active
  BY DEF ConnectReturns, managerVars
<1>4. Lifecycle!Open(subject[p])
  BY <1>1, <1>2, <1>3 DEF Lifecycle!Open
<1>. QED BY <1>1, <1>4 DEF LifecycleStep, Lifecycle!Next

\* A failed probe discards the candidate.
LEMMA DiscardRefines ==
    ASSUME IInv, NEW p \in Rotator, ProbeThrows(p)
    PROVE  LifecycleStep
<1>1. CASE exit
  BY <1>1, ExitRefines
<1>2. CASE pool' = [pool EXCEPT ![subject[p]] = "lost"] /\ UNCHANGED active
  <2>1. subject[p] \in Lease /\ Lifecycle!Candidate(subject[p])
    BY DEF ProbeThrows, IInv, FreshPool, Lifecycle!Candidate
  <2>2. Lifecycle!Discard(subject[p])
    BY <1>2, <2>1 DEF Lifecycle!Discard
  <2>. QED BY <2>1, <2>2 DEF LifecycleStep, Lifecycle!Next
<1>. QED BY <1>1, <1>2 DEF ProbeThrows, rotationFails

\* The pool that is retired, old of rotate(), is the one in force.
LEMMA PromoteRefines ==
    ASSUME IInv, NEW p \in Rotator, RotateCompletes(p)
    PROVE  LifecycleStep
<1>1. subject[p] \in Lease /\ Lifecycle!Candidate(subject[p])
  BY DEF RotateCompletes, IInv, FreshPool, Lifecycle!Candidate
<1>2. pool' = [m \in Lease |-> IF m = active THEN "draining" ELSE pool[m]]
  <2>1. active \in {None, old[p]} /\ old[p] \in Lease \union {None}
    BY DEF RotateCompletes, IInv, TypeOK, Proc, OneRotation, Rotating, InRotation
  <2>2. pool = [m \in Lease |-> pool[m]]
    BY DEF IInv, TypeOK
  <2>3. CASE active = None
    <3>1. old[p] # None => pool[old[p]] # "open"
      BY <2>1, <2>3 DEF RotateCompletes, IInv, FreshPool, OneRotation,
                        OpenIsKnown, Rotating, InRotation
    <3>2. pool' = pool
      BY <3>1 DEF RotateCompletes, retire, poolVars
    <3>. QED BY <2>2, <2>3, <3>2, ManagerAssumption
  <2>4. CASE active # None
    <3>1. active = old[p] /\ pool[active] = "open"
      BY <2>1, <2>4 DEF IInv, PoolInForceIsOpen
    <3>2. pool' = [pool EXCEPT ![active] = "draining"]
      BY <2>4, <3>1 DEF RotateCompletes, retire
    <3>. QED BY <2>2, <3>2
  <2>. QED BY <2>3, <2>4
<1>3. active' = subject[p]
  BY DEF RotateCompletes
<1>4. Lifecycle!Promote(subject[p])
  BY <1>1, <1>2, <1>3 DEF Lifecycle!Promote
<1>. QED BY <1>1, <1>4 DEF LifecycleStep, Lifecycle!Next

\* Every await of rotate() is a step of the life cycle, or none.
LEMMA RotateRefines ==
    ASSUME IInv, NEW p \in Rotator, RotateStep(p) \/ FetchLosesAnswer(p)
    PROVE  LifecycleStep
<1>1. CASE FetchReturns(p) \/ FetchLosesAnswer(p)
  <2>1. PICK l \in Lease : VaultIssues(l)
    BY <1>1 DEF FetchReturns, FetchLosesAnswer
  <2>2. CASE pool[l] = "none"
    <3>1. UNCHANGED <<active, pool>>
      BY <1>1, <2>1, <2>2 DEF FetchReturns, FetchLosesAnswer, VaultIssues, managerVars, IInv, TypeOK
    <3>. QED BY <3>1 DEF LifecycleStep
  <2>3. CASE pool[l] = "lost"
    <3>1. Lifecycle!Reuse(l)
      BY <1>1, <2>1, <2>3 DEF FetchReturns, FetchLosesAnswer, VaultIssues, managerVars,
         Lifecycle!Reuse
    <3>. QED BY <3>1 DEF LifecycleStep, Lifecycle!Next
  <2>. QED BY <2>1, <2>2, <2>3 DEF VaultIssues, Free
<1>2. CASE FetchThrows(p) \/ ConnectThrows(p)
  BY <1>2, FailureRefines DEF FetchThrows, ConnectThrows
<1>. QED BY <1>1, <1>2, OpenRefines, PromoteRefines, DiscardRefines DEF RotateStep

\* Retiring a pool takes it one stage on.
LEMMA DrainRefines ==
    ASSUME IInv, NEW l \in Lease, DrainStep(l)
    PROVE  LifecycleStep
<1>1. Lifecycle!Advance(l)
  BY DEF DrainStep, DrainFires, DestroyReturns, RevokeReturns, RetireThrows, Retired,
         managerVars, Lifecycle!Advance
<1>. QED BY <1>1 DEF LifecycleStep, Lifecycle!Next

\* Start leaves the pools alone, shutdown and exit are steps of the life cycle.
LEMMA ProcessRefines ==
    ASSUME IInv, Start \/ onModuleDestroy \/ StopStep \/ Kill
    PROVE  LifecycleStep
<1>1. CASE Start
  BY <1>1 DEF Start, poolVars, LifecycleStep
<1>2. CASE onModuleDestroy
  <2>1. active # None
    BY <1>2 DEF onModuleDestroy, IInv, PoolInForceIsOpen
  <2>2. Lifecycle!Shutdown
    BY <1>2, <2>1 DEF onModuleDestroy, Lifecycle!Shutdown
  <2>. QED BY <2>2 DEF LifecycleStep, Lifecycle!Next
<1>3. CASE StopDestroyed \/ StopDestroyThrows
  <2>1. subject[Stop] \in Lease /\ pool[subject[Stop]] = "closing"
    BY <1>3 DEF StopDestroyed, StopDestroyThrows, stopDestroying, IInv, StopApart
  <2>2. Lifecycle!Advance(subject[Stop])
    BY <1>3, <2>1 DEF StopDestroyed, StopDestroyThrows, stopDestroying, managerVars, Lifecycle!Advance
  <2>. QED BY <2>1, <2>2 DEF LifecycleStep, Lifecycle!Next
<1>4. CASE StopRevoked \/ Kill
  BY <1>4, ExitRefines DEF StopRevoked, Kill
<1>. QED BY <1>1, <1>2, <1>3, <1>4 DEF StopStep

\* Handlers, renewals, the surroundings and the clock leave the pools alone.
LEMMA OthersRefine ==
    ASSUME \/ \E r \in Request : RequestStep(r) \/ HandlerDone(r)
           \/ \E n \in Renewal : RenewalStep(n)
           \/ OutageBegins \/ OutageEnds \/ RevokeByHand \/ Tick \/ UNCHANGED vars
    PROVE  LifecycleStep
<1>1. UNCHANGED <<active, pool>>
  <2>1. CASE \E r \in Request : RequestStep(r) \/ HandlerDone(r)
    BY <2>1 DEF RequestStep, RepoServes, RepoRotates, HandlerDone, managerVars, poolVars
  <2>2. CASE \E n \in Renewal : RenewalStep(n)
    BY <2>2 DEF RenewalStep, TimerFires, VaultRenews, RenewReturns, RenewThrows,
                managerVars, poolVars
  <2>3. CASE OutageBegins \/ OutageEnds \/ RevokeByHand \/ Tick \/ UNCHANGED vars
    BY <2>3 DEF OutageBegins, OutageEnds, RevokeByHand, Tick, vars, managerVars, poolVars
  <2>. QED BY <2>1, <2>2, <2>3
<1>. QED BY <1>1 DEF LifecycleStep

\* The manager keeps to the life cycle of pools in every behaviour.
THEOREM KeepsLifecycle == Spec => ImplementsLifecycle
<1>1. Init => Lifecycle!Init
  BY DEF Init, Blank, Lifecycle!Init
<1>2. IInv /\ [Next]_vars => LifecycleStep
  BY RotateRefines, DrainRefines, ProcessRefines, OthersRefine DEF Next
<1>. QED BY <1>1, <1>2, Invariance, PTL
         DEF Spec, ImplementsLifecycle, Lifecycle!Spec, LifecycleStep

-----------------------------------------------------------------------------
\* A rotation ends the time in force of a pool only where it retires that pool.
LEMMA RotateRetires ==
    ASSUME IInv, NEW p \in Rotator, RotateStep(p) \/ FetchLosesAnswer(p),
           active # None, active # active'
    PROVE  pool'[active] = "draining" \/ phase' = "down"
<1>1. CASE RotateCompletes(p)
  <2>1. active = old[p] /\ pool[active] = "open" /\ active \in Lease
    BY <1>1 DEF RotateCompletes, IInv, TypeOK, OneRotation, PoolInForceIsOpen, Rotating, InRotation
  <2>2. pool' = [pool EXCEPT ![active] = "draining"]
    BY <1>1, <2>1 DEF RotateCompletes, retire
  <2>. QED BY <2>1, <2>2 DEF IInv, TypeOK
<1>2. CASE \E pools \in {pool, [pool EXCEPT ![subject[p]] = "lost"]} : rotationFails(p, pools)
  <2>1. exit \/ UNCHANGED active
    BY <1>2 DEF rotationFails
  <2>. QED BY <2>1 DEF exit
<1>3. CASE FetchReturns(p) \/ FetchLosesAnswer(p) \/ ConnectReturns(p)
  BY <1>3 DEF FetchReturns, FetchLosesAnswer, ConnectReturns, managerVars
<1>. QED BY <1>1, <1>2, <1>3 DEF RotateStep, FetchThrows, ConnectThrows, ProbeThrows

\* A pool in force is given up by a rotation, by shutdown, or with the process.
LEMMA StepRetires ==
    ASSUME IInv, [Next]_vars, active # None, active # active'
    PROVE  pool'[active] \in {"draining", "closing"} \/ phase' = "down"
<1>1. CASE onModuleDestroy
  <2>1. active \in Lease /\ pool \in [Lease -> PoolState]
    BY DEF IInv, TypeOK
  <2>. QED BY <1>1, <2>1 DEF onModuleDestroy
<1>2. CASE Start \/ StopStep \/ Kill
  BY <1>2 DEF Start, StopStep, StopDestroyed, StopDestroyThrows, stopDestroying, StopRevoked, Kill,
     exit, managerVars
<1>3. CASE \/ \E r \in Request : RequestStep(r) \/ HandlerDone(r)
           \/ \E n \in Renewal : RenewalStep(n)
  BY <1>3 DEF RequestStep, RepoServes, RepoRotates, HandlerDone, RenewalStep, TimerFires,
     VaultRenews, RenewReturns, RenewThrows, managerVars
<1>4. CASE \/ \E l \in Lease : DrainStep(l)
           \/ OutageBegins \/ OutageEnds \/ RevokeByHand \/ Tick \/ UNCHANGED vars
  BY <1>4 DEF DrainStep, DrainFires, DestroyReturns, RevokeReturns, RetireThrows, OutageBegins,
     OutageEnds, RevokeByHand, Tick, vars, managerVars
<1>. QED BY <1>1, <1>2, <1>3, <1>4, RotateRetires DEF Next

\* No pool that has served is forgotten: what ends its time in force retires it,
\* whatever rotations, failures and shutdown come between.
THEOREM ServedPoolsAreRetired == Spec => ServedPoolIsRetired
<1>1. IInv /\ [Next]_vars =>
        [\A l \in Lease : l = active /\ l # active' =>
            pool'[l] \in {"draining", "closing"} \/ phase' = "down"]_vars
  BY StepRetires, Distinct
<1>. QED BY <1>1, Invariance, PTL DEF Spec, ServedPoolIsRetired
=============================================================================
