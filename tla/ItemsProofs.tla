----------------------------- MODULE ItemsProofs ------------------------------
(***************************************************************************)
(* The manager of the older application, with any constants and any        *)
(* contents of the secret: the steps by which it differs keep the          *)
(* invariant of the connection manager, and its pools are all opened at    *)
(* the address it has cached.                                              *)
(***************************************************************************)
EXTENDS ItemsConnectionManager, TimingProofs

\* The steps that the manager of the services does not have.
OwnStep ==
    \/ \E p \in Rotator : noStaticConfig /\ createPoolRejects(p)
    \/ \E n \in Renewal : RenewReturnsLate(n)
    \/ \E l \in Lease : DisposeThrows(l)
    \/ StopThrows

\* All others are steps of that manager.
LEMMA ItemsStep ==
    ASSUME [ItemsNext]_itemsVars
    PROVE  [Next]_vars \/ OwnStep
BY DEF ItemsNext, itemsVars, rotate, fetchDatabaseCredential, createPool, getRepository,
       renewOrRotate, renew, disposePool, safeRevoke, getDatabaseStaticConfig, SecretRewritten,
       OwnStep, Next, RotateStep, RequestStep, RenewalStep, DrainStep, StopStep

\* Those that end the process are exits; they and a lost address change no lease.
LEMMA OwnShape ==
    ASSUME OwnStep
    PROVE  /\ UNCHANGED ttl
           /\ \/ exit /\ UNCHANGED outage
              \/ \E p \in Rotator : pc[p] = "connect" /\ rotationFails(p, pool)
              \/ \E n \in Renewal : RenewReturnsLate(n)
BY DEF OwnStep, createPoolRejects, RenewReturnsLate, DisposeThrows, StopThrows

\* They keep the types.
LEMMA OwnType ==
    ASSUME TypeOK, OwnStep
    PROVE  TypeOK'
<1>1. UNCHANGED ttl
  BY OwnShape
<1>2. CASE exit /\ UNCHANGED outage
  <2>1. outage' \in BOOLEAN /\ LeaseTypeOK'
    BY <1>1, <1>2 DEF TypeOK, LeaseTypeOK
  <2>. QED BY <1>2, <2>1, ExitType
<1>3. ASSUME NEW p \in Rotator, rotationFails(p, pool) PROVE TypeOK'
  <2>1. pool \in [Lease -> PoolState]
    BY DEF TypeOK
  <2>. QED BY <1>1, <1>3, <2>1, FailureType
<1>4. ASSUME NEW n \in Renewal, RenewReturnsLate(n) PROVE TypeOK'
  <2>1. due' \in [Timer -> {Off} \union 0..MaxDelay]
    BY <1>4 DEF RenewReturnsLate, TypeOK
  <2>. QED BY <1>4, <2>1, Distinct, FinishType DEF RenewReturnsLate, TypeOK, LeaseTypeOK, poolVars
<1>. QED BY <1>2, <1>3, <1>4, OwnShape

\* They keep the invariant.
LEMMA OwnInv ==
    ASSUME IInv, OwnStep
    PROVE  IInv'
<1>1. TypeOK'
  BY OwnType DEF IInv
<1>2. CASE exit
  BY <1>1, <1>2, ExitInv
<1>3. ASSUME NEW p \in Rotator, pc[p] = "connect", rotationFails(p, pool) PROVE IInv'
  BY <1>1, <1>3, FailureInv
<1>4. ASSUME NEW n \in Renewal, RenewReturnsLate(n) PROVE IInv'
  <2>1. DownIsBlank' /\ OneRotation'
    BY <1>4, Distinct DEF IInv, TypeOK, DownIsBlank, OneRotation, Rotating, InRotation,
       suspend, finish, RenewReturnsLate
  <2>2. FreshPool' /\ StopApart'
    BY <1>4, Distinct DEF IInv, TypeOK, FreshPool, StopApart, suspend, finish, poolVars,
       RenewReturnsLate
  <2>3. PoolInForceIsOpen' /\ OpenIsKnown'
    BY <1>4, Distinct DEF IInv, TypeOK, PoolInForceIsOpen, OpenIsKnown, Rotating, suspend,
       finish, poolVars, RenewReturnsLate
  <2>. QED BY <1>1, <2>1, <2>2, <2>3 DEF IInv
<1>. QED BY <1>2, <1>3, <1>4, OwnShape

\* They open no pool and put none in force.
LEMMA OwnRefines ==
    ASSUME IInv, OwnStep
    PROVE  LifecycleStep
<1>1. ASSUME NEW n \in Renewal, RenewReturnsLate(n) PROVE LifecycleStep
  BY <1>1 DEF RenewReturnsLate, poolVars, LifecycleStep
<1>. QED BY <1>1, OwnShape, ExitRefines, FailureRefines

-----------------------------------------------------------------------------
\* The invariant of the connection manager holds of this one.
THEOREM ItemsInvariance == ItemsSpec => []IInv
<1>1. ItemsInit => IInv
  BY InitInv DEF ItemsInit
<1>2. IInv /\ [ItemsNext]_itemsVars => IInv'
  BY ItemsStep, StepInv, OwnInv
<1>. QED BY <1>1, <1>2, PTL DEF ItemsSpec

\* One rotation at a time, and the pool in force is open, also when a rotation
\* loses its lease for want of an address.
THEOREM ItemsRotationsExclude == ItemsSpec => [](OneRotation /\ PoolInForceIsOpen)
<1>1. IInv => OneRotation /\ PoolInForceIsOpen
  BY DEF IInv
<1>. QED BY <1>1, ItemsInvariance, PTL

\* No pool that has served is forgotten, unless an error in a drain timer ends
\* the process.
THEOREM ItemsServedIsRetired == ItemsSpec => ServedPoolIsRetired
<1>1. ASSUME IInv, OwnStep, active # active' PROVE phase' = "down"
  BY <1>1, OwnShape DEF rotationFails, RenewReturnsLate, exit
<1>2. ASSUME IInv, [ItemsNext]_itemsVars
      PROVE  [\A l \in Lease : l = active /\ l # active' =>
                 pool'[l] \in {"draining", "closing"} \/ phase' = "down"]_vars
  BY <1>1, <1>2, ItemsStep, StepRetires, Distinct
<1>. QED BY <1>2, ItemsInvariance, PTL DEF ItemsSpec, ServedPoolIsRetired

\* The manager of the older application keeps to the life cycle of pools.
THEOREM ItemsKeepsLifecycle == ItemsSpec => ImplementsLifecycle
<1>1. ItemsInit => Lifecycle!Init
  BY DEF ItemsInit, Init, Blank, Lifecycle!Init
<1>2. IInv /\ [ItemsNext]_itemsVars => LifecycleStep
  <2>1. IInv /\ [Next]_vars => LifecycleStep
    BY RotateRefines, DrainRefines, ProcessRefines, OthersRefine DEF Next
  <2>. QED BY <2>1, ItemsStep, OwnRefines
<1>. QED BY <1>1, <1>2, ItemsInvariance, PTL
         DEF ItemsSpec, ImplementsLifecycle, Lifecycle!Spec, LifecycleStep

-----------------------------------------------------------------------------
(* The address.                                                            *)

Address == {s \in Secret : s.host # "" /\ s.port \in Nat \ {0} /\ s.database # ""}

\* Pools are opened at the cached address, which has passed the conversions.
AddressInv ==
    /\ secret \in Secret
    /\ config \in Address \union {None}
    /\ opened \subseteq Address /\ opened \subseteq {config}
    /\ config = None => opened = {}

\* What normalizePostgres() returns is an address.
LEMMA NormalizedType ==
    ASSUME secret \in Secret, normalizes(secret)
    PROVE  secret \in Address
<1>1. secret \in [host : STRING, port : Int, database : STRING]
  BY SecretAssumption
<1>2. secret.port \in Nat \ {0}
  <2>1. secret.port \in Int /\ secret.port > 0
    BY <1>1 DEF normalizes, toPort
  <2>. QED BY <2>1
<1>3. secret.host # "" /\ secret.database # ""
  BY DEF normalizes, requiredSecret
<1>. QED BY <1>2, <1>3 DEF Address

\* A failed rotation opens no pool.
LEMMA FailureOpensNone ==
    ASSUME TypeOK, NEW p \in Rotator, NEW pools, rotationFails(p, pools), NEW l \in Lease,
           pools[l] # "open"
    PROVE  pool'[l] # "open"
BY DEF rotationFails, exit

\* Only createPool() opens one, and it has the address.
LEMMA OpensWithAddress ==
    ASSUME IInv, ItemsNext, NEW l \in Lease, pool[l] = "none", pool'[l] = "open"
    PROVE  config # None
<1>0. pool \in [Lease -> PoolState]
  BY DEF IInv, TypeOK
<1>1. CASE UNCHANGED pool
  BY <1>1
<1>2. CASE exit
  BY <1>2 DEF exit
<1>3. CASE \E p \in Rotator : rotate(p)
  <2>1. PICK p \in Rotator : rotate(p)
    BY <1>3
  <2>2. CASE fetchDatabaseCredential(p) \/ ConnectThrows(p) \/ createPoolRejects(p)
    <3>1. ASSUME NEW k \in Lease, VaultIssues(k) PROVE pool'[l] # "open"
      BY <1>0, <3>1 DEF VaultIssues
    <3>. QED BY <2>2, <3>1, FailureOpensNone DEF fetchDatabaseCredential, FetchReturns, FetchThrows,
                FetchLosesAnswer, ConnectThrows, createPoolRejects, IInv
  <2>3. CASE ProbeThrows(p)
    <3>1. [pool EXCEPT ![subject[p]] = "lost"][l] # "open"
      BY <1>0
    <3>. QED BY <2>3, <3>1, FailureOpensNone DEF ProbeThrows, IInv
  <2>4. CASE RotateCompletes(p)
    BY <1>0, <2>4 DEF RotateCompletes, retire, poolVars
  <2>. QED BY <2>1, <2>2, <2>3, <2>4 DEF rotate, createPool
<1>4. CASE \E k \in Lease : DrainFires(k) \/ disposePool(k) \/ safeRevoke(k)
  BY <1>0, <1>2, <1>4 DEF DrainFires, disposePool, safeRevoke, DestroyReturns, DisposeThrows,
     RevokeReturns, RetireThrows
<1>5. CASE \/ \E r \in Request : getRepository(r) \/ HandlerDone(r)
           \/ \E n \in Renewal : renewOrRotate(n)
  BY <1>1, <1>5 DEF getRepository, RepoServes, RepoRotates, HandlerDone, renewOrRotate, renew,
     TimerFires, VaultRenews, RenewReturns, RenewThrows, RenewReturnsLate, poolVars
<1>6. CASE Start \/ onModuleDestroy \/ StopDestroyed \/ StopRevoked \/ StopThrows \/ Kill
  BY <1>0, <1>1, <1>2, <1>6 DEF Start, onModuleDestroy, StopDestroyed, stopDestroying,
     StopRevoked, StopThrows, Kill, poolVars
<1>7. CASE \/ OutageBegins \/ OutageEnds \/ Tick \/ SecretRewritten
           \/ \E p \in Rotator : getDatabaseStaticConfig(p)
  BY <1>1, <1>7 DEF OutageBegins, OutageEnds, Tick, SecretRewritten, getDatabaseStaticConfig,
     vars, poolVars
<1>. QED BY <1>3, <1>4, <1>5, <1>6, <1>7 DEF ItemsNext

\* Every step keeps to the address, and an exit forgets it.
LEMMA AddressStep == IInv /\ AddressInv /\ [ItemsNext]_itemsVars => AddressInv'
<1>. SUFFICES ASSUME IInv, AddressInv, [ItemsNext]_itemsVars PROVE AddressInv'
  OBVIOUS
<1>1. CASE ItemsNext /\ remember
  <2>1. CASE phase' = "down"
    BY <1>1, <2>1 DEF remember, AddressInv, Address
  <2>2. CASE phase' # "down"
    <3>1. opened' \subseteq opened \union {config}
      BY <1>1, <2>2 DEF remember
    <3>2. opened' # opened => config # None
      BY <1>1, <2>2, OpensWithAddress DEF remember
    <3>3. UNCHANGED <<config, secret>>
      BY <1>1, <2>2 DEF remember
    <3>. QED BY <3>1, <3>2, <3>3 DEF AddressInv, Address
  <2>. QED BY <2>1, <2>2
<1>2. CASE \E p \in Rotator : getDatabaseStaticConfig(p)
  BY <1>2, NormalizedType DEF getDatabaseStaticConfig, AddressInv, Address
<1>3. CASE SecretRewritten \/ UNCHANGED itemsVars
  BY <1>3 DEF SecretRewritten, itemsVars, configVars, AddressInv, Address
<1>. QED BY <1>1, <1>2, <1>3 DEF ItemsNext

\* The address invariant holds in every reachable state.
THEOREM AddressInvariance == ItemsSpec => []AddressInv
<1>1. ItemsInit => AddressInv
  BY DEF ItemsInit, AddressInv
<1>. QED BY <1>1, AddressStep, ItemsInvariance, PTL DEF ItemsSpec

\* What is cached and dialled has passed the conversions.
THEOREM ItemsTypeCorrect == ItemsSpec => []ItemsTypeOK
<1>1. IInv /\ AddressInv => ItemsTypeOK
  BY DEF IInv, AddressInv, ItemsTypeOK, Address
<1>. QED BY <1>1, ItemsInvariance, AddressInvariance, PTL

\* One process works on one database.
THEOREM PoolsShareAddress == ItemsSpec => []OneAddress
<1>1. AddressInv => OneAddress
  BY DEF AddressInv, OneAddress
<1>. QED BY <1>1, AddressInvariance, PTL

-----------------------------------------------------------------------------
\* A pool in use is not destroyed by a rotation of the older application either:
\* the steps of its own end no drain, and a rotation that gives its lease up had
\* no pool yet.
LEMMA OwnHeld ==
    ASSUME IInv, HeldInv, OwnStep
    PROVE  HeldInv'
<1>1. ASSUME NEW p \in Rotator, pc[p] = "connect", createPoolRejects(p) PROVE HeldInv'
  BY <1>1, HeldFailure DEF createPoolRejects, IInv, FreshPool
<1>2. ASSUME NEW n \in Renewal, RenewReturnsLate(n) PROVE HeldInv'
  <2>1. /\ UNCHANGED <<phase, poolVars>> /\ pc'[n] = "idle" /\ n \in Proc
        /\ \A q \in Proc : q # n => /\ pc'[q] = pc[q] /\ subject'[q] = subject[q]
                                     /\ holdLeft'[q] = holdLeft[q]
    BY <1>2, Distinct DEF RenewReturnsLate, finish, suspend, IInv, TypeOK
  <2>. QED BY <2>1, Distinct, HeldKept DEF HeldInv, Young, HeldApart, poolVars
<1>. QED BY <1>1, <1>2, HeldExit DEF OwnStep, DisposeThrows, StopThrows, createPoolRejects

\* The drains of its pools stay ahead of their uses.
LEMMA ItemsHeld == ItemsSpec => []HeldInv
<1>1. ItemsInit => HeldInv
  BY HeldInit DEF ItemsInit
<1>2. IInv /\ HeldInv /\ [ItemsNext]_itemsVars => HeldInv'
  BY ItemsStep, HeldStep, OwnHeld
<1>. QED BY <1>1, <1>2, ItemsInvariance, PTL DEF ItemsSpec

\* The drain outlasts every handler that has got its repository before.
THEOREM ItemsDrainOutlastsUse == ItemsSpec => []HeldPoolIsNotDestroyed
BY ItemsHeld, HeldIsOpen, PTL

\* It revokes no lease that is still used or whose pool is open.
THEOREM ItemsRevocation == ItemsSpec => RevokedWhenUnused
<1>1. ASSUME IInv, HeldInv, [ItemsNext]_itemsVars
      PROVE  \A l \in Lease : Live(l) /\ ttl'[l] = 0 /\ ~RevokeByHand /\ ~Tick =>
                 /\ Unused(l)
                 /\ pool[l] = "revoking" \/ (pool[l] = "lost" /\ subject[Stop] = l)
  <2>1. CASE OwnStep
    BY <2>1, OwnShape DEF Live
  <2>. QED BY <1>1, <2>1, ItemsStep, RevocationStep DEF Disposed
<1>. QED BY <1>1, ItemsHeld, ItemsInvariance, PTL DEF ItemsSpec, RevokedWhenUnused

-----------------------------------------------------------------------------
(* Nothing begins without a pool in force: neither in a shutdown, nor before *)
(* the address of the database is known.                                   *)

\* With no pool in force, activations that are idle or use a repository do not
\* start a rotation: getRepository() throws and renewOrRotate() returns.
LEMMA QuietWithoutPool ==
    ASSUME IInv, ItemsNext, active = None, phase # "down",
           \A p \in Rotator : pc[p] \in {"idle", "using"}
    PROVE  /\ active' = None /\ (phase' = phase \/ phase' = "down")
           /\ \A q \in Rotator : pc'[q] \in {"idle", "using"}
<1>1. CASE exit
  BY <1>1, Distinct DEF exit
<1>2. CASE UNCHANGED <<procVars, active, phase>>
  BY <1>2 DEF procVars
<1>3. CASE Start \/ onModuleDestroy
  BY <1>3 DEF Start, onModuleDestroy, IInv, PoolInForceIsOpen
<1>4. CASE StopDestroyed \/ StopRevoked \/ StopThrows \/ Kill
  BY <1>1, <1>4, Distinct DEF StopDestroyed, stopDestroying, StopRevoked, StopThrows, Kill,
     managerVars, IInv, TypeOK
<1>5. ~\E p \in Rotator : rotate(p) \/ getDatabaseStaticConfig(p)
  BY DEF rotate, fetchDatabaseCredential, createPool, createPoolRejects, FetchReturns, FetchThrows,
     FetchLosesAnswer, ConnectReturns, ConnectThrows, RotateCompletes, ProbeThrows,
     getDatabaseStaticConfig, readSecret
<1>6. ASSUME NEW r \in Request, getRepository(r) \/ HandlerDone(r)
      PROVE  /\ active' = None /\ phase' = phase
             /\ \A q \in Rotator : pc'[q] \in {"idle", "using"}
  BY <1>6, Distinct DEF getRepository, HandlerDone, finish, suspend, managerVars, IInv, TypeOK
<1>7. ASSUME NEW n \in Renewal, renewOrRotate(n)
      PROVE  UNCHANGED <<procVars, active, phase>>
  BY <1>7, Distinct DEF renewOrRotate, renew, TimerFires, VaultRenews, RenewReturns, RenewThrows,
     RenewReturnsLate
<1>8. ASSUME NEW l \in Lease, DrainFires(l) \/ disposePool(l) \/ safeRevoke(l)
      PROVE  exit \/ UNCHANGED <<procVars, active, phase>>
  BY <1>8 DEF DrainFires, disposePool, DestroyReturns, DisposeThrows, safeRevoke, RevokeReturns,
     RetireThrows, managerVars
<1>9. ASSUME OutageBegins \/ OutageEnds \/ SecretRewritten
      PROVE  UNCHANGED <<procVars, active, phase>>
  BY <1>9 DEF OutageBegins, OutageEnds, SecretRewritten, managerVars, vars
<1>10. CASE Tick
  BY <1>10 DEF Tick
<1>. QED BY <1>1, <1>2, <1>3, <1>4, <1>5, <1>6, <1>7, <1>8, <1>9, <1>10 DEF ItemsNext

\* A shutdown that is quiet stays so, and asks Vault for no further lease.
THEOREM ShutdownStaysQuiet == ItemsSpec => ShutdownIsQuiet
<1>1. ASSUME IInv, [ItemsNext]_itemsVars, Quiet
      PROVE  Quiet' \/ phase' = "down"
  <2>1. CASE UNCHANGED itemsVars
    BY <1>1, <2>1 DEF itemsVars, vars, managerVars, procVars, Quiet
  <2>2. CASE ItemsNext
    BY <1>1, <2>2, QuietWithoutPool DEF Quiet
  <2>. QED BY <1>1, <2>1, <2>2
<1>. QED BY <1>1, ItemsInvariance, PTL DEF ItemsSpec, ShutdownIsQuiet

\* Without the address there is no pool, and only Boot is at work for one.
AddressFirst ==
    config = None =>
        /\ active = None
        /\ \A p \in Rotator : pc[p] # "probe" /\ (p # Boot => pc[p] = "idle")

\* Every step keeps to this order.
LEMMA AddressFirstStep == IInv /\ AddressFirst /\ [ItemsNext]_itemsVars => AddressFirst'
<1>. SUFFICES ASSUME IInv, AddressFirst, [ItemsNext]_itemsVars, config' = None PROVE AddressFirst'
  BY DEF AddressFirst
<1>1. IInv'
  BY ItemsStep, StepInv, OwnInv
<1>2. CASE phase' = "down"
  BY <1>1, <1>2, Distinct DEF IInv, DownIsBlank, AddressFirst
<1>3. CASE phase' # "down" /\ config # None
  BY <1>3 DEF ItemsNext, remember, getDatabaseStaticConfig, SecretRewritten, itemsVars, configVars
<1>4. CASE config = None /\ phase' # "down"
  <2>1. active = None /\ \A p \in Rotator : pc[p] # "probe" /\ (p # Boot => pc[p] = "idle")
    BY <1>4 DEF AddressFirst
  <2>2. ~exit
    BY <1>4 DEF exit
  <2>3. CASE UNCHANGED <<active, procVars>>
    BY <2>1, <2>3 DEF AddressFirst, procVars
  <2>4. CASE Start
    BY <2>1, <2>4, Distinct DEF Start, beginRotation, suspend, AddressFirst, IInv, TypeOK
  <2>5. ~onModuleDestroy
    BY <2>1 DEF onModuleDestroy, IInv, PoolInForceIsOpen
  <2>6. CASE StopDestroyed \/ StopRevoked \/ StopThrows \/ Kill
    BY <2>1, <2>2, <2>6, Distinct DEF StopDestroyed, stopDestroying, StopRevoked, StopThrows, Kill,
       managerVars, AddressFirst, IInv, TypeOK
  <2>7. ASSUME NEW p \in Rotator, rotate(p) PROVE AddressFirst'
    <3>1. p = Boot
      BY <2>1, <2>7 DEF rotate, fetchDatabaseCredential, createPool, createPoolRejects, FetchReturns,
         FetchThrows, FetchLosesAnswer, ConnectReturns, ConnectThrows, RotateCompletes, ProbeThrows
    <3>2. ~rotationFails(Boot, pool)
      BY <2>2, Distinct DEF rotationFails
    <3>3. FetchReturns(Boot) \/ FetchLosesAnswer(Boot)
      BY <1>4, <2>1, <2>7, <3>1, <3>2 DEF rotate, fetchDatabaseCredential, createPool,
         createPoolRejects, FetchThrows, RotateCompletes, ProbeThrows
    <3>4. /\ UNCHANGED active /\ pc'[Boot] # "probe"
          /\ \A q \in Proc : q # Boot => pc'[q] = pc[q]
      BY <2>1, <3>3, Distinct DEF FetchReturns, FetchLosesAnswer, suspend, managerVars, procVars, IInv, TypeOK
    <3>. QED BY <2>1, <3>4, Distinct DEF AddressFirst
  <2>8. ~\E r \in Request : getRepository(r) \/ HandlerDone(r)
    BY <2>1, Distinct DEF getRepository, HandlerDone
  <2>9. ASSUME NEW n \in Renewal, renewOrRotate(n) PROVE UNCHANGED <<active, procVars>>
    BY <2>1, <2>9, Distinct DEF renewOrRotate, renew, TimerFires, VaultRenews, RenewReturns,
       RenewThrows, RenewReturnsLate
  <2>10. ASSUME NEW l \in Lease, DrainFires(l) \/ disposePool(l) \/ safeRevoke(l)
         PROVE  UNCHANGED <<active, procVars>>
    BY <2>2, <2>10 DEF DrainFires, disposePool, DestroyReturns, DisposeThrows, safeRevoke,
       RevokeReturns, RetireThrows, managerVars
  <2>11. ASSUME \/ OutageBegins \/ OutageEnds \/ SecretRewritten \/ UNCHANGED itemsVars
                \/ \E p \in Rotator : getDatabaseStaticConfig(p)
         PROVE  UNCHANGED <<active, procVars>>
    BY <2>11 DEF OutageBegins, OutageEnds, SecretRewritten, getDatabaseStaticConfig, managerVars,
       vars, itemsVars
  <2>12. CASE Tick
    BY <2>1, <2>12 DEF Tick, AddressFirst
  <2>. QED BY <2>3, <2>4, <2>5, <2>6, <2>7, <2>8, <2>9, <2>10, <2>11, <2>12 DEF ItemsNext
<1>. QED BY <1>2, <1>3, <1>4

\* The steps of its own leave a punctual renewal punctual: while calls are
\* answered, only a startup fails for want of an address.
LEMMA OwnPunctual ==
    ASSUME IInv, AddressFirst, Punctual, Answered, OwnStep
    PROVE  Punctual'
<1>1. CASE exit
  BY <1>1, PunctualExit
<1>2. ASSUME NEW n \in Renewal, RenewReturnsLate(n) PROVE Punctual'
  <2>1. /\ active = None /\ UNCHANGED <<active, ttl>> /\ pc'[n] = "idle"
        /\ \A q \in Proc : q # n => pc'[q] = pc[q] /\ subject'[q] = subject[q]
    BY <1>2, Distinct DEF RenewReturnsLate, finish, suspend, IInv, TypeOK
  <2>. QED BY <2>1, Distinct DEF Punctual, NewLease
<1>3. ASSUME NEW p \in Rotator, noStaticConfig, createPoolRejects(p) PROVE exit
  <2>1. p = Boot
    BY <1>3 DEF noStaticConfig, createPoolRejects, AddressFirst
  <2>. QED BY <1>3, <2>1, Distinct DEF createPoolRejects, rotationFails
<1>4. \A l \in Lease : ~DisposeThrows(l) /\ ~StopThrows
  BY DEF DisposeThrows, StopThrows, Answered
<1>. QED BY <1>1, <1>2, <1>3, <1>4 DEF OwnStep, StopThrows, Answered

\* The address is known before there is a pool, in every reachable state.
THEOREM AddressComesFirst == ItemsSpec => []AddressFirst
<1>1. ItemsInit => AddressFirst
  BY Distinct DEF ItemsInit, Init, Blank, AddressFirst
<1>. QED BY <1>1, AddressFirstStep, ItemsInvariance, PTL DEF ItemsSpec

\* The lease in force of the older application does not end either while Vault
\* and Postgres answer.
THEOREM ItemsLeaseNeverLapses == ASSUME Prudent PROVE ItemsSpec => NeverLapses
<1>1. ItemsInit => Punctual
  BY PunctualInit DEF ItemsInit
<1>2. Prudent /\ IInv /\ AddressFirst /\ Punctual /\ Answered /\ [ItemsNext]_itemsVars => Punctual'
  BY ItemsStep, PunctualStep, OwnPunctual
<1>. QED BY <1>1, <1>2, PunctualLives, ItemsInvariance, AddressComesFirst, PTL
         DEF ItemsSpec, NeverLapses
=============================================================================
