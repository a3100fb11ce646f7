----------------------------- MODULE MongoProofs ------------------------------
(***************************************************************************)
(* The Mongo manager, with any constants: enabled it takes only steps of   *)
(* the connection manager, so that its invariant and its refinement hold;  *)
(* disabled it never gets beyond the state it starts in.                   *)
(***************************************************************************)
EXTENDS MongoConnectionManager, TimingProofs

\* Nothing is opened, armed, awaited or leased.
Untouched ==
    /\ active = None /\ rotating = FALSE
    /\ \A p \in Proc : pc[p] = "idle"
    /\ \A t \in Timer : due[t] = Off
    /\ pool = [l \in Lease |-> "none"]
    /\ \A l \in Lease : ttl[l] = 0

MongoInv ==
    /\ enabled \in BOOLEAN
    /\ enabled => IInv
    /\ ~enabled => Untouched

\* Both hold before the first start.
LEMMA MongoInitInv == MongoInit => MongoInv
<1>1. Init => Untouched
  BY DEF Init, Blank, NoLeases, Untouched
<1>. QED BY <1>1, InitInv DEF MongoInit, MongoInv

\* An enabled manager is the connection manager.
LEMMA EnabledStep ==
    ASSUME enabled, [MongoNext]_mongoVars
    PROVE  [Next]_vars
BY DEF MongoNext, mongoVars, MongoStart, MongoDestroy, rotate, fetch, connect, collection,
       renewOrRotate, renew, drain, revoke, Next, RotateStep, RenewalStep, DrainStep

\* Without Mongo nothing can begin: startup skips it, collection() throws, and no
\* timer, pool or activation is there to go on.
LEMMA DisabledStep ==
    ASSUME ~enabled, Untouched, [MongoNext]_mongoVars
    PROVE  Untouched' /\ UNCHANGED <<active, pool>>
<1>1. CASE MongoStart \/ OutageBegins \/ OutageEnds \/ UNCHANGED mongoVars
  BY <1>1 DEF MongoStart, StartDisabled, OutageBegins, OutageEnds, mongoVars, vars,
              managerVars, procVars, poolVars, Untouched
<1>2. CASE Kill
  BY <1>2 DEF Kill, exit, Untouched
<1>3. CASE Tick
  BY <1>3 DEF Tick, elapseLeases, CountDown, Off, Untouched
<1>4. CASE MongoDestroy \/ StopStep
  BY <1>4 DEF MongoDestroy, StopStep, StopDestroyed, StopDestroyThrows, stopDestroying, StopRevoked,
     Untouched, Proc
<1>5. CASE \E p \in Rotator : rotate(p)
  BY <1>5 DEF rotate, fetch, connect, FetchReturns, FetchThrows, FetchLosesAnswer,
              ConnectReturns, ConnectThrows, ProbeThrows, RotateCompletes, Untouched, Proc
<1>6. CASE \E r \in Request : collection(r) \/ HandlerDone(r)
  BY <1>6, Distinct DEF collection, HandlerDone, Untouched
<1>7. CASE \E n \in Renewal : renewOrRotate(n)
  BY <1>7, Distinct DEF renewOrRotate, renew, TimerFires, VaultRenews, RenewReturns, RenewThrows,
                        Off, Untouched
<1>8. CASE \E l \in Lease : drain(l)
  BY <1>8 DEF drain, revoke, DrainFires, DestroyReturns, RevokeReturns, RetireThrows, Retired,
              Untouched
<1>. QED BY <1>1, <1>2, <1>3, <1>4, <1>5, <1>6, <1>7, <1>8 DEF MongoNext

\* Every step preserves the invariant.
LEMMA MongoStepInv == MongoInv /\ [MongoNext]_mongoVars => MongoInv'
<1>. SUFFICES ASSUME MongoInv, [MongoNext]_mongoVars PROVE MongoInv'
  OBVIOUS
<1>1. enabled' = enabled
  BY DEF MongoNext, mongoVars
<1>2. CASE enabled
  BY <1>1, <1>2, EnabledStep, StepInv DEF MongoInv
<1>3. CASE ~enabled
  BY <1>1, <1>3, DisabledStep DEF MongoInv
<1>. QED BY <1>2, <1>3

\* The invariant holds in every reachable state.
THEOREM MongoInvariance == MongoSpec => []MongoInv
BY MongoInitInv, MongoStepInv, PTL DEF MongoSpec

\* One rotation at a time, enabled or not; an enabled service that is ready has a
\* client in force, which is open (a disabled one is ready without).
THEOREM MongoRotationsExclude ==
    MongoSpec => [](OneRotation /\ (enabled => PoolInForceIsOpen))
<1>1. IInv => OneRotation /\ PoolInForceIsOpen
  BY DEF IInv
<1>2. ASSUME Untouched PROVE OneRotation
  <2>1. Rotating = {}
    BY <1>2, Distinct DEF Untouched, Rotating, InRotation, Proc
  <2>. QED BY <1>2, <2>1 DEF Untouched, OneRotation
<1>3. MongoInv => OneRotation /\ (enabled => PoolInForceIsOpen)
  BY <1>1, <1>2 DEF MongoInv
<1>. QED BY <1>3, MongoInvariance, PTL

\* No client that has served is forgotten; a disabled service never has one.
THEOREM MongoServedIsRetired == MongoSpec => ServedPoolIsRetired
<1>1. ASSUME MongoInv, [MongoNext]_mongoVars
      PROVE  [\A l \in Lease : l = active /\ l # active' =>
                 pool'[l] \in {"draining", "closing"} \/ phase' = "down"]_vars
  <2>1. CASE enabled
    BY <1>1, <2>1, EnabledStep, StepRetires, Distinct DEF MongoInv
  <2>2. CASE ~enabled
    BY <1>1, <2>2, Distinct DEF MongoInv, Untouched
  <2>. QED BY <2>1, <2>2
<1>. QED BY <1>1, MongoInvariance, PTL DEF MongoSpec, ServedPoolIsRetired

\* The Mongo manager keeps to the life cycle of pools.
THEOREM MongoKeepsLifecycle == MongoSpec => ImplementsLifecycle
<1>1. MongoInit => Lifecycle!Init
  BY DEF MongoInit, Init, Blank, Lifecycle!Init
<1>2. MongoInv /\ [MongoNext]_mongoVars => LifecycleStep
  <2>1. IInv /\ [Next]_vars => LifecycleStep
    BY RotateRefines, DrainRefines, ProcessRefines, OthersRefine DEF Next
  <2>2. ~enabled /\ Untouched /\ [MongoNext]_mongoVars => LifecycleStep
    BY DisabledStep DEF LifecycleStep
  <2>. QED BY <2>1, <2>2, EnabledStep DEF MongoInv
<1>. QED BY <1>1, <1>2, MongoInvariance, PTL
         DEF MongoSpec, ImplementsLifecycle, Lifecycle!Spec, LifecycleStep

\* The drains of clients stay ahead of their uses.
LEMMA MongoHeld == MongoSpec => []HeldInv
<1>1. MongoInit => HeldInv
  BY HeldInit DEF MongoInit
<1>2. MongoInv /\ HeldInv /\ [MongoNext]_mongoVars => HeldInv'
  <2>1. Untouched' => HeldInv'
    BY Distinct DEF Untouched, HeldInv, Young, HeldApart, HeldLonger
  <2>. QED BY <2>1, EnabledStep, DisabledStep, HeldStep DEF MongoInv
<1>. QED BY <1>1, <1>2, MongoInvariance, PTL DEF MongoSpec

\* A superseded client is closed only after every handler is done with it.
THEOREM MongoDrainOutlastsUse == MongoSpec => []HeldPoolIsNotDestroyed
BY MongoHeld, HeldIsOpen, PTL

\* A Mongo credential is revoked only when nothing uses it, and unless the
\* shutdown fails to close its client, only when that is closed.
THEOREM MongoRevocation == MongoSpec => RevokedWhenUnused
<1>1. ASSUME MongoInv, HeldInv, [MongoNext]_mongoVars
      PROVE  \A l \in Lease : Live(l) /\ ttl'[l] = 0 /\ ~RevokeByHand /\ ~Tick =>
                 /\ Unused(l)
                 /\ pool[l] = "revoking" \/ (pool[l] = "lost" /\ subject[Stop] = l)
  <2>1. CASE enabled
    BY <1>1, <2>1, EnabledStep, RevocationStep DEF MongoInv, Disposed
  <2>2. CASE ~enabled
    BY <1>1, <2>2 DEF MongoInv, Untouched, Live
  <2>. QED BY <2>1, <2>2
<1>. QED BY <1>1, MongoHeld, MongoInvariance, PTL DEF MongoSpec, RevokedWhenUnused

\* While Vault and Mongo answer, the lease of the client in force does not end:
\* also with the default of the threshold, the whole TTL, by which every renewal
\* is followed by a rotation.
THEOREM MongoLeaseNeverLapses == ASSUME Prudent PROVE MongoSpec => NeverLapses
<1>1. MongoInit => Punctual
  BY PunctualInit DEF MongoInit
<1>2. Prudent /\ MongoInv /\ Punctual /\ Answered /\ [MongoNext]_mongoVars => Punctual'
  <2>1. MongoInv /\ [MongoNext]_mongoVars => MongoInv'
    BY MongoStepInv
  <2>2. enabled /\ MongoInv /\ [MongoNext]_mongoVars => IInv /\ [Next]_vars
    BY EnabledStep DEF MongoInv
  <2>3. Untouched' => Punctual'
    BY Distinct DEF Untouched, Punctual, NewLease
  <2>4. MongoInv /\ ~enabled /\ [MongoNext]_mongoVars => Untouched'
    BY DisabledStep DEF MongoInv
  <2>5. MongoInv => enabled \in BOOLEAN
    BY DEF MongoInv
  <2>. QED BY <2>2, <2>3, <2>4, <2>5, PunctualStep
<1>. QED BY <1>1, <1>2, PunctualLives, MongoInvariance, PTL DEF MongoSpec, NeverLapses
=============================================================================
