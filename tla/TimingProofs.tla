----------------------------- MODULE TimingProofs -----------------------------
(***************************************************************************)
(* What the connection manager owes to its delays, whatever they are: a    *)
(* drain outlasts every use of its pool, and a renewal comes before the    *)
(* lease in force ends as long as Vault and Postgres answer.               *)
(***************************************************************************)
EXTENDS ConnectionManagerProofs

-----------------------------------------------------------------------------
(* Held pools.  HeldPoolIsNotDestroyed depends on time: the drain began no *)
(* earlier than the handler's use of the pool, and takes longer.           *)

\* Handlers and rotations by them come after startup, and Boot's before.
Young ==
    /\ phase \in {"down", "starting"} => \A r \in Request : pc[r] = "idle"
    /\ pc[Boot] # "idle" => phase = "starting"

\* A pool in use is not the one that a rotation is opening.
HeldApart ==
    \A r \in Request, p \in Rotator :
        pc[r] = "using" /\ pc[p] \in {"connect", "probe"} => subject[r] # subject[p]

\* What is left of its use is less than what is left of its drain.
HeldLonger ==
    \A r \in Request : phase = "ready" /\ pc[r] = "using" =>
        /\ subject[r] \in Lease
        /\ pool[subject[r]] \in {"open", "draining"}
        /\ pool[subject[r]] = "draining" => holdLeft[r] < drainLeft[subject[r]]

HeldInv == Young /\ HeldApart /\ HeldLonger

\* A step that neither serves nor touches a pool in use keeps it.
LEMMA HeldKept ==
    ASSUME HeldInv, phase' = "ready" => phase = "ready",
           \A r \in Request : pc'[r] = "using" =>
               pc[r] = "using" /\ subject'[r] = subject[r] /\ holdLeft'[r] = holdLeft[r],
           \A r \in Request : phase = "ready" /\ pc[r] = "using" =>
               pool'[subject[r]] = pool[subject[r]] /\ drainLeft'[subject[r]] = drainLeft[subject[r]]
    PROVE  HeldLonger'
BY DEF HeldInv, HeldLonger

\* Before the first start nobody holds a pool.
LEMMA HeldInit == Init => HeldInv
BY Distinct DEF Init, Blank, HeldInv, Young, HeldApart, HeldLonger

\* Nor after an exit.
LEMMA HeldExit == ASSUME exit PROVE HeldInv'
BY Distinct DEF exit, HeldInv, Young, HeldApart, HeldLonger

\* A failed rotation takes no pool but the one it was opening.
LEMMA HeldFailure ==
    ASSUME IInv, HeldInv, NEW p \in Rotator, NEW pools, rotationFails(p, pools),
           \/ pc[p] \in {"fetch", "connect"} /\ pools = pool
           \/ pc[p] = "probe" /\ pools = [pool EXCEPT ![subject[p]] = "lost"]
    PROVE  HeldInv'
<1>1. CASE exit
  BY <1>1, HeldExit
<1>2. CASE /\ finish(p) \/ beginRotation(p, "renew-failure")
           /\ pool' = pools /\ UNCHANGED <<phase, drainLeft>> /\ p # Boot
  <2>1. \A q \in Proc : /\ q # p => pc'[q] = pc[q] /\ subject'[q] = subject[q]
                                    /\ holdLeft'[q] = holdLeft[q]
                        /\ q = p => pc'[q] \in {"idle", "fetch"}
    BY <1>2, Distinct DEF IInv, TypeOK, finish, beginRotation, suspend
  <2>2. Young'
    BY <1>2, <2>1, Distinct DEF HeldInv, Young, rotationFails, finish, suspend
  <2>3. HeldApart'
    BY <2>1, Distinct DEF HeldInv, HeldApart
  <2>4. \A r \in Request : phase = "ready" /\ pc[r] = "using" =>
               pool'[subject[r]] = pool[subject[r]] /\ drainLeft'[subject[r]] = drainLeft[subject[r]]
    BY <1>2 DEF IInv, TypeOK, HeldInv, HeldApart, HeldLonger
  <2>5. HeldLonger'
    BY <1>2, <2>1, <2>4, HeldKept, Distinct
  <2>. QED BY <2>2, <2>3, <2>5 DEF HeldInv
<1>. QED BY <1>1, <1>2, Distinct DEF rotationFails

\* The lease that Vault issues is not that of a pool in use.
LEMMA HeldIssue ==
    ASSUME IInv, HeldInv, NEW l \in Lease, VaultIssues(l), UNCHANGED <<phase, drainLeft>>,
           \A r \in Request : pc'[r] = "using" =>
               pc[r] = "using" /\ subject'[r] = subject[r] /\ holdLeft'[r] = holdLeft[r]
    PROVE  HeldLonger'
<1>1. \A r \in Request : phase = "ready" /\ pc[r] = "using" =>
          pool'[subject[r]] = pool[subject[r]] /\ drainLeft'[subject[r]] = drainLeft[subject[r]]
  BY Distinct DEF VaultIssues, Free, IInv, TypeOK, HeldInv, HeldLonger
<1>. QED BY <1>1, HeldKept

\* Every await of rotate(): when a rotation completes, the pools in use are the
\* new one or the one whose drain begins.
LEMMA HeldRotate ==
    ASSUME IInv, HeldInv, NEW p \in Rotator, RotateStep(p) \/ FetchLosesAnswer(p)
    PROVE  HeldInv'
<1>1. CASE FetchLosesAnswer(p)
  <2>1. PICK l \in Lease : VaultIssues(l)
    BY <1>1 DEF FetchLosesAnswer
  <2>2. UNCHANGED <<phase, procVars, drainLeft>>
    BY <1>1 DEF FetchLosesAnswer
  <2>3. Young' /\ HeldApart'
    BY <2>2 DEF procVars, HeldInv, Young, HeldApart
  <2>4. HeldLonger'
    BY <2>1, <2>2, HeldIssue DEF procVars
  <2>. QED BY <2>3, <2>4 DEF HeldInv
<1>2. CASE FetchReturns(p)
  <2>1. PICK l \in Lease : VaultIssues(l) /\ suspend(p, "connect", l, old[p], reason[p], 0, 0)
    BY <1>2 DEF FetchReturns
  <2>2. pc[p] = "fetch" /\ UNCHANGED <<phase, drainLeft>>
    BY <1>2 DEF FetchReturns
  <2>3. \A q \in Proc : /\ q # p => pc'[q] = pc[q] /\ subject'[q] = subject[q]
                                    /\ holdLeft'[q] = holdLeft[q]
                        /\ q = p => pc'[q] = "connect" /\ subject'[q] = l
    BY <2>1, Distinct DEF IInv, TypeOK, suspend
  <2>4. Young'
    BY <2>2, <2>3, Distinct DEF HeldInv, Young
  <2>5. HeldApart'
    BY <2>1, <2>3, Distinct DEF HeldInv, HeldApart, VaultIssues, Free
  <2>6. HeldLonger'
    BY <2>1, <2>2, <2>3, HeldIssue, Distinct
  <2>. QED BY <2>4, <2>5, <2>6 DEF HeldInv
<1>3. CASE ConnectReturns(p)
  <2>1. /\ pc[p] = "connect" /\ pc' = [pc EXCEPT ![p] = "probe"]
        /\ pool' = [pool EXCEPT ![subject[p]] = "open"]
        /\ UNCHANGED <<phase, subject, holdLeft, drainLeft>>
    BY <1>3 DEF ConnectReturns
  <2>2. \A q \in Proc : pc'[q] = IF q = p THEN "probe" ELSE pc[q]
    BY <2>1, Distinct DEF IInv, TypeOK
  <2>3. Young'
    BY <2>1, <2>2, Distinct DEF HeldInv, Young
  <2>4. HeldApart'
    BY <2>1, <2>2, Distinct DEF HeldInv, HeldApart
  <2>5. \A r \in Request : phase = "ready" /\ pc[r] = "using" =>
               pool'[subject[r]] = pool[subject[r]] /\ drainLeft'[subject[r]] = drainLeft[subject[r]]
    BY <2>1 DEF IInv, TypeOK, HeldInv, HeldApart, HeldLonger
  <2>6. HeldLonger'
    BY <2>1, <2>2, <2>5, HeldKept, Distinct
  <2>. QED BY <2>3, <2>4, <2>6 DEF HeldInv
<1>4. CASE FetchThrows(p) \/ ConnectThrows(p) \/ ProbeThrows(p)
  BY <1>4, HeldFailure DEF FetchThrows, ConnectThrows, ProbeThrows
<1>5. CASE RotateCompletes(p)
  <2>. DEFINE l == subject[p]
  <2>1. /\ pc[p] = "probe" /\ retire(old[p])
        /\ IF p \in Request THEN serve(p, l) ELSE finish(p)
        /\ phase' = IF p = Boot THEN "ready" ELSE phase
    BY <1>5 DEF RotateCompletes
  <2>2. l \in Lease /\ l # old[p] /\ pool[l] = "open"
    BY <2>1 DEF IInv, FreshPool
  <2>3. \A q \in Proc : q # p => pc'[q] = pc[q] /\ subject'[q] = subject[q]
                                 /\ holdLeft'[q] = holdLeft[q]
    BY <2>1, Distinct DEF IInv, TypeOK, serve, finish, suspend
  <2>4. IF p \in Request THEN pc'[p] = "using" /\ subject'[p] = l ELSE pc'[p] = "idle"
    BY <2>1, Distinct DEF IInv, TypeOK, serve, finish, suspend
  <2>5. \A q \in Rotator : pc[q] \in {"connect", "probe"} => q = p
    BY <2>1 DEF IInv, OneRotation, Rotating, InRotation
  <2>6. Young'
    BY <2>1, <2>3, <2>4, Distinct DEF HeldInv, Young
  <2>7. HeldApart'
    BY <2>3, <2>4, <2>5, Distinct DEF HeldApart
  <2>8. HeldLonger'
    <3>1. \A k \in Lease : \/ pool'[k] = pool[k] /\ drainLeft'[k] = drainLeft[k]
                           \/ /\ k = old[p] /\ pool'[k] = "draining"
                              /\ drainLeft'[k] = DrainDelay
      BY <2>1 DEF retire, poolVars, IInv, TypeOK
    <3>2. ASSUME NEW r \in Request, r # p, phase' = "ready", pc'[r] = "using"
          PROVE  /\ subject'[r] \in Lease
                 /\ pool'[subject'[r]] \in {"open", "draining"}
                 /\ pool'[subject'[r]] = "draining" => holdLeft'[r] < drainLeft'[subject'[r]]
      <4>1. phase = "ready" /\ pc[r] = "using" /\ subject'[r] = subject[r]
            /\ holdLeft'[r] = holdLeft[r]
        BY <2>1, <2>3, <3>2, Distinct DEF HeldInv, Young
      <4>2. holdLeft[r] < DrainDelay
        BY ManagerAssumption, Distinct DEF IInv, TypeOK
      <4>. QED BY <3>1, <4>1, <4>2 DEF HeldInv, HeldLonger
    <3>3. p \in Request => pool'[l] = "open"
      BY <2>2, <3>1
    <3>. QED BY <2>2, <2>4, <3>2, <3>3 DEF HeldLonger
  <2>. QED BY <2>6, <2>7, <2>8 DEF HeldInv
<1>. QED BY <1>1, <1>2, <1>3, <1>4, <1>5 DEF RotateStep

\* repo() serves the pool in force, which is open.
LEMMA HeldRequest ==
    ASSUME IInv, HeldInv, NEW r \in Request, RequestStep(r) \/ HandlerDone(r)
    PROVE  HeldInv'
<1>1. UNCHANGED <<phase, pool, drainLeft>>
  BY DEF RequestStep, RepoServes, RepoRotates, HandlerDone, poolVars
<1>2. \A q \in Proc : q # r => pc'[q] = pc[q] /\ subject'[q] = subject[q]
                               /\ holdLeft'[q] = holdLeft[q]
  BY Distinct DEF IInv, TypeOK, RequestStep, RepoServes, RepoRotates, HandlerDone, serve,
     finish, beginRotation, suspend
<1>3. \/ pc'[r] \in {"idle", "fetch"}
      \/ pc'[r] = "using" /\ subject'[r] = active /\ active # None
  BY Distinct DEF IInv, TypeOK, RequestStep, RepoServes, RepoRotates, HandlerDone, serve,
     finish, beginRotation, suspend
<1>4. phase \in {"down", "starting"} => pc'[r] = "idle"
  BY Distinct DEF IInv, TypeOK, RequestStep, RepoServes, RepoRotates, HandlerDone, finish, suspend
<1>5. Young'
  BY <1>1, <1>2, <1>4, Distinct DEF HeldInv, Young
<1>6. HeldApart'
  BY <1>2, <1>3, Distinct DEF IInv, FreshPool, HeldInv, HeldApart
<1>7. HeldLonger'
  BY <1>1, <1>2, <1>3, Distinct DEF IInv, TypeOK, PoolInForceIsOpen, HeldInv, HeldLonger
<1>. QED BY <1>5, <1>6, <1>7 DEF HeldInv

\* Renewals touch no pool.
LEMMA HeldRenewal ==
    ASSUME IInv, HeldInv, NEW n \in Renewal, RenewalStep(n)
    PROVE  HeldInv'
<1>1. UNCHANGED <<phase, pool, drainLeft>>
  BY DEF RenewalStep, TimerFires, VaultRenews, RenewReturns, RenewThrows, poolVars
<1>2. \A q \in Proc : /\ q # n => pc'[q] = pc[q] /\ subject'[q] = subject[q]
                                  /\ holdLeft'[q] = holdLeft[q]
                      /\ q = n => pc'[q] \notin {"connect", "probe"}
  BY Distinct DEF IInv, TypeOK, RenewalStep, TimerFires, VaultRenews, RenewReturns, RenewThrows,
     procVars, finish, beginRotation, suspend
<1>3. Young' /\ HeldApart'
  BY <1>1, <1>2, Distinct DEF HeldInv, Young, HeldApart
<1>4. HeldLonger'
  BY <1>1, <1>2, Distinct, HeldKept
<1>. QED BY <1>3, <1>4 DEF HeldInv

\* A drain that is over has outlasted every use of its pool.
LEMMA HeldDrain ==
    ASSUME IInv, HeldInv, NEW l \in Lease, DrainStep(l)
    PROVE  HeldInv'
<1>1. UNCHANGED <<phase, procVars, drainLeft>>
  BY DEF DrainStep, DrainFires, DestroyReturns, RevokeReturns, RetireThrows
<1>2. \A k \in Lease : k # l => pool'[k] = pool[k]
  BY DEF DrainStep, DrainFires, DestroyReturns, RevokeReturns, RetireThrows, IInv, TypeOK
<1>3. \/ pool[l] = "draining" /\ drainLeft[l] = 0
      \/ pool[l] \in {"closing", "revoking"}
  BY DEF DrainStep, DrainFires, DestroyReturns, RevokeReturns, RetireThrows, Retired
<1>4. \A r \in Request : phase = "ready" /\ pc[r] = "using" => subject[r] # l
  <2>. SUFFICES ASSUME NEW r \in Request, phase = "ready", pc[r] = "using", subject[r] = l
                PROVE  FALSE
    OBVIOUS
  <2>1. pool[l] = "draining" /\ holdLeft[r] < drainLeft[l]
    BY <1>3 DEF HeldInv, HeldLonger
  <2>2. holdLeft[r] \in Nat
    BY ManagerAssumption, Distinct DEF IInv, TypeOK
  <2>. QED BY <1>3, <2>1, <2>2
<1>5. Young' /\ HeldApart'
  BY <1>1 DEF HeldInv, Young, HeldApart, procVars
<1>6. HeldLonger'
  BY <1>1, <1>2, <1>4 DEF HeldInv, HeldLonger, procVars
<1>. QED BY <1>5, <1>6 DEF HeldInv

\* Time passes for the use of a pool and for its drain alike.
LEMMA HeldTick ==
    ASSUME IInv, HeldInv, Tick
    PROVE  HeldInv'
<1>1. /\ UNCHANGED <<phase, pc, subject, pool>>
      /\ drainLeft' = [l \in Lease |-> CountDown(drainLeft[l])]
      /\ holdLeft' = [p \in Proc |-> CountDown(holdLeft[p])]
  BY DEF Tick
<1>2. Young' /\ HeldApart'
  BY <1>1 DEF HeldInv, Young, HeldApart
<1>3. ASSUME NEW r \in Request, phase = "ready", pc[r] = "using",
             pool[subject[r]] = "draining"
      PROVE  holdLeft'[r] < drainLeft'[subject[r]]
  <2>1. subject[r] \in Lease /\ holdLeft[r] < drainLeft[subject[r]]
    BY <1>3 DEF HeldInv, HeldLonger
  <2>2. holdLeft[r] > 0 /\ drainLeft[subject[r]] > 0
    BY <1>3, <2>1 DEF Tick
  <2>3. holdLeft[r] \in Int /\ drainLeft[subject[r]] \in Int
    BY <2>1, ManagerAssumption, Distinct DEF IInv, TypeOK
  <2>4. /\ holdLeft'[r] = holdLeft[r] - 1
        /\ drainLeft'[subject[r]] = drainLeft[subject[r]] - 1
    BY <1>1, <2>1, <2>2, Distinct DEF CountDown
  <2>. QED BY <2>1, <2>3, <2>4
<1>4. HeldLonger'
  BY <1>1, <1>3 DEF HeldInv, HeldLonger
<1>. QED BY <1>2, <1>4 DEF HeldInv

\* The process and its surroundings.
LEMMA HeldOutside ==
    ASSUME IInv, HeldInv,
           \/ Start \/ onModuleDestroy \/ StopStep \/ Kill
           \/ OutageBegins \/ OutageEnds \/ RevokeByHand \/ UNCHANGED vars
    PROVE  HeldInv'
<1>1. CASE Kill \/ StopRevoked
  BY <1>1, HeldExit DEF Kill, StopRevoked
<1>2. CASE Start
  <2>1. /\ phase = "down" /\ phase' = "starting"
        /\ \A q \in Proc : pc'[q] = IF q = Boot THEN "fetch" ELSE pc[q]
    BY <1>2, Distinct DEF Start, beginRotation, suspend, IInv, TypeOK
  <2>2. \A r \in Request : pc'[r] = "idle"
    BY <2>1, Distinct DEF HeldInv, Young
  <2>. QED BY <2>1, <2>2 DEF HeldInv, Young, HeldApart, HeldLonger
<1>3. CASE onModuleDestroy
  <2>1. /\ phase = "ready" /\ phase' = "stopping"
        /\ \A q \in Proc : q # Stop => pc'[q] = pc[q] /\ subject'[q] = subject[q]
    BY <1>3, Distinct DEF onModuleDestroy, suspend, IInv, TypeOK
  <2>. QED BY <2>1, Distinct DEF HeldInv, Young, HeldApart, HeldLonger
<1>4. ASSUME NEW state, stopDestroying(state) PROVE HeldInv'
  <2>1. /\ pc[Stop] = "closing" /\ UNCHANGED <<phase, subject, holdLeft, drainLeft>>
        /\ pool' = [pool EXCEPT ![subject[Stop]] = state]
        /\ \A q \in Proc : q # Stop => pc'[q] = pc[q]
    BY <1>4, Distinct DEF stopDestroying, IInv, TypeOK
  <2>2. \A r \in Request : phase = "ready" /\ pc[r] = "using" => subject[r] # subject[Stop]
    BY <2>1 DEF IInv, StopApart, HeldInv, HeldLonger
  <2>3. \A r \in Request : phase = "ready" /\ pc[r] = "using" =>
               pool'[subject[r]] = pool[subject[r]] /\ drainLeft'[subject[r]] = drainLeft[subject[r]]
    BY <2>1, <2>2 DEF IInv, TypeOK, HeldInv, HeldLonger
  <2>4. Young' /\ HeldApart'
    BY <2>1, Distinct DEF HeldInv, Young, HeldApart
  <2>. QED BY <2>1, <2>3, <2>4, HeldKept, Distinct DEF HeldInv
<1>5. CASE OutageBegins \/ OutageEnds \/ RevokeByHand \/ UNCHANGED vars
  <2>1. UNCHANGED <<phase, procVars, poolVars>>
    BY <1>5 DEF OutageBegins, OutageEnds, RevokeByHand, vars
  <2>. QED BY <2>1 DEF HeldInv, Young, HeldApart, HeldLonger, procVars, poolVars
<1>. QED BY <1>1, <1>2, <1>3, <1>4, <1>5 DEF StopStep, StopDestroyed, StopDestroyThrows

\* Every step keeps the drains ahead of the uses.
LEMMA HeldStep == IInv /\ HeldInv /\ [Next]_vars => HeldInv'
BY HeldRotate, HeldRequest, HeldRenewal, HeldDrain, HeldTick, HeldOutside DEF Next

\* What is in use is then not being destroyed.
LEMMA HeldIsOpen == HeldInv => HeldPoolIsNotDestroyed
BY DEF HeldInv, HeldLonger, HeldPoolIsNotDestroyed

\* The drain outlasts every handler that has got its repository before.
THEOREM DrainOutlastsUse == Spec => []HeldPoolIsNotDestroyed
BY HeldInit, HeldStep, HeldIsOpen, Invariance, PTL DEF Spec

-----------------------------------------------------------------------------
(* Revocation.  Only three steps end a live lease, other than the clock:   *)
(* those of the drain, the shutdown and the operator.                      *)

\* Renewal leaves a lease with time, and issuing one does.
LEMMA ActivationsRevokeNothing ==
    ASSUME IInv, NEW p \in Proc, NEW l \in Lease,
           \/ RotateStep(p) \/ FetchLosesAnswer(p)
           \/ RequestStep(p) \/ HandlerDone(p)
           \/ RenewalStep(p),
           ttl'[l] = 0
    PROVE  ttl[l] = 0
<1>1. CASE UNCHANGED ttl
  BY <1>1
<1>2. ASSUME NEW k \in Lease, VaultIssues(k) PROVE ttl[l] = 0
  BY <1>2, VaultAssumption DEF VaultIssues, issueLease, IInv, TypeOK, LeaseTypeOK
<1>3. ASSUME NEW k, NEW d \in 1..DefaultTtl, extendLease(k, d) PROVE ttl[l] = 0
  BY <1>3 DEF extendLease, IInv, TypeOK, LeaseTypeOK
<1>4. CASE RotateStep(p) \/ FetchLosesAnswer(p)
  BY <1>1, <1>2, <1>4 DEF RotateStep, FetchReturns, FetchThrows, ConnectReturns,
     ConnectThrows, RotateCompletes, ProbeThrows, FetchLosesAnswer
<1>5. CASE RequestStep(p) \/ HandlerDone(p)
  BY <1>1, <1>5 DEF RequestStep, RepoServes, RepoRotates, HandlerDone
<1>6. CASE RenewalStep(p)
  BY <1>1, <1>3, <1>6 DEF RenewalStep, TimerFires, VaultRenews, RenewReturns, RenewThrows
<1>. QED BY <1>4, <1>5, <1>6

\* The pool is destroyed, or is the one that the shutdown failed to destroy.
Disposed(l) == pool[l] = "revoking" \/ (pool[l] = "lost" /\ subject[Stop] = l)

\* Whoever revokes has disposed of the pool: the drain by its own stages, the
\* shutdown because nobody else moves the pool it closes (StopApart).
LEMMA RevokersHaveDisposed ==
    ASSUME IInv, NEW l \in Lease, Live(l), ttl'[l] = 0,
           \/ \E k \in Lease : DrainStep(k)
           \/ Start \/ onModuleDestroy \/ StopStep \/ Kill
    PROVE  Disposed(l)
<1>1. CASE UNCHANGED ttl
  BY <1>1 DEF Live
<1>2. ASSUME NEW k \in Lease, endLease(k), Disposed(k) PROVE Disposed(l)
  BY <1>2 DEF endLease, Live, IInv, TypeOK, LeaseTypeOK
<1>3. CASE \E k \in Lease : DrainStep(k)
  BY <1>1, <1>2, <1>3 DEF DrainStep, DrainFires, DestroyReturns, RevokeReturns, RetireThrows, Disposed
<1>4. CASE StopRevoked
  BY <1>1, <1>2, <1>4 DEF StopRevoked, IInv, StopApart, Disposed
<1>5. CASE Start \/ onModuleDestroy \/ StopDestroyed \/ StopDestroyThrows \/ Kill
  BY <1>1, <1>5 DEF Start, onModuleDestroy, StopDestroyed, StopDestroyThrows, stopDestroying, Kill
<1>. QED BY <1>3, <1>4, <1>5 DEF StopStep

\* A pool that is disposed of is not in force, is not being opened, and has been
\* outlived by no handler.
LEMMA DisposedIsUnused ==
    ASSUME IInv, HeldInv, NEW l \in Lease, Disposed(l)
    PROVE  Unused(l)
<1>1. l # active
  BY Distinct DEF Disposed, IInv, PoolInForceIsOpen
<1>2. \A p \in Rotator : pc[p] \in {"connect", "probe"} => l # subject[p]
  BY DEF Disposed, IInv, FreshPool
<1>3. phase = "ready" => \A r \in Request : pc[r] = "using" => l # subject[r]
  BY DEF Disposed, HeldInv, HeldLonger
<1>. QED BY <1>1, <1>2, <1>3 DEF Unused

\* No step but theirs ends a live lease.
LEMMA RevocationStep ==
    ASSUME IInv, HeldInv, [Next]_vars, NEW l \in Lease,
           Live(l), ttl'[l] = 0, ~RevokeByHand, ~Tick
    PROVE  Unused(l) /\ Disposed(l)
<1>1. CASE UNCHANGED vars \/ OutageBegins \/ OutageEnds
  BY <1>1 DEF vars, OutageBegins, OutageEnds, Live
<1>2. CASE \/ \E k \in Lease : DrainStep(k)
           \/ Start \/ onModuleDestroy \/ StopStep \/ Kill
  BY <1>2, RevokersHaveDisposed, DisposedIsUnused
<1>3. CASE \/ \E p \in Rotator : RotateStep(p) \/ FetchLosesAnswer(p)
           \/ \E r \in Request : RequestStep(r) \/ HandlerDone(r)
           \/ \E n \in Renewal : RenewalStep(n)
  BY <1>3, ActivationsRevokeNothing, Distinct DEF Live
<1>. QED BY <1>1, <1>2, <1>3 DEF Next

\* The process revokes no lease that a handler, a rotation or the pool in force
\* still uses, and, but for a shutdown whose destroy fails, none whose pool is open.
THEOREM RevocationWhenUnused == Spec => RevokedWhenUnused
<1>1. ASSUME IInv, HeldInv, [Next]_vars
      PROVE  \A l \in Lease : Live(l) /\ ttl'[l] = 0 /\ ~RevokeByHand /\ ~Tick =>
                 /\ Unused(l)
                 /\ pool[l] = "revoking" \/ (pool[l] = "lost" /\ subject[Stop] = l)
  BY <1>1, RevocationStep DEF Disposed
<1>. QED BY <1>1, HeldInit, HeldStep, Invariance, PTL DEF Spec, RevokedWhenUnused

-----------------------------------------------------------------------------
(* Punctual renewals.  While every call is answered, a lease in force does  *)
(* not end before it is renewed or replaced: time waits for calls under    *)
(* way, and otherwise this.timer is armed to fire before the lease ends.   *)

\* What NeverLapses needs of the constants: a lease that is worth renewing lasts
\* longer than the least delay of a renewal, which is a second; and the
\* activations of renewOrRotate() are not bounded to none.
Prudent ==
    /\ RotateBefore >= 1 /\ DefaultTtl >= 2
    /\ Renewal # {}
    /\ ~OperatorRevokes

\* n waits for Vault to renew a lease.
Awaits(n) == pc[n] \in {"renewing", "granted"}

\* A lease that is being opened is new.
NewLease == \A p \in Rotator : pc[p] \in {"connect", "probe"} => ttl[subject[p]] = DefaultTtl

\* The lease in force is alive, and something will act before it ends.
Ahead ==
    /\ ttl[active] > 0
    /\ \/ rotating
       \/ due[timer] \in 0..(ttl[active] - 1)
       \/ \E n \in Renewal : Awaits(n) /\ subject[n] = active

\* The answers still to come do no harm: one for the lease in force is not
\* longer than what is left of it; one for an earlier lease arms the timer anew by
\* the duration of the present one, and that is left of it in full.
LateAnswers ==
    \A n \in Renewal :
        /\ pc[n] = "granted" /\ subject[n] = active => grant[n] <= ttl[active]
        /\ Awaits(n) /\ subject[n] # active =>
             duration <= ttl[active] /\ (rotating \/ duration >= 2)

Punctual ==
    /\ \A n \in Renewal : pc[n] # "using"
    /\ NewLease
    /\ phase = "ready" /\ active # None => Ahead /\ LateAnswers

\* A renewal of two seconds and more is scheduled before they are over.
LEMMA RenewsBeforeEnd ==
    ASSUME NEW d \in 2..DefaultTtl
    PROVE  RenewDelay(d) \in 1..(d - 1)
<1>. DEFINE share == (d * 6) \div 10
<1>1. share \in Nat /\ share <= d - 1
  BY VaultAssumption
<1>2. RenewDelay(d) = IF share > 1 THEN share ELSE 1
  BY DEF RenewDelay
<1>3. d \in Nat /\ d >= 2
  BY VaultAssumption
<1>. HIDE DEF share
<1>. QED BY <1>1, <1>2, <1>3

\* Before the first start there is no lease in force.
LEMMA PunctualInit == Init => Punctual
BY Distinct DEF Init, Blank, Punctual, NewLease

\* Nor is there one of a process that is gone.
LEMMA PunctualExit == ASSUME exit PROVE Punctual'
BY Distinct DEF exit, Punctual, NewLease

\* A step of handlers or of the surroundings, which leaves renewals and the lease
\* in force alone.
LEMMA PunctualKept ==
    ASSUME Punctual, phase' = "ready" /\ active' # None => phase = "ready",
           UNCHANGED <<active, duration, timer, due>>,
           rotating => rotating',
           \A n \in Renewal : /\ Awaits(n)' => Awaits(n)
                              /\ Awaits(n) => pc'[n] = pc[n] /\ subject'[n] = subject[n]
                                                           /\ grant'[n] = grant[n],
           \A n \in Renewal : pc'[n] # "using",
           phase = "ready" /\ active # None => ttl'[active] = ttl[active],
           NewLease'
    PROVE  Punctual'
<1>1. ASSUME phase' = "ready" /\ active' # None PROVE Ahead' /\ LateAnswers'
  <2>1. Ahead /\ LateAnswers /\ ttl'[active] = ttl[active]
    BY <1>1 DEF Punctual
  <2>2. Ahead'
    BY <2>1 DEF Ahead, Awaits
  <2>3. LateAnswers'
    BY <2>1 DEF LateAnswers, Awaits
  <2>. QED BY <2>2, <2>3
<1>. QED BY <1>1 DEF Punctual

\* While every call is answered no step of a rotation fails: FetchThrows needs an
\* outage, and a lease just issued is alive.
LEMMA RotationSucceeds ==
    ASSUME TypeOK, Punctual, Answered, NEW p \in Rotator, RotateStep(p) \/ FetchLosesAnswer(p)
    PROVE  FetchReturns(p) \/ ConnectReturns(p) \/ RotateCompletes(p)
<1>1. ~outage /\ DefaultTtl > 0
  BY VaultAssumption DEF Answered
<1>2. pc[p] \in {"connect", "probe"} => Live(subject[p])
  BY <1>1 DEF Punctual, NewLease, Live
<1>. QED BY <1>1, <1>2 DEF RotateStep, FetchThrows, FetchLosesAnswer, ConnectThrows, ProbeThrows,
              MayFail

\* A rotation that succeeds puts a new lease in force and schedules its renewal.
LEMMA PunctualRotate ==
    ASSUME IInv, Punctual, Answered, Prudent, NEW p \in Rotator,
           RotateStep(p) \/ FetchLosesAnswer(p)
    PROVE  Punctual'
<1>0. TypeOK /\ p \in Proc /\ (rotating <=> Rotating # {})
  BY Distinct DEF IInv, OneRotation
<1>1. CASE FetchReturns(p)
  <2>1. PICK l \in Lease : VaultIssues(l) /\ suspend(p, "connect", l, old[p], reason[p], 0, 0)
    BY <1>1 DEF FetchReturns
  <2>2. ttl'[l] = DefaultTtl /\ \A k \in Lease : k # l => ttl'[k] = ttl[k]
    BY <1>0, <2>1 DEF VaultIssues, issueLease, TypeOK, LeaseTypeOK
  <2>3. /\ pc[p] = "fetch" /\ pc'[p] = "connect" /\ subject'[p] = l
        /\ \A q \in Proc : q # p => pc'[q] = pc[q] /\ subject'[q] = subject[q] /\ grant'[q] = grant[q]
    BY <1>0, <1>1, <2>1 DEF FetchReturns, suspend, TypeOK
  <2>4. NewLease'
    BY <2>2, <2>3, Distinct DEF Punctual, NewLease, IInv, FreshPool
  <2>5. active # None => ttl'[active] = ttl[active]
    BY <1>0, <2>1, <2>2 DEF VaultIssues, Free, TypeOK
  <2>. QED BY <1>1, <2>3, <2>4, <2>5, Distinct, PunctualKept
           DEF FetchReturns, managerVars, Awaits, Punctual
<1>2. CASE ConnectReturns(p)
  <2>1. /\ pc[p] = "connect" /\ pc'[p] = "probe"
        /\ \A q \in Proc : q # p => pc'[q] = pc[q]
        /\ UNCHANGED <<phase, managerVars, subject, grant, ttl>>
    BY <1>0, <1>2 DEF ConnectReturns, TypeOK
  <2>2. NewLease'
    BY <2>1, Distinct DEF Punctual, NewLease
  <2>. QED BY <2>1, <2>2, Distinct, PunctualKept DEF managerVars, Awaits, Punctual
<1>3. CASE RotateCompletes(p)
  <2>1. /\ pc[p] = "probe" /\ active' = subject[p] /\ duration' = DefaultTtl
        /\ due' = [due EXCEPT ![timer] = RenewDelay(DefaultTtl)] /\ UNCHANGED <<timer, ttl>>
    BY <1>3 DEF RotateCompletes, scheduleRenew
  <2>2. /\ pc'[p] = "idle" \/ (p \in Request /\ pc'[p] = "using")
        /\ \A q \in Proc : q # p => pc'[q] = pc[q] /\ subject'[q] = subject[q] /\ grant'[q] = grant[q]
    BY <1>0, <1>3 DEF RotateCompletes, serve, finish, suspend, TypeOK
  <2>3. ttl'[active'] = DefaultTtl
    BY <2>1 DEF Punctual, NewLease
  <2>4. \A n \in Renewal : pc'[n] # "using"
    BY <2>2, Distinct DEF Punctual
  <2>5. NewLease'
    BY <2>1, <2>2, Distinct DEF Punctual, NewLease
  <2>6. due'[timer'] \in 0..(ttl'[active'] - 1)
    <3>1. DefaultTtl \in 2..DefaultTtl
      BY VaultAssumption DEF Prudent
    <3>2. RenewDelay(DefaultTtl) \in 1..(DefaultTtl - 1)
      BY <3>1, RenewsBeforeEnd
    <3>3. due'[timer'] = RenewDelay(DefaultTtl)
      BY <1>0, <2>1 DEF TypeOK
    <3>4. RenewDelay(DefaultTtl) \in 0..(DefaultTtl - 1)
      BY <3>2, VaultAssumption
    <3>. QED BY <2>3, <3>3, <3>4
  <2>7. Ahead'
    <3>1. DefaultTtl > 0
      BY VaultAssumption
    <3>2. ttl'[active'] > 0
      BY <2>3, <3>1
    <3>. QED BY <2>6, <3>2 DEF Ahead
  <2>8. LateAnswers'
    <3>. SUFFICES ASSUME NEW n \in Renewal, Awaits(n)' PROVE grant'[n] <= DefaultTtl
      BY <2>1, <2>3, VaultAssumption DEF LateAnswers, Prudent, Awaits
    <3>1. grant'[n] = grant[n] /\ grant[n] \in 0..DefaultTtl
      BY <1>0, <2>2, Distinct DEF Awaits, TypeOK
    <3>. QED BY <3>1, VaultAssumption
  <2>. QED BY <2>4, <2>5, <2>7, <2>8 DEF Punctual
<1>. QED BY <1>0, <1>1, <1>2, <1>3, RotationSucceeds

\* repo() starts a rotation or none, and disturbs nothing else.
LEMMA PunctualRequest ==
    ASSUME IInv, Punctual, NEW r \in Request, RequestStep(r) \/ HandlerDone(r)
    PROVE  Punctual'
<1>1. /\ UNCHANGED <<phase, active, duration, timer, due, ttl>> /\ (rotating => rotating')
      /\ pc'[r] \in {"idle", "using", "fetch"}
      /\ \A q \in Proc : q # r => pc'[q] = pc[q] /\ subject'[q] = subject[q] /\ grant'[q] = grant[q]
  BY Distinct DEF IInv, TypeOK, RequestStep, RepoServes, RepoRotates, HandlerDone, serve, finish,
     beginRotation, suspend, managerVars
<1>2. NewLease'
  BY <1>1, Distinct DEF Punctual, NewLease
<1>. QED BY <1>1, <1>2, Distinct, PunctualKept DEF Awaits, Punctual

\* The lease that is revoked is neither in force nor being opened.
LEMMA PunctualDrain ==
    ASSUME IInv, Punctual, NEW l \in Lease, DrainStep(l)
    PROVE  Punctual'
<1>1. UNCHANGED <<phase, managerVars, procVars>>
  BY DEF DrainStep, DrainFires, DestroyReturns, RevokeReturns, RetireThrows
<1>2. CASE UNCHANGED ttl
  BY <1>1, <1>2, PunctualKept DEF managerVars, procVars, Awaits, Punctual, NewLease
<1>3. CASE pool[l] = "revoking" /\ endLease(l)
  <2>1. \A k \in Lease : k # l => ttl'[k] = ttl[k]
    BY <1>3 DEF endLease, IInv, TypeOK, LeaseTypeOK
  <2>2. active # None => ttl'[active] = ttl[active]
    BY <1>3, <2>1 DEF IInv, PoolInForceIsOpen, TypeOK
  <2>3. NewLease'
    BY <1>1, <1>3, <2>1 DEF Punctual, NewLease, IInv, FreshPool, procVars
  <2>. QED BY <1>1, <2>2, <2>3, PunctualKept DEF managerVars, procVars, Awaits, Punctual
<1>. QED BY <1>2, <1>3 DEF DrainStep, DrainFires, DestroyReturns, RevokeReturns, RetireThrows

\* What arms the timer anew in time, or starts a rotation, keeps the lease in
\* force whatever became of the renewal.
LEMMA PunctualAfterRenewal ==
    ASSUME IInv, Punctual, Prudent, NEW n \in Renewal,
           UNCHANGED <<phase, active, timer, ttl>>, rotating => rotating',
           duration' = duration \/ (duration' <= ttl[active] /\ (rotating' \/ duration' >= 2)),
           pc'[n] \in {"idle", "fetch"},
           \A q \in Proc : q # n => pc'[q] = pc[q] /\ subject'[q] = subject[q] /\ grant'[q] = grant[q],
           phase = "ready" /\ active # None => rotating' \/ due'[timer] \in 0..(ttl[active] - 1)
    PROVE  Punctual'
<1>1. \A q \in Renewal : pc'[q] # "using"
  BY Distinct DEF Punctual
<1>2. NewLease'
  BY Distinct DEF Punctual, NewLease
<1>3. ASSUME phase = "ready", active # None PROVE Ahead' /\ LateAnswers'
  <2>1. Ahead' 
    BY <1>3 DEF Punctual, Ahead
  <2>2. LateAnswers'
    BY <1>3, Distinct DEF Punctual, LateAnswers, Awaits
  <2>. QED BY <2>1, <2>2
<1>. QED BY <1>1, <1>2, <1>3 DEF Punctual

\* A renewal is granted while the lease lives, and arms the timer anew, or starts
\* a rotation when it was granted too little.
LEMMA PunctualRenewal ==
    ASSUME IInv, Punctual, Answered, Prudent, NEW n \in Renewal, RenewalStep(n)
    PROVE  Punctual'
<1>0. TypeOK /\ n \in Proc
  BY Distinct DEF IInv
<1>1. ASSUME NEW t \in Timer, TimerFires(t, n) PROVE Punctual'
  <2>1. /\ UNCHANGED <<phase, active, duration, rotating, timer, ttl>>
        /\ due' = [due EXCEPT ![t] = Off] /\ pc[n] = "idle"
    BY <1>1 DEF TimerFires
  <2>2. CASE active = None
    <3>1. UNCHANGED procVars
      BY <1>1, <2>2 DEF TimerFires
    <3>. QED BY <2>1, <2>2, <3>1 DEF Punctual, NewLease, procVars
  <2>3. CASE active # None
    <3>1. /\ pc'[n] = "renewing" /\ subject'[n] = active
          /\ \A q \in Proc : q # n => pc'[q] = pc[q] /\ subject'[q] = subject[q] /\ grant'[q] = grant[q]
      BY <1>0, <1>1, <2>3 DEF TimerFires, suspend, TypeOK
    <3>2. NewLease' /\ \A q \in Renewal : pc'[q] # "using"
      BY <2>1, <3>1, Distinct DEF Punctual, NewLease
    <3>3. ASSUME phase = "ready" PROVE Ahead' /\ LateAnswers'
      <4>1. Ahead /\ LateAnswers
        BY <2>3, <3>3 DEF Punctual
      <4>2. Ahead'
        BY <2>1, <3>1, <4>1 DEF Ahead, Awaits
      <4>3. LateAnswers'
        BY <2>1, <3>1, <4>1, Distinct DEF LateAnswers, Awaits
      <4>. QED BY <4>2, <4>3
    <3>. QED BY <2>1, <3>2, <3>3 DEF Punctual
  <2>. QED BY <2>2, <2>3
<1>2. CASE VaultRenews(n)
  <2>1. PICK d \in 1..DefaultTtl :
          extendLease(subject[n], d) /\ suspend(n, "granted", subject[n], None, "startup", d, 0)
    BY <1>2 DEF VaultRenews
  <2>2. /\ pc[n] = "renewing" /\ UNCHANGED <<phase, managerVars>>
        /\ pc'[n] = "granted" /\ subject'[n] = subject[n] /\ grant'[n] = d
        /\ \A q \in Proc : q # n => pc'[q] = pc[q] /\ subject'[q] = subject[q] /\ grant'[q] = grant[q]
    BY <1>0, <1>2, <2>1 DEF VaultRenews, suspend, TypeOK
  <2>3. /\ \A l \in Lease : ttl'[l] = ttl[l] \/ (l = subject[n] /\ ttl'[l] = d)
        /\ subject[n] \in Lease => ttl'[subject[n]] = d
        /\ d \in ttl[subject[n]]..DefaultTtl
    BY <1>0, <2>1 DEF extendLease, TypeOK, LeaseTypeOK
  <2>4. ASSUME NEW l \in Lease
        PROVE  ttl[l] \in Int /\ ttl'[l] \in Int /\ ttl[l] <= ttl'[l]
               /\ (ttl[l] = DefaultTtl => ttl'[l] = DefaultTtl)
    <3>1. ttl[l] \in 0..DefaultTtl
      BY <1>0 DEF TypeOK, LeaseTypeOK
    <3>. QED BY <2>3, <3>1, VaultAssumption
  <2>5. NewLease'
    BY <2>2, <2>4, Distinct DEF Punctual, NewLease, IInv, FreshPool
  <2>6. \A q \in Renewal : pc'[q] # "using"
    BY <2>2, Distinct DEF Punctual
  <2>7. ASSUME phase = "ready", active # None PROVE Ahead' /\ LateAnswers'
    <3>1. Ahead /\ LateAnswers /\ active \in Lease /\ ttl[active] <= ttl'[active]
          /\ ttl[active] \in Int /\ ttl'[active] \in Int
      BY <1>0, <2>4, <2>7 DEF Punctual, TypeOK
    <3>2. Ahead'
      <4>1. ttl'[active] > 0
        BY <3>1 DEF Ahead
      <4>2. due[timer] \in 0..(ttl[active] - 1) => due[timer] \in 0..(ttl'[active] - 1)
        BY <3>1
      <4>3. \A q \in Renewal : Awaits(q) => Awaits(q)' /\ subject'[q] = subject[q]
        BY <2>2, Distinct DEF Awaits
      <4>. QED BY <2>2, <3>1, <4>1, <4>2, <4>3 DEF Ahead, managerVars
    <3>3. ASSUME NEW q \in Renewal, pc'[q] = "granted", subject'[q] = active
          PROVE  grant'[q] <= ttl'[active]
      <4>1. CASE q = n
        BY <2>2, <2>3, <3>1, <3>3, <4>1
      <4>2. CASE q # n
        <5>1. grant'[q] = grant[q] /\ grant[q] <= ttl[active] /\ grant[q] \in Int
          BY <1>0, <2>2, <3>1, <3>3, <4>2, Distinct, VaultAssumption DEF LateAnswers, TypeOK
        <5>. QED BY <3>1, <5>1
      <4>. QED BY <4>1, <4>2
    <3>4. ASSUME NEW q \in Renewal, Awaits(q)', subject'[q] # active
          PROVE  duration <= ttl'[active] /\ (rotating \/ duration >= 2)
      <4>1. Awaits(q) /\ subject[q] # active
        BY <2>2, <3>4, Distinct DEF Awaits
      <4>2. duration <= ttl[active] /\ (rotating \/ duration >= 2) /\ duration \in Int
        BY <1>0, <3>1, <4>1, VaultAssumption DEF LateAnswers, TypeOK
      <4>. QED BY <3>1, <4>2
    <3>5. LateAnswers'
      BY <2>2, <3>3, <3>4 DEF LateAnswers, managerVars
    <3>. QED BY <3>2, <3>5
  <2>. QED BY <2>2, <2>5, <2>6, <2>7 DEF Punctual, managerVars
<1>3. CASE RenewThrows(n)
  <2>1. /\ UNCHANGED <<phase, active, duration, timer, due, ttl>>
        /\ rotating' /\ pc'[n] \in {"idle", "fetch"}
        /\ \A q \in Proc : q # n => pc'[q] = pc[q] /\ subject'[q] = subject[q] /\ grant'[q] = grant[q]
    BY <1>0, <1>3 DEF RenewThrows, beginRotation, finish, suspend, TypeOK
  <2>. QED BY <2>1, PunctualAfterRenewal
<1>4. CASE RenewReturns(n)
  <2>1. /\ UNCHANGED <<phase, active, timer, ttl>> /\ (rotating => rotating')
        /\ pc[n] = "granted" /\ pc'[n] \in {"idle", "fetch"}
        /\ \A q \in Proc : q # n => pc'[q] = pc[q] /\ subject'[q] = subject[q] /\ grant'[q] = grant[q]
    BY <1>0, <1>4 DEF RenewReturns, beginRotation, finish, suspend, TypeOK
  <2>2. grant[n] \in 0..DefaultTtl /\ duration \in 0..DefaultTtl
    BY <1>0 DEF TypeOK
  <2>3. duration' = IF active = subject[n] THEN grant[n] ELSE duration
    BY <1>4 DEF RenewReturns
  <2>4. \/ grant[n] > RotateBefore /\ scheduleRenew(IF active = None THEN FallbackTtl ELSE duration')
        \/ grant[n] <= RotateBefore /\ rotating'
    BY <1>4 DEF RenewReturns, beginRotation
  <2>5. CASE phase = "ready" /\ active # None
    <3>1. LateAnswers /\ active \in Lease /\ ttl[active] \in 0..DefaultTtl
      BY <1>0, <2>5 DEF Punctual, TypeOK, LeaseTypeOK
    <3>2. duration' <= ttl[active] /\ duration' \in 0..DefaultTtl
      BY <2>1, <2>2, <2>3, <3>1 DEF LateAnswers, Awaits
    <3>3. rotating' \/ duration' >= 2
      <4>1. CASE active = subject[n] /\ grant[n] > RotateBefore
        BY <2>2, <2>3, <4>1, ManagerAssumption, VaultAssumption DEF Prudent
      <4>2. CASE active # subject[n]
        BY <2>1, <2>3, <3>1, <4>2 DEF LateAnswers, Awaits
      <4>. QED BY <2>4, <4>1, <4>2
    <3>4. rotating' \/ due'[timer] \in 0..(ttl[active] - 1)
      <4>1. CASE duration' >= 2 /\ scheduleRenew(duration')
        <5>1. duration' \in 2..DefaultTtl
          BY <3>2, <4>1, VaultAssumption
        <5>2. RenewDelay(duration') \in 1..(duration' - 1)
          BY <5>1, RenewsBeforeEnd
        <5>3. due'[timer] = RenewDelay(duration')
          BY <1>0, <4>1 DEF scheduleRenew, TypeOK
        <5>. QED BY <3>1, <3>2, <5>1, <5>2, <5>3, VaultAssumption
      <4>. QED BY <2>4, <2>5, <3>3, <4>1
    <3>. QED BY <2>1, <3>2, <3>3, <3>4, PunctualAfterRenewal
  <2>6. CASE ~(phase = "ready" /\ active # None)
    <3>1. NewLease' /\ \A q \in Renewal : pc'[q] # "using"
      BY <2>1, Distinct DEF Punctual, NewLease
    <3>. QED BY <2>1, <2>6, <3>1 DEF Punctual
  <2>. QED BY <2>5, <2>6
<1>. QED BY <1>1, <1>2, <1>3, <1>4 DEF RenewalStep

\* Time passes when no call is under way and no timer is late: then this.timer is
\* armed, and one unit of time brings neither it nor the lease to an end first.
LEMMA PunctualTick ==
    ASSUME IInv, Punctual, Answered, Prudent, Tick
    PROVE  Punctual'
<1>0. TypeOK /\ (rotating <=> Rotating # {})
  BY DEF IInv, OneRotation
<1>1. /\ UNCHANGED <<phase, active, duration, rotating, timer, pc, subject, grant>>
      /\ due' = [t \in Timer |-> CountDown(due[t])]
      /\ ttl' = [l \in Lease |-> CountDown(ttl[l])]
      /\ (\E n \in Renewal : pc[n] = "idle") => \A t \in Timer : due[t] # 0
      /\ ~InFlight
  BY DEF Tick, elapseLeases, Answered
<1>2. \A p \in Rotator : pc[p] \notin Calling
  <2>1. \A p \in Rotator : pc[p] \notin Calling \ {"fetch"}
    BY <1>1, Distinct DEF InFlight
  <2>2. \A p \in Rotator : pc[p] # "fetch"
    BY <1>1, Distinct DEF InFlight, Answered
  <2>. QED BY <2>1, <2>2
<1>3. ~rotating /\ \A p \in Rotator : pc[p] \notin {"connect", "probe"}
  BY <1>0, <1>2 DEF Calling, InRotation, Rotating
<1>4. \A n \in Renewal : ~Awaits(n) /\ pc[n] = "idle"
  BY <1>0, <1>2, Distinct DEF Awaits, Calling, TypeOK, Punctual
<1>5. due[timer] # 0
  BY <1>0, <1>1, <1>4 DEF Prudent, TypeOK
<1>6. ASSUME phase = "ready", active # None PROVE Ahead' /\ LateAnswers'
  <2>1. active \in Lease /\ ttl[active] \in 0..DefaultTtl /\ due[timer] \in 0..(ttl[active] - 1)
    BY <1>0, <1>3, <1>4, <1>6 DEF Punctual, Ahead, TypeOK, LeaseTypeOK
  <2>2. ttl[active] \in Nat /\ due[timer] \in Nat /\ due[timer] > 0 /\ due[timer] < ttl[active]
    BY <1>5, <2>1, VaultAssumption
  <2>3. ttl'[active] = ttl[active] - 1 /\ due'[timer] = due[timer] - 1
    BY <1>0, <1>1, <2>1, <2>2 DEF CountDown, TypeOK
  <2>4. ttl'[active] > 0 /\ due'[timer] \in 0..(ttl'[active] - 1)
    BY <2>2, <2>3
  <2>5. Ahead'
    BY <1>1, <2>4 DEF Ahead
  <2>6. LateAnswers'
    BY <1>1, <1>4 DEF LateAnswers, Awaits
  <2>. QED BY <2>5, <2>6
<1>7. NewLease' /\ \A n \in Renewal : pc'[n] # "using"
  BY <1>1, <1>3, <1>4 DEF NewLease
<1>. QED BY <1>1, <1>6, <1>7 DEF Punctual

\* The process and its surroundings: no lease is in force before Boot's rotation
\* is complete, nor in a shutdown.
LEMMA PunctualOutside ==
    ASSUME IInv, Punctual, Prudent,
           \/ Start \/ onModuleDestroy \/ StopStep \/ Kill
           \/ OutageBegins \/ OutageEnds \/ RevokeByHand \/ UNCHANGED vars
    PROVE  Punctual'
<1>0. TypeOK
  BY DEF IInv
<1>1. CASE Kill \/ StopRevoked
  BY <1>1, PunctualExit DEF Kill, StopRevoked
<1>2. CASE Start
  <2>1. /\ phase' = "starting" /\ pc'[Boot] = "fetch" /\ UNCHANGED ttl
        /\ \A q \in Proc : q # Boot => pc'[q] = pc[q] /\ subject'[q] = subject[q]
    BY <1>0, <1>2, Distinct DEF Start, beginRotation, suspend, TypeOK
  <2>. QED BY <2>1, Distinct DEF Punctual, NewLease
<1>3. CASE onModuleDestroy
  <2>1. /\ phase' = "stopping" /\ UNCHANGED ttl
        /\ \A q \in Proc : q # Stop => pc'[q] = pc[q] /\ subject'[q] = subject[q]
    BY <1>0, <1>3, Distinct DEF onModuleDestroy, suspend, TypeOK
  <2>. QED BY <2>1, Distinct DEF Punctual, NewLease
<1>4. CASE StopDestroyed \/ StopDestroyThrows
  <2>1. /\ UNCHANGED <<phase, managerVars, subject, grant, ttl>>
        /\ \A q \in Proc : q # Stop => pc'[q] = pc[q]
    BY <1>0, <1>4, Distinct DEF StopDestroyed, StopDestroyThrows, stopDestroying, TypeOK
  <2>2. NewLease'
    BY <2>1, Distinct DEF Punctual, NewLease
  <2>. QED BY <2>1, <2>2, Distinct, PunctualKept DEF managerVars, Awaits, Punctual
<1>5. CASE OutageBegins \/ OutageEnds \/ UNCHANGED vars
  <2>1. UNCHANGED <<phase, managerVars, procVars, ttl>>
    BY <1>5 DEF OutageBegins, OutageEnds, vars
  <2>. QED BY <2>1, PunctualKept DEF Punctual, NewLease, managerVars, procVars, Awaits
<1>6. ~RevokeByHand
  BY DEF RevokeByHand, Prudent
<1>. QED BY <1>1, <1>2, <1>3, <1>4, <1>5, <1>6 DEF StopStep

\* Every step keeps the renewals punctual while every call is answered.
LEMMA PunctualStep == Prudent /\ IInv /\ Punctual /\ Answered /\ [Next]_vars => Punctual'
BY PunctualRotate, PunctualRequest, PunctualRenewal, PunctualDrain, PunctualTick, PunctualOutside
   DEF Next

\* A punctual renewal finds the lease alive.
LEMMA PunctualLives == Punctual => (phase = "ready" /\ active # None => Live(active))
BY DEF Punctual, Ahead, Live

\* While Vault and Postgres answer, the lease in force never ends, however little
\* a renewal grants: scheduleRenew() arms the timer in time, and renewOrRotate()
\* replaces what is worth no renewal.
THEOREM LeaseNeverLapses == ASSUME Prudent PROVE Spec => NeverLapses
BY PunctualInit, PunctualStep, PunctualLives, Invariance, PTL DEF Spec, NeverLapses
=============================================================================
