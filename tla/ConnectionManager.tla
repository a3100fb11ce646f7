-------------------------- MODULE ConnectionManager --------------------------
(***************************************************************************)
(* DatabaseConnectionManager of services/shared: one service process that  *)
(* holds one Postgres pool opened with a Vault lease, renews the lease on  *)
(* a timer, and replaces pool and lease (rotate) when the lease is lost.   *)
(*                                                                         *)
(* JavaScript runs to the next await without interruption, so an action is *)
(* the code between two awaits: the answer (or error) of the awaited call  *)
(* together with all that follows it up to the next await.  Every function *)
(* activation that can be suspended is a process: the handlers of Request, *)
(* the renewOrRotate calls of Renewal, Boot (onModuleInit) and Stop        *)
(* (onModuleDestroy).                                                      *)
(*                                                                         *)
(* A pool is named by the lease it was opened with.  A call to Vault or    *)
(* Postgres is instantaneous and succeeds, if the lease is alive, while    *)
(* ~outage; during an outage it may take any time, fail, or lose its       *)
(* answer after having had its effect.                                     *)
(***************************************************************************)
EXTENDS VaultLeases

CONSTANTS
    Request,        \* activations of HTTP handlers that call repo()
    Renewal,        \* activations of renewOrRotate()
    Boot, Stop,     \* the activations of onModuleInit() and onModuleDestroy()
    Timer,          \* slots for Node timers that call renewOrRotate()
    None,           \* undefined
    RotateBefore,   \* VAULT_DB_ROTATE_BEFORE_EXPIRY_SECONDS
    RetryDelay,     \* VAULT_DB_ROTATION_RETRY_MS
    DrainDelay,     \* DB_POOL_DRAIN_MS
    FallbackTtl,    \* what scheduleRenew() takes for want of an active lease
    MaxHold,        \* longest time a handler goes on using a repository
    OperatorRevokes,\* whether somebody revokes the active lease by hand
    MayStop         \* whether the process is ever shut down or killed

Rotator == Request \union Renewal \union {Boot}
Proc    == Rotator \union {Stop}

ASSUME ManagerAssumption ==
    /\ RotateBefore \in Nat
    /\ RetryDelay \in Nat \ {0}
    /\ DrainDelay \in Nat \ {0}
    /\ FallbackTtl \in Nat \ {0}
    /\ MaxHold \in 0..(DrainDelay - 1)
    /\ OperatorRevokes \in BOOLEAN
    /\ MayStop \in BOOLEAN
    /\ Timer # {}
    /\ None \notin Lease
    /\ Request \intersect Renewal = {}
    /\ Boot # Stop
    /\ {Boot, Stop} \intersect (Request \union Renewal) = {}

VARIABLES
    phase,      \* of the process: "down", "starting", "ready", "stopping"
    active,     \* lease of this.active, or None
    duration,   \* this.active.credential.leaseDuration
    expiresIn,  \* this.active.expiresAt - Date.now(), cut at 0
    rotating,   \* this.rotating
    timer,      \* this.timer
    due,        \* due[t]: time until timer t fires, Off when it is not armed
    pc,         \* where activation p is suspended
    subject,    \* lease of p's current / credential / repository
    old,        \* old of p's rotate()
    reason,     \* reason of p's rotate()
    grant,      \* lease_duration of the answer p waits for
    pool,       \* pool[l]: state of the DataSource opened with l
    drainLeft,  \* drainLeft[l]: time until the drain timer of pool l fires
    holdLeft,   \* holdLeft[r]: how much longer r may use its repository
    outage      \* Vault or Postgres is slow or unreachable, or the breaker is open

managerVars == <<active, duration, expiresIn, rotating, timer, due>>
procVars    == <<pc, subject, old, reason, grant, holdLeft>>
poolVars    == <<pool, drainLeft>>
vars == <<phase, managerVars, procVars, poolVars, outage, ttl>>

Off == -1

InRotation == {"fetch", "connect", "probe"}
Calling    == InRotation \union {"renewing", "granted", "closing", "revoking"}

\* A slip: the lease is renewed when it ends.
RenewAtExpiry(d) == IF d > 1 THEN d ELSE 1

\* Delay of the renewal of a lease of d seconds: at least a second.
RenewDelay(d) == LET share == (d * 6) \div 10 IN IF share > 1 THEN share ELSE 1

MaxDelay == LET delays == {RenewDelay(DefaultTtl), RenewDelay(FallbackTtl), RetryDelay}
            IN  CHOOSE d \in delays : \A e \in delays : e <= d

\* A lost pool is still open, or half closed, and nobody knows it any longer.
PoolState == {"none", "open", "draining", "closing", "revoking", "lost"}

TypeOK ==
    /\ LeaseTypeOK
    /\ phase \in {"down", "starting", "ready", "stopping"}
    /\ active \in Lease \union {None}
    /\ duration \in 0..DefaultTtl
    /\ expiresIn \in 0..DefaultTtl
    /\ rotating \in BOOLEAN
    /\ timer \in Timer
    /\ due \in [Timer -> {Off} \union 0..MaxDelay]
    /\ pc \in [Proc -> {"idle", "using"} \union Calling]
    /\ subject \in [Proc -> Lease \union {None}]
    /\ old \in [Proc -> Lease \union {None}]
    /\ reason \in [Proc -> {"startup", "expired", "low-ttl", "renew-failure"}]
    /\ grant \in [Proc -> 0..DefaultTtl]
    /\ pool \in [Lease -> PoolState]
    /\ drainLeft \in [Lease -> 0..DrainDelay]
    /\ holdLeft \in [Proc -> 0..MaxHold]
    /\ outage \in BOOLEAN

-----------------------------------------------------------------------------
(* The process: what is lost when it exits, and the pools it holds.        *)

\* The memory of a process that has just been started.
Blank ==
    /\ active = None /\ duration = 0 /\ expiresIn = 0
    /\ rotating = FALSE
    /\ timer = CHOOSE t \in Timer : TRUE
    /\ due = [t \in Timer |-> Off]
    /\ pc = [p \in Proc |-> "idle"]
    /\ subject = [p \in Proc |-> None]
    /\ old = [p \in Proc |-> None]
    /\ reason = [p \in Proc |-> "startup"]
    /\ grant = [p \in Proc |-> 0]
    /\ holdLeft = [p \in Proc |-> 0]
    /\ pool = [l \in Lease |-> "none"]
    /\ drainLeft = [l \in Lease |-> 0]

Init ==
    /\ phase = "down"
    /\ Blank
    /\ outage = FALSE
    /\ NoLeases

\* The process is gone, and its memory: its leases stay with Vault.
exit ==
    /\ phase' = "down"
    /\ active' = None /\ duration' = 0 /\ expiresIn' = 0
    /\ rotating' = FALSE
    /\ timer' = CHOOSE t \in Timer : TRUE
    /\ due' = [t \in Timer |-> Off]
    /\ pc' = [p \in Proc |-> "idle"]
    /\ subject' = [p \in Proc |-> None]
    /\ old' = [p \in Proc |-> None]
    /\ reason' = [p \in Proc |-> "startup"]
    /\ grant' = [p \in Proc |-> 0]
    /\ holdLeft' = [p \in Proc |-> 0]
    /\ pool' = [l \in Lease |-> "none"]
    /\ drainLeft' = [l \in Lease |-> 0]

\* What p remembers: where it is suspended, the lease it works with, the pool
\* its rotation replaces and why, an answer, the time left for a repository.
suspend(p, where, l, replaced, why, answer, hold) ==
    /\ pc' = [pc EXCEPT ![p] = where]
    /\ subject' = [subject EXCEPT ![p] = l]
    /\ old' = [old EXCEPT ![p] = replaced]
    /\ reason' = [reason EXCEPT ![p] = why]
    /\ grant' = [grant EXCEPT ![p] = answer]
    /\ holdLeft' = [holdLeft EXCEPT ![p] = hold]

finish(p)  == suspend(p, "idle", None, None, "startup", 0, 0)
serve(r, l) == suspend(r, "using", l, None, "startup", 0, MaxHold)

\* A lease id Vault may hand out: dead and no longer known to the process.  A
\* lost pool is followed until then: its slot stands for a new lease afterwards.
Free(l) ==
    /\ ~Live(l)
    /\ l # active
    /\ pool[l] \in {"none", "lost"}
    /\ \A p \in Proc : l # subject[p] /\ l # old[p]

\* A call made with lease l may fail.
MayFail(l) == outage \/ ~Live(l)

-----------------------------------------------------------------------------
(* rotate(), and what each of its callers does when it returns or throws.  *)

\* rotate(why) up to its first await, once this.rotating is known to be unset.
beginRotation(p, why) ==
    /\ rotating' = TRUE
    /\ suspend(p, "fetch", None, active, why, 0, 0)

\* A slip: without clearTimeout() the timer armed last is armed beside it.
scheduleBeside(d) ==
    LET free == {t \in Timer : due[t] = Off}
    IN  due' = [due EXCEPT ![IF free = {} THEN timer ELSE CHOOSE t \in free : TRUE]
                             = RenewDelay(d)]

\* scheduleRenew(): clearTimeout() gives back the slot that is armed again.
scheduleRenew(d) == due' = [due EXCEPT ![timer] = RenewDelay(d)]

\* A slip: the delay is taken for seconds.
retryMuchLater ==
    /\ due' = [due EXCEPT ![timer] = 1000 * RetryDelay]
    /\ UNCHANGED timer

\* this.timer is overwritten, not cleared: a timer still armed in another slot
\* stays armed and can no longer be reached (unless the bound Timer leaves no
\* free slot).
retryLater ==
    LET free == {t \in Timer : due[t] = Off}
    IN  /\ timer' = IF free = {} THEN timer ELSE CHOOSE t \in free : TRUE
        /\ due' = [due EXCEPT ![timer'] = RetryDelay]

\* finally { rotating = false }, and the error reaches the caller of rotate();
\* pools is what the failed step leaves of the pools.
rotationFails(p, pools) ==
    \/ /\ p = Boot
       /\ exit
       /\ UNCHANGED outage
    \/ /\ p \in Request
       /\ rotating' = FALSE
       /\ finish(p)
       /\ pool' = pools
       /\ UNCHANGED <<phase, active, duration, expiresIn, timer, due, drainLeft, outage>>
    \/ /\ p \in Renewal /\ reason[p] = "low-ttl"
       /\ beginRotation(p, "renew-failure")
       /\ pool' = pools
       /\ UNCHANGED <<phase, active, duration, expiresIn, timer, due, drainLeft, outage>>
    \/ /\ p \in Renewal /\ reason[p] = "renew-failure"
       /\ rotating' = FALSE
       /\ retryLater
       /\ finish(p)
       /\ pool' = pools
       /\ UNCHANGED <<phase, active, duration, expiresIn, drainLeft, outage>>

\* Vault creates a role and a lease, which has no pool yet.
VaultIssues(l) ==
    /\ Free(l)
    /\ issueLease(l)
    /\ pool' = [pool EXCEPT ![l] = "none"]

FetchReturns(p) ==
    /\ pc[p] = "fetch"
    /\ \E l \in Lease :
         /\ VaultIssues(l)
         /\ suspend(p, "connect", l, old[p], reason[p], 0, 0)
    /\ UNCHANGED <<phase, managerVars, drainLeft, outage>>

\* The lease is issued, the answer is lost, and the client asks again.
FetchLosesAnswer(p) ==
    /\ pc[p] = "fetch" /\ outage
    /\ \E l \in Lease : VaultIssues(l)
    /\ UNCHANGED <<phase, managerVars, procVars, drainLeft, outage>>

\* A slip: a failed startup is caught, and waits for a retry nobody schedules.
FetchThrowsUnseen(p) ==
    /\ pc[p] = "fetch" /\ outage
    /\ \/ p # Boot /\ rotationFails(p, pool)
       \/ /\ p = Boot
          /\ rotating' = FALSE
          /\ finish(p)
          /\ UNCHANGED <<phase, active, duration, expiresIn, timer, due, poolVars, outage>>
    /\ UNCHANGED ttl

\* A slip: fetch() before the try, so that its error skips the finally.
FetchThrowsOutsideTry(p) ==
    /\ pc[p] = "fetch" /\ outage
    /\ IF p = Boot THEN rotationFails(p, pool)
       ELSE finish(p) /\ UNCHANGED <<phase, managerVars, poolVars, outage>>
    /\ UNCHANGED ttl

FetchThrows(p) ==
    /\ pc[p] = "fetch" /\ outage
    /\ rotationFails(p, pool)
    /\ UNCHANGED ttl

\* A slip: the pool is put in force before it has been probed.
ConnectInstalls(p) ==
    /\ pc[p] = "connect"
    /\ Live(subject[p])
    /\ pool' = [pool EXCEPT ![subject[p]] = "open"]
    /\ pc' = [pc EXCEPT ![p] = "probe"]
    /\ active' = subject[p]
    /\ UNCHANGED <<phase, duration, expiresIn, rotating, timer, due, subject, old,
                   reason, grant, holdLeft, drainLeft, outage, ttl>>

ConnectReturns(p) ==
    /\ pc[p] = "connect"
    /\ Live(subject[p])
    /\ pool' = [pool EXCEPT ![subject[p]] = "open"]
    /\ pc' = [pc EXCEPT ![p] = "probe"]
    /\ UNCHANGED <<phase, managerVars, subject, old, reason, grant, holdLeft,
                   drainLeft, outage, ttl>>

\* The lease just fetched is neither revoked nor remembered.
ConnectThrows(p) ==
    /\ pc[p] = "connect"
    /\ MayFail(subject[p])
    /\ rotationFails(p, pool)
    /\ UNCHANGED ttl

\* A slip: the cleanup of a failed probe takes the pool that serves.
ProbeThrowsWrongPool(p) ==
    /\ pc[p] = "probe"
    /\ MayFail(subject[p])
    /\ rotationFails(p, [pool EXCEPT ![subject[p]] = "lost", ![old[p]] = "lost"])
    /\ UNCHANGED ttl

\* The DataSource is not destroyed: it stays open, and nobody knows it.
ProbeThrows(p) ==
    /\ pc[p] = "probe"
    /\ MayFail(subject[p])
    /\ rotationFails(p, [pool EXCEPT ![subject[p]] = "lost"])
    /\ UNCHANGED ttl

\* A slip: the superseded pool is forgotten.
forget(l) == UNCHANGED poolVars

\* old is drained.  A pool that the shutdown is closing is not destroyed twice:
\* its second destroy, and the revoke that follows, are left out.
retire(l) ==
    IF l # None /\ pool[l] = "open"
    THEN /\ pool' = [pool EXCEPT ![l] = "draining"]
         /\ drainLeft' = [drainLeft EXCEPT ![l] = DrainDelay]
    ELSE UNCHANGED poolVars

\* The new pool answers: it becomes the active one, and the caller goes on.
RotateCompletes(p) ==
    /\ pc[p] = "probe"
    /\ active' = subject[p]
    /\ duration' = DefaultTtl
    /\ expiresIn' = DefaultTtl
    /\ scheduleRenew(DefaultTtl)
    /\ retire(old[p])
    /\ rotating' = FALSE
    /\ IF p \in Request THEN serve(p, subject[p]) ELSE finish(p)
    /\ phase' = IF p = Boot THEN "ready" ELSE phase
    /\ UNCHANGED <<timer, outage, ttl>>

-----------------------------------------------------------------------------
(* repo(): a handler asks for a repository and uses it.                    *)

Expired == active = None \/ expiresIn = 0

\* The pool in force; also when it is expired and somebody else is rotating.
RepoServes(r) ==
    /\ phase \in {"ready", "stopping"}
    /\ pc[r] = "idle"
    /\ active # None
    /\ Expired => rotating
    /\ serve(r, active)
    /\ UNCHANGED <<phase, managerVars, poolVars, outage, ttl>>

\* A slip: rotate() without its guard.
RepoRotatesAnyway(r) ==
    /\ phase \in {"ready", "stopping"}
    /\ pc[r] = "idle"
    /\ Expired
    /\ beginRotation(r, "expired")
    /\ UNCHANGED <<phase, active, duration, expiresIn, timer, due, poolVars, outage, ttl>>

RepoRotates(r) ==
    /\ phase \in {"ready", "stopping"}
    /\ pc[r] = "idle"
    /\ Expired /\ ~rotating
    /\ beginRotation(r, "expired")
    /\ UNCHANGED <<phase, active, duration, expiresIn, timer, due, poolVars, outage, ttl>>

HandlerDone(r) ==
    /\ pc[r] = "using"
    /\ finish(r)
    /\ UNCHANGED <<phase, managerVars, poolVars, outage, ttl>>

-----------------------------------------------------------------------------
(* renewOrRotate()                                                         *)

\* A timer fires.
TimerFires(t, n) ==
    /\ due[t] = 0
    /\ pc[n] = "idle"
    /\ due' = [due EXCEPT ![t] = Off]
    /\ IF active = None
       THEN UNCHANGED procVars
       ELSE suspend(n, "renewing", active, None, "startup", 0, 0)
    /\ UNCHANGED <<phase, active, duration, expiresIn, rotating, timer, poolVars, outage, ttl>>

VaultRenews(n) ==
    /\ pc[n] = "renewing"
    /\ \E d \in 1..DefaultTtl :
         /\ extendLease(subject[n], d)
         /\ suspend(n, "granted", subject[n], None, "startup", d, 0)
    /\ UNCHANGED <<phase, managerVars, poolVars, outage>>

\* The record that is written may have been superseded: then nobody reads it.
RenewReturns(n) ==
    /\ pc[n] = "granted"
    /\ UNCHANGED <<phase, active, timer, poolVars, outage, ttl>>
    /\ IF active = subject[n]
       THEN duration' = grant[n] /\ expiresIn' = grant[n]
       ELSE UNCHANGED <<duration, expiresIn>>
    /\ \/ /\ grant[n] > RotateBefore
          /\ scheduleRenew(IF active = None THEN FallbackTtl ELSE duration')
          /\ finish(n)
          /\ UNCHANGED rotating
       \/ /\ grant[n] <= RotateBefore /\ ~rotating
          /\ beginRotation(n, "low-ttl")
          /\ UNCHANGED due
       \/ /\ grant[n] <= RotateBefore /\ rotating
          /\ finish(n)
          /\ UNCHANGED <<rotating, due>>

\* Also when Vault has renewed the lease and its answer is lost.
RenewThrows(n) ==
    /\ \/ pc[n] = "renewing" /\ MayFail(subject[n])
       \/ pc[n] = "granted" /\ outage
    /\ UNCHANGED <<phase, active, duration, expiresIn, timer, due, poolVars, outage, ttl>>
    /\ \/ ~rotating /\ beginRotation(n, "renew-failure")
       \/ rotating /\ finish(n) /\ UNCHANGED rotating

-----------------------------------------------------------------------------
(* The drain timer of a superseded pool: destroy, then revoke.             *)

\* Two slips: a delay too short, and no cleanup for a lease that has died by itself.
DrainFiresEarly(l) ==
    /\ pool[l] = "draining" /\ drainLeft[l] <= 1
    /\ pool' = [pool EXCEPT ![l] = "closing"]
    /\ UNCHANGED <<phase, managerVars, procVars, drainLeft, outage, ttl>>

DrainFiresIfLive(l) ==
    /\ pool[l] = "draining" /\ drainLeft[l] = 0 /\ Live(l)
    /\ pool' = [pool EXCEPT ![l] = "closing"]
    /\ UNCHANGED <<phase, managerVars, procVars, drainLeft, outage, ttl>>

DrainFires(l) ==
    /\ pool[l] = "draining" /\ drainLeft[l] = 0
    /\ pool' = [pool EXCEPT ![l] = "closing"]
    /\ UNCHANGED <<phase, managerVars, procVars, drainLeft, outage, ttl>>

Retired(l) == pool[l] \in {"closing", "revoking"} /\ l # subject[Stop]

DestroyReturns(l) ==
    /\ Retired(l) /\ pool[l] = "closing"
    /\ pool' = [pool EXCEPT ![l] = "revoking"]
    /\ UNCHANGED <<phase, managerVars, procVars, drainLeft, outage, ttl>>

\* A slip: revoke does not wait for destroy.
RevokeOvertakes(l) ==
    /\ Retired(l)
    /\ pool' = [pool EXCEPT ![l] = "none"]
    /\ endLease(l)
    /\ UNCHANGED <<phase, managerVars, procVars, drainLeft, outage>>

RevokeReturns(l) ==
    /\ Retired(l) /\ pool[l] = "revoking"
    /\ pool' = [pool EXCEPT ![l] = "none"]
    /\ endLease(l)
    /\ UNCHANGED <<phase, managerVars, procVars, drainLeft, outage>>

\* The error of either is swallowed.  A failed destroy leaves the pool to nobody,
\* and its lease unrevoked.
RetireThrows(l) ==
    /\ Retired(l) /\ outage
    /\ pool' = [pool EXCEPT ![l] = IF pool[l] = "closing" THEN "lost" ELSE "none"]
    /\ UNCHANGED <<phase, managerVars, procVars, drainLeft, outage, ttl>>

-----------------------------------------------------------------------------
(* The life of the process.                                                *)

\* onModuleInit()
Start ==
    /\ phase = "down"
    /\ phase' = "starting"
    /\ beginRotation(Boot, "startup")
    /\ UNCHANGED <<active, duration, expiresIn, timer, due, poolVars, outage, ttl>>

\* onModuleDestroy(): of the timers only this.timer is cleared.  A signal before
\* the process is ready finds nothing to clean up, which is Kill.
onModuleDestroy ==
    /\ MayStop
    /\ phase = "ready"
    /\ phase' = "stopping"
    /\ due' = [due EXCEPT ![timer] = Off]
    /\ active' = None /\ duration' = 0 /\ expiresIn' = 0
    /\ suspend(Stop, "closing", active, None, "startup", 0, 0)
    /\ pool' = [pool EXCEPT ![active] = "closing"]
    /\ UNCHANGED <<rotating, timer, drainLeft, outage, ttl>>

\* The await of destroy() is over, and leaves the pool as state says.
stopDestroying(state) ==
    /\ pc[Stop] = "closing"
    /\ pc' = [pc EXCEPT ![Stop] = "revoking"]
    /\ pool' = [pool EXCEPT ![subject[Stop]] = state]
    /\ UNCHANGED <<phase, managerVars, subject, old, reason, grant, holdLeft,
                   drainLeft, outage, ttl>>

StopDestroyed == stopDestroying("revoking")

\* The error is swallowed, and the lease of the pool still open is revoked.
StopDestroyThrows == outage /\ stopDestroying("lost")

\* Revoked or not, the process exits.
StopRevoked ==
    /\ pc[Stop] = "revoking"
    /\ endLease(subject[Stop]) \/ (outage /\ UNCHANGED ttl)
    /\ exit
    /\ UNCHANGED outage

Kill ==
    /\ MayStop
    /\ phase # "down"
    /\ exit
    /\ UNCHANGED <<outage, ttl>>

-----------------------------------------------------------------------------
(* The surroundings.                                                       *)

OutageBegins ==
    /\ ~outage /\ outage' = TRUE
    /\ UNCHANGED <<phase, managerVars, procVars, poolVars, ttl>>

OutageEnds ==
    /\ outage /\ outage' = FALSE
    /\ UNCHANGED <<phase, managerVars, procVars, poolVars, ttl>>

\* What scripts/test-microservice-flow.sh does to a running service.
RevokeByHand ==
    /\ OperatorRevokes
    /\ active # None /\ Live(active)
    /\ endLease(active)
    /\ UNCHANGED <<phase, managerVars, procVars, poolVars, outage>>

\* A call that the surroundings can answer at once.
InFlight ==
    \/ \E p \in Proc :
         \/ pc[p] \in Calling \ {"fetch"}
         \/ pc[p] = "fetch" /\ \E l \in Lease : Free(l)
    \/ \E l \in Lease : pool[l] \in {"closing", "revoking"}

\* Time passes when no timer is late, no repository is held for longer than
\* MaxHold and, unless there is an outage, every call has been answered.  Only
\* for want of an idle activation (the bound Renewal) may a timer fire late.
Tick ==
    /\ (\E n \in Renewal : pc[n] = "idle") => \A t \in Timer : due[t] # 0
    /\ \A l \in Lease : pool[l] = "draining" => drainLeft[l] > 0
    /\ \A r \in Request : pc[r] = "using" => holdLeft[r] > 0
    /\ ~outage => ~InFlight
    /\ elapseLeases
    /\ expiresIn' = CountDown(expiresIn)
    /\ due' = [t \in Timer |-> CountDown(due[t])]
    /\ drainLeft' = [l \in Lease |-> CountDown(drainLeft[l])]
    /\ holdLeft' = [p \in Proc |-> CountDown(holdLeft[p])]
    /\ UNCHANGED <<phase, active, duration, rotating, timer, pc, subject, old,
                   reason, grant, pool, outage>>

-----------------------------------------------------------------------------
\* The awaited call of p's rotation is answered.
RotateStep(p) ==
    \/ FetchReturns(p) \/ FetchThrows(p)
    \/ ConnectReturns(p) \/ ConnectThrows(p)
    \/ RotateCompletes(p) \/ ProbeThrows(p)

RequestStep(r) == RepoServes(r) \/ RepoRotates(r)

RenewalStep(n) ==
    \/ \E t \in Timer : TimerFires(t, n)
    \/ VaultRenews(n) \/ RenewReturns(n) \/ RenewThrows(n)

DrainStep(l) == DrainFires(l) \/ DestroyReturns(l) \/ RevokeReturns(l) \/ RetireThrows(l)

StopStep == StopDestroyed \/ StopDestroyThrows \/ StopRevoked

Next ==
    \/ Start \/ onModuleDestroy \/ StopStep \/ Kill
    \/ \E p \in Rotator : RotateStep(p) \/ FetchLosesAnswer(p)
    \/ \E r \in Request : RequestStep(r) \/ HandlerDone(r)
    \/ \E n \in Renewal : RenewalStep(n)
    \/ \E l \in Lease : DrainStep(l)
    \/ OutageBegins \/ OutageEnds \/ RevokeByHand
    \/ Tick

Spec == Init /\ [][Next]_vars

-----------------------------------------------------------------------------
(* Safety.                                                                 *)

Rotating == {p \in Rotator : pc[p] \in InRotation}

\* At most one rotation is under way, it is exactly the one this.rotating
\* announces, and it will retire the pool that is still in force: concurrent
\* expired handlers and renewals never start a second one (rotate's guard, and
\* its release in finally on every path out).
OneRotation ==
    /\ rotating <=> Rotating # {}
    /\ \A p, q \in Rotating : p = q
    /\ \A p \in Rotating : active \in {None, old[p]}

\* What repo() hands out is never on its way out: while the service is ready
\* there is a pool in force, and no drain, destroy or revoke has begun on it,
\* although the drain timers of earlier pools and leases run all the time.
PoolInForceIsOpen ==
    /\ phase = "ready" => active # None
    /\ active # None => pool[active] = "open"

\* The drain is long enough: a handler that got its repository before a
\* rotation never sees it destroyed, unless the service is shutting down.
HeldPoolIsNotDestroyed ==
    \A r \in Request : phase = "ready" /\ pc[r] = "using" =>
        pool[subject[r]] \in {"open", "draining"}

Lifecycle == INSTANCE PoolLifecycle WITH current <- active

\* Every step of every activation keeps to the life cycle that the managers
\* promise: a pool is put in force in one step and only when it has answered its
\* probe, the one it replaces is then drained, closed and revoked in this order,
\* and no failure on the way leaves the service without the pool it had.
ImplementsLifecycle == Lifecycle!Spec

\* The pool in force is given up only into its retirement, in the very step that
\* supersedes or stops it, although rotate() retires the pool it remembered three
\* awaits earlier: no pool that has served is forgotten, in any order of rotations,
\* failures and shutdown.  (Pools whose probe or destroy fails are lost: see "lost".)
ServedPoolIsRetired ==
    [][\A l \in Lease : l = active /\ l # active' =>
        pool'[l] \in {"draining", "closing"} \/ phase' = "down"]_vars

\* Nothing uses l: not the pool in force, no rotation, and no handler either
\* unless the service is shutting down.
Unused(l) ==
    /\ l # active
    /\ \A p \in Rotator : pc[p] \in {"connect", "probe"} => l # subject[p]
    /\ phase = "ready" => \A r \in Request : pc[r] = "using" => l # subject[r]

\* The process revokes a lease before its time only when nothing uses it and its
\* pool has been destroyed; but the shutdown goes on to revoke after a destroy
\* that has failed, where a retired lease is left to its TTL.
RevokedWhenUnused ==
    [][\A l \in Lease : Live(l) /\ ttl'[l] = 0 /\ ~RevokeByHand /\ ~Tick =>
        /\ Unused(l)
        /\ pool[l] = "revoking" \/ (pool[l] = "lost" /\ subject[Stop] = l)]_vars

-----------------------------------------------------------------------------
(* Liveness.                                                               *)

\* Calls are answered or time out, timers fire and time passes.
Fairness ==
    /\ \A p \in Rotator : WF_vars(RotateStep(p))
    /\ \A n \in Renewal : WF_vars(RenewalStep(n))
    /\ \A l \in Lease : WF_vars(DrainStep(l))
    /\ \A r \in Request : WF_vars(HandlerDone(r))
    /\ WF_vars(StopStep)
    /\ SF_vars(Tick)

\* Clients keep asking for data.
Traffic == \A r \in Request : WF_vars(RequestStep(r))

FairSpec    == Spec /\ Fairness
TrafficSpec == FairSpec /\ Traffic

CalmInTheEnd == <>[]~outage

\* Every call can be answered at once (the bound Lease holds none up).
Answered == ~outage /\ \A p \in Rotator : pc[p] = "fetch" => \E l \in Lease : Free(l)

\* As long as Vault and Postgres answer, a pool in force never has a dead lease,
\* however little a renewal grants (max_ttl): the renewal comes early enough, and
\* what it is granted lasts until the next or is replaced at once.
NeverLapses == []Answered => [](phase = "ready" /\ active # None => Live(active))

Serving == active # None /\ Live(active)

\* A service whose lease is dead gets a new one, whatever killed it and
\* whatever failed meanwhile, once Vault and Postgres stay reachable.
Recovers == CalmInTheEnd => [](phase = "ready" => <>(Serving \/ phase # "ready"))

\* The same when no client asks for data (docs/adr/ADR-004-lease-management.md:18:
\* rotate on renewal failure): checked of FairSpec, where handlers may stay away.
RecoversUnasked == Recovers

\* The lease of a superseded pool ends, also when destroy or revoke fails or a
\* late renewal has extended it; the pool is destroyed unless its destroy fails.
RetiredLeaseEnds ==
    CalmInTheEnd => \A l \in Lease :
        [](pool[l] = "draining" => <>(pool[l] \in {"none", "lost"} /\ ~Live(l)))

\* A retry that overwrites this.timer starts a second chain of renewals; the
\* chains find each other again, so that they do not multiply with the outages.
ChainsMerge ==
    CalmInTheEnd => <>[](\A t, u \in Timer : due[t] # Off /\ due[u] # Off => t = u)

\* Startup ends: the service becomes ready, or the process exits.
StartupEnds == CalmInTheEnd => [](phase = "starting" => <>(phase # "starting"))
=============================================================================
