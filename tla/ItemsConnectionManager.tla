------------------------ MODULE ItemsConnectionManager ------------------------
(***************************************************************************)
(* DatabaseConnectionManager of src/database, the older application.  It   *)
(* is the manager of the services except that                              *)
(*   - createPool() first asks AppConfigService for the address of the     *)
(*     database, a secret read from Vault once per process;                *)
(*   - getRepository() throws, and does not rotate, without a pool;        *)
(*   - scheduleRenew() arms no timer without a pool;                       *)
(*   - an error of destroy() in the drain timer is not caught: Node ends   *)
(*     the process; at shutdown it keeps the lease from being revoked.     *)
(***************************************************************************)
EXTENDS ConnectionManager

CONSTANT Secret     \* what the KV entry of Postgres may hold

ASSUME SecretAssumption ==
    Secret \subseteq [host : STRING, port : Int, database : STRING]

VARIABLES
    config,     \* AppConfigService.postgres, or None
    secret,     \* the KV entry; without its payload it fails as without a host
    opened      \* addresses at which this process has opened pools

configVars == <<config, secret, opened>>
itemsVars  == <<vars, configVars>>

\* What is cached, and dialled, has passed the conversions.
ItemsTypeOK ==
    LET Address == {s \in Secret : s.host # "" /\ s.port \in Nat \ {0} /\ s.database # ""}
    IN  /\ TypeOK
        /\ config \in Address \union {None}
        /\ secret \in Secret
        /\ opened \subseteq Address

ItemsInit == Init /\ config = None /\ opened = {} /\ secret \in Secret

-----------------------------------------------------------------------------
(* AppConfigService and VaultService: a secret is read once per process.   *)

requiredSecret(s, key) == s[key] # ""

toPort(port) == port > 0

\* A slip: the port is not looked at.
normalizesAnyPort(s) == requiredSecret(s, "host") /\ requiredSecret(s, "database")

\* normalizePostgres() returns; the conversions leave a valid secret as it is.
normalizes(s) ==
    /\ requiredSecret(s, "host")
    /\ toPort(s.port)
    /\ requiredSecret(s, "database")

\* readSecret() returns something for p, which waits in createPool().
readSecret(p) == pc[p] = "connect" /\ ~outage

\* A slip: the cache is not consulted.
rereadStaticConfig(p) ==
    /\ readSecret(p) /\ normalizes(secret)
    /\ config' = secret
    /\ UNCHANGED <<vars, secret, opened>>

getDatabaseStaticConfig(p) ==
    /\ config = None
    /\ readSecret(p) /\ normalizes(secret)
    /\ config' = secret
    /\ UNCHANGED <<vars, secret, opened>>

\* Neither in the cache nor to be had: createPool() rejects.
noStaticConfig == config = None /\ ~(~outage /\ normalizes(secret))

\* The operator writes the entry again, well or badly.
SecretRewritten ==
    /\ secret' \in Secret \ {secret}
    /\ UNCHANGED <<vars, config, opened>>

-----------------------------------------------------------------------------
(* What differs in the manager.                                            *)

\* readLease() through the breaker of module VaultClient.
fetchDatabaseCredential(p) == FetchReturns(p) \/ FetchThrows(p) \/ FetchLosesAnswer(p)

\* The lease just fetched is lost.
createPoolRejects(p) ==
    /\ pc[p] = "connect"
    /\ rotationFails(p, pool)
    /\ UNCHANGED ttl

\* Waits for the address, then for the pool.
createPool(p) ==
    \/ config # None /\ (ConnectReturns(p) \/ ConnectThrows(p))
    \/ noStaticConfig /\ createPoolRejects(p)

\* fetch, createPool, probe, swap.
rotate(p) == fetchDatabaseCredential(p) \/ createPool(p) \/ RotateCompletes(p) \/ ProbeThrows(p)

\* A slip: rotates also when there is no pool.
getRepositoryOrRotate(r) == RepoServes(r) \/ RepoRotates(r)

getRepository(r) == active # None /\ (RepoServes(r) \/ RepoRotates(r))

\* renewOrRotate(); scheduleRenew() disarms the timer when there is no pool.
RenewReturnsLate(n) ==
    /\ pc[n] = "granted" /\ active = None
    /\ grant[n] > RotateBefore
    /\ due' = [due EXCEPT ![timer] = Off]
    /\ finish(n)
    /\ UNCHANGED <<phase, active, duration, expiresIn, rotating, timer, poolVars, outage, ttl>>

\* renewLease() with its increment.
renew(n) == VaultRenews(n)

renewOrRotate(n) ==
    \/ \E t \in Timer : TimerFires(t, n)
    \/ renew(n) \/ RenewThrows(n)
    \/ IF active = None /\ pc[n] = "granted" /\ grant[n] > RotateBefore
       THEN RenewReturnsLate(n) ELSE RenewReturns(n)

\* disposePool() rejects in the drain timer: an unhandled rejection.
DisposeThrows(l) ==
    /\ Retired(l) /\ pool[l] = "closing" /\ outage
    /\ exit
    /\ UNCHANGED <<outage, ttl>>

disposePool(l) == DestroyReturns(l) \/ DisposeThrows(l)

\* An error of revoke() is logged.
safeRevoke(l) == RevokeReturns(l) \/ (pool[l] = "revoking" /\ RetireThrows(l))

\* onModuleDestroy(): an error of disposePool() ends the shutdown.
StopThrows ==
    /\ pc[Stop] = "closing" /\ outage
    /\ exit
    /\ UNCHANGED <<outage, ttl>>

\* What the process keeps of the secret, while it lives.
remember ==
    /\ UNCHANGED secret
    /\ IF phase' = "down" THEN config' = None /\ opened' = {}
       ELSE /\ UNCHANGED config
            /\ opened' = IF \E l \in Lease : pool[l] = "none" /\ pool'[l] = "open"
                         THEN opened \union {config} ELSE opened

ItemsNext ==
    \/ /\ \/ Start \/ onModuleDestroy \/ StopDestroyed \/ StopRevoked \/ StopThrows \/ Kill
          \/ \E p \in Rotator : rotate(p)
          \/ \E r \in Request : getRepository(r) \/ HandlerDone(r)
          \/ \E n \in Renewal : renewOrRotate(n)
          \/ \E l \in Lease : DrainFires(l) \/ disposePool(l) \/ safeRevoke(l)
          \/ OutageBegins \/ OutageEnds \/ Tick
       /\ remember
    \/ \E p \in Rotator : getDatabaseStaticConfig(p)
    \/ SecretRewritten

ItemsSpec == ItemsInit /\ [][ItemsNext]_itemsVars

-----------------------------------------------------------------------------
\* Shutting down, no pool in force, and no activation under way but handlers
\* that still use the pool they hold.
Quiet ==
    /\ phase = "stopping" /\ active = None
    /\ \A p \in Rotator : pc[p] \in {"idle", "using"}

\* Once the shutdown is quiet it stays quiet until the process exits: neither a
\* new request nor a timer that is still armed makes Vault issue a lease that
\* nobody would revoke.  (A rotation under way at the shutdown that succeeds puts
\* a pool in force again; such a shutdown is not quiet, and others may follow.)
ShutdownIsQuiet == [][Quiet => Quiet' \/ phase' = "down"]_itemsVars

\* All pools of a process are opened at one address, also when the operator
\* rewrites the secret between two rotations: the service never works on two
\* databases, and only its restart moves it.
OneAddress == \A a, b \in opened : a = b
=============================================================================
