------------------------ MODULE MongoConnectionManager ------------------------
(***************************************************************************)
(* MongoConnectionManager of libs/shared/mongo: the connection manager once *)
(* more, statement by statement, with a MongoClient for the pool.  It runs *)
(* beside the Postgres manager of product and order service, only if       *)
(* MONGO_DYNAMIC_ENABLED is set, and with other constants: by default the  *)
(* rotation threshold is the whole TTL.                                    *)
(***************************************************************************)
EXTENDS ConnectionManager

VARIABLE enabled    \* process.env.MONGO_DYNAMIC_ENABLED === 'true'

mongoVars == <<vars, enabled>>

MongoInit == Init /\ enabled \in BOOLEAN

\* onModuleInit(): without Mongo the module is ready at once.
StartDisabled ==
    /\ phase = "down" /\ ~enabled
    /\ phase' = "ready"
    /\ UNCHANGED <<managerVars, procVars, poolVars, outage, ttl>>

MongoStart == IF enabled THEN Start ELSE StartDisabled

\* onModuleDestroy() finds nothing to close when nothing has been opened.
MongoDestroy == enabled /\ onModuleDestroy

\* collection(): throws when Mongo is disabled.
collection(r) == enabled /\ RequestStep(r)

\* readLease() of the provider, through the breaker of module VaultClient.
fetch(p) == FetchReturns(p) \/ FetchThrows(p) \/ FetchLosesAnswer(p)

\* A client whose connect or ping fails is not closed: nobody knows it.
connect(p) == ConnectReturns(p) \/ ConnectThrows(p) \/ ProbeThrows(p)

\* fetch, connect, ping, and the swap.
rotate(p) == fetch(p) \/ connect(p) \/ RotateCompletes(p)

\* renewLease() of the provider; the lease keeps its id.
renew(n) == VaultRenews(n)

\* With scheduleRenew().
renewOrRotate(n) ==
    \/ \E t \in Timer : TimerFires(t, n)
    \/ renew(n) \/ RenewReturns(n) \/ RenewThrows(n)

\* revokeLease() of the provider, once a superseded client is closed.
revoke(l) == RevokeReturns(l)

\* close(true), then revoke(); an error of either is swallowed.
drain(l) == DrainFires(l) \/ DestroyReturns(l) \/ revoke(l) \/ RetireThrows(l)

MongoNext ==
    /\ \/ MongoStart \/ MongoDestroy \/ StopStep \/ Kill
       \/ \E p \in Rotator : rotate(p)
       \/ \E r \in Request : collection(r) \/ HandlerDone(r)
       \/ \E n \in Renewal : renewOrRotate(n)
       \/ \E l \in Lease : drain(l)
       \/ OutageBegins \/ OutageEnds \/ Tick
    /\ UNCHANGED enabled

MongoSpec == MongoInit /\ [][MongoNext]_mongoVars

=============================================================================
