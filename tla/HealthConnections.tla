--------------------------- MODULE HealthConnections ---------------------------
(***************************************************************************)
(* The Redis and RabbitMQ connections of a process and the health checks   *)
(* that use them: RedisHealth and RabbitHealth of services/shared, which   *)
(* connect when a check finds no connection (lazy), and RedisService and   *)
(* RabbitmqService of the older application, which connect at startup only.*)
(* Startup waits for the connection manager of the database as well, here  *)
(* a single call: without Vault or the database the process exits.         *)
(*                                                                         *)
(* An action is the code from one awaited answer to the next await.  GET   *)
(* /health/ready asks Redis first and RabbitMQ after its answer.  ioredis  *)
(* reconnects a client by itself; amqplib never reopens a connection.      *)
(* While a server is up its calls are answered, otherwise they fail.       *)
(***************************************************************************)
EXTENDS Integers, FiniteSets

CONSTANTS
    Poll,                   \* activations of GET /health/ready
    BootRedis, BootRabbit,  \* the activations of onModuleInit()
    BootDatabase,           \* that of DatabaseConnectionManager
    None

Boot       == {BootRedis, BootRabbit, BootDatabase}
Activation == Poll \union Boot
Server     == {"vault", "database", "redis", "rabbitmq"}

ASSUME HealthAssumption ==
    /\ IsFiniteSet(Poll) /\ Poll # {}
    /\ BootRedis # BootRabbit /\ BootDatabase \notin {BootRedis, BootRabbit}
    /\ Boot \intersect Poll = {}
    /\ None \notin Activation

VARIABLES
    lazy,       \* services/shared, not the older application
    phase,      \* of the process: "down", "starting", "ready", "stopping"
    pc,         \* pc[p]: the call that p awaits
    client,     \* status of this.client of Redis
    owner,      \* the activation that connects this.client, or None
    conn,       \* this.conn of RabbitMQ
    opened,     \* RabbitMQ connections opened by this process
    answer,     \* the last answer for each of the two
    refusing,   \* the breaker of the process's Vault client is open (VaultClient)
    up          \* which servers are reachable

redisVars  == <<client, owner>>
rabbitVars == <<conn, opened>>
vars == <<lazy, phase, pc, redisVars, rabbitVars, answer, refusing, up>>

TypeOK ==
    /\ lazy \in BOOLEAN
    /\ phase \in {"down", "starting", "ready", "stopping"}
    /\ pc \in [Activation -> {"idle", "database", "redis secret", "redis connect", "redis ping",
                              "rabbit secret", "rabbit connect", "rabbit channel"}]
    /\ client \in {"none", "connecting", "ready", "lost", "ended"}
    /\ owner \in Activation \union {None}
    /\ owner # None => client = "connecting" /\ pc[owner] = "redis connect"
    /\ conn \in {"none", "open", "closed"}
    /\ opened \in Nat
    /\ answer \in [{"redis", "rabbitmq"} -> {"up", "down"}]
    /\ refusing \in BOOLEAN
    /\ up \in [Server -> BOOLEAN]

Init ==
    /\ lazy \in BOOLEAN
    /\ phase = "down"
    /\ pc = [p \in Activation |-> "idle"]
    /\ client = "none" /\ owner = None
    /\ conn = "none" /\ opened = 0
    /\ answer = [s \in {"redis", "rabbitmq"} |-> "down"]
    /\ refusing = FALSE
    /\ up = [s \in Server |-> TRUE]

goto(p, where) == pc' = [pc EXCEPT ![p] = where]
answered(s, a) == answer' = [answer EXCEPT ![s] = a]

\* The process ends, and its connections with it.
exit ==
    /\ phase' = "down"
    /\ pc' = [p \in Activation |-> "idle"]
    /\ client' = "none" /\ owner' = None
    /\ conn' = "none" /\ opened' = 0
    /\ answer' = [s \in {"redis", "rabbitmq"} |-> "down"]
    /\ refusing' = FALSE

\* A slip: no .catch() in onModuleInit().
bootThrows(p) == exit /\ UNCHANGED <<lazy, up>>

\* An activation of onModuleInit() fails: the services swallow the error, the
\* older application does not start.
bootFails(p) ==
    /\ IF lazy THEN goto(p, "idle") /\ UNCHANGED <<phase, redisVars, rabbitVars, answer, refusing>>
               ELSE exit
    /\ UNCHANGED <<lazy, up>>

-----------------------------------------------------------------------------
(* The secrets: readKv(), or AppConfigService in the older application,    *)
(* where only startup asks, so that what it caches is read once as well.   *)
(* Both go through the circuit breaker of the Vault client, which all      *)
(* callers of the process share, so that it may open and, no sooner than   *)
(* it is left alone for its reset time, reset at any point here.           *)

VaultAnswers == up["vault"] /\ ~refusing

BreakerOpens ==
    /\ ~up["vault"] /\ ~refusing
    /\ phase # "down"
    /\ refusing' = TRUE
    /\ UNCHANGED <<lazy, phase, pc, redisVars, rabbitVars, answer, up>>

BreakerResets ==
    /\ refusing /\ refusing' = FALSE
    /\ UNCHANGED <<lazy, phase, pc, redisVars, rabbitVars, answer, up>>

getRedisConfig(p)    == pc[p] = "redis secret" /\ VaultAnswers
getRabbitmqConfig(p) == pc[p] = "rabbit secret" /\ VaultAnswers

-----------------------------------------------------------------------------
(* rotate('startup') of the connection manager, modelled by the module     *)
(* ConnectionManager: nobody catches its error.                            *)

DatabaseAnswers == VaultAnswers /\ up["database"]

DatabaseConnected(p) ==
    /\ pc[p] = "database" /\ DatabaseAnswers
    /\ goto(p, "idle")
    /\ UNCHANGED <<lazy, phase, redisVars, rabbitVars, answer, refusing, up>>

DatabaseFails(p) ==
    /\ pc[p] = "database" /\ ~DatabaseAnswers
    /\ exit
    /\ UNCHANGED <<lazy, up>>

-----------------------------------------------------------------------------
(* RabbitMQ: ensureConnected(), then a channel is opened and closed.       *)

\* A slip: only the check for an open connection, as in RabbitmqService.
rabbitChecked(p) == goto(p, "rabbit channel")

\* health() up to its first await.
rabbitHealth(p) ==
    goto(p, IF conn = "none" /\ lazy THEN "rabbit secret" ELSE "rabbit channel")

RabbitSecret(p) ==
    /\ getRabbitmqConfig(p)
    /\ goto(p, "rabbit connect")
    /\ UNCHANGED <<lazy, phase, redisVars, rabbitVars, answer, refusing, up>>

\* connect(): the last one to arrive is kept, the others stay open.
RabbitConnected(p) ==
    /\ pc[p] = "rabbit connect" /\ up["rabbitmq"]
    /\ conn' = "open" /\ opened' = opened + 1
    /\ goto(p, IF p = BootRabbit THEN "idle" ELSE "rabbit channel")
    /\ UNCHANGED <<lazy, phase, redisVars, answer, refusing, up>>

RabbitConnectFails(p) ==
    /\ \/ pc[p] = "rabbit secret" /\ ~VaultAnswers
       \/ pc[p] = "rabbit connect" /\ ~up["rabbitmq"]
    /\ \/ p = BootRabbit /\ bootFails(p)
       \/ /\ p # BootRabbit
          /\ goto(p, "idle") /\ answered("rabbitmq", "down")
          /\ UNCHANGED <<lazy, phase, redisVars, rabbitVars, refusing, up>>

\* A slip: a dead connection is given up, without regard to the others.
RabbitReconnects(p) ==
    /\ pc[p] = "rabbit channel"
    /\ goto(p, IF conn = "open" THEN "idle" ELSE "rabbit secret")
    /\ conn' = IF conn = "open" THEN conn ELSE "none"
    /\ answered("rabbitmq", IF conn = "open" THEN "up" ELSE "down")
    /\ UNCHANGED <<lazy, phase, redisVars, opened, refusing, up>>

\* createChannel() works on an open connection only.
RabbitAnswers(p) ==
    /\ pc[p] = "rabbit channel"
    /\ goto(p, "idle")
    /\ answered("rabbitmq", IF conn = "open" THEN "up" ELSE "down")
    /\ UNCHANGED <<lazy, phase, redisVars, rabbitVars, refusing, up>>

-----------------------------------------------------------------------------
(* Redis: ensureConnected(), then PING.                                    *)

\* A slip: health() leaves connecting to onModuleInit().
redisChecked(p) == goto(p, "redis ping")

\* health() up to its first await.
redisHealth(p) ==
    goto(p, IF client # "ready" /\ lazy THEN "redis secret" ELSE "redis ping")

\* A request for /health/ready arrives.
PollBegins(p) ==
    /\ p \in Poll /\ pc[p] = "idle" /\ phase \in {"ready", "stopping"}
    /\ redisHealth(p)
    /\ UNCHANGED <<lazy, phase, redisVars, rabbitVars, answer, refusing, up>>

\* The answer for Redis is known, and RabbitMQ is asked.
redisAnswers(p, a) ==
    /\ answered("redis", a)
    /\ rabbitHealth(p)
    /\ UNCHANGED <<lazy, phase, rabbitVars, refusing, up>>

\* new Redis() replaces this.client, whoever is connecting it.
RedisSecret(p) ==
    /\ getRedisConfig(p)
    /\ client' = "connecting" /\ owner' = p
    /\ goto(p, "redis connect")
    /\ UNCHANGED <<lazy, phase, rabbitVars, answer, refusing, up>>

\* A slip: whoever connects last decides on this.client.
RedisConnectedAnyway(p) ==
    /\ pc[p] = "redis connect" /\ up["redis"]
    /\ client' = "ready"
    /\ goto(p, IF p = BootRedis THEN "idle" ELSE "redis ping")
    /\ UNCHANGED <<lazy, phase, owner, rabbitVars, answer, refusing, up>>

\* connect() resolves; p's client may have been replaced meanwhile.
RedisConnected(p) ==
    /\ pc[p] = "redis connect" /\ up["redis"]
    /\ IF owner = p THEN client' = "ready" /\ owner' = None ELSE UNCHANGED redisVars
    /\ goto(p, IF p = BootRedis THEN "idle" ELSE "redis ping")
    /\ UNCHANGED <<lazy, phase, rabbitVars, answer, refusing, up>>

\* readKv() or connect() rejects; the client goes on trying by itself.
RedisConnectFails(p) ==
    /\ \/ pc[p] = "redis secret" /\ ~VaultAnswers
       \/ pc[p] = "redis connect" /\ ~up["redis"]
    /\ \/ p = BootRedis /\ ~lazy /\ bootFails(p)
       \/ /\ p = BootRedis => lazy
          /\ IF owner = p THEN client' = "lost" /\ owner' = None ELSE UNCHANGED redisVars
          /\ IF p = BootRedis
             THEN goto(p, "idle") /\ UNCHANGED <<lazy, phase, rabbitVars, answer, refusing, up>>
             ELSE redisAnswers(p, "down")

\* The PING waits in the client's queue until it is connected.
RedisPong(p) ==
    /\ pc[p] = "redis ping" /\ client = "ready"
    /\ redisAnswers(p, "up")
    /\ UNCHANGED redisVars

RedisPingFails(p) ==
    /\ pc[p] = "redis ping"
    /\ ~up["redis"] \/ client \in {"none", "ended"}
    /\ redisAnswers(p, "down")
    /\ UNCHANGED redisVars

\* ioredis reconnects this.client.
RedisReconnects ==
    /\ client = "lost" /\ up["redis"]
    /\ client' = "ready"
    /\ UNCHANGED <<lazy, phase, pc, owner, rabbitVars, answer, refusing, up>>

-----------------------------------------------------------------------------
(* The process and its surroundings.                                       *)

\* The modules are initialised concurrently, in the older application the database
\* before the others: an order that is left open here.
Start ==
    /\ phase = "down"
    /\ phase' = "starting"
    /\ pc' = [pc EXCEPT ![BootRedis] = "redis secret", ![BootRabbit] = "rabbit secret",
                     ![BootDatabase] = "database"]
    /\ UNCHANGED <<lazy, redisVars, rabbitVars, answer, refusing, up>>

Listen ==
    /\ phase = "starting" /\ \A b \in Boot : pc[b] = "idle"
    /\ phase' = "ready"
    /\ UNCHANGED <<lazy, pc, redisVars, rabbitVars, answer, refusing, up>>

\* disconnect() and close(): this.client and this.conn only.
onModuleDestroy ==
    /\ phase = "ready"
    /\ phase' = "stopping"
    /\ client' = IF client = "none" THEN client ELSE "ended"
    /\ owner' = None
    /\ conn' = IF conn = "none" THEN conn ELSE "closed"
    /\ UNCHANGED <<lazy, pc, opened, answer, refusing, up>>

\* After a shutdown, or at once; a process that is starting has less to lose.
Kill ==
    /\ phase \in {"ready", "stopping"}
    /\ exit
    /\ UNCHANGED <<lazy, up>>

\* A server goes away, and closes the connections it has.
ServerGoes(s) ==
    /\ up[s]
    /\ up' = [up EXCEPT ![s] = FALSE]
    /\ client' = IF s = "redis" /\ client = "ready" THEN "lost" ELSE client
    /\ conn' = IF s = "rabbitmq" /\ conn = "open" THEN "closed" ELSE conn
    /\ UNCHANGED <<lazy, phase, pc, owner, opened, answer, refusing>>

ServerComes(s) ==
    /\ ~up[s]
    /\ up' = [up EXCEPT ![s] = TRUE]
    /\ UNCHANGED <<lazy, phase, pc, redisVars, rabbitVars, answer, refusing>>

Step(p) ==
    \/ PollBegins(p)
    \/ RedisSecret(p) \/ RedisConnected(p) \/ RedisConnectFails(p)
    \/ RedisPong(p) \/ RedisPingFails(p)
    \/ RabbitSecret(p) \/ RabbitConnected(p) \/ RabbitConnectFails(p) \/ RabbitAnswers(p)
    \/ DatabaseConnected(p) \/ DatabaseFails(p)

Next ==
    \/ \E p \in Activation : Step(p)
    \/ RedisReconnects \/ BreakerOpens \/ BreakerResets
    \/ Start \/ Listen \/ onModuleDestroy \/ Kill
    \/ \E s \in Server : ServerGoes(s) \/ ServerComes(s)

\* Health is polled, calls are answered or fail, and ioredis keeps trying.
Fairness ==
    /\ \A p \in Activation : WF_vars(Step(p))
    /\ WF_vars(RedisReconnects) /\ WF_vars(Listen)

Spec == Init /\ [][Next]_vars /\ Fairness

-----------------------------------------------------------------------------
\* Concurrent checks that find no RabbitMQ connection each open one and keep
\* the last; but never more than the checks that were under way at once, since
\* ensureConnected() opens none when this.conn is set.
RabbitConnectionsBounded == opened <= Cardinality(Poll)

\* A service whose database and Vault answer starts whether or not Redis and
\* RabbitMQ are there, and whatever they do meanwhile (the .catch() of both
\* onModuleInit()).
StartsWithoutRedisAndRabbit ==
    lazy => (phase = "starting" ~> phase = "ready" \/ ~DatabaseAnswers)

CalmInTheEnd == <>[](\A s \in Server : up[s]) /\ <>[](phase = "ready")

\* The check of Redis finds back whatever was unreachable, at startup or later,
\* and although concurrent checks replace each other's client.  Without a client,
\* this takes a breaker that resets: see VaultClient!RecoversInTime for checks and
\* retries so close that it never does.
RedisRecovers ==
    CalmInTheEnd /\ <>[](client # "none" \/ ~refusing) => <>[](answer["redis"] = "up")

\* RabbitMQ is connected by the checks if it was unreachable at startup, again
\* provided that the breaker lets them read the secret, and unless it has closed
\* the connection later: see RabbitRecovers.
RabbitConnects ==
    /\ CalmInTheEnd
    /\ <>[](conn # "none" \/ ~refusing)
    /\ []<>(conn # "closed")
    => <>[](answer["rabbitmq"] = "up")

\* docs/architecture/microservices.md:47: /health/ready must indicate whether
\* the service has working dependencies; so RabbitMQ is up again in the answers
\* of a service when it is up and the breaker is closed.
RabbitRecovers ==
    lazy /\ CalmInTheEnd /\ <>[]~refusing => <>[](answer["rabbitmq"] = "up")
=============================================================================
