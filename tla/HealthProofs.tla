---------------------------- MODULE HealthProofs ------------------------------
(***************************************************************************)
(* The health checks for any finite number of polls: their types, and how  *)
(* many RabbitMQ connections they can open between them.                   *)
(***************************************************************************)
EXTENDS HealthConnections, FiniteSetTheorems, TLAPS

\* Polls on their way to a RabbitMQ connection of their own.
Connecting == {p \in Poll : pc[p] \in {"rabbit secret", "rabbit connect"}}

\* A process that is down holds nothing, and polls come after startup.
Phases ==
    /\ phase = "down" => owner = None /\ conn = "none" /\ opened = 0
    /\ phase \in {"down", "starting"} => \A p \in Poll : pc[p] = "idle"
    /\ phase # "starting" => \A b \in Boot : pc[b] = "idle"

\* onModuleInit() of each sees to its own connection, and to one.
Startup ==
    /\ pc[BootDatabase] \in {"idle", "database"}
    /\ pc[BootRedis] \in {"idle", "redis secret", "redis connect"}
    /\ pc[BootRabbit] \in {"idle", "rabbit secret", "rabbit connect"}
    /\ pc[BootRabbit] # "idle" => opened = 0

\* Connections are opened only while there is none: those on their way now are
\* the last.
Bounded ==
    /\ conn = "none" => opened = 0
    /\ opened + Cardinality(Connecting) <= Cardinality(Poll)

IInv == TypeOK /\ Phases /\ Startup /\ Bounded

\* The activations of startup are no polls.
LEMMA Distinct ==
    /\ BootRedis \in Boot /\ BootRabbit \in Boot /\ BootDatabase \in Boot
    /\ BootRedis # BootRabbit /\ BootDatabase \notin {BootRedis, BootRabbit}
    /\ BootRedis \notin Poll /\ BootRabbit \notin Poll /\ BootDatabase \notin Poll /\ Boot \subseteq Activation
    /\ Poll \subseteq Activation /\ None \notin Activation /\ Boot \intersect Poll = {}
BY HealthAssumption DEF Boot, Activation

\* Polls are counted by numbers.
LEMMA Counts ==
    /\ Cardinality(Poll) \in Nat \ {0}
    /\ \A C \in SUBSET Poll : Cardinality(C) \in Nat /\ Cardinality(C) <= Cardinality(Poll)
    /\ Cardinality({}) = 0
<1>1. Cardinality({}) = 0
  BY FS_EmptySet
<1>2. Cardinality(Poll) \in Nat /\ Cardinality(Poll) # 0
  BY HealthAssumption, FS_CardinalityType, FS_EmptySet
<1>3. \A C \in SUBSET Poll : Cardinality(C) \in Nat /\ Cardinality(C) <= Cardinality(Poll)
  BY HealthAssumption, FS_Subset, FS_CardinalityType
<1>. QED BY <1>1, <1>2, <1>3

\* When no poll joins those that are connecting, the bound is kept.
LEMMA FewerBounded ==
    ASSUME IInv, Connecting' \subseteq Connecting, UNCHANGED opened
    PROVE  opened' + Cardinality(Connecting') <= Cardinality(Poll)
<1>1. IsFiniteSet(Connecting) /\ Connecting \subseteq Poll
  BY HealthAssumption, FS_Subset DEF Connecting
<1>2. Cardinality(Connecting') \in Nat /\ Cardinality(Connecting) \in Nat
      /\ Cardinality(Connecting') <= Cardinality(Connecting)
  BY <1>1, FS_Subset, FS_CardinalityType
<1>3. /\ opened \in Nat /\ opened' = opened
      /\ opened + Cardinality(Connecting) <= Cardinality(Poll)
  BY DEF IInv, Bounded, TypeOK
<1>4. Cardinality(Poll) \in Nat
  BY Counts
<1>. QED BY <1>2, <1>3, <1>4

\* While there is none open, any number of polls may be connecting.
LEMMA NoneBounded ==
    ASSUME IInv, opened' = 0
    PROVE  opened' + Cardinality(Connecting') <= Cardinality(Poll)
<1>1. Connecting' \subseteq Poll
  BY DEF Connecting
<1>. QED BY <1>1, Counts

\* A process that has exited satisfies the invariant.
LEMMA ExitInv ==
    ASSUME exit, UNCHANGED <<lazy, up>>, IInv
    PROVE  IInv'
<1>1. TypeOK'
  BY DEF exit, IInv, TypeOK
<1>2. Phases' /\ Startup'
  BY Distinct DEF exit, Phases, Startup
<1>3. opened' = 0 /\ conn' = "none"
  BY DEF exit
<1>4. Bounded'
  BY <1>3, NoneBounded DEF Bounded
<1>. QED BY <1>1, <1>2, <1>4 DEF IInv

\* Before the first start the invariant holds.
LEMMA InitInv == Init => IInv
<1>. SUFFICES ASSUME Init PROVE IInv
  OBVIOUS
<1>1. TypeOK /\ Phases /\ Startup
  BY Distinct DEF Init, TypeOK, Phases, Startup
<1>2. Connecting = {} /\ opened = 0
  BY Distinct DEF Init, Connecting
<1>3. Bounded
  BY <1>2, Counts DEF Bounded
<1>. QED BY <1>1, <1>3 DEF IInv

\* A step that opens no connection keeps the bound if no poll joins, or if there
\* is none open.
LEMMA BoundedIf ==
    ASSUME IInv, UNCHANGED opened, conn' = "none" => conn = "none",
           Connecting' \subseteq Connecting \/ opened = 0
    PROVE  Bounded'
<1>1. conn' = "none" => opened' = 0
  BY DEF IInv, Bounded
<1>. QED BY <1>1, FewerBounded, NoneBounded DEF Bounded

-----------------------------------------------------------------------------
(* The steps of checks and of startup.                                     *)

\* Where p goes from one await to the next keeps phases and startup apart.
LEMMA GotoInv ==
    ASSUME IInv, NEW p \in Activation, NEW where, goto(p, where),
           UNCHANGED <<phase, opened>>, phase # "down",
           p \in Poll => phase \in {"ready", "stopping"},
           p \in Boot => phase = "starting",
           p = BootDatabase => where \in {"idle", "database"},
           p = BootRedis => where \in {"idle", "redis secret", "redis connect"},
           p = BootRabbit => where \in {"idle", "rabbit secret", "rabbit connect"} /\ pc[p] # "idle"
    PROVE  Phases' /\ Startup'
<1>1. \A q \in Activation : pc'[q] = IF q = p THEN where ELSE pc[q]
  BY DEF goto, IInv, TypeOK
<1>2. Phases'
  BY <1>1, Distinct DEF IInv, Phases, Activation
<1>3. Startup'
  BY <1>1, Distinct DEF IInv, Startup
<1>. QED BY <1>2, <1>3

\* It joins those that are connecting only if it goes there.
LEMMA GotoConnecting ==
    ASSUME IInv, NEW p \in Activation, NEW where, goto(p, where),
           where \notin {"rabbit secret", "rabbit connect"} \/ p \in Connecting \/ p \in Boot
    PROVE  Connecting' \subseteq Connecting
<1>1. \A q \in Poll : pc'[q] = IF q = p THEN where ELSE pc[q]
  BY Distinct DEF goto, IInv, TypeOK
<1>. QED BY <1>1, Distinct DEF Connecting

\* An activation under way is a poll of a process that has started, or belongs to
\* its startup.
LEMMA UnderWay ==
    ASSUME IInv, NEW p \in Activation, pc[p] # "idle"
    PROVE  /\ phase # "down"
           /\ p \in Poll => phase \in {"ready", "stopping"}
           /\ p \in Boot => phase = "starting"
BY Distinct DEF IInv, Phases, TypeOK, Activation

\* A health check arrives.
LEMMA PollBeginsInv ==
    ASSUME IInv, NEW p \in Activation, PollBegins(p)
    PROVE  IInv'
<1>1. /\ goto(p, IF client # "ready" /\ lazy THEN "redis secret" ELSE "redis ping")
      /\ pc[p] = "idle" /\ p \in Poll /\ phase \in {"ready", "stopping"}
      /\ UNCHANGED <<lazy, phase, client, owner, conn, opened, answer, refusing, up>>
  BY DEF PollBegins, redisHealth, redisVars, rabbitVars
<1>2. TypeOK'
  BY <1>1 DEF goto, IInv, TypeOK
<1>3. Phases' /\ Startup'
  BY <1>1, GotoInv, Distinct
<1>4. Connecting' \subseteq Connecting
  BY <1>1, GotoConnecting
<1>. QED BY <1>1, <1>2, <1>3, <1>4, BoundedIf DEF IInv

\* The secret of Redis arrives: a new client is connected.
LEMMA RedisSecretInv ==
    ASSUME IInv, NEW p \in Activation, RedisSecret(p)
    PROVE  IInv'
<1>1. /\ goto(p, "redis connect") /\ pc[p] = "redis secret"
      /\ client' = "connecting" /\ owner' = p
      /\ UNCHANGED <<lazy, phase, conn, opened, answer, refusing, up>>
  BY DEF RedisSecret, getRedisConfig, rabbitVars
<1>2. TypeOK'
  BY <1>1 DEF goto, IInv, TypeOK
<1>3. p \notin {BootRabbit, BootDatabase}
  BY <1>1 DEF IInv, Startup
<1>4. Phases' /\ Startup'
  <2>1. /\ phase # "down"
        /\ p \in Poll => phase \in {"ready", "stopping"}
        /\ p \in Boot => phase = "starting"
    BY <1>1, UnderWay
  <2>. QED BY <1>1, <1>3, <2>1, GotoInv
<1>5. Connecting' \subseteq Connecting
  BY <1>1, GotoConnecting
<1>. QED BY <1>1, <1>2, <1>4, <1>5, BoundedIf DEF IInv

\* connect() of a client is over, well or badly: only its owner decides on
\* this.client.
LEMMA RedisConnectedInv ==
    ASSUME IInv, NEW p \in Activation, RedisConnected(p)
    PROVE  IInv'
<1>1. /\ goto(p, IF p = BootRedis THEN "idle" ELSE "redis ping") /\ pc[p] = "redis connect"
      /\ IF owner = p THEN client' = "ready" /\ owner' = None ELSE UNCHANGED <<client, owner>>
      /\ UNCHANGED <<lazy, phase, conn, opened, answer, refusing, up>>
  BY DEF RedisConnected, redisVars, rabbitVars
<1>2. TypeOK'
  BY <1>1 DEF goto, IInv, TypeOK
<1>3. p \notin {BootRabbit, BootDatabase}
  BY <1>1 DEF IInv, Startup
<1>4. Phases' /\ Startup'
  <2>1. /\ phase # "down"
        /\ p \in Poll => phase \in {"ready", "stopping"}
        /\ p \in Boot => phase = "starting"
    BY <1>1, UnderWay
  <2>. QED BY <1>1, <1>3, <2>1, GotoInv
<1>5. Connecting' \subseteq Connecting
  BY <1>1, GotoConnecting
<1>. QED BY <1>1, <1>2, <1>4, <1>5, BoundedIf DEF IInv

\* The answer for Redis is known: the poll may join those that are connecting, if
\* there is no connection.
LEMMA RedisAnswersInv ==
    ASSUME IInv, NEW p \in Activation, NEW a \in {"up", "down"}, redisAnswers(p, a),
           pc[p] \in {"redis secret", "redis connect", "redis ping"}, p \notin Boot,
           \/ UNCHANGED <<client, owner>> /\ owner # p
           \/ client' = "lost" /\ owner' = None
    PROVE  IInv'
<1>. DEFINE where == IF conn = "none" /\ lazy THEN "rabbit secret" ELSE "rabbit channel"
<1>1. /\ goto(p, where) /\ answer' = [answer EXCEPT !["redis"] = a]
      /\ UNCHANGED <<lazy, phase, conn, opened, refusing, up>>
  BY DEF redisAnswers, rabbitHealth, answered, rabbitVars
<1>2. TypeOK'
  BY <1>1 DEF goto, IInv, TypeOK
<1>3. Phases' /\ Startup'
  <2>1. /\ phase # "down"
        /\ p \in Poll => phase \in {"ready", "stopping"}
        /\ p \in Boot => phase = "starting"
    BY UnderWay
  <2>. QED BY <1>1, <2>1, Distinct, GotoInv
<1>4. Connecting' \subseteq Connecting \/ opened = 0
  BY <1>1, GotoConnecting DEF IInv, Bounded
<1>. QED BY <1>1, <1>2, <1>3, <1>4, BoundedIf DEF IInv

\* PING is answered, or cannot be.
LEMMA RedisPingInv ==
    ASSUME IInv, NEW p \in Activation, RedisPong(p) \/ RedisPingFails(p)
    PROVE  IInv'
<1>1. /\ pc[p] = "redis ping" /\ UNCHANGED <<client, owner>>
      /\ redisAnswers(p, "up") \/ redisAnswers(p, "down")
  BY DEF RedisPong, RedisPingFails, redisVars
<1>2. p \notin Boot
  BY <1>1 DEF IInv, Startup, Boot
<1>3. owner # p
  BY <1>1, Distinct DEF IInv, TypeOK
<1>. QED BY <1>1, <1>2, <1>3, RedisAnswersInv

\* Redis cannot be reached: at startup the services go on and the older
\* application exits; a check goes on to RabbitMQ.
LEMMA RedisConnectFailsInv ==
    ASSUME IInv, NEW p \in Activation, RedisConnectFails(p)
    PROVE  IInv'
<1>1. /\ pc[p] \in {"redis secret", "redis connect"} /\ p \notin {BootRabbit, BootDatabase}
  BY DEF RedisConnectFails, IInv, Startup
<1>2. CASE p = BootRedis /\ ~lazy
  BY <1>2, ExitInv DEF RedisConnectFails, bootFails
<1>3. CASE p = BootRedis /\ lazy
  <2>1. /\ goto(p, "idle")
        /\ IF owner = p THEN client' = "lost" /\ owner' = None ELSE UNCHANGED <<client, owner>>
        /\ UNCHANGED <<lazy, phase, conn, opened, answer, refusing, up>>
    BY <1>3 DEF RedisConnectFails, redisVars, rabbitVars
  <2>2. TypeOK'
    BY <1>1, <2>1 DEF goto, IInv, TypeOK
  <2>3. Phases' /\ Startup'
    <3>1. /\ phase # "down"
          /\ p \in Poll => phase \in {"ready", "stopping"}
          /\ p \in Boot => phase = "starting"
      BY <1>1, UnderWay
    <3>. QED BY <1>1, <2>1, <3>1, GotoInv
  <2>4. Connecting' \subseteq Connecting
    BY <2>1, GotoConnecting
  <2>. QED BY <2>1, <2>2, <2>3, <2>4, BoundedIf DEF IInv
<1>4. CASE p # BootRedis
  <2>1. /\ redisAnswers(p, "down") /\ p \notin Boot
        /\ IF owner = p THEN client' = "lost" /\ owner' = None ELSE UNCHANGED <<client, owner>>
    BY <1>1, <1>4 DEF RedisConnectFails, redisVars, Boot
  <2>. QED BY <1>1, <2>1, RedisAnswersInv
<1>. QED BY <1>2, <1>3, <1>4

\* The secret of RabbitMQ arrives.
LEMMA RabbitSecretInv ==
    ASSUME IInv, NEW p \in Activation, RabbitSecret(p)
    PROVE  IInv'
<1>1. /\ goto(p, "rabbit connect") /\ pc[p] = "rabbit secret"
      /\ UNCHANGED <<lazy, phase, client, owner, conn, opened, answer, refusing, up>>
  BY DEF RabbitSecret, getRabbitmqConfig, redisVars, rabbitVars
<1>2. TypeOK'
  BY <1>1 DEF goto, IInv, TypeOK
<1>3. p \notin {BootRedis, BootDatabase}
  BY <1>1 DEF IInv, Startup
<1>4. Phases' /\ Startup'
  <2>1. /\ phase # "down"
        /\ p \in Poll => phase \in {"ready", "stopping"}
        /\ p \in Boot => phase = "starting"
    BY <1>1, UnderWay
  <2>. QED BY <1>1, <1>3, <2>1, GotoInv
<1>5. Connecting' \subseteq Connecting
  <2>1. p \in Connecting \/ p \in Boot
    BY <1>1 DEF Connecting, Activation
  <2>. QED BY <1>1, <2>1, GotoConnecting
<1>. QED BY <1>1, <1>2, <1>4, <1>5, BoundedIf DEF IInv

\* A connection is opened: by startup, when no poll is there yet, or by a poll,
\* which is then no longer among those connecting.
LEMMA RabbitConnectedInv ==
    ASSUME IInv, NEW p \in Activation, RabbitConnected(p)
    PROVE  IInv'
<1>1. /\ goto(p, IF p = BootRabbit THEN "idle" ELSE "rabbit channel")
      /\ pc[p] = "rabbit connect" /\ conn' = "open" /\ opened' = opened + 1
      /\ UNCHANGED <<lazy, phase, client, owner, answer, refusing, up>>
  BY DEF RabbitConnected, redisVars
<1>2. TypeOK'
  <2>1. opened \in Nat
    BY DEF IInv, TypeOK
  <2>2. opened + 1 \in Nat
    BY <2>1
  <2>. QED BY <1>1, <2>2 DEF goto, IInv, TypeOK
<1>3. \A q \in Activation :
        pc'[q] = IF q # p THEN pc[q] ELSE IF p = BootRabbit THEN "idle" ELSE "rabbit channel"
  BY <1>1 DEF goto, IInv, TypeOK
<1>4. CASE p = BootRabbit
  <2>1. phase = "starting" /\ opened = 0
    BY <1>1, <1>4, UnderWay, Distinct DEF IInv, Startup
  <2>2. Phases' /\ Startup'
    BY <1>1, <1>3, <1>4, <2>1, Distinct DEF IInv, Phases, Startup
  <2>3. Connecting' = {}
    BY <1>3, <1>4, <2>1, Distinct DEF IInv, Phases, Connecting
  <2>4. Bounded'
    <3>1. opened' = 0 + 1 /\ Cardinality(Connecting') = 0
      BY <1>1, <2>1, <2>3, Counts
    <3>2. opened' + Cardinality(Connecting') <= Cardinality(Poll)
      BY <3>1, Counts
    <3>. QED BY <1>1, <3>2 DEF Bounded
  <2>. QED BY <1>2, <2>2, <2>4 DEF IInv
<1>5. CASE p # BootRabbit
  <2>1. p \in Connecting /\ p \in Poll
    BY <1>1, <1>5 DEF IInv, Startup, Connecting, Activation, Boot
  <2>2. phase \in {"ready", "stopping"}
    BY <1>1, <2>1, UnderWay
  <2>3. Phases' /\ Startup'
    BY <1>1, <1>3, <2>1, <2>2, Distinct DEF IInv, Phases, Startup
  <2>4. Connecting' = Connecting \ {p}
    BY <1>3, <1>5, <2>1, Distinct DEF Connecting
  <2>5. IsFiniteSet(Connecting)
    BY HealthAssumption, FS_Subset DEF Connecting
  <2>6. Cardinality(Connecting') = Cardinality(Connecting) - 1 /\ Cardinality(Connecting) \in Nat
    BY <2>1, <2>4, <2>5, FS_RemoveElement, FS_CardinalityType
  <2>7. opened \in Nat /\ opened + Cardinality(Connecting) <= Cardinality(Poll)
    BY DEF IInv, TypeOK, Bounded
  <2>8. Bounded'
    <3>1. opened' = opened + 1 /\ Cardinality(Poll) \in Nat
      BY <1>1, Counts
    <3>2. opened' + Cardinality(Connecting') <= Cardinality(Poll)
      BY <2>6, <2>7, <3>1
    <3>. QED BY <1>1, <3>2 DEF Bounded
  <2>. QED BY <1>2, <2>3, <2>8 DEF IInv
<1>. QED BY <1>4, <1>5

\* An activation ends that connects no client.
LEMMA RabbitEndsInv ==
    ASSUME IInv, NEW p \in Activation, NEW a, goto(p, "idle"), pc[p] # "idle", p # BootRedis,
           answer' = answer \/ answer' = [answer EXCEPT !["rabbitmq"] = a], a \in {"up", "down"},
           pc[p] # "redis connect",
           UNCHANGED <<lazy, phase, client, owner, conn, opened, refusing, up>>
    PROVE  IInv'
<1>1. TypeOK'
  BY DEF goto, IInv, TypeOK
<1>2. Phases' /\ Startup'
  <2>1. /\ phase # "down"
        /\ p \in Poll => phase \in {"ready", "stopping"}
        /\ p \in Boot => phase = "starting"
    BY UnderWay
  <2>. QED BY <2>1, GotoInv
<1>3. Connecting' \subseteq Connecting
  BY GotoConnecting
<1>. QED BY <1>1, <1>2, <1>3, BoundedIf DEF IInv

\* The database is connected, or the process does not start.
LEMMA DatabaseInv ==
    ASSUME IInv, NEW p \in Activation, DatabaseConnected(p) \/ DatabaseFails(p)
    PROVE  IInv'
<1>1. CASE DatabaseFails(p)
  BY <1>1, ExitInv DEF DatabaseFails
<1>2. CASE DatabaseConnected(p)
  <2>1. pc[p] = "database" /\ p # BootRedis /\ p # BootRabbit
    BY <1>2 DEF DatabaseConnected, IInv, Startup
  <2>2. answer["rabbitmq"] \in {"up", "down"}
    BY DEF IInv, TypeOK
  <2>. QED BY <1>2, <2>1, <2>2, RabbitEndsInv DEF DatabaseConnected, redisVars, rabbitVars
<1>. QED BY <1>1, <1>2

\* Well, or badly.
LEMMA RabbitInv ==
    ASSUME IInv, NEW p \in Activation,
           RabbitSecret(p) \/ RabbitConnected(p) \/ RabbitConnectFails(p) \/ RabbitAnswers(p)
    PROVE  IInv'
<1>1. CASE RabbitAnswers(p)
  <2>1. pc[p] = "rabbit channel" /\ p # BootRedis
    BY <1>1 DEF RabbitAnswers, IInv, Startup
  <2>. QED BY <1>1, <2>1, RabbitEndsInv DEF RabbitAnswers, answered, redisVars, rabbitVars
<1>2. CASE RabbitConnectFails(p)
  <2>1. pc[p] \in {"rabbit secret", "rabbit connect"} /\ p # BootRedis
    BY <1>2 DEF RabbitConnectFails, IInv, Startup
  <2>2. CASE exit /\ UNCHANGED <<lazy, up>>
    BY <2>2, ExitInv
  <2>3. CASE /\ goto(p, "idle")
             /\ answer' = answer \/ answer' = [answer EXCEPT !["rabbitmq"] = "down"]
             /\ UNCHANGED <<lazy, phase, client, owner, conn, opened, refusing, up>>
    BY <2>1, <2>3, RabbitEndsInv
  <2>. QED BY <1>2, <2>2, <2>3
           DEF RabbitConnectFails, bootFails, answered, redisVars, rabbitVars
<1>. QED BY <1>1, <1>2, RabbitSecretInv, RabbitConnectedInv

-----------------------------------------------------------------------------
(* The process and its surroundings.                                       *)

\* Start and the end of startup, shutdown, and servers that come and go.
LEMMA OutsideInv ==
    ASSUME IInv,
           \/ RedisReconnects \/ BreakerOpens \/ BreakerResets
           \/ Start \/ Listen \/ onModuleDestroy \/ Kill
           \/ \E s \in Server : ServerGoes(s) \/ ServerComes(s)
           \/ UNCHANGED vars
    PROVE  IInv'
<1>1. CASE Kill
  BY <1>1, ExitInv DEF Kill
<1>2. CASE Start
  <2>1. /\ phase = "down" /\ phase' = "starting"
        /\ pc' = [pc EXCEPT ![BootRedis] = "redis secret", ![BootRabbit] = "rabbit secret",
                          ![BootDatabase] = "database"]
        /\ UNCHANGED <<lazy, client, owner, conn, opened, answer, refusing, up>>
    BY <1>2 DEF Start, redisVars, rabbitVars
  <2>2. TypeOK' /\ Phases' /\ Startup'
    BY <2>1, Distinct DEF IInv, TypeOK, Phases, Startup
  <2>3. Connecting' \subseteq Connecting
    BY <2>1, Distinct DEF IInv, TypeOK, Connecting
  <2>. QED BY <2>1, <2>2, <2>3, BoundedIf DEF IInv
<1>3. CASE RedisReconnects \/ BreakerOpens \/ BreakerResets \/ Listen \/ onModuleDestroy
           \/ (\E s \in Server : ServerGoes(s) \/ ServerComes(s)) \/ UNCHANGED vars
  <2>1. /\ UNCHANGED <<lazy, pc, opened, answer>> /\ (conn' = "none" <=> conn = "none")
        /\ refusing' \in BOOLEAN /\ up' \in [Server -> BOOLEAN]
        /\ conn' \in {"none", "open", "closed"}
    BY <1>3 DEF RedisReconnects, BreakerOpens, BreakerResets, Listen, onModuleDestroy, ServerGoes,
       ServerComes, vars, redisVars, rabbitVars, IInv, TypeOK
  <2>2. /\ client' \in {"none", "connecting", "ready", "lost", "ended"}
        /\ owner' \in {owner, None} /\ (owner' # None => client' = client)
        /\ phase' = phase \/ (phase' = "ready" /\ \A b \in Boot : pc[b] = "idle")
                          \/ (phase = "ready" /\ phase' = "stopping")
    BY <1>3 DEF RedisReconnects, BreakerOpens, BreakerResets, Listen, onModuleDestroy, ServerGoes,
       ServerComes, vars, redisVars, rabbitVars, IInv, TypeOK
  <2>3. TypeOK'
    BY <2>1, <2>2 DEF IInv, TypeOK
  <2>4. Phases' /\ Startup'
    BY <2>1, <2>2 DEF IInv, Phases, Startup
  <2>5. Connecting' \subseteq Connecting
    BY <2>1 DEF Connecting
  <2>. QED BY <2>1, <2>3, <2>4, <2>5, BoundedIf DEF IInv
<1>. QED BY <1>1, <1>2, <1>3

\* Every step preserves the invariant.
LEMMA StepInv == IInv /\ [Next]_vars => IInv'
BY PollBeginsInv, RedisSecretInv, RedisConnectedInv, RedisConnectFailsInv, RedisPingInv,
   RabbitInv, DatabaseInv, OutsideInv DEF Next, Step

-----------------------------------------------------------------------------
\* The invariant holds in every reachable state.
THEOREM Invariance == Spec => []IInv
BY InitInv, StepInv, PTL DEF Spec

\* The types, and that whoever owns this.client is connecting it.
THEOREM TypeCorrect == Spec => []TypeOK
<1>1. IInv => TypeOK
  BY DEF IInv
<1>. QED BY <1>1, Invariance, PTL

\* However many checks come at once, RabbitMQ sees at most one connection of each.
THEOREM ConnectionsAreBounded == Spec => []RabbitConnectionsBounded
<1>1. IInv => RabbitConnectionsBounded
  <2>. SUFFICES ASSUME IInv PROVE RabbitConnectionsBounded
    OBVIOUS
  <2>1. Connecting \subseteq Poll
    BY DEF Connecting
  <2>2. opened \in Nat /\ opened + Cardinality(Connecting) <= Cardinality(Poll)
    BY DEF IInv, TypeOK, Bounded
  <2>. QED BY <2>1, <2>2, Counts DEF RabbitConnectionsBounded
<1>. QED BY <1>1, Invariance, PTL
=============================================================================
