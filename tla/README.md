# A verification development of nestjs-vault-local-demo

TLA+ models of the parts of this repository whose correctness depends on the
order of events: the managers that hold a database pool opened with a Vault
lease, the Vault client with its circuit breaker, the connections of the health
checks, the creation of orders across services, and the life of a single row
behind the CRUD handlers. TLC checks the models on small instances; TLAPS proves
nearly all of their safety properties for every instance.

## 1. The system

Five NestJS services (product, customer, inventory, order, payment) share the
modules in `services/shared` and `libs/shared/mongo`. Each process holds one
Postgres pool; product and order also hold a Mongo client. The passwords come
from HashiCorp Vault as *leases*: Vault creates a database role, hands out its
name and password with a lease id and a duration, and drops the role when the
lease ends. `src/` is the older single application (items), with its own copy
of the same managers.

| Component | State | Operations | Talks to |
|---|---|---|---|
| `DatabaseConnectionManager` (`services/shared`) | `active` (pool, credential, `expiresAt`), `timer`, `rotating` | `onModuleInit`, `repo`, `rotate`, `renewOrRotate`, `scheduleRenew`, the drain timer, `onModuleDestroy`, `health` | Vault client, Postgres; called by every handler |
| `VaultClient`, `CircuitBreaker` | `state`, `failures`, `openedAt`, shared by all calls; per call the attempt | `request` (attempt, backoff, refuse, succeed, fail), `canCall`, `success`, `failure` | Vault over HTTP |
| Vault (external) | the leases and what is left of them | issue, renew, revoke, expire | drops database roles |
| `InventoryService` | rows of `inventory` | `reserve`, `update`, `remove`, `create` | its own table |
| `OrderService` | rows of `orders`, `order_items`; Mongo events | `create`, `updateStatus`, `remove`, `event` | customer, product, inventory over HTTP |
| `ProductService`, `CustomerService`, `PaymentService`, `ItemsService` (`src`) | one table each; `product_audit_logs` in Mongo | `create`, `update` or `updateStatus`, `remove` (no payment is removed), `audit` | Postgres, Mongo; payment asks order-service |
| `MongoConnectionManager` | as the Postgres manager, with a client | the same, plus `enabled` and `status` | Vault client, MongoDB |
| `DatabaseConnectionManager` (`src/database`) | as above, plus `rotationCount` | the same; reads static configuration inside `rotate` | Vault, Postgres |
| `RedisHealth`, `RabbitHealth` (`services/shared`), `RedisService`, `RabbitmqService` (`src`) | `client`, `conn` | `ensureConnected`, `health`, shutdown | Vault KV, Redis, RabbitMQ |
| `AppConfigService`, `VaultService` (`src/config`) | `postgres`, `redis`, `rabbitmq`: secrets read once per process | `readSecret`, `normalizePostgres` and its conversions | Vault KV |
| environment, metrics, health endpoints | constants, counters | reads | all of the above |

What makes it hard: every `await` lets another handler or timer run; calls to
Vault and Postgres fail, hang or lose their answer after having had an effect;
leases expire on Vault's clock, whatever the process believes; three timers
(renewal, retry, drain) and shutdown meet in any order; the breaker couples all
calls of a process; reservations read, check and write in separate steps; and a
caller that has timed out does not stop the handler it called.

What makes each part correct, in one line: *one rotation at a time, no pool in use
is destroyed or loses its lease to the process itself, one that has served is
retired, and a service that has lost its lease gets another*; *all pools of a
process are opened at one address*; *calls end, and a breaker lets calls pass again
when Vault is back*; *no reservation is invented, no order is written without its
reservations*; *a removed row stays removed, a change is audited, and an update
takes away only what was changed beside it*; *health checks find back what was
away*.
The hazards are listed with their lines in `PROJECT.json`.

## 2. Modules

| Module | Models |
|---|---|
| `VaultLeases` | Vault's leases as the managers use them (external; durations from `scripts/init-vault.sh`). |
| `PoolLifecycle` | The abstract promise of all three managers: one pool in force, at most one candidate, which is promoted or lost; the pool it replaces is drained, closed, revoked. |
| `ConnectionManager` | `services/shared/database-connection.manager.ts` and the credential provider: one process, its handlers, timers, startup, shutdown and death, on top of `VaultLeases`. |
| `MCConnectionManager` | The same for TLC, with a symmetry set. |
| `MongoConnectionManager` | `libs/shared/mongo/mongo-connection.manager.ts` and its credential provider: the same manager behind `enabled`. |
| `ItemsConnectionManager`, `MCItems` | `src/database` and the secrets cache of `src/config`: the older manager, with its differences; for TLC with two good addresses and a malformed one. |
| `VaultClient` | `request()` and the breaker of `services/shared` and of `src/vault`. |
| `HealthConnections` | `redis-rabbit.health.ts` of the services, `redis.service.ts` and `rabbitmq.service.ts` of the older application, and the part of `/health/ready` that uses them. |
| `SavedRow` | `repository.save()` of TypeORM (external): select, then update of the columns that differ, or insert. |
| `Orders`, `MCOrders` | `OrderService.create/remove`, `InventoryService.reserve/update/remove`, the HTTP client between them. |
| `Records`, `MCRecords` | Creation, change and removal of one row by concurrent requests, in product, customer, inventory, order and payment service and in the items API. |
| `ConnectionManagerProofs`, `TimingProofs` | The inductive invariant of the manager, its theorems and the refinement of `PoolLifecycle`; its two promises about time. |
| `MongoProofs`, `ItemsProofs` | The same for the other two managers, from the same lemmas, and what only they promise. |
| `VaultClientProofs`, `HealthProofs`, `OrdersProofs`, `RecordsProofs` | The theorems of the four other models. |

### ConnectionManager

JavaScript is not preempted between two awaits, so **an action is the code from
the answer of one awaited call to the next await**. Every activation that can
be suspended is a process: `Request` (handlers in `repo()`), `Renewal`
(activations of `renewOrRotate()`), `Boot` (`onModuleInit`) and `Stop`
(`onModuleDestroy`). `pc[p]` says at which await it is suspended, `subject[p]`,
`old[p]` and `reason[p]` are its local variables.

| Code | Model |
|---|---|
| `this.active`, `expiresAt - now`, `leaseDuration` | `active` (the lease its pool was opened with), `expiresIn`, `duration` |
| `this.rotating`, `this.timer`, armed Node timers | `rotating`, `timer` (a slot), `due` (one countdown per slot) |
| `rotate()` up to its first await / `fetch()` / `initialize()` / `select 1` | `beginRotation` / `FetchReturns`, `FetchThrows`, `FetchLosesAnswer` / `ConnectReturns`, `ConnectThrows` / `RotateCompletes`, `ProbeThrows` |
| `finally { rotating = false }` and what each caller does with the error | `rotationFails` |
| `repo()` | `RepoServes`, `RepoRotates`, then `RotateCompletes` |
| `renewOrRotate()` | `TimerFires`, `VaultRenews`, `RenewReturns`, `RenewThrows` |
| `setTimeout(destroy, then revoke)` | `retire`, `DrainFires`, `DestroyReturns`, `RevokeReturns`, `RetireThrows` |
| `onModuleDestroy()`, exit | `onModuleDestroy`, `StopDestroyed`, `StopDestroyThrows`, `StopRevoked`, `Kill`, `exit` |

A call succeeds at once while `~outage` and its lease is alive. During an
outage (Vault or Postgres slow or away, or the client's breaker open) a call
may take any time, fail, or lose its answer after its effect. `Tick` advances
all countdowns and waits for every timer that is due, so timers are punctual;
only when all `Renewal` activations are busy may one fire late. `RevokeByHand`
is what `scripts/test-microservice-flow.sh` does to a running service.

**Pools that nobody owns.** After a failed probe the code does not destroy the
DataSource it has opened (`ProbeThrows`), and a `destroy()` that fails leaves one
behind as well: such a pool is `"lost"`, still open and known to nobody. In the
drain the failed destroy skips the revocation (`RetireThrows`); at shutdown its
error is swallowed and the lease is revoked all the same (`StopDestroyThrows`,
`StopRevoked`). Nothing in the code bounds the lost pools.

Lease ids are slots that Vault reuses when the lease has ended and the process no
longer knows it (`Free`). A lost pool is followed as long as its lease lives; after
that its slot may stand for a new lease (`VaultIssues`), so lost pools are not
counted. A pool that a shutdown is closing while a rotation under way supersedes it
would be destroyed a second time by its drain; this second destroy is left out
(`retire`).

### MongoConnectionManager, ItemsConnectionManager

Both extend `ConnectionManager`, whose actions they take over where the code is
the same statement by statement, and state their own next-state relation.
`fetch`, `connect`, `rotate`, `renewOrRotate`, `collection`, `createPool`,
`disposePool` and `getRepository` name the functions. The Mongo manager adds
`enabled`: without it startup does nothing and `collection()` throws, so that a
disabled service stays as it is (`DisabledStep` of `MongoProofs`). Its
`scheduleRenew()` falls back to 3600 s, far longer than the leases of 60 s of
`scripts/init-vault.sh`; `FallbackTtl` is therefore any positive number.

The items manager never rotates and never arms a timer without a pool
(`getRepository`, `RenewReturnsLate`), and does not catch what `destroy()` throws:
in the drain timer that ends the process (`DisposeThrows`), at shutdown it ends the
shutdown and leaves the lease unrevoked (`StopThrows`). Inside `createPool()` it
waits for the address of the database: `secret` is the KV entry, which an operator
may write again at any time (`SecretRewritten`), well or badly;
`getDatabaseStaticConfig` reads, checks and caches it in `config`; if neither the
cache nor Vault has a valid one, `createPoolRejects`. `opened` collects the
addresses at which this process has opened pools. An entry without host, port or
database stands also for one without payload.

### PoolLifecycle

The state of every manager maps to it directly: `current` is `active`, `pool` is
`pool`; handlers, timers, failures and Vault disappear. `ImplementsLifecycle`
says that every step of every activation is one of its steps or none: a pool is
put in force in one step, after its probe, and only one is being opened at a
time; what it replaces passes every stage in order, or is lost when its close
fails; a failed rotation takes nothing but the candidate.

### VaultClient

A `Call` slot is an activation of `request()`; an idle slot starts its next
call after one of `Pauses`. `Refuse` is the attempt that `canCall()` turns
down: its error is thrown inside the `try`, so `failure` counts it. The two
copies of the client differ in the comparison of the reset time
(`ResetWhenEqual`). Time is in units of the base delay; jitter is one unit.

### HealthConnections

A `Poll` is an activation of `/health/ready`, which asks Redis, then RabbitMQ; the
`Boot` activations are the `onModuleInit()` of the two and of the connection
manager, which is a single call here: nobody catches its error, so that a process
without Vault or database exits (`DatabaseFails`). `lazy` chooses between the
services (connect whenever a check finds no connection, swallow errors at startup)
and the older application (connect at startup or not start). The secrets are awaited
(`getRedisConfig`, `getRabbitmqConfig`) before the connections. `client` and `conn`
are `this.client` and `this.conn`; `owner` tells whose client `this.client` is,
because concurrent checks replace each other's. ioredis reconnects
(`RedisReconnects`), amqplib does not.

The secrets come through the breaker of the process's Vault client. It is shared
with the managers, so its count and its times are left to `VaultClient`: here it
opens at some time while Vault is away (`refusing`, `BreakerOpens`) and resets at
some time or never (`BreakerResets`). That it may stay open for ever under checks
or retries closer than its reset time is the finding of `BreakerStall`;
`RedisRecovers` and `RabbitConnects` say under which condition the checks recover.

### Orders

`create()` awaits one call at a time (`pc`), `reserve()` runs as a handler of
its own (`handler`), so a caller that times out (`HttpFails`) leaves it
running. TypeORM's `save()` of an entity with an id selects the row again and
updates the columns that differ, or inserts: `ReserveSelects`, `ReserveSaves`,
`PatchSelects`, `PatchSaves` and `written` of `SavedRow`. Clients ask for natural
quantities; the controllers do not check this.

### Records

`service` says whose row it is; `Products`, `Customers`, `Inventory`, `Items`,
`Orders` and `Payments` list the handlers of each. `req[r]` is what a request
awaits (`at`) and what it knows: the columns its client gives (`asked`), the
entity it will save, the row its `save()` has selected (`seen`), and, for the
properties only, which columns others have changed since (`others`). Every
statement may fail (`Fail`), lose its answer after its effect (`store`), or be
cut off by a kill; the journal entry comes last and its error is swallowed
(`LogFails`). `failed` remembers that any of this has happened. The order of a
payment is `theOrder`, at another service and without a foreign key.

A request that reads the items of an order before they were saved is refused by
the database when it saves the order (`Select`), since TypeORM would take
`orderId`, which is `NOT NULL`, from them.

## 3. Runs

| Run | Instance | Question |
|---|---|---|
| `ManagerSafety` | 3 leases, TTL 2, drain 2, 2 handlers that hold a pool for 1, 1 renewal, 1 timer; kills, outages, revocation by hand; symmetric | type invariant, the safety properties below, `PoolLifecycle` |
| `ManagerLiveness` | 2 leases, TTL 2, 1 handler, 1 renewal, 2 timers; no shutdown | recovery, end of startup, end of superseded leases, one chain of renewals in the end |
| `ManagerStall` | the same, clients may stay away | finding: an idle service may lose its lease for good |
| `MongoManager` | 2 leases, TTL 3 = threshold, fallback 5, drain 2, 1 handler that holds a client for 1, 1 renewal, 2 timers; enabled or not | `PoolLifecycle` with a rotation after every renewal, which comes in time; no lease is revoked while it is used |
| `ItemsManager` | 2 leases, TTL 2, threshold 1, 1 handler, 1 renewal, 2 timers; three contents of the secret | `PoolLifecycle`, revocation, quiet shutdown, renewal in time, one address, with drains that end the process |
| `BreakerRecovery` | 2 calls, 4 attempts, threshold 3, reset after 3 | state and count agree, calls end, a quiet breaker recovers |
| `BreakerStall` | the defaults of `.env.example` in units of 250 ms: 1 caller that asks again at once or after 5 s, 6 attempts, threshold 5, reset after 10 s | finding: the breaker never lets a call pass again |
| `HealthConnections` | 2 polls; Vault, the database, Redis and RabbitMQ come and go, the breaker opens and resets; lazy or not | the checks recover, a service starts without Redis and RabbitMQ, RabbitMQ connections are bounded |
| `HealthStall` | 1 poll, of a service | finding: RabbitMQ is reported down for ever |
| `Orders` | 2 orders (two positions and one) for one product with 2 in stock, restocked to 3, removals | reservations and orders |
| `Records` | 2 requests, 2 columns with 2 values, each of six services; symmetric | audits, order items, removal, overwriting updates |
| `OrdersOversell` | the same without restocking and removal | finding: more is promised than there is |

Safety of the manager: `OneRotation` (one rotation, and it retires the pool in
force), `PoolInForceIsOpen` (no drain, destroy or revoke touches the pool in force),
`HeldPoolIsNotDestroyed` (the drain outlasts the handlers), `ImplementsLifecycle`
(every step keeps to `PoolLifecycle`: only a probed pool replaces the one in force),
`ServedPoolIsRetired` (a pool that has been in force is given up only into a drain
or a closing shutdown: of the pools that served none is forgotten, whereas those
whose probe or destroy fails are lost). Of the Mongo and items managers also
`RevokedWhenUnused` (the process never revokes a lease that the pool in force, a
rotation or a handler of a ready service uses; its pool has been destroyed, unless
the shutdown failed to), `NeverLapses` (while Vault and Postgres answer, a pool in
force never has a dead lease, however little a renewal grants), and of the items
manager `OneAddress` and `ShutdownIsQuiet`. A shutdown is quiet when no pool is in
force and no rotation or renewal is under way; from then on none begins. A rotation
under way when the shutdown begins is not stopped by the code: it may put a pool in
force once more, which the exit takes away and whose lease is left to its TTL.
Liveness: `Recovers`, `StartupEnds`, `RetiredLeaseEnds`, `ChainsMerge` (the retry
timer, which is armed without clearing the one before, starts a second chain of
renewals: the chains find each other again).

**Why the bounds are enough.** Two handlers and a renewal give every pair of callers
of `rotate()` and a third that arrives late. Three leases are the one in force, the
one being opened, and one draining or lost; while fewer are free a fetch waits, as
for a slow Vault. A TTL of 2 puts the renewal (after 1) before the expiry (at 2) and
allows renewals granted below and above `RotateBefore` = 1. Two timer slots let the
retry timer and the renewal timer coexist, which is what the uncleared `this.timer`
allows; they are in the liveness, Mongo and items runs. `ManagerSafety` has one
slot, for the size of its state space; its safety properties are proved for every
set of timers and for all delays. A pool held for 1 and a drain of 2 let drains run
and come due while handlers hold pools. With leases of 2 and drains of 2 a
superseded lease has ended by itself before it is revoked; so `RevokedWhenUnused` is
checked where leases outlive the drain, with leases of 3 in `MongoManager` and
drains of 1 in `ItemsManager`, and proved of all three.

In the liveness runs one handler and two leases suffice for a rotation that overlaps
a renewal and a drain. With two leases, in the Mongo and items runs, a rotation
waits for the drain before it, as for a slow Vault; what distinguishes those
managers concerns single activations. `NeverLapses` therefore assumes that a fetch
finds a free slot (`Answered`). Its calls take no time, as those of every run while
there is no outage; that `expiresAt` starts when the probe returns, later than
Vault's clock, shows in outages only, of which `Recovers` speaks.

In `HealthConnections` two polls replace each other's client; a kill during startup
is left out, since such a process has less to lose (but startup itself may exit). In
`VaultClient` two calls give every overlap of a success, a failure and a refusal;
`failures` is counted up to the threshold, which is all that the code compares; both
runs have the comparison of the services (`ResetWhenEqual` FALSE); the theorems are
about either, so that of the other copy recovery is neither checked nor proved. In
`Orders` the demand (4) exceeds stock and restocking (2 and 3), so both refusals and
lost updates occur. In `Records` two requests give every pair of creation, change
and removal, one after the other as often as one likes; two columns are the least in
which updates can miss or overwrite each other. Ids are given out by Postgres, one
`POST` makes one row, and no client is told an id before its row exists, so that one
row and one creation stand for all; `Kill` and a 404 reach only states that other
steps reach as well.

**Fairness.** Calls end because axios, TypeORM and `HTTP_CLIENT_TIMEOUT_MS` time
out (`WF` on the steps of activations); Node fires timers (`WF` on renewals and
drains); ioredis keeps reconnecting, `/health/ready` is polled;
the clock never stops (`SF` on `Tick` in the manager, because outages may
disable it again and again; `WF` in `VaultClient`). `Traffic` (handlers keep
asking) is added only in `ManagerLiveness`; `ManagerStall` shows what is lost
without it. The recovery properties assume that outages end (`CalmInTheEnd`):
the code promises nothing otherwise. `HeldPoolIsNotDestroyed` assumes that a
handler uses a repository for less than `DB_POOL_DRAIN_MS` (`MaxHold <
DrainDelay`), which is the code's own premise.

## 4. Findings

- **An idle service may stay without a lease** (`ManagerStall`). A renewal that
  fails while a handler's rotation runs ends silently at the guard of `rotate()`;
  when that rotation fails, no timer is left. ADR-004 promises rotation on renewal
  failure.
- **A breaker that is asked regularly stays open** (`BreakerStall`). The managers
  retry every 5 s, the reset takes 10 s without a failure, and a refusal is a
  failure: with the default configuration the manager of one service alone keeps
  its breaker open for ever. `Recovers` counts an open breaker as an outage: it
  holds only when the breaker lets go, for which `RecoversAfterQuiet` gives the
  condition.
- **RabbitMQ stays down in the health report** (`HealthStall`). A connection that
  RabbitMQ has closed is never replaced, although the broker is back. The trace is
  of a service; `src/rabbitmq.service.ts:31` looks at `this.conn` in the same way.
- **Overselling** (`OrdersOversell`). `reserve()` loses updates.

Also observed, without a document that says otherwise: the default threshold of the
Mongo manager (60 s) equals the default TTL (60 s), so that every renewal is
followed by a rotation; a failed rotation leaves the lease it has fetched to expire
by itself and, after its probe, a pool that nobody closes; a rotation under way at
shutdown leaves its lease, too; a shutdown whose `destroy()` fails revokes the lease
of a pool that is still open; health checks that come more often than the breaker
resets keep it open, so that a RabbitMQ that was away at startup is never connected;
refused orders keep the reservations of their earlier items; Redis clients that
concurrent checks replace go on reconnecting; `expiresAt` starts when the probe
returns, later than Vault's clock; the order of a payment may be removed before the
payment is saved; an update that had read a row inserts it again after its removal;
the `before` of a product's audit entry is the entity that has been changed already.

## 5. Proofs

All theorems hold for every value of the constants that the named assumptions of
the modules allow (`VaultAssumption`, `ManagerAssumption`, `SecretAssumption`,
`ClientAssumption`, `HealthAssumption`, `OrdersAssumption`, `RecordsAssumption`);
the three on leases that never lapse also assume `Prudent`. Each proof goes through
an inductive invariant, which `Invariance` (or its namesake) proves of the
specification; each action, or group of alike actions, has a lemma of its own.

**`ConnectionManagerProofs`**: `TypeCorrect`, `RotationsExclude`,
`PoolInForceStaysOpen`, `KeepsLifecycle`, `ServedPoolsAreRetired`. None of the state
properties but the types is inductive alone. `IInv` joins them with four facts:
`OpenIsKnown` (a pool called open is in force or held by the rotation that probes
it), `FreshPool` (the lease a rotation works with is not in force, not the one it
replaces and not the one a shutdown closes; it has no pool while it is being
connected and an open one while it is probed), `DownIsBlank` (a process that is
down remembers nothing) and `StopApart` (what a shutdown closes is not in force,
and it is as far as the shutdown has come, or lost). `OneRotation` is needed for
the swap, which retires the right pool only because nothing else replaced
`active` since the rotation began; this is also what `ServedPoolsAreRetired` says of
it. `PoolInForceIsOpen` needs `FreshPool`, so that a failed probe never takes the
pool in force; `OpenIsKnown` needs both.

`KeepsLifecycle` is `Spec => ImplementsLifecycle`. One lemma per group of actions
maps a step to `Open`, `Discard`, `Promote`, `Advance`, `Shutdown`, `Exit` or a
stutter. `Open` needs that there is no other candidate (`OneRotation` and
`OpenIsKnown`), `Promote` that the pool `rotate()` remembers is the one in
force (`OneRotation`, `PoolInForceIsOpen`).

**`TimingProofs`**: `DrainOutlastsUse`, `RevocationWhenUnused`, `LeaseNeverLapses`.

`DrainOutlastsUse`: `HeldInv` says that what is left of the use of a draining pool
is less than what is left of its drain (`HeldLonger`): this holds when the drain
begins, because `MaxHold < DrainDelay` and nobody is served a pool that is not in
force, and both run down together. `HeldApart` keeps the pool that a failed probe
loses from the ones in use, and `Young` says that handlers come after startup.

`RevocationWhenUnused`: only the drain, the shutdown, the operator and the clock end
a live lease (`ActivationsRevokeNothing`). The first two have disposed of its pool
(`RevokersHaveDisposed`: by their own stages, for the shutdown by `StopApart`), and a
pool that is disposed of is not in force, not being opened, and, by `HeldInv`, not
held by a handler of a ready service (`DisposedIsUnused`).

`LeaseNeverLapses`, `Spec => NeverLapses`: the formula `NeverLapses` has the
premise `[]Answered` (Vault and Postgres answer), so the invariant `Punctual` is
proved of the steps between two states that satisfy `Answered`. `Ahead` says that
the lease in force is alive and that something acts before it ends: a rotation is
under way, or the timer in `this.timer` fires earlier, or a renewal of this lease
waits for its answer. Three facts make it inductive: a lease being opened is still
whole (`NewLease`), a grant on its way is not longer than what is left of the
lease it extends, and a renewal that outlived its lease (it arms the timer by the
`leaseDuration` of the present one) comes while the present lease is still that
long (both `LateAnswers`). The hypothesis `Prudent` is what this needs of the
constants: `RotateBefore >= 1` and `DefaultTtl >= 2`, since a lease of one second,
issued or left by a renewal without a rotation, ends when the shortest delay of
`scheduleRenew()` does; nobody revokes leases by hand; and some activation of
`renewOrRotate()` is there. The repository's own values (thresholds of 10 s
and, for Mongo, 60 s, leases of 60 s) satisfy it. `PunctualKept` is the lemma for
steps that touch none of it.

**`MongoProofs`**: `MongoRotationsExclude`, `MongoServedIsRetired`,
`MongoKeepsLifecycle`, `MongoRevocation`, `MongoDrainOutlastsUse`,
`MongoLeaseNeverLapses`, all of them for a fallback of any length. `MongoInv` is
`IInv` of the manager when Mongo is enabled and `Untouched` when it is not; the
steps of the enabled manager are steps of the connection manager, for which its
lemmas are cited. `PoolInForceIsOpen` is claimed of an enabled service only: a
disabled one is ready without a client.

**`ItemsProofs`**: `ItemsRotationsExclude`, `ItemsServedIsRetired`,
`ItemsKeepsLifecycle`, `ItemsRevocation`, `ItemsDrainOutlastsUse`,
`ItemsTypeCorrect`, `PoolsShareAddress`, `ShutdownStaysQuiet`, `AddressComesFirst`,
`ItemsLeaseNeverLapses`. The steps that only this manager has (`OwnStep`) exit, fail
a rotation or end a renewal; one lemma each says that they keep `IInv`, `HeldInv`
and `Punctual`. `AddressInv` says that pools are opened at the cached address only
and that the cache, once filled, stays until the process ends. `ShutdownStaysQuiet`
rests on `QuietWithoutPool`: with no pool in force and nothing under way that could
install one, `getRepository()` throws and `renewOrRotate()` returns. `AddressFirst`
(no pool is probed or in force before the address is known, and only startup works
for one) is what the renewals in time need here: a rotation whose address is refused
would leave the pool in force to its lease, but when there is a pool the address is
cached.

**`VaultClientProofs`**: `StateAgreesWithCount` and `TypeCorrect` for any number of
calls, threshold, reset time and backoff. `StateAgreesWithCount` also bounds the
failures; `Limits` bounds attempts, pauses and the clock. For the pauses, 2^attempt
is shown to be a number (`PowerNat`, which counts subsets), and the longest of
`Pauses`, a finite set, to exist (`GreatestExists`).

**`HealthProofs`**: `TypeCorrect`, `ConnectionsAreBounded`. The bound is inductive
only with the checks on their way to a connection (`Connecting`): connections
opened and checks connecting are together at most the number of checks
(`Bounded`), since a check sets out only while there is none; `Phases` and
`Startup` keep the connection of startup apart.

**`OrdersProofs`**: `TypeCorrect`, `OrdersAreBacked`, `ReservationsWereInStock`,
`NothingIsInvented`.
`Progress` relates the loop of `create()` to its reservations: the items before
the current one are granted, and a `reserve()` that outlives its caller works for
an item the caller never leaves. `Stocked` says that every copy of a row, in the
table, in a PATCH or in a `reserve()`, shows a quantity the product has had and a
count below one: `save()` mixes two copies column by column, and keeps this of
both (`WrittenWithin`). For `NothingIsInvented` the copies are compared with what
has been granted (`Promised`): a copy that `reserve()` is about to save may be above
it by its own item, which is granted in the step that saves it and not before
(`Fresh`). What has been granted only grows (`GrantedGrows`). The sums are over
finite sets (of orders, of the items granted to one); `SumStep` takes one element
out of such a sum, from the recursive function that the community modules define
it by, and `SumAgrees` compares two sums.

**`RecordsProofs`**: `TypeCorrect`, `ChangesAreAudited`, `ItemsFollowOrders`,
`OrdersHaveItems`, `RemovalIsFinal`, `OverwritesAreConcurrent`. `IInv` adds to the
types what each request is for (`Purpose`), that a row is created once
(`OneCreation`), that no items are without their order (`ItemsHaveTheirOrder`), that
what an update takes for granted differs from the row only in columns it knows to
have been changed (`Remembered`), that what has been done is in the journal or about
to be (`Accounted`), and who is to save or delete missing items (`Complete`).

Facts about finite sets that call for induction (`SmallestSet`, `GreatestExists`)
are proved by a smallest counterexample: a strict subset is a well-founded order
(`FS_StrictSubsetOrderingWellFounded` and `WFMin`).

Only model-checked: liveness, which is out of the prover's reach (`Recovers`,
`StartupEnds`, `RetiredLeaseEnds`, `ChainsMerge`, `CallsEnd`, `RecoversAfterQuiet`,
`RedisRecovers`, `RabbitConnects`, `StartsWithoutRedisAndRabbit`, `CreateEnds`).
Every invariant and every action property of a passing run is a theorem.

## 6. Not modelled, and the plan

Left out on purpose: metrics, logging, module wiring, authentication with a
static token, setup scripts, Postman. They keep no state that a property is about.

Also left out: a PATCH of `reservedQuantity` itself while orders reserve (alone it
is in `Records`); audit entries and events that clients add themselves (`POST
:id/audit-logs`, `POST :id/events`), which are single writes; ids that clients would
choose; the two sides of an audit entry; how many pools failed probes and destroys
leave behind, and how many Redis clients concurrent checks (nothing bounds them);
the second destroy of a pool that a shutdown is closing; the answers of 4xx other
than through `Reject`; the queries of the health endpoints other than Redis and
RabbitMQ.

Possible next steps: the manager and the client composed, so that `Recovers` has
the breaker in it instead of `outage`.
