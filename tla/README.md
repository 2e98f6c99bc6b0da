# RustiCache in TLA+

RustiCache is an in-memory key-value server that speaks the Redis protocol: a
sharded store with expiry and a memory limit, master-replica replication and a
static form of Redis Cluster. This directory models it in TLA+, from the bytes of
a session to the tasks of the server, checks the models with TLC on small
instances and proves the central facts about the store, cluster routing, the
replication log and the connection limit with TLAPS. `PROJECT.json` maps every
definition to the lines it models and lists the runs, hazards, findings and
theorems.

## The system

| Part | State | Operations | Interacts with | What makes it correct |
|---|---|---|---|---|
| Store (`storage/db.rs`, `entry.rs`) | shards of entries, each under a lock; `used_memory`, an atomic counter outside the locks | `get`, `set`, `del`, `exists`, `keys`, `purge_expired_sample`, `ensure_memory_capacity` | called by every connection task, the TTL task and the replica loop at once | the counter is the size of the entries; live entries are not lost; memory stays near the limit; calls return |
| TTL task (`ttl.rs`) | none | sleep, purge | store | expired entries go, live ones stay |
| Replication state (`state.rs`) | offsets, registered senders, number of replicas | `register_downstream`, `propagate_downstream`, INFO | commands propagate, connection tasks register | every replica gets the same stream |
| Replica loop (`replica.rs`, `rdb.rs`) | socket buffer, bytes processed | handshake, RDB transfer, stream | master over TCP, local store | executes the stream once, in order; never hangs; converges |
| Commands (`commands/mod.rs`) | none | `from_value`, `execute` | store, replication state, topology | a write reaches the store and the replicas |
| Connection task (`connection.rs`) | socket buffer, authentication, downstream channel | `select!` over shutdown, channel and socket; frame loop | all of the above | requests answered in order; keys routed |
| Cluster topology (`topology.rs`) | nodes, slot map, under one lock | `add_node`, `add_slots_range`, lookups, reports | connection tasks read it, CLUSTER commands change it | keys only where their slot is; reports agree |
| Key slots (`slot.rs`) | none | CRC16, hashtag | connection task, CLUSTER KEYSLOT | agrees with Redis |
| Server (`server.rs`) | listener, permits, shutdown channel | accept, limit, shutdown | spawns every task | permits come back; shutdown reaches all |
| RESP (`resp.rs`) | none | parse, serialize | connection task, replica loop | incremental parsing loses nothing |

The tasks run on a multi-threaded tokio runtime. What is hard: calls of the store
that take a lock twice or read the counter without one; the order of two writers
on the master and on the replicas; a byte stream whose reads split and join
frames and that can break anywhere; check-then-act on the topology; pipelined
requests cut anywhere by reads; tasks that end in many ways while the server
stops. The list,
with the line where each bites, is `hazards` in `PROJECT.json`.

## Modules

| Module | Models | Extends |
|---|---|---|
| `Db` | store and TTL task | |
| `DbKeys` | a caller of `keys` beside the tasks of `Db` | `Db` |
| `DbProofs`, `DbKeysProofs` | theorems about them | `Db`, `DbKeys` |
| `Replication` | write commands on the master, replication state, connection task, TCP, replica loop | |
| `ReplLog` | what replication promises: a log that replicas join and execute | |
| `ReplLogProofs` | a theorem about the log | `ReplLog` |
| `Cluster` | topology, CLUSTER commands, routing | |
| `ClusterProofs` | theorems about `Cluster` | `Cluster` |
| `Resp` | parser and serializer, as operators | |
| `KeySlot` | CRC16, hashtags, slots, as operators | |
| `Commands` | parsing and execution of one command, as operators | `Resp`, `KeySlot` |
| `Connection` | one session: the read loop over a client's bytes | `Commands` |
| `Server` | accept loop, permits, connection tasks, shutdown, runtime | |
| `ServerProofs` | theorems about `Server` | `Server` |
| `MCDb`, `MCDbKeys`, `MCReplication`, `MCCluster`, `MCConnection`, `MCServer` | small instances | the module they are named after |

`Connection` composes the RESP parser, the commands, the key slots and the
connection task for one session without concurrency. `Db`, `Replication`,
`Cluster` and `Server` take the same code apart where tasks interleave.

**Db.** `db` is all shards together, `ShardOf` places the keys, `used` is
`used_memory` modulo `UsizeMod`. A thread's `pc` says where its call is; what one
lock section does is one action, except that `set` is split between the insert
(`SetInsert`) and the `fetch_add` (`SetCharge`), because the counter can be read
without the lock in between. `WriteLocked` keeps other steps out of that shard.
`get` is `GetHit`, or `GetExpired` and `GetClean`; `set` is `SetCall`, the loop
`CheckMemory`-`ScanShard`-`Evict`, then `EntryNew`, `SetInsert`, `SetCharge`; a
purge is `PurgeStart` and, per shard, `PurgeCollect`, `PurgeLock`, `PurgeRemove`.
Sampling by `take(n)` of a hash map is any subset of that size.

**DbKeys.** `KeysCall` reads the clock, `KeysShard` lists one shard under its read
lock, `OtherStep` is any step of `Db` in between. One arbitrary key is watched,
with two histories: live during the whole call, and present and unexpired at some
moment of it.

**Replication.** A command updates the master's store (`ClientSet`,
`ClientDelKey` per key) and is propagated by a later step (`ClientPropagate`).
The wire carries bytes tagged with frame and position; `ReplicaRead` takes any
non-empty prefix, and only when the current parser can do nothing, as in the code.
`LinkBreak` keeps a prefix of what was in flight in each direction. Each member of
`Replicas` is one run of `run_replica_loop`. Histories (`log`, `start`, `applied`,
`sent`, `last`, `stale`) serve the properties only. The store is a map; expiry and
eviction are `MasterForget` and `ReplicaForget`. GETACK comes from a Redis master:
RustiCache answers it and never sends it. `Starts` says which replicas begin at
their connection attempt, already registered, or not there at all.

**ReplLog.** Without connections or bytes: one log, `Join` at its end, `Apply` of
the next command, `Break`. `Replication` implements it with `log`, `start` and
`applied` as they are and `link` as `up` (`ImplementsLog`), fairness included: a
replica whose connection lasts executes the log to its end.

**Cluster.** One node. `nodes` is the node map with each node's slot list, `owner`
is `slot_to_node`. Before `Serve` the embedding program may edit the topology (the
end-to-end tests do, and it is the only way to give a peer slots); afterwards only
MEET and ADDSLOTS do. `Route` is the lookup under the read lock, `ExecuteSet` and
`ExecuteDel` the later execution. `FormatClusterSlots` is the scan of CLUSTER
SLOTS, compared in `SlotsReportExact` with what the slot map says.

**Resp, KeySlot, Commands, Connection.** A session is a script of requests, valid
and invalid; the client's bytes are their serialization. `Read` takes any non-empty
prefix of what is left and applies the payload limit; `Request` is one turn of the
frame loop: parse, cut the raw command, then PSYNC, redirection or execution, and
the reply. `NeedMore` and `ProtocolErr` are the two other results of the parser, and
`ParsePanics` an array count that no `Vec` can hold. `Leave`, `ReadFails` and
`Forward` are the other branches of the `select!`. Names of commands and keywords
are single letters, since matching them is all the code does with them, after
`Upper`; sizes, digits, line ends and values are real bytes. Texts of errors and
reports are opaque, except that the error about an unknown name quotes it, and
CLUSTER SLOTS is the nested array of its ranges. The references the properties use
(`Served`: each request parsed alone; `RedisSlot`: remainder of a polynomial
division) are separate definitions.

**Server.** Requests are kinds, by the way they leave the frame loop. A task waits
in `select`, runs through `frames` and waits in `write`; the connection of a replica
also has a queue of propagated commands (`downstream`), which `SelectForward`
writes; a client may stall, close and send up to `MaxRequests` requests. `Blocked`
is a write that a stalled client does not take, the one excuse `ConnectionsStop`
accepts. `End` is every way a task ends, where the permit is dropped; `Panic` is
an array count that no `Vec` can hold or, in a build with overflow checks, CLUSTER
MEET with a port that overflows. `embedded`
tells the tests' use of `run_with_shutdown` from `main`, which drops the runtime
afterwards (`DropRuntime`, then `Cancel` and `CancelBackground` at the tasks' next
await).

## Runs

Runs that pass:

| Run | Shows |
|---|---|
| `db_race` | two threads and the TTL task: the counter is exact until a stale purge; `get` never removes a live entry |
| `db_evict` | one caller, a caller of `keys`, two shards, three keys, no purge: exact counter, memory limit, LRU order; `keys` lists every key live throughout the call and no key that was never there |
| `db_progress` | two callers at the memory limit and the TTL task: a call returns, unless it evicts for ever what the other thread keeps inserting; expired entries are purged if the sample covers the shard |
| `repl_live` | the handshake ends in the stream or gives up; ACK offsets are stream positions; the byte-level protocol implements `ReplLog` |
| `repl_two` | two replicas that fail independently: each gets its stream once and in order, and, with one writer per key, once drained holds the last writes made since it registered |
| `cluster_route` | keys only under owned slots; owned slots are kept; CLUSTER SLOTS is exact; only MEET makes CLUSTER NODES miss slots |
| `session` | 18 scripts that use every command, each read in every split: replies and state do not depend on the reads up to the first malformed bytes; replies, null and nested ones included, stay framed for a client whose unknown names have no line end; the propagated bytes rebuild the store; slots are Redis Cluster's; no request above the payload limit is handled, and only such a request or a read that goes past the end of a request is refused |
| `server` | two clients, one permit, either client a replica: no permit is lost or doubled, the accept queue drains, shutdown loses no reply on a runtime that lives on, connections that can be written to stop, and the program ends |

Runs in which the code disagrees with a document or a test (each is a finding):

| Run | Shows |
|---|---|
| `db_purge_race` | the TTL task removes a live entry set between its two locks |
| `db_cap` | a set whose victim is gone inserts above the limit |
| `repl_order` | two writers of a key: master and replica end with different values |
| `repl_delete` | a DEL of a key the master forgot leaves it on the replica |

Read off the code while modelling, and not the subject of a run: an entry used
between the scan and the removal is still evicted, and an older one inserted in
between is not (`db.rs:172`); a stale purge can wrap the counter, after which sets
evict an almost empty store (`db.rs:146`); a purge whose sample is smaller than the
shard may never reach an expired entry (`db.rs:131`); commands propagated between
the answer to PSYNC and the registration never reach the replica
(`connection.rs:106`); the snapshot is empty and is skipped (`connection.rs:99`,
`replica.rs:268`); FULLRESYNC always carries offset 0 (`connection.rs:96`), and the
replica does not read it (`replica.rs:219`); `connected_slaves` never decreases
(`state.rs:92`); a replica accepts writes while INFO says `slave_read_only:1`
(`commands/mod.rs:295`); the replica loop is not restarted (`replica.rs:174`); MEET
of the own address makes CLUSTER NODES and CLUSTER SLOTS disagree
(`topology.rs:73`), and a slot that changes hands stays in its former owner's list
(`topology.rs:94`); the README says that shutdown reaches "background replication
loops" (`README.md:336`), but neither the replica loop nor the TTL task is
signalled, only the drop of the runtime stops them, and that may also cut a reply
that is being written; the payload limit "per request" (`README.md:358`) is compared
with the whole buffer, so pipelined requests that are each within it are refused
together (`connection.rs:71`; `PayloadGuard` says exactly when); the README
announces `-NOAUTH` (`README.md:315`) and the serializer writes `-ERR NOAUTH`
(`resp.rs:63`); bytes that do not parse drop everything read with them
(`connection.rs:181`); error replies repeat the name of an unknown command as it is
(`commands/mod.rs:242`), so a name with a line end makes more than one reply, and
`RepliesFramed` is about names without; the count of an array is taken as a capacity
at once, so a huge one ends the task without an answer (`resp.rs:228`).

Bounds. `MaxCapacity` stands for the largest capacity of a `Vec`. `MaxTime`,
`UsizeMod`, `MaxLog`, `MaxSent`, `MaxDelKeys`, `MaxRanges` and `MaxRequests` bound
what is unbounded or huge. Two threads, two keys and entry sizes 1 and 2 suffice for
a replaced entry of another size and for a wrap; three keys in two shards for an
eviction that has a choice. `db_progress` has one key and a limit of one byte, so
that each caller can evict what the other inserts and any entry fills the memory; a
TTL of 0 has passed at once, so the clock need not move. In `db_evict` time stamps
are 0 and 1: an entry that is not the oldest is then a 1 chosen while a 0 is there;
a call of `keys` is followed only while its outcome is open (`Undecided`). In
`repl_live` commands and the payload have two bytes, so that reads end inside a
frame; in `repl_two` they have one. Three slots give a range with a middle, a gap
and a range up to the last slot. Two clients and one permit give a full server and a
rejected connection; two requests give a pipeline. In `repl_two` both replicas are
registered from the start, or one connects while the other is absent; `repl_live`
has the whole handshake. Deadlock is not checked in `Replication`, `Connection` and
`Server`: with `MaxLog` commands done and delivered, the session over or the program
ended, they stop. Threads and keys are symmetric where a configuration says so; no
liveness run uses symmetry.

Fairness. `Db`: a call that can go on again and again goes on (the runtime
schedules every task, and the locks of parking_lot are eventually fair), and so
does the TTL task. `Replication`: weak fairness of started commands, of both
branches of the connection's `select!` (it picks at random among the ready ones),
of the replica loop and its connection attempt. New commands and failures are
never forced. `Server`: weak fairness of every task and of `Accept`, and strong
fairness of `SelectShutdown`, because `select!` begins at a random branch and a
signal that stays ready is taken although requests are always ready too. Nothing is
assumed of clients, who may stall for ever, or of the signal. A replication link
that goes silent without an error is outside the model: the code has no timeout,
so it would wait for ever.

## Proofs

All theorems hold for every value of the constants under the named assumptions.

`DbProofs`, from `DbAssumption` (finitely many keys, sizes at most `MaxSize`),
`AddressSpaceAssumption` (all keys at full size fit in a `usize`) and
`NoneAssumption`:

- `TypeCorrect`: `TypeOK` is inductive.
- `LocksProtect`: `LockInv`, what holding a shard across steps guarantees. It is
  the strengthening the accounting needs: between insert and `fetch_add` the
  inserted entry is still there, and no other step touches its shard.
- `AccountingBrokenOnlyByStalePurge`: every step but a stale purge keeps
  `Accurate`. The bytes stored are the cardinality of a set of cells (key, byte),
  so that adding and removing an entry adds and removes a column of cells, and the
  cardinality theorems for finite sets apply. `AccurateWithoutStalePurge` follows.
- `LazyCleanupIsSafe`: the second look at the entry makes the cleanup safe.

`DbKeysProofs`, from the same assumptions:

- `KeysIsBracketed`: `KeysBracketed` for any number of shards. `KeysInv` adds to it
  what has been listed while the scan is under way: if the watched key's shard has
  been read, a key live throughout has been found, and a key found was there. It
  needs that the clock never goes back (`ClockGrows`), since the scan compares with
  the time it began.

`ClusterProofs`, from `ClusterAssumption`:

- `OnlyOwnedKeysStored`: `StoredKeysOwned`, strengthened by "a command past its
  lookup still has a target this node owns".
- `ServingKeepsSlots`: the reason it is inductive.
- `TypeCorrect` and `OwnersAreKnown`: `NodesInv`, the types together with "every
  owner is a node". The loop of ADDSLOTS is the longest prefix it accepts, so the
  lemmas are about that prefix (`AcceptedType`) and about appended lists
  (`CoversConcat`).
- `ListsKeptButForMeet`: `OnlyMeetForgetsRanges` from `NodesInv`.

`ReplLogProofs`, from `None \notin Nat`:

- `ReplicasExecuteTheLog`: what a replica has executed is a contiguous part of the
  log, from where it joined. That the protocol implements the log is checked by TLC.

`ServerProofs`, from `ServerAssumption`:

- `TypeCorrect`: `TypeOK`, which is inductive together with the count of permits.
- `PermitsAreExact`, with the consequence `NeverOverLimit`: permits and live tasks
  add up to the limit. The set of live tasks changes by one element where the count
  of permits changes by one; the rest leave both alone.
- `RepliesSurviveShutdown`: strengthened by "a reply is owed only by a task in
  `write`, or by one whose client has gone or whose runtime is dropped".

Only model-checked: liveness (out of reach of the prover), the memory limit and
LRU order, CLUSTER SLOTS (a scan, which would need induction), everything about
bytes (`Resp`, `KeySlot`, `Commands` and `Connection` are recursive definitions),
and that `Replication` implements `ReplLog`.

## Not modelled

- `memory_used` and the texts of INFO, CLUSTER INFO and CLUSTER NODES: they read
  state and change nothing.
- Expiry on a replica: PX is relative and the replica's clock is its own. In
  `Replication` an entry may be forgotten at any time, which covers every delay.
- A second PSYNC on one connection, which registers it again, and replicas of
  replicas: `run_replica_loop` sends one PSYNC.
- A connection that goes silent without an error: the code has no timeout to model.
- Growth of the unbounded downstream channel: there is no limit to check.
- Flags, environment variables, logging, binding of sockets: input and output at
  start-up. `main` appears in `Server` as the owner of the runtime.
- The whole server as one specification. The interactions are modelled pairwise
  (tasks and store, master and replica, routing and topology, session and
  commands, tasks and shutdown); their product is beyond TLC.

## Plan

1. `Db`: an abstract map that `Db` implements while the TTL task is quiet; the
   exact condition under which the memory limit is broken, and its proof.
2. `Replication`: a proof that it implements the safety part of `ReplLog`.
