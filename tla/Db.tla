--------------------------------- MODULE Db ---------------------------------
(***************************************************************************)
(* The sharded in-memory store (storage/db.rs, storage/entry.rs,           *)
(* storage/ttl.rs) under concurrent callers.                               *)
(*                                                                         *)
(* Threads are the tokio tasks that call Db::get / set / del (client       *)
(* connections and the replication loop); one more task runs the active    *)
(* TTL eviction.  A section of code that holds a shard's lock is one       *)
(* action, split only where another task can look in between:              *)
(* used_memory is read without a lock, so each change of it that others    *)
(* can tell apart is an action of its own, and the shard stays             *)
(* WriteLocked until the section ends.                                     *)
(*                                                                         *)
(* A value is known by its identity and its length; Instants are readings  *)
(* of `clock`; HashMap iteration order is an arbitrary choice.             *)
(***************************************************************************)
EXTENDS Integers, FiniteSets

CONSTANTS
    Threads,        \* tasks that call get, set and del
    Keys,           \* keys the callers use
    Values,         \* values the callers store
    ShardCount,     \* number of shards (shard_mask + 1)
    ShardOf,        \* shard_index: the shard of each key (a hash)
    KeyLen,         \* key.len() of each key
    ValLen,         \* value.len() of each value
    EntryOverhead,  \* size_of::<Entry>()
    MaxSize,        \* bound on approx_size_bytes
    Ttls,           \* relative times to live a caller may ask for
    MaxMemory,      \* max_memory_bytes, 0 for no limit
    LruSample,      \* entries per shard ensure_memory_capacity looks at (5)
    TtlSample,      \* sample_per_shard of the active eviction
    UsizeMod,       \* 2^64, the modulus of an AtomicUsize
    MaxTime,        \* bound on the clock
    None            \* Option::None

EntrySize(k, v) == KeyLen[k] + ValLen[v] + EntryOverhead

Instants == Nat

Entry == [value : Values, expires_at : Instants \cup {None},
          last_accessed : Instants, approx_size_bytes : 1..MaxSize]

ASSUME DbAssumption ==
    /\ IsFiniteSet(Keys)
    /\ ShardCount \in Nat \ {0}
    /\ ShardOf \in [Keys -> 0..(ShardCount - 1)]
    /\ KeyLen \in [Keys -> Nat] /\ ValLen \in [Values -> Nat]
    /\ EntryOverhead \in Nat \ {0}
    /\ MaxSize \in Nat
    /\ \A k \in Keys, v \in Values : EntrySize(k, v) <= MaxSize
    /\ Ttls \subseteq Nat
    /\ MaxMemory \in Nat /\ LruSample \in Nat \ {0} /\ TtlSample \in Nat
    /\ MaxTime \in Nat
    /\ UsizeMod \in Nat /\ MaxSize < UsizeMod

\* All the keys together fit in the address space.
ASSUME AddressSpaceAssumption == Cardinality(Keys \X (1..MaxSize)) < UsizeMod

ASSUME NoneAssumption ==
    /\ None \notin Entry
    /\ None \notin Keys
    /\ None \notin Values
    /\ None \notin Nat

VARIABLES
    db,       \* the shards: the entry of each key, or None
    used,     \* used_memory
    clock,    \* Instant::now()
    pc,       \* where each thread is
    req,      \* the arguments of each thread's call
    idx,      \* the shard each thread's LRU scan is at
    oldest,   \* the LRU scan's candidate
    fresh,    \* new_entry of each thread's set
    tpc,      \* where the TTL task is
    tidx,     \* the shard the TTL task is at
    tnow,     \* `now` of the TTL task's current cycle
    doomed    \* keys_to_remove of the TTL task

threadVars == <<pc, req, idx, oldest, fresh>>
ttlVars == <<tpc, tidx, tnow, doomed>>
vars == <<db, used, clock, threadVars, ttlVars>>

Request == [key : Keys \cup {None}, value : Values \cup {None},
            expires_at : Instants \cup {None}]
NoRequest == [key |-> None, value |-> None, expires_at |-> None]
Candidate == [key : Keys, last_accessed : Instants]
Doom == [key : Keys, size : 1..MaxSize]
LastShard == ShardCount - 1

\* Types of the variables; a thread inside a call has the arguments and the
\* intermediate results that the call's code has at that point.
TypeOK ==
    /\ db \in [Keys -> Entry \cup {None}]
    /\ used \in 0..(UsizeMod - 1)
    /\ clock \in Instants
    /\ pc \in [Threads -> {"idle", "clean", "check", "scan", "evict", "new",
                           "insert", "charge"}]
    /\ req \in [Threads -> Request]
    /\ idx \in [Threads -> 0..LastShard]
    /\ oldest \in [Threads -> Candidate \cup {None}]
    /\ fresh \in [Threads -> Entry \cup {None}]
    /\ tpc \in {"sleep", "collect", "lock", "removing"}
    /\ tidx \in 0..LastShard
    /\ tnow \in Instants
    /\ doomed \in SUBSET Doom
    /\ \A t \in Threads :
          /\ pc[t] # "idle" => req[t].key \in Keys
          /\ pc[t] \notin {"idle", "clean"} => req[t].value \in Values
          /\ pc[t] = "evict" => oldest[t] \in Candidate
          /\ pc[t] \in {"insert", "charge"} => fresh[t] \in Entry

Init ==
    /\ db = [k \in Keys |-> None]
    /\ used = 0
    /\ clock = 0
    /\ pc = [t \in Threads |-> "idle"]
    /\ req = [t \in Threads |-> NoRequest]
    /\ idx = [t \in Threads |-> 0]
    /\ oldest = [t \in Threads |-> None]
    /\ fresh = [t \in Threads |-> None]
    /\ tpc = "sleep"
    /\ tidx = 0
    /\ tnow = 0
    /\ doomed = {}

-----------------------------------------------------------------------------
(* Helpers *)

\* Mutant: the counter goes below zero instead of wrapping around.
FetchSubNoWrap(n) == used - n

\* fetch_sub and fetch_add wrap around.
FetchSub(n) == IF used >= n THEN used - n ELSE used - n + UsizeMod
FetchAdd(n) == IF used + n < UsizeMod THEN used + n ELSE used + n - UsizeMod

ExpiredAt(entry, now) == entry.expires_at # None /\ now >= entry.expires_at
IsExpired(entry) == ExpiredAt(entry, clock)

\* A shard whose write lock is held across an action boundary.
WriteLocked(s) ==
    \/ tpc = "removing" /\ tidx = s
    \/ \E t \in Threads : pc[t] = "charge" /\ ShardOf[req[t].key] = s

Present(s) == {k \in Keys : ShardOf[k] = s /\ db[k] # None}

\* shard.iter().take(n): n entries in HashMap order, or all there are.
Take(n, S) ==
    {T \in SUBSET S : IF Cardinality(S) <= n THEN T = S ELSE Cardinality(T) = n}

Goto(t, label) == pc' = [pc EXCEPT ![t] = label]

\* Return from a call: the locals go out of scope.
Return(t) ==
    /\ Goto(t, "idle")
    /\ req' = [req EXCEPT ![t] = NoRequest]
    /\ idx' = [idx EXCEPT ![t] = 0]
    /\ oldest' = [oldest EXCEPT ![t] = None]
    /\ fresh' = [fresh EXCEPT ![t] = None]

-----------------------------------------------------------------------------
(* get and exists.  A miss changes nothing and is not an action. *)

\* A live entry is touched and returned under one write lock.
GetHit(t, k) ==
    /\ pc[t] = "idle"
    /\ ~WriteLocked(ShardOf[k])
    /\ db[k] # None /\ ~IsExpired(db[k])
    /\ db' = [db EXCEPT ![k].last_accessed = clock]
    /\ UNCHANGED <<used, clock, threadVars, ttlVars>>

\* An expired entry: the lock is released before the cleanup.
GetExpired(t, k) ==
    /\ pc[t] = "idle"
    /\ ~WriteLocked(ShardOf[k])
    /\ db[k] # None /\ IsExpired(db[k])
    /\ Goto(t, "clean")
    /\ req' = [req EXCEPT ![t].key = k]
    /\ UNCHANGED <<db, used, clock, idx, oldest, fresh, ttlVars>>

\* Mutant: the cleanup trusts the check made under the first lock.
GetCleanNoRecheck(t) ==
    LET k == req[t].key
    IN  /\ pc[t] = "clean"
        /\ ~WriteLocked(ShardOf[k])
        /\ IF db[k] # None
           THEN /\ db' = [db EXCEPT ![k] = None]
                /\ used' = FetchSub(db[k].approx_size_bytes)
           ELSE UNCHANGED <<db, used>>
        /\ Return(t)
        /\ UNCHANGED <<clock, ttlVars>>

\* The lock is taken again and the entry, whatever it is now, looked at again.
GetClean(t) ==
    LET k == req[t].key
    IN  /\ pc[t] = "clean"
        /\ ~WriteLocked(ShardOf[k])
        /\ IF db[k] # None /\ IsExpired(db[k])
           THEN /\ db' = [db EXCEPT ![k] = None]
                /\ used' = FetchSub(db[k].approx_size_bytes)
           ELSE UNCHANGED <<db, used>>
        /\ Return(t)
        /\ UNCHANGED <<clock, ttlVars>>

-----------------------------------------------------------------------------
(* set and ensure_memory_capacity *)

\* SET computes expires_at before the call to set.
SetCall(t, k, v, px) ==
    /\ pc[t] = "idle"
    /\ req' = [req EXCEPT ![t] =
          [key |-> k, value |-> v,
           expires_at |-> IF px = None THEN None ELSE clock + px]]
    /\ Goto(t, IF MaxMemory > 0 THEN "check" ELSE "new")
    /\ UNCHANGED <<db, used, clock, idx, oldest, fresh, ttlVars>>

\* Mutant: the store may fill up to and including the limit.
CheckMemoryOffByOne(t) ==
    /\ pc[t] = "check"
    /\ Goto(t, IF used > MaxMemory THEN "scan" ELSE "new")
    /\ idx' = [idx EXCEPT ![t] = 0]
    /\ oldest' = [oldest EXCEPT ![t] = None]
    /\ UNCHANGED <<db, used, clock, req, fresh, ttlVars>>

\* The loop's condition, read without a lock.
CheckMemory(t) ==
    /\ pc[t] = "check"
    /\ Goto(t, IF used >= MaxMemory THEN "scan" ELSE "new")
    /\ idx' = [idx EXCEPT ![t] = 0]
    /\ oldest' = [oldest EXCEPT ![t] = None]
    /\ UNCHANGED <<db, used, clock, req, fresh, ttlVars>>

\* Mutant: a later shard's candidate replaces the one of an earlier shard.
OldestOfLastShard(S, best) ==
    LET eldest == {k \in S : \A j \in S : db[k].last_accessed <= db[j].last_accessed}
    IN  IF eldest = {} THEN {best}
        ELSE {[key |-> k, last_accessed |-> db[k].last_accessed] : k \in eldest}

\* The candidates after looking at the sample S of a shard.
OldestOf(S, best) ==
    LET eldest == {k \in S : \A j \in S : db[k].last_accessed <= db[j].last_accessed}
        better == {k \in eldest : best = None \/ db[k].last_accessed < best.last_accessed}
    IN  IF better = {} THEN {best}
        ELSE {[key |-> k, last_accessed |-> db[k].last_accessed] : k \in better}

\* Mutant: the loop goes on when the scan has found nothing to evict.
ScanShardNoBreak(t) ==
    /\ pc[t] = "scan"
    /\ ~WriteLocked(idx[t])
    /\ \E S \in Take(LruSample, Present(idx[t])) :
         \E best \in OldestOf(S, oldest[t]) :
            /\ oldest' = [oldest EXCEPT ![t] = best]
            /\ IF idx[t] < LastShard
               THEN /\ idx' = [idx EXCEPT ![t] = @ + 1]
                    /\ UNCHANGED pc
               ELSE /\ Goto(t, IF best = None THEN "check" ELSE "evict")
                    /\ UNCHANGED idx
    /\ UNCHANGED <<db, used, clock, req, fresh, ttlVars>>

\* One shard of the LRU scan, under that shard's read lock.  A store in which
\* the scan finds nothing ends the loop.
ScanShard(t) ==
    /\ pc[t] = "scan"
    /\ ~WriteLocked(idx[t])
    /\ \E S \in Take(LruSample, Present(idx[t])) :
         \E best \in OldestOf(S, oldest[t]) :
            /\ oldest' = [oldest EXCEPT ![t] = best]
            /\ IF idx[t] < LastShard
               THEN /\ idx' = [idx EXCEPT ![t] = @ + 1]
                    /\ UNCHANGED pc
               ELSE /\ Goto(t, IF best = None THEN "new" ELSE "evict")
                    /\ UNCHANGED idx
    /\ UNCHANGED <<db, used, clock, req, fresh, ttlVars>>

\* The candidate is removed under its shard's write lock, whatever it is now; a
\* candidate that is gone ends the loop.
Evict(t) ==
    LET k == oldest[t].key
    IN  /\ pc[t] = "evict"
        /\ ~WriteLocked(ShardOf[k])
        /\ IF db[k] # None
           THEN /\ db' = [db EXCEPT ![k] = None]
                /\ used' = FetchSub(db[k].approx_size_bytes)
                /\ Goto(t, "check")
           ELSE /\ Goto(t, "new")
                /\ UNCHANGED <<db, used>>
        /\ UNCHANGED <<clock, req, idx, oldest, fresh, ttlVars>>

\* Entry::new, before the shard is locked.
EntryNew(t) ==
    /\ pc[t] = "new"
    /\ fresh' = [fresh EXCEPT ![t] =
          [value |-> req[t].value, expires_at |-> req[t].expires_at,
           last_accessed |-> clock,
           approx_size_bytes |-> EntrySize(req[t].key, req[t].value)]]
    /\ Goto(t, "insert")
    /\ UNCHANGED <<db, used, clock, req, idx, oldest, ttlVars>>

\* Mutant: the size of the replaced entry is not subtracted.
SetInsertNoSub(t) ==
    LET k == req[t].key
    IN  /\ pc[t] = "insert"
        /\ ~WriteLocked(ShardOf[k])
        /\ db' = [db EXCEPT ![k] = fresh[t]]
        /\ Goto(t, "charge")
        /\ UNCHANGED <<used, clock, req, idx, oldest, fresh, ttlVars>>

\* shard.insert and the fetch_sub of the entry it replaces.
SetInsert(t) ==
    LET k == req[t].key
    IN  /\ pc[t] = "insert"
        /\ ~WriteLocked(ShardOf[k])
        /\ db' = [db EXCEPT ![k] = fresh[t]]
        /\ used' = IF db[k] # None THEN FetchSub(db[k].approx_size_bytes) ELSE used
        /\ Goto(t, "charge")
        /\ UNCHANGED <<clock, req, idx, oldest, fresh, ttlVars>>

\* The fetch_add of the new entry, still under the lock, which is then released.
SetCharge(t) ==
    /\ pc[t] = "charge"
    /\ used' = FetchAdd(fresh[t].approx_size_bytes)
    /\ Return(t)
    /\ UNCHANGED <<db, clock, ttlVars>>

-----------------------------------------------------------------------------
(* del.  A miss changes nothing and is not an action. *)

\* Mutant: the deleted entry's bytes stay counted.
DelKeepsBytes(t, k) ==
    /\ pc[t] = "idle"
    /\ ~WriteLocked(ShardOf[k])
    /\ db[k] # None
    /\ db' = [db EXCEPT ![k] = None]
    /\ UNCHANGED <<used, clock, threadVars, ttlVars>>

Del(t, k) ==
    /\ pc[t] = "idle"
    /\ ~WriteLocked(ShardOf[k])
    /\ db[k] # None
    /\ db' = [db EXCEPT ![k] = None]
    /\ used' = FetchSub(db[k].approx_size_bytes)
    /\ UNCHANGED <<clock, threadVars, ttlVars>>

-----------------------------------------------------------------------------
(* run_active_ttl_eviction and purge_expired_sample *)

\* The interval has passed; `now` is read once for the whole cycle.
PurgeStart ==
    /\ tpc = "sleep"
    /\ tpc' = "collect"
    /\ tnow' = clock
    /\ UNCHANGED <<db, used, clock, threadVars, tidx, doomed>>

\* On to the next shard, or back to sleep.
PurgeNextShard ==
    /\ IF tidx < LastShard
       THEN tpc' = "collect" /\ tidx' = tidx + 1 /\ UNCHANGED tnow
       ELSE tpc' = "sleep" /\ tidx' = 0 /\ tnow' = 0
    /\ doomed' = {}

\* Mutant: the sample is one entry short.
PurgeCollectShort ==
    /\ tpc = "collect"
    /\ ~WriteLocked(tidx)
    /\ \E S \in Take(TtlSample - 1, Present(tidx)) :
         LET expired == {k \in S : ExpiredAt(db[k], tnow)}
         IN  IF expired = {}
             THEN PurgeNextShard
             ELSE /\ doomed' = {[key |-> k, size |-> db[k].approx_size_bytes] : k \in expired}
                  /\ tpc' = "lock"
                  /\ UNCHANGED <<tidx, tnow>>
    /\ UNCHANGED <<db, used, clock, threadVars>>

\* Under the read lock: the expired entries of the sample, with their sizes.
PurgeCollect ==
    /\ tpc = "collect"
    /\ ~WriteLocked(tidx)
    /\ \E S \in Take(TtlSample, Present(tidx)) :
         LET expired == {k \in S : ExpiredAt(db[k], tnow)}
         IN  IF expired = {}
             THEN PurgeNextShard
             ELSE /\ doomed' = {[key |-> k, size |-> db[k].approx_size_bytes] : k \in expired}
                  /\ tpc' = "lock"
                  /\ UNCHANGED <<tidx, tnow>>
    /\ UNCHANGED <<db, used, clock, threadVars>>

\* The read lock was released; the write lock is taken.
PurgeLock ==
    /\ tpc = "lock"
    /\ ~WriteLocked(tidx)
    /\ tpc' = "removing"
    /\ UNCHANGED <<db, used, clock, threadVars, tidx, tnow, doomed>>

\* A collected key is removed, whatever its entry is now, and the collected size
\* subtracted.  The last one releases the lock.
PurgeRemove(d) ==
    /\ tpc = "removing"
    /\ d \in doomed
    /\ IF db[d.key] # None
       THEN /\ db' = [db EXCEPT ![d.key] = None]
            /\ used' = FetchSub(d.size)
       ELSE UNCHANGED <<db, used>>
    /\ IF doomed = {d}
       THEN PurgeNextShard
       ELSE /\ doomed' = doomed \ {d}
            /\ UNCHANGED <<tpc, tidx, tnow>>
    /\ UNCHANGED <<clock, threadVars>>

-----------------------------------------------------------------------------

Tick ==
    /\ clock < MaxTime
    /\ clock' = clock + 1
    /\ UNCHANGED <<db, used, threadVars, ttlVars>>

\* The rest of a call that is under way.
Continue(t) ==
    \/ GetClean(t)
    \/ CheckMemory(t)
    \/ ScanShard(t)
    \/ Evict(t)
    \/ EntryNew(t)
    \/ SetInsert(t)
    \/ SetCharge(t)

Call(t) ==
    \E k \in Keys :
        \/ GetHit(t, k)
        \/ GetExpired(t, k)
        \/ \E v \in Values, px \in Ttls \cup {None} : SetCall(t, k, v, px)
        \/ Del(t, k)

TtlTask ==
    \/ PurgeStart
    \/ PurgeCollect
    \/ PurgeLock
    \/ \E d \in doomed : PurgeRemove(d)

Next ==
    \/ \E t \in Threads : Call(t) \/ Continue(t)
    \/ TtlTask
    \/ Tick

Spec == Init /\ [][Next]_vars

-----------------------------------------------------------------------------
(* Properties *)

\* What the shard locks protect: sections that hold a write lock across a step
\* are in different shards, the entry a set inserted is still there when its
\* size is added, and the TTL task only removes keys of the shard it locked.
LockInv ==
    /\ \A t, u \in Threads :
          pc[t] = "charge" /\ pc[u] = "charge" /\ t # u
             => ShardOf[req[t].key] # ShardOf[req[u].key]
    /\ \A t \in Threads :
          pc[t] = "charge"
             => /\ db[req[t].key] = fresh[t]
                /\ ~(tpc = "removing" /\ tidx = ShardOf[req[t].key])
    /\ \A d \in doomed : ShardOf[d.key] = tidx

\* The keys whose entries used_memory accounts for: a set that has inserted its
\* entry and not yet added its size still holds the shard's lock.
Charged ==
    {k \in Keys : db[k] # None /\ \A t \in Threads : pc[t] = "charge" => req[t].key # k}

\* The bytes of the charged entries, one cell per byte.
Cells == {c \in Keys \X (1..MaxSize) :
             c[1] \in Charged /\ c[2] <= db[c[1]].approx_size_bytes}

\* used_memory is the sum of the sizes of the charged entries.
Accurate == used = Cardinality(Cells)

\* The TTL task subtracts a size that is not the size of the entry it removes.
StalePurge ==
    \E d \in doomed :
        /\ PurgeRemove(d)
        /\ db[d.key] # None
        /\ db[d.key].approx_size_bytes # d.size

\* Whatever get, set, del, the eviction loop and the TTL task do, in any
\* interleaving, used_memory stays the sum of the sizes of the stored entries
\* unless the TTL task removes an entry that was replaced, by one of another
\* size, after it was collected.
OnlyStalePurgeBreaksAccounting == [][Accurate /\ ~StalePurge => Accurate']_vars

\* get's lazy cleanup takes the lock a second time; an entry stored in between
\* that has not expired survives it.
LazyCleanupSparesLive ==
    [][\A t \in Threads, k \in Keys :
          pc[t] = "clean" /\ pc'[t] = "idle" /\ db[k] # None /\ ~IsExpired(db[k])
             => db'[k] = db[k]]_vars

\* The active eviction removes only entries that have expired.
PurgesOnlyExpired ==
    [][\A k \in Keys :
          tpc = "removing" /\ ShardOf[k] = tidx /\ db[k] # None /\ db'[k] = None
             => IsExpired(db[k])]_vars

\* A set's eviction keeps used_memory below max_memory_bytes before the insert,
\* so the store exceeds the limit by at most one entry per concurrent set.
MemoryCap == MaxMemory > 0 => used < MaxMemory + MaxSize * Cardinality(Threads)

\* The entry the eviction removes is a least recently used one of the store.
EvictsLeastRecentlyUsed ==
    [][\A t \in Threads, k \in Keys :
          pc[t] = "evict" /\ pc'[t] = "check" /\ db[k] # None /\ db'[k] = None
             => \A j \in Keys : db[j] # None => db[k].last_accessed <= db[j].last_accessed]_vars

\* Each task of the runtime keeps running, and parking_lot's locks are
\* eventually fair: a task that finds its lock free again and again gets it.
Fairness ==
    /\ \A t \in Threads : SF_vars(Continue(t))
    /\ SF_vars(TtlTask)

FairSpec == Spec /\ Fairness

\* Every call returns, with one exception.  The eviction loop of a set ends also when used_memory
\* has wrapped around and stays above the limit; it goes on for ever only if it evicts for ever,
\* and other threads' sets, which found room, fill the memory again each time.
CallsReturn ==
    \A t \in Threads :
        \/ []<>(pc[t] = "idle")
        \/ /\ []<><<Evict(t)>>_vars
           /\ []<><<\E u \in Threads \ {t} : SetCharge(u)>>_vars

\* An expired entry that nobody reads is removed by the active eviction, when
\* the sample covers the shard.
ExpiredIsPurged ==
    \A k \in Keys : (db[k] # None /\ IsExpired(db[k])) ~> (db[k] = None \/ ~IsExpired(db[k]))

=============================================================================
