------------------------------ MODULE DbProofs ------------------------------
(***************************************************************************)
(* Proofs about Db: its types, what the shard locks protect, and the       *)
(* accounting of used_memory.                                              *)
(***************************************************************************)
EXTENDS Db, FiniteSetTheorems, TLAPS

\* The two counter operations stay in the range of a usize.
LEMMA FetchType ==
    ASSUME TypeOK, NEW n \in 0..MaxSize
    PROVE  FetchSub(n) \in 0..(UsizeMod - 1) /\ FetchAdd(n) \in 0..(UsizeMod - 1)
BY DbAssumption DEF TypeOK, FetchSub, FetchAdd

LEMMA EntryFacts ==
    ASSUME TypeOK, NEW k \in Keys, db[k] # None
    PROVE  /\ db[k] \in Entry
           /\ db[k].approx_size_bytes \in 1..MaxSize
           /\ db[k].last_accessed \in Nat
BY DEF TypeOK, Entry, Instants

LEMMA RequestFacts ==
    ASSUME TypeOK, NEW t \in Threads
    PROVE  /\ req[t] \in Request
           /\ NoRequest \in Request
           /\ pc[t] # "idle" => req[t].key \in Keys
           /\ 0 \in 0..LastShard
BY DbAssumption DEF TypeOK, Request, NoRequest, LastShard, Instants

LEMMA InitType == Init => TypeOK
BY DbAssumption DEF Init, TypeOK, Request, NoRequest, LastShard, Instants, Candidate, Doom

\* Every step of get, set, del, of the TTL task and of the clock keeps the types.
LEMMA StepType == TypeOK /\ [Next]_vars => TypeOK'
<1> SUFFICES ASSUME TypeOK, [Next]_vars PROVE TypeOK'
    OBVIOUS
<1> USE DbAssumption
<1>1. ASSUME NEW t \in Threads, NEW k \in Keys, GetHit(t, k) PROVE TypeOK'
  <2>1. [db[k] EXCEPT !.last_accessed = clock] \in Entry
      BY <1>1, EntryFacts DEF GetHit, Entry, TypeOK
  <2> QED BY <1>1, <2>1 DEF GetHit, TypeOK, threadVars, ttlVars
<1>2. ASSUME NEW t \in Threads, NEW k \in Keys, GetExpired(t, k) PROVE TypeOK'
  <2>1. [req[t] EXCEPT !.key = k] \in Request
      BY RequestFacts DEF Request
  <2> QED BY <1>2, <2>1 DEF GetExpired, Goto, TypeOK, ttlVars, Request
<1>3. ASSUME NEW t \in Threads, GetClean(t) PROVE TypeOK'
  <2>1. req[t].key \in Keys /\ NoRequest \in Request /\ 0 \in 0..LastShard
      BY <1>3, RequestFacts DEF GetClean
  <2>2. used' \in 0..(UsizeMod - 1)
      BY <1>3, <2>1, EntryFacts, FetchType DEF GetClean, TypeOK
  <2>3. db' \in [Keys -> Entry \cup {None}]
      BY <1>3, <2>1 DEF GetClean, TypeOK
  <2> QED BY <1>3, <2>1, <2>2, <2>3 DEF GetClean, Return, Goto, TypeOK, ttlVars
<1>4. ASSUME NEW t \in Threads, NEW k \in Keys, NEW v \in Values,
             NEW px \in Ttls \cup {None}, SetCall(t, k, v, px)
      PROVE TypeOK'
  <2> DEFINE e == IF px = None THEN None ELSE clock + px
  <2>1. e \in Instants \cup {None}
      BY DEF TypeOK, Instants
  <2>2. [key |-> k, value |-> v, expires_at |-> e] \in Request
      BY <2>1 DEF Request
  <2> QED BY <1>4, <2>2 DEF SetCall, Goto, TypeOK, ttlVars
<1>5. ASSUME NEW t \in Threads, CheckMemory(t) PROVE TypeOK'
  BY <1>5, RequestFacts DEF CheckMemory, Goto, TypeOK, ttlVars
<1>6. ASSUME NEW t \in Threads, ScanShard(t) PROVE TypeOK'
  <2>1. PICK S \in Take(LruSample, Present(idx[t])) : \E best \in OldestOf(S, oldest[t]) :
            /\ oldest' = [oldest EXCEPT ![t] = best]
            /\ IF idx[t] < LastShard
               THEN idx' = [idx EXCEPT ![t] = @ + 1] /\ UNCHANGED pc
               ELSE Goto(t, IF best = None THEN "new" ELSE "evict") /\ UNCHANGED idx
      BY <1>6 DEF ScanShard
  <2>2. PICK best \in OldestOf(S, oldest[t]) :
            /\ oldest' = [oldest EXCEPT ![t] = best]
            /\ IF idx[t] < LastShard
               THEN idx' = [idx EXCEPT ![t] = @ + 1] /\ UNCHANGED pc
               ELSE Goto(t, IF best = None THEN "new" ELSE "evict") /\ UNCHANGED idx
      BY <2>1
  <2>3. \A k \in S : k \in Keys /\ db[k].last_accessed \in Nat
      BY EntryFacts DEF Take, Present
  <2>4. best \in Candidate \cup {None}
      BY <2>3 DEF OldestOf, Candidate, TypeOK, Instants
  <2>5. idx' \in [Threads -> 0..LastShard]
      BY <2>2 DEF TypeOK, LastShard
  <2>6. pc[t] = "scan" /\ UNCHANGED <<db, used, clock, req, fresh, ttlVars>>
      BY <1>6 DEF ScanShard
  <2>7. oldest' \in [Threads -> Candidate \cup {None}] /\ oldest'[t] = best
      BY <2>2, <2>4 DEF TypeOK
  <2>8. /\ \A u \in Threads \ {t} : pc'[u] = pc[u] /\ oldest'[u] = oldest[u]
        /\ pc' = [pc EXCEPT ![t] = pc'[t]]
        /\ pc'[t] \in {"scan", "new"} \/ (pc'[t] = "evict" /\ best # None)
      BY <2>2, <2>6 DEF Goto, TypeOK
  <2> QED BY <2>4, <2>5, <2>6, <2>7, <2>8 DEF TypeOK, ttlVars
<1>7. ASSUME NEW t \in Threads, Evict(t) PROVE TypeOK'
  <2>1. oldest[t].key \in Keys
      BY <1>7 DEF Evict, TypeOK, Candidate
  <2>2. used' \in 0..(UsizeMod - 1)
      BY <1>7, <2>1, EntryFacts, FetchType DEF Evict, TypeOK
  <2>3. db' \in [Keys -> Entry \cup {None}]
      BY <1>7, <2>1 DEF Evict, TypeOK
  <2> QED BY <1>7, <2>2, <2>3 DEF Evict, Goto, TypeOK, ttlVars
<1>8. ASSUME NEW t \in Threads, EntryNew(t) PROVE TypeOK'
  <2>1. req[t].key \in Keys /\ req[t].value \in Values /\ req[t].expires_at \in Instants \cup {None}
      BY <1>8 DEF EntryNew, TypeOK, Request
  <2>2. EntrySize(req[t].key, req[t].value) \in 1..MaxSize
      BY <2>1 DEF EntrySize
  <2>3. fresh'[t] \in Entry
      BY <1>8, <2>1, <2>2 DEF EntryNew, Entry, TypeOK, Instants
  <2> QED BY <1>8, <2>3 DEF EntryNew, Goto, TypeOK, ttlVars
<1>9. ASSUME NEW t \in Threads, SetInsert(t) PROVE TypeOK'
  <2>1. req[t].key \in Keys /\ fresh[t] \in Entry
      BY <1>9 DEF SetInsert, TypeOK
  <2>2. used' \in 0..(UsizeMod - 1)
      BY <1>9, <2>1, EntryFacts, FetchType, SMTT(30) DEF SetInsert, TypeOK
  <2> QED BY <1>9, <2>1, <2>2 DEF SetInsert, Goto, TypeOK, ttlVars
<1>10. ASSUME NEW t \in Threads, SetCharge(t) PROVE TypeOK'
  <2>1. fresh[t].approx_size_bytes \in 1..MaxSize
      BY <1>10 DEF SetCharge, TypeOK, Entry
  <2>2. used' \in 0..(UsizeMod - 1)
    <3>1. used' = FetchAdd(fresh[t].approx_size_bytes)
        BY <1>10, Zenon DEF SetCharge
    <3>2. fresh[t].approx_size_bytes \in 0..MaxSize
        BY <2>1
    <3> QED BY <3>1, <3>2, FetchType, Zenon
  <2> QED BY <1>10, <2>2, RequestFacts DEF SetCharge, Return, Goto, TypeOK, ttlVars
<1>11. ASSUME NEW t \in Threads, NEW k \in Keys, Del(t, k) PROVE TypeOK'
  <2>1. used' \in 0..(UsizeMod - 1)
      BY <1>11, EntryFacts, FetchType DEF Del
  <2> QED BY <1>11, <2>1 DEF Del, TypeOK, threadVars, ttlVars
<1>12. CASE PurgeStart
  BY <1>12 DEF PurgeStart, TypeOK, threadVars
<1>13. CASE PurgeCollect
  <2>1. PICK S \in Take(TtlSample, Present(tidx)) :
            LET expired == {k \in S : ExpiredAt(db[k], tnow)}
            IN  IF expired = {}
                THEN PurgeNextShard
                ELSE /\ doomed' = {[key |-> k, size |-> db[k].approx_size_bytes] : k \in expired}
                     /\ tpc' = "lock"
                     /\ UNCHANGED <<tidx, tnow>>
      BY <1>13 DEF PurgeCollect
  <2>2. \A k \in S : k \in Keys /\ db[k].approx_size_bytes \in 1..MaxSize
      BY EntryFacts DEF Take, Present
  <2>3. doomed' \in SUBSET Doom
      BY <2>1, <2>2 DEF PurgeNextShard, Doom
  <2>4. tpc' \in {"sleep", "collect", "lock", "removing"} /\ tidx' \in 0..LastShard /\ tnow' \in Instants
      BY <2>1 DEF PurgeNextShard, TypeOK, LastShard, Instants
  <2> QED BY <1>13, <2>3, <2>4 DEF PurgeCollect, TypeOK, threadVars
<1>14. CASE PurgeLock
  BY <1>14 DEF PurgeLock, TypeOK, threadVars
<1>15. ASSUME NEW d \in doomed, PurgeRemove(d) PROVE TypeOK'
  <2>1. d.key \in Keys /\ d.size \in 1..MaxSize
      BY DEF TypeOK, Doom
  <2>2. used' \in 0..(UsizeMod - 1)
      BY <1>15, <2>1, FetchType, SMTT(30) DEF PurgeRemove, TypeOK
  <2>3. db' \in [Keys -> Entry \cup {None}]
      BY <1>15, <2>1 DEF PurgeRemove, TypeOK
  <2>4. tpc' \in {"sleep", "collect", "lock", "removing"} /\ tidx' \in 0..LastShard /\ tnow' \in Instants
        /\ doomed' \in SUBSET Doom
      BY <1>15 DEF PurgeRemove, PurgeNextShard, TypeOK, LastShard, Instants
  <2> QED BY <1>15, <2>2, <2>3, <2>4 DEF PurgeRemove, TypeOK, threadVars
<1>16. CASE Tick
  BY <1>16 DEF Tick, TypeOK, threadVars, ttlVars, Instants
<1>17. CASE UNCHANGED vars
  BY <1>17 DEF vars, TypeOK, threadVars, ttlVars
<1> QED
  BY <1>1, <1>2, <1>3, <1>4, <1>5, <1>6, <1>7, <1>8, <1>9, <1>10, <1>11, <1>12, <1>13, <1>14,
     <1>15, <1>16, <1>17 DEF Next, Call, Continue, TtlTask

\* The store, the counter and the locals of every call keep their types.
THEOREM TypeCorrect == Spec => []TypeOK
BY InitType, StepType, PTL DEF Spec

-----------------------------------------------------------------------------
(* What the shard locks protect *)

\* A thread in the section that another step excludes is in another shard.
LEMMA Unlocked ==
    ASSUME TypeOK, NEW k \in Keys, ~WriteLocked(ShardOf[k])
    PROVE  /\ \A t \in Threads : pc[t] = "charge" => req[t].key # k
           /\ ~(tpc = "removing" /\ tidx = ShardOf[k])
BY DEF WriteLocked

\* What the steps that change the entry of a key under its shard's lock find: no
\* set has yet to charge that key.
LEMMA EvictFacts ==
    ASSUME TypeOK, NEW t \in Threads, Evict(t)
    PROVE  /\ oldest[t].key \in Keys
           /\ \A u \in Threads : pc[u] = "charge" => req[u].key # oldest[t].key
<1>1. pc[t] = "evict" /\ ~WriteLocked(ShardOf[oldest[t].key])
    BY Zenon DEF Evict
<1>2. oldest[t] \in Candidate
    BY <1>1, Zenon DEF TypeOK
<1>3. oldest[t].key \in Keys
    BY <1>2 DEF Candidate
<1> QED BY <1>1, <1>3, Unlocked, Zenon

LEMMA CleanFacts ==
    ASSUME TypeOK, NEW t \in Threads, GetClean(t)
    PROVE  /\ req[t].key \in Keys
           /\ \A u \in Threads : pc[u] = "charge" => req[u].key # req[t].key
<1>1. pc[t] = "clean" /\ ~WriteLocked(ShardOf[req[t].key])
    BY Zenon DEF GetClean
<1>2. req[t].key \in Keys
    BY <1>1, RequestFacts
<1> QED BY <1>1, <1>2, Unlocked, Zenon

LEMMA InsertFacts ==
    ASSUME TypeOK, NEW t \in Threads, SetInsert(t)
    PROVE  /\ req[t].key \in Keys
           /\ \A u \in Threads : pc[u] = "charge" => req[u].key # req[t].key
           /\ pc[t] = "insert" /\ pc' = [pc EXCEPT ![t] = "charge"]
           /\ db' = [db EXCEPT ![req[t].key] = fresh[t]]
           /\ db'[req[t].key] = fresh[t]
           /\ \A k \in Keys \ {req[t].key} : db'[k] = db[k]
           /\ UNCHANGED <<req, fresh, tpc, tidx, doomed>>
<1>1. /\ pc[t] = "insert" /\ ~WriteLocked(ShardOf[req[t].key])
      /\ pc' = [pc EXCEPT ![t] = "charge"]
      /\ db' = [db EXCEPT ![req[t].key] = fresh[t]]
      /\ req' = req /\ fresh' = fresh /\ ttlVars' = ttlVars
    BY Zenon DEF SetInsert, Goto
<1>2. req[t].key \in Keys
    BY <1>1, RequestFacts
<1>3. \A u \in Threads : pc[u] = "charge" => req[u].key # req[t].key
    BY <1>1, <1>2, Unlocked, Zenon
<1>4. db'[req[t].key] = fresh[t] /\ \A k \in Keys \ {req[t].key} : db'[k] = db[k]
    BY <1>1, <1>2 DEF TypeOK
<1>5. tpc' = tpc /\ tidx' = tidx /\ doomed' = doomed
    BY <1>1 DEF ttlVars
<1> QED BY <1>1, <1>2, <1>3, <1>4, <1>5, Zenon

LEMMA InitLock == Init => LockInv
BY DEF Init, LockInv

\* Every step keeps it: a step that changes the entry of a key, or that starts to
\* hold a lock across steps, has found the key's shard unlocked.
LEMMA StepLock == TypeOK /\ LockInv /\ [Next]_vars => LockInv'
<1> SUFFICES ASSUME TypeOK, LockInv, [Next]_vars PROVE LockInv'
    OBVIOUS
<1>1. ASSUME NEW t \in Threads, NEW k \in Keys, GetHit(t, k) PROVE LockInv'
  <2>1. \A u \in Threads : pc[u] = "charge" => req[u].key # k
      BY <1>1, Unlocked DEF GetHit
  <2> QED BY <1>1, <2>1 DEF GetHit, LockInv, TypeOK, threadVars, ttlVars
<1>2. ASSUME NEW t \in Threads, NEW k \in Keys, GetExpired(t, k) PROVE LockInv'
  BY <1>2 DEF GetExpired, Goto, LockInv, TypeOK, ttlVars
<1>3. ASSUME NEW t \in Threads, GetClean(t) PROVE LockInv'
  <2>1. req[t].key \in Keys
      BY <1>3, RequestFacts DEF GetClean
  <2>2. \A u \in Threads : pc[u] = "charge" => req[u].key # req[t].key
      BY <1>3, CleanFacts, Zenon
  <2> QED BY <1>3, <2>1, <2>2 DEF GetClean, Return, Goto, LockInv, TypeOK, ttlVars
<1>4. ASSUME NEW t \in Threads, NEW k \in Keys, NEW v \in Values,
             NEW px \in Ttls \cup {None}, SetCall(t, k, v, px)
      PROVE LockInv'
  BY <1>4 DEF SetCall, Goto, LockInv, TypeOK, ttlVars
<1>5. ASSUME NEW t \in Threads, CheckMemory(t) PROVE LockInv'
  BY <1>5 DEF CheckMemory, Goto, LockInv, TypeOK, ttlVars
<1>6. ASSUME NEW t \in Threads, ScanShard(t) PROVE LockInv'
  <2>1. \A u \in Threads : pc'[u] = "charge" => pc[u] = "charge"
      BY <1>6 DEF ScanShard, Goto, TypeOK
  <2> QED BY <1>6, <2>1 DEF ScanShard, LockInv, ttlVars
<1>7. ASSUME NEW t \in Threads, Evict(t) PROVE LockInv'
  <2>1. oldest[t].key \in Keys
      BY <1>7, EvictFacts, Zenon
  <2>2. \A u \in Threads : pc[u] = "charge" => req[u].key # oldest[t].key
      BY <1>7, EvictFacts, Zenon
  <2>3. pc[t] = "evict" /\ \E l \in {"check", "new"} : pc' = [pc EXCEPT ![t] = l]
      BY <1>7, Zenon DEF Evict, Goto
  <2>4. \A u \in Threads : pc'[u] = "charge" => pc[u] = "charge"
      BY <2>3 DEF TypeOK
  <2>5. db' = db \/ db' = [db EXCEPT ![oldest[t].key] = None]
      BY <1>7, Zenon DEF Evict
  <2>6. \A k \in Keys \ {oldest[t].key} : db'[k] = db[k]
      BY <2>1, <2>5 DEF TypeOK
  <2>7. req' = req /\ fresh' = fresh /\ tpc' = tpc /\ tidx' = tidx /\ doomed' = doomed
      BY <1>7 DEF Evict, ttlVars
  <2>8. \A u \in Threads : pc[u] = "charge" => req[u].key \in Keys
      BY DEF TypeOK
  <2> QED BY <2>2, <2>4, <2>6, <2>7, <2>8, SMTT(30) DEF LockInv
<1>8. ASSUME NEW t \in Threads, EntryNew(t) PROVE LockInv'
  <2>1. /\ pc[t] = "new" /\ pc' = [pc EXCEPT ![t] = "insert"]
        /\ \E e : fresh' = [fresh EXCEPT ![t] = e]
        /\ db' = db /\ req' = req /\ ttlVars' = ttlVars
      BY <1>8, Zenon DEF EntryNew, Goto
  <2>2. /\ \A u \in Threads : pc'[u] = "charge" => pc[u] = "charge" /\ fresh'[u] = fresh[u]
        /\ tpc' = tpc /\ tidx' = tidx /\ doomed' = doomed
      BY <2>1 DEF TypeOK, ttlVars
  <2> QED BY <2>1, <2>2, Zenon DEF LockInv
<1>9. ASSUME NEW t \in Threads, SetInsert(t) PROVE LockInv'
  <2>1. /\ \A u \in Threads : pc[u] = "charge" => ShardOf[req[u].key] # ShardOf[req[t].key]
        /\ ~(tpc = "removing" /\ tidx = ShardOf[req[t].key])
      BY <1>9, Zenon DEF SetInsert, WriteLocked
  <2>2. /\ \A u \in Threads : pc'[u] = "charge" => u = t \/ pc[u] = "charge"
        /\ db'[req[t].key] = fresh[t]
        /\ \A k \in Keys \ {req[t].key} : db'[k] = db[k]
        /\ req' = req /\ fresh' = fresh /\ tpc' = tpc /\ tidx' = tidx /\ doomed' = doomed
      BY <1>9, InsertFacts DEF TypeOK
  <2>3. \A u \in Threads : pc[u] = "charge" => req[u].key \in Keys \ {req[t].key}
      BY <1>9, InsertFacts DEF TypeOK
  <2>4. ASSUME NEW u \in Threads, NEW w \in Threads, pc'[u] = "charge", pc'[w] = "charge", u # w
        PROVE  ShardOf[req'[u].key] # ShardOf[req'[w].key]
    <3>1. CASE u = t \/ w = t
        BY <2>1, <2>2, <2>4, <3>1
    <3>2. CASE pc[u] = "charge" /\ pc[w] = "charge"
        BY <2>2, <2>4, <3>2 DEF LockInv
    <3> QED BY <2>2, <2>4, <3>1, <3>2, Zenon
  <2>5. \A u \in Threads : pc'[u] = "charge" => db'[req'[u].key] = fresh'[u]
      BY <2>2, <2>3, Zenon DEF LockInv
  <2>6. \A u \in Threads : pc'[u] = "charge" => ~(tpc' = "removing" /\ tidx' = ShardOf[req'[u].key])
      BY <2>1, <2>2, Zenon DEF LockInv
  <2>7. \A d \in doomed' : ShardOf[d.key] = tidx'
      BY <2>2, Zenon DEF LockInv
  <2> QED BY <2>4, <2>5, <2>6, <2>7, Zenon DEF LockInv
<1>10. ASSUME NEW t \in Threads, SetCharge(t) PROVE LockInv'
  <2>1. /\ \A u \in Threads : pc'[u] = "charge" => u # t /\ pc[u] = "charge"
        /\ \A u \in Threads \ {t} : req'[u] = req[u] /\ fresh'[u] = fresh[u]
        /\ UNCHANGED <<db, ttlVars>>
      BY <1>10 DEF SetCharge, Return, Goto, TypeOK
  <2>2. ASSUME NEW u \in Threads, NEW w \in Threads, pc'[u] = "charge", pc'[w] = "charge", u # w
        PROVE  ShardOf[req'[u].key] # ShardOf[req'[w].key]
    <3>1. pc[u] = "charge" /\ pc[w] = "charge" /\ req'[u] = req[u] /\ req'[w] = req[w]
        BY <2>1, <2>2, Zenon
    <3> QED BY <2>2, <3>1, SMTT(30) DEF LockInv
  <2>3. \A u \in Threads : pc'[u] = "charge"
            => db'[req'[u].key] = fresh'[u] /\ ~(tpc' = "removing" /\ tidx' = ShardOf[req'[u].key])
      BY <2>1, SMTT(30) DEF LockInv, ttlVars
  <2>4. \A d \in doomed' : ShardOf[d.key] = tidx'
      BY <2>1, SMTT(30) DEF LockInv, ttlVars
  <2> QED BY <2>2, <2>3, <2>4, Zenon DEF LockInv
<1>11. ASSUME NEW t \in Threads, NEW k \in Keys, Del(t, k) PROVE LockInv'
  <2>1. \A u \in Threads : pc[u] = "charge" => req[u].key # k
      BY <1>11, Unlocked DEF Del
  <2> QED BY <1>11, <2>1 DEF Del, LockInv, TypeOK, threadVars, ttlVars
<1>12. CASE PurgeStart
  BY <1>12 DEF PurgeStart, LockInv, threadVars
<1>13. CASE PurgeCollect
  <2>1. PICK S \in Take(TtlSample, Present(tidx)) :
            LET expired == {k \in S : ExpiredAt(db[k], tnow)}
            IN  IF expired = {}
                THEN PurgeNextShard
                ELSE /\ doomed' = {[key |-> k, size |-> db[k].approx_size_bytes] : k \in expired}
                     /\ tpc' = "lock"
                     /\ UNCHANGED <<tidx, tnow>>
      BY <1>13 DEF PurgeCollect
  <2>2. tpc' # "removing" /\ \A d \in doomed' : ShardOf[d.key] = tidx'
      BY <2>1 DEF PurgeNextShard, Take, Present
  <2> QED BY <1>13, <2>2 DEF PurgeCollect, LockInv, threadVars
<1>14. CASE PurgeLock
  BY <1>14 DEF PurgeLock, LockInv, WriteLocked, threadVars
<1>15. ASSUME NEW d \in doomed, PurgeRemove(d) PROVE LockInv'
  <2>1. d.key \in Keys /\ ShardOf[d.key] = tidx /\ tpc = "removing"
      BY <1>15 DEF TypeOK, Doom, LockInv, PurgeRemove
  <2>2. \A u \in Threads : pc[u] = "charge" => req[u].key # d.key
      BY <2>1 DEF LockInv
  <2>3. \A k \in Keys \ {d.key} : db'[k] = db[k]
      BY <1>15, <2>1 DEF PurgeRemove, TypeOK
  <2>4. (tpc' = "removing" => tidx' = tidx) /\ \A e \in doomed' : ShardOf[e.key] = tidx'
      BY <1>15 DEF PurgeRemove, PurgeNextShard, LockInv
  <2>5. \A u \in Threads : pc[u] = "charge" => req[u].key \in Keys
      BY DEF TypeOK
  <2> QED BY <1>15, <2>1, <2>2, <2>3, <2>4, <2>5 DEF PurgeRemove, LockInv, threadVars
<1>16. CASE Tick
  BY <1>16 DEF Tick, LockInv, threadVars, ttlVars
<1>17. CASE UNCHANGED vars
  BY <1>17 DEF vars, LockInv, threadVars, ttlVars
<1> QED
  BY <1>1, <1>2, <1>3, <1>4, <1>5, <1>6, <1>7, <1>8, <1>9, <1>10, <1>11, <1>12, <1>13, <1>14,
     <1>15, <1>16, <1>17 DEF Next, Call, Continue, TtlTask

\* In every interleaving, the sections that keep a shard's write lock across
\* steps exclude each other, and nothing changes the entry a set has inserted
\* before its size is added to used_memory.
THEOREM LocksProtect == Spec => [](TypeOK /\ LockInv)
BY InitType, StepType, InitLock, StepLock, PTL DEF Spec

-----------------------------------------------------------------------------
(* The accounting of used_memory.  The cells of an entry are a column of the *)
(* finite set Keys \X (1..MaxSize), so that adding up sizes is counting.     *)

Column(k, n) == {k} \X (1..n)

LEMMA ColumnSize ==
    ASSUME NEW k, NEW n \in Nat
    PROVE  IsFiniteSet(Column(k, n)) /\ Cardinality(Column(k, n)) = n
<1>1. IsFiniteSet({k}) /\ Cardinality({k}) = 1
    BY FS_Singleton, Zenon
<1>2. IsFiniteSet(1..n) /\ Cardinality(1..n) = n
    BY FS_Interval
<1>3. /\ IsFiniteSet(Column(k, n))
      /\ Cardinality(Column(k, n)) = Cardinality({k}) * Cardinality(1..n)
    BY <1>1, <1>2, FS_Product, Zenon DEF Column
<1>4. Cardinality({k}) * Cardinality(1..n) = n
    BY <1>1, <1>2
<1> QED BY <1>3, <1>4

LEMMA RemoveColumn ==
    ASSUME NEW C, IsFiniteSet(C), NEW k, NEW n \in Nat, Column(k, n) \subseteq C
    PROVE  Cardinality(C \ Column(k, n)) = Cardinality(C) - n /\ n <= Cardinality(C)
<1>1. C \cap Column(k, n) = Column(k, n)
    OBVIOUS
<1>2. Cardinality(C \ Column(k, n)) = Cardinality(C) - Cardinality(C \cap Column(k, n))
    BY FS_Difference, Zenon
<1>3. Cardinality(Column(k, n)) <= Cardinality(C)
    BY FS_Subset, Zenon
<1> QED BY <1>1, <1>2, <1>3, ColumnSize

LEMMA AddColumn ==
    ASSUME NEW C, IsFiniteSet(C), NEW k, NEW n \in Nat, C \cap Column(k, n) = {}
    PROVE  Cardinality(C \cup Column(k, n)) = Cardinality(C) + n
<1>1. Cardinality(C \cup Column(k, n))
         = Cardinality(C) + Cardinality(Column(k, n)) - Cardinality(C \cap Column(k, n))
    BY ColumnSize, FS_Union, Zenon
<1>2. Cardinality(C \cap Column(k, n)) = 0
    BY FS_EmptySet
<1>3. Cardinality(C) \in Nat
    BY FS_CardinalityType
<1> QED BY <1>1, <1>2, <1>3, ColumnSize

LEMMA SubsetFits ==
    ASSUME NEW C \in SUBSET (Keys \X (1..MaxSize))
    PROVE  IsFiniteSet(C) /\ Cardinality(C) \in Nat /\ Cardinality(C) < UsizeMod
<1> DEFINE All == Keys \X (1..MaxSize)
<1>1. IsFiniteSet(1..MaxSize)
    BY DbAssumption, FS_Interval
<1>2. IsFiniteSet(All)
    BY <1>1, DbAssumption, FS_Product, Zenon
<1>3. C \subseteq All /\ Cardinality(All) < UsizeMod
    BY AddressSpaceAssumption
<1> HIDE DEF All
<1>4. IsFiniteSet(C) /\ Cardinality(C) <= Cardinality(All)
    BY <1>2, <1>3, FS_Subset
<1>5. Cardinality(All) \in Nat /\ Cardinality(C) \in Nat
    BY <1>2, <1>4, FS_CardinalityType
<1> QED BY <1>3, <1>4, <1>5, DbAssumption

LEMMA CellsFinite ==
    /\ IsFiniteSet(Cells) /\ Cardinality(Cells) \in Nat /\ Cardinality(Cells) < UsizeMod
<1>1. Cells \in SUBSET (Keys \X (1..MaxSize))
    BY DEF Cells
<1> QED BY <1>1, SubsetFits, Zenon

\* A step that leaves the charged entries and their sizes alone.
LEMMA SameCells ==
    ASSUME Charged' = Charged,
           \A k \in Charged : db'[k].approx_size_bytes = db[k].approx_size_bytes
    PROVE  Cells' = Cells
BY DEF Cells

\* A step after which one entry is no longer charged.
LEMMA Uncharge ==
    ASSUME TypeOK, NEW k \in Charged, Charged' = Charged \ {k},
           \A j \in Charged' : db'[j] = db[j]
    PROVE  /\ Cardinality(Cells') = Cardinality(Cells) - db[k].approx_size_bytes
           /\ db[k].approx_size_bytes <= Cardinality(Cells)
<1> DEFINE n == db[k].approx_size_bytes
<1>1. k \in Keys /\ n \in 1..MaxSize
    BY EntryFacts DEF Charged
<1>2. Column(k, n) \subseteq Cells
    BY <1>1, DbAssumption DEF Column, Cells
<1>3. Cells' = Cells \ Column(k, n)
    BY <1>1, DbAssumption, SMTT(30) DEF Column, Cells
<1> QED BY <1>1, <1>2, <1>3, CellsFinite, RemoveColumn, DbAssumption

\* A step after which one more entry is charged.
LEMMA Charge ==
    ASSUME NEW k \in Keys \ Charged, Charged' = Charged \cup {k},
           db' = db, db[k].approx_size_bytes \in 1..MaxSize
    PROVE  Cardinality(Cells') = Cardinality(Cells) + db[k].approx_size_bytes
<1> DEFINE n == db[k].approx_size_bytes
<1>1. Cells \cap Column(k, n) = {}
    BY DEF Column, Cells
<1>2. Cells' = Cells \cup Column(k, n)
    BY DbAssumption, SMTT(30) DEF Column, Cells, Charged
<1> QED BY <1>1, <1>2, CellsFinite, AddColumn, DbAssumption

\* The threads that have inserted an entry and not yet added its size are the
\* same before and after a step, with the same keys.
SameChargers ==
    \A t \in Threads : /\ pc'[t] = "charge" <=> pc[t] = "charge"
                       /\ pc[t] = "charge" => req'[t].key = req[t].key

\* A thread moves from one place to another, neither of which is the charge.
LEMMA OtherMove ==
    ASSUME TypeOK, NEW t \in Threads, NEW l, pc[t] # "charge", l # "charge",
           pc' = [pc EXCEPT ![t] = l], \A u \in Threads \ {t} : req'[u] = req[u]
    PROVE  SameChargers
<1>1. pc'[t] = l /\ \A u \in Threads \ {t} : pc'[u] = pc[u]
    BY DEF TypeOK
<1> QED BY <1>1, Zenon DEF SameChargers

\* Removing a charged entry and subtracting its size.
LEMMA RemoveEntry ==
    ASSUME TypeOK, Accurate, NEW k \in Keys, db[k] # None,
           \A t \in Threads : pc[t] = "charge" => req[t].key # k,
           db' = [db EXCEPT ![k] = None], SameChargers,
           used' = FetchSub(db[k].approx_size_bytes)
    PROVE  Accurate'
<1>1. k \in Charged
    BY DEF Charged
<1>2. Charged' = Charged \ {k}
    BY DEF Charged, TypeOK, SameChargers
<1>3. \A j \in Charged' : db'[j] = db[j]
    BY <1>2 DEF Charged, TypeOK
<1>4. db[k].approx_size_bytes \in 1..MaxSize
    BY EntryFacts
<1> QED
    BY <1>1, <1>2, <1>3, <1>4, Uncharge, CellsFinite, DbAssumption DEF Accurate, FetchSub

\* A step that does not change the sizes of entries, the chargers or used_memory.
LEMMA NothingCharged ==
    ASSUME TypeOK, Accurate, SameChargers, used' = used,
           \A k \in Keys : /\ db'[k] = None <=> db[k] = None
                           /\ db[k] # None => db'[k].approx_size_bytes = db[k].approx_size_bytes
    PROVE  Accurate'
<1>1. Charged' = Charged
    BY DEF Charged, SameChargers
<1>2. Cells' = Cells
    BY <1>1, SameCells DEF Charged
<1> QED BY <1>2 DEF Accurate

\* Every step but a stale purge keeps the counter equal to the stored bytes.
LEMMA StepAccurate ==
    ASSUME TypeOK, LockInv, Accurate, [Next]_vars, ~StalePurge
    PROVE  Accurate'
<1>1. ASSUME NEW t \in Threads, NEW k \in Keys, GetHit(t, k) PROVE Accurate'
  <2>1. SameChargers /\ used' = used
      BY <1>1 DEF GetHit, threadVars, SameChargers
  <2>2. /\ db' = [db EXCEPT ![k].last_accessed = clock]
        /\ db[k] \in Entry /\ None \notin Entry
      BY <1>1, EntryFacts, NoneAssumption DEF GetHit
  <2>3. db'[k] \in Entry /\ db'[k].approx_size_bytes = db[k].approx_size_bytes
      BY <2>2 DEF TypeOK, Entry
  <2>4. \A j \in Keys \ {k} : db'[j] = db[j]
      BY <2>2 DEF TypeOK
  <2> QED BY <1>1, <2>1, <2>2, <2>3, <2>4, NothingCharged DEF GetHit
<1>2. ASSUME NEW t \in Threads, NEW k \in Keys, GetExpired(t, k) PROVE Accurate'
  <2>1. SameChargers /\ used' = used /\ db' = db
      BY <1>2 DEF GetExpired, Goto, SameChargers, TypeOK
  <2> QED BY <2>1, NothingCharged
<1>3. ASSUME NEW t \in Threads, GetClean(t) PROVE Accurate'
  <2> DEFINE k == req[t].key
  <2>1. k \in Keys /\ \A u \in Threads : pc[u] = "charge" => req[u].key # k
      BY <1>3, CleanFacts, Zenon
  <2>2. SameChargers
    <3>1. /\ pc[t] = "clean" /\ pc' = [pc EXCEPT ![t] = "idle"]
          /\ req' = [req EXCEPT ![t] = NoRequest]
        BY <1>3, Zenon DEF GetClean, Return, Goto
    <3>2. \A u \in Threads \ {t} : req'[u] = req[u]
        BY <3>1 DEF TypeOK
    <3> QED BY <3>1, <3>2, OtherMove
  <2>3. CASE db[k] # None /\ IsExpired(db[k])
      BY <1>3, <2>1, <2>2, <2>3, RemoveEntry DEF GetClean
  <2>4. CASE ~(db[k] # None /\ IsExpired(db[k]))
    <3>1. db' = db /\ used' = used
        BY <1>3, <2>4, Zenon DEF GetClean
    <3> QED BY <2>2, <3>1, NothingCharged
  <2> QED BY <2>3, <2>4
<1>4. ASSUME NEW t \in Threads, NEW k \in Keys, NEW v \in Values,
             NEW px \in Ttls \cup {None}, SetCall(t, k, v, px)
      PROVE Accurate'
  <2>1. SameChargers /\ used' = used /\ db' = db
      BY <1>4 DEF SetCall, Goto, SameChargers, TypeOK
  <2> QED BY <2>1, NothingCharged
<1>5. ASSUME NEW t \in Threads, CheckMemory(t) PROVE Accurate'
  <2>1. SameChargers /\ used' = used /\ db' = db
      BY <1>5 DEF CheckMemory, Goto, SameChargers, TypeOK
  <2> QED BY <2>1, NothingCharged
<1>6. ASSUME NEW t \in Threads, ScanShard(t) PROVE Accurate'
  <2>1. SameChargers /\ used' = used /\ db' = db
      BY <1>6 DEF ScanShard, Goto, SameChargers, TypeOK
  <2> QED BY <2>1, NothingCharged
<1>7. ASSUME NEW t \in Threads, Evict(t) PROVE Accurate'
  <2> DEFINE k == oldest[t].key
  <2>1. k \in Keys /\ \A u \in Threads : pc[u] = "charge" => req[u].key # k
      BY <1>7, EvictFacts, Zenon
  <2>2. SameChargers
      BY <1>7, Zenon DEF Evict, Goto, SameChargers, TypeOK
  <2>3. CASE db[k] # None
      BY <1>7, <2>1, <2>2, <2>3, RemoveEntry DEF Evict
  <2>4. CASE db[k] = None
    <3>1. db' = db /\ used' = used
        BY <1>7, <2>4 DEF Evict
    <3> QED BY <2>2, <3>1, NothingCharged
  <2> QED BY <2>3, <2>4, SMTT(30)
<1>8. ASSUME NEW t \in Threads, EntryNew(t) PROVE Accurate'
  <2>1. SameChargers /\ used' = used /\ db' = db
      BY <1>8, SMTT(30) DEF EntryNew, Goto, SameChargers, TypeOK
  <2> QED BY <2>1, NothingCharged
<1>9. ASSUME NEW t \in Threads, SetInsert(t) PROVE Accurate'
  <2> DEFINE k == req[t].key
  <2>1. k \in Keys /\ \A u \in Threads : pc[u] = "charge" => req[u].key # k
      BY <1>9, InsertFacts, Zenon
  <2>2. /\ pc' = [pc EXCEPT ![t] = "charge"] /\ pc[t] # "charge" /\ req' = req
        /\ \A j \in Keys \ {k} : db'[j] = db[j]
      BY <1>9, InsertFacts
  <2>3. Charged' = Charged \ {k}
      BY <2>1, <2>2 DEF Charged, TypeOK
  <2>4. \A j \in Charged' : db'[j] = db[j]
      BY <2>2, <2>3 DEF Charged
  <2>5. CASE db[k] # None
    <3>1. k \in Charged
        BY <2>1, <2>5, SMTT(30) DEF Charged
    <3>2. used' = FetchSub(db[k].approx_size_bytes) /\ db[k].approx_size_bytes \in 1..MaxSize
        BY <1>9, <2>1, <2>5, EntryFacts DEF SetInsert
    <3> QED BY <2>3, <2>4, <3>1, <3>2, Uncharge, CellsFinite DEF Accurate, FetchSub
  <2>6. CASE db[k] = None
    <3>1. used' = used /\ Charged' = Charged
        BY <1>9, <2>3, <2>6 DEF SetInsert, Charged
    <3>2. Cells' = Cells
        BY <2>4, <3>1, SameCells, SMTT(30)
    <3> QED BY <3>1, <3>2, SMTT(30) DEF Accurate
  <2> QED BY <2>5, <2>6
<1>10. ASSUME NEW t \in Threads, SetCharge(t) PROVE Accurate'
  <2> DEFINE k == req[t].key
  <2>0. pc[t] = "charge" /\ db' = db
      BY <1>10 DEF SetCharge
  <2>1a. k \in Keys /\ fresh[t] \in Entry
      BY <2>0 DEF TypeOK
  <2>1b. db[k] = fresh[t]
      BY <2>0 DEF LockInv
  <2>1. /\ k \in Keys /\ pc[t] = "charge" /\ db' = db
        /\ db[k] = fresh[t] /\ fresh[t] \in Entry /\ db[k] # None
      BY <2>0, <2>1a, <2>1b, NoneAssumption
  <2>2. \A u \in Threads \ {t} : pc[u] = "charge" => req[u].key # k
      BY <2>1 DEF LockInv
  <2>3. /\ pc' = [pc EXCEPT ![t] = "idle"]
        /\ \A u \in Threads \ {t} : req'[u] = req[u]
      BY <1>10 DEF SetCharge, Return, Goto, TypeOK
  <2>4. k \notin Charged /\ Charged' = Charged \cup {k}
      BY <2>1, <2>2, <2>3, SMTT(30) DEF Charged, TypeOK
  <2>5. db[k].approx_size_bytes \in 1..MaxSize
      BY <2>1, EntryFacts
  <2>6. Cardinality(Cells') = Cardinality(Cells) + db[k].approx_size_bytes
      BY <2>1, <2>4, <2>5, Charge
  <2>7. Cardinality(Cells') < UsizeMod
    <3>1. Cells' \in SUBSET (Keys \X (1..MaxSize))
        BY DEF Cells
    <3> QED BY <3>1, SubsetFits, Zenon
  <2> QED BY <1>10, <2>1, <2>5, <2>6, <2>7, CellsFinite DEF SetCharge, Accurate, FetchAdd
<1>11. ASSUME NEW t \in Threads, NEW k \in Keys, Del(t, k) PROVE Accurate'
  <2>1. SameChargers /\ \A u \in Threads : pc[u] = "charge" => req[u].key # k
      BY <1>11, Unlocked DEF Del, SameChargers, threadVars
  <2> QED BY <1>11, <2>1, RemoveEntry DEF Del
<1>12. CASE PurgeStart \/ PurgeCollect \/ PurgeLock \/ Tick \/ UNCHANGED vars
  <2>1. SameChargers /\ used' = used /\ db' = db
      BY <1>12, Zenon DEF PurgeStart, PurgeCollect, PurgeLock, Tick, vars, threadVars, SameChargers
  <2> QED BY <2>1, NothingCharged
<1>13. ASSUME NEW d \in doomed, PurgeRemove(d) PROVE Accurate'
  <2> DEFINE k == d.key
  <2>1. k \in Keys /\ \A u \in Threads : pc[u] = "charge" => req[u].key # k
      BY <1>13 DEF PurgeRemove, TypeOK, Doom, LockInv
  <2>2. SameChargers
      BY <1>13 DEF PurgeRemove, SameChargers, threadVars
  <2>3. CASE db[k] # None
    <3>1. db[k].approx_size_bytes = d.size
        BY <1>13, <2>3 DEF StalePurge
    <3> QED BY <1>13, <2>1, <2>2, <2>3, <3>1, RemoveEntry DEF PurgeRemove
  <2>4. CASE db[k] = None
    <3>1. db' = db /\ used' = used
        BY <1>13, <2>4 DEF PurgeRemove
    <3> QED BY <2>2, <3>1, NothingCharged
  <2> QED BY <2>3, <2>4
<1> QED
  BY <1>1, <1>2, <1>3, <1>4, <1>5, <1>6, <1>7, <1>8, <1>9, <1>10, <1>11, <1>12, <1>13
  DEF Next, Call, Continue, TtlTask

\* In every interleaving of the callers and the TTL task, used_memory stays equal
\* to the bytes of the stored entries until the TTL task removes an entry that was
\* replaced by one of another size after it was collected.
THEOREM AccountingBrokenOnlyByStalePurge == Spec => OnlyStalePurgeBreaksAccounting
<1>1. TypeOK /\ LockInv /\ [Next]_vars => [Accurate /\ ~StalePurge => Accurate']_vars
    BY StepAccurate
<1> QED BY <1>1, LocksProtect, PTL DEF Spec, OnlyStalePurgeBreaksAccounting

LEMMA InitAccurate == Init => Accurate
<1> SUFFICES ASSUME Init PROVE Accurate
    OBVIOUS
<1>1. Cells = {}
    BY DEF Init, Cells, Charged
<1> QED BY <1>1, FS_EmptySet DEF Init, Accurate

\* In a behaviour in which no such purge happens, the counter is always exact, so
\* it never wraps below zero and the memory limit is applied to what is stored.
THEOREM AccurateWithoutStalePurge == Spec /\ [][~StalePurge]_vars => []Accurate
<1>1. TypeOK /\ LockInv /\ Accurate /\ [Next]_vars /\ [~StalePurge]_vars => Accurate'
  <2> SUFFICES ASSUME TypeOK, LockInv, Accurate, [Next]_vars, [~StalePurge]_vars PROVE Accurate'
      OBVIOUS
  <2>1. CASE ~StalePurge
      BY <2>1, StepAccurate
  <2>2. CASE UNCHANGED vars
      BY <2>2 DEF vars, threadVars, Accurate, Cells, Charged
  <2> QED BY <2>1, <2>2
<1> QED BY <1>1, LocksProtect, InitAccurate, PTL DEF Spec

-----------------------------------------------------------------------------

\* get's lazy cleanup, which looks at the entry again under the second lock,
\* never removes or changes an entry that has not expired.
THEOREM LazyCleanupIsSafe == Spec => LazyCleanupSparesLive
<1> DEFINE Spares(t, k) ==
        pc[t] = "clean" /\ pc'[t] = "idle" /\ db[k] # None /\ ~IsExpired(db[k])
           => db'[k] = db[k]
<1>1. TypeOK /\ [Next]_vars => [\A t \in Threads, k \in Keys : Spares(t, k)]_vars
  <2> SUFFICES ASSUME TypeOK, [Next]_vars, NEW t \in Threads, NEW k \in Keys,
                      pc[t] = "clean", pc'[t] = "idle", db[k] # None, ~IsExpired(db[k])
               PROVE  db'[k] = db[k]
      OBVIOUS
  <2>1. GetClean(t)
    <3>1. pc' # pc
        OBVIOUS
    <3>2. Next
        BY <3>1 DEF vars, threadVars
    <3>3. ~TtlTask /\ ~Tick
        BY <3>1, Zenon DEF TtlTask, Tick, PurgeStart, PurgeCollect, PurgeLock, PurgeRemove, threadVars
    <3>4. PICK u \in Threads : Call(u) \/ Continue(u)
        BY <3>2, <3>3 DEF Next
    <3>5. u = t
        BY <3>4 DEF TypeOK, Call, Continue, GetHit, GetExpired, GetClean, SetCall, CheckMemory,
                    ScanShard, Evict, EntryNew, SetInsert, SetCharge, Del, Goto, Return, threadVars
    <3> QED
        BY <3>1, <3>4, <3>5 DEF Call, Continue, GetHit, GetExpired, SetCall, CheckMemory, ScanShard,
                          Evict, EntryNew, SetInsert, SetCharge, Del
  <2>2. req[t].key \in Keys
      BY DEF TypeOK
  <2> QED BY <2>1, <2>2, Zenon DEF GetClean, TypeOK
<1> QED BY <1>1, TypeCorrect, PTL DEF Spec, LazyCleanupSparesLive

=============================================================================
