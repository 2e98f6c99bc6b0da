---------------------------- MODULE DbKeysProofs ----------------------------
(***************************************************************************)
(* KeysBracketed, for every number of threads, keys, values and shards.    *)
(***************************************************************************)
EXTENDS DbKeys, DbProofs

\* What the call knows while it reads the shards: an entry that has been live all the time is
\* still live, and was listed if its shard has been read; an entry that is not expired at `now`,
\* and one that was listed, are remembered.
ScanInv ==
    kpc = "scan" =>
       /\ watched \in Keys
       /\ kidx \in 0..LastShard
       /\ know \in Nat /\ know <= clock
       /\ always => LiveAt(watched, clock)
       /\ always /\ ShardOf[watched] < kidx => found
       /\ LiveAt(watched, know) => sometime
       /\ found => sometime

\* The call starts with nothing found, at the first shard.
IdleInv == (kpc # "scan" => kidx = 0) /\ (kpc = "idle" => ~found)

KeysInv ==
    /\ TypeOK
    /\ kpc \in {"idle", "scan", "done"}
    /\ IdleInv
    /\ ScanInv
    /\ KeysBracketed

LEMMA KeysInitInv == KeysInit => KeysInv
BY InitType DEF KeysInit, KeysInv, IdleInv, ScanInv, KeysBracketed

\* Time does not go back.
LEMMA ClockGrows == TypeOK /\ Next => clock' \in Nat /\ clock <= clock'
<1> SUFFICES ASSUME TypeOK, Next PROVE clock' \in Nat /\ clock <= clock'
    OBVIOUS
<1>1. clock \in Nat
    BY DEF TypeOK, Instants
<1>2. CASE Tick
    BY <1>1, <1>2 DEF Tick
<1>3. CASE clock' = clock
    BY <1>1, <1>3
<1>4. Tick \/ clock' = clock
  <2>1. ASSUME NEW t \in Threads, Call(t) PROVE clock' = clock
      BY <2>1 DEF Call, GetHit, GetExpired, SetCall, Del
  <2>2. ASSUME NEW t \in Threads, Continue(t) PROVE clock' = clock
      BY <2>2 DEF Continue, GetClean, CheckMemory, ScanShard, Evict, EntryNew, SetInsert, SetCharge
  <2>3. ASSUME TtlTask PROVE clock' = clock
      BY <2>3 DEF TtlTask, PurgeStart, PurgeCollect, PurgeLock, PurgeRemove
  <2> QED BY <2>1, <2>2, <2>3 DEF Next
<1> QED BY <1>2, <1>3, <1>4

LEMMA CallStep ==
    ASSUME KeysInv, NEW k \in Keys, KeysCall(k)
    PROVE  KeysInv'
<1>1. TypeOK'
    BY StepType, Zenon DEF KeysInv, KeysCall, vars
<1>2. db' = db /\ clock' = clock /\ clock \in Nat
    BY DEF KeysInv, KeysCall, vars, TypeOK, Instants
<1>3. (always' <=> LiveAt(k, clock)) /\ (sometime' <=> LiveAt(k, clock))
    BY Zenon DEF KeysCall
<1>4. watched' = k /\ know' = clock /\ kidx' = 0 /\ ~found' /\ ShardOf[k] >= 0
    BY DbAssumption DEF KeysCall, KeysInv, IdleInv
<1>5. LiveAt(watched, clock)' <=> LiveAt(k, clock)
    BY <1>2, <1>4 DEF LiveAt, ExpiredAt
<1>6. LiveAt(watched, know)' <=> LiveAt(k, clock)
    BY <1>2, <1>4 DEF LiveAt, ExpiredAt
<1>7. ~(ShardOf[watched'] < kidx') /\ kidx' \in 0..LastShard
    BY <1>4, DbAssumption DEF LastShard
<1>8. ScanInv'
    BY <1>2, <1>3, <1>4, <1>5, <1>6, <1>7 DEF ScanInv
<1> QED BY <1>1, <1>8 DEF KeysInv, IdleInv, KeysCall, KeysBracketed

\* Reading a shard: the watched key is listed exactly when it has an entry not expired at `now`.
LEMMA ShardStep ==
    ASSUME KeysInv, KeysShard
    PROVE  KeysInv'
<1>1. TypeOK'
    BY StepType, Zenon DEF KeysInv, KeysShard, vars
<1>2. /\ db' = db /\ clock' = clock /\ clock \in Nat
      /\ ShardOf[watched] \in 0..LastShard
      /\ watched \in Keys /\ know \in Nat /\ know <= clock /\ kidx \in 0..LastShard
    BY DbAssumption DEF KeysInv, ScanInv, KeysShard, vars, TypeOK, Instants, LastShard
<1> DEFINE listed == watched \in Present(kidx) /\ Listed(watched)
<1>3. db[watched] # None => db[watched].expires_at \in Nat \cup {None}
    BY <1>2 DEF KeysInv, TypeOK, Entry, Instants
<1>4. listed => LiveAt(watched, know)
    BY <1>2, <1>3 DEF Present, Listed, LiveAt, ExpiredAt
<1>5. LiveAt(watched, clock) /\ ShardOf[watched] = kidx => listed
    BY <1>2, <1>3 DEF Present, Listed, LiveAt, ExpiredAt
<1>6. found' <=> found \/ listed
    BY Zenon DEF KeysShard
<1>7. found' => sometime
    BY <1>4, <1>6, Zenon DEF KeysInv, ScanInv, KeysShard
<1>8. always /\ ShardOf[watched] < kidx + 1 => found'
  <2>1. ASSUME always, ShardOf[watched] = kidx PROVE found'
      BY <1>5, <1>6, <2>1, Zenon DEF KeysInv, ScanInv, KeysShard
  <2>2. ASSUME always, ShardOf[watched] < kidx PROVE found'
      BY <1>6, <2>2, Zenon DEF KeysInv, ScanInv, KeysShard
  <2>3. ShardOf[watched] < kidx + 1 => ShardOf[watched] = kidx \/ ShardOf[watched] < kidx
      BY <1>2, DbAssumption DEF LastShard
  <2> QED BY <2>1, <2>2, <2>3, Zenon
<1>9. CASE kidx < LastShard
  <2>1. ScanInv'
      BY <1>2, <1>7, <1>8, <1>9, DbAssumption
      DEF KeysInv, ScanInv, KeysShard, LiveAt, ExpiredAt, LastShard
  <2> QED BY <1>1, <1>9, <2>1 DEF KeysInv, KeysShard, IdleInv, KeysBracketed
<1>10. CASE ~(kidx < LastShard)
  <2>1. ShardOf[watched] < kidx + 1
      BY <1>2, <1>10, DbAssumption DEF LastShard
  <2> QED BY <1>1, <1>7, <1>8, <1>10, <2>1
          DEF KeysInv, KeysShard, IdleInv, ScanInv, KeysBracketed
<1> QED BY <1>9, <1>10

LEMMA ReturnStep ==
    ASSUME KeysInv, KeysReturn
    PROVE  KeysInv'
<1>1. TypeOK'
    BY StepType, Zenon DEF KeysInv, KeysReturn, vars
<1> QED BY <1>1 DEF KeysInv, KeysReturn, IdleInv, ScanInv, KeysBracketed

\* A step of another task: the histories see the entry as that step leaves it.
LEMMA OtherKeepsInv ==
    ASSUME KeysInv, OtherStep
    PROVE  KeysInv'
<1>1. TypeOK'
    BY StepType, Zenon DEF KeysInv, OtherStep
<1>2. clock' \in Nat /\ clock <= clock' /\ clock \in Nat
    BY ClockGrows DEF KeysInv, OtherStep, TypeOK, Instants
<1>3. CASE kpc = "scan"
  <2>1. (always' => always /\ LiveAt(watched, clock)')
        /\ (sometime' <=> sometime \/ LiveAt(watched, know)')
      BY <1>3, Zenon DEF OtherStep
  <2>2. ScanInv'
      BY <1>2, <1>3, <2>1 DEF KeysInv, ScanInv, OtherStep
  <2> QED BY <1>1, <1>3, <2>2 DEF KeysInv, OtherStep, IdleInv, KeysBracketed
<1>4. CASE kpc # "scan"
    BY <1>1, <1>4 DEF KeysInv, OtherStep, IdleInv, ScanInv, KeysBracketed
<1> QED BY <1>3, <1>4

LEMMA KeysNextInv == KeysInv /\ [KeysNext]_allVars => KeysInv'
<1> SUFFICES ASSUME KeysInv, [KeysNext]_allVars PROVE KeysInv'
    OBVIOUS
<1>1. CASE UNCHANGED allVars
  <2>1. TypeOK'
      BY <1>1, StepType, Zenon DEF KeysInv, allVars
  <2> QED BY <1>1, <2>1 DEF KeysInv, IdleInv, ScanInv, KeysBracketed, LiveAt, ExpiredAt,
          allVars, keyVars, vars
<1> QED BY <1>1, CallStep, ShardStep, ReturnStep, OtherKeepsInv, Zenon DEF KeysNext

\* Whatever the other tasks do to the shards between two reads, keys lists every key that was
\* live during the whole call and only keys with an entry that had not expired when it began.
THEOREM KeysIsBracketed == KeysSpec => []KeysBracketed
<1>1. KeysInv => KeysBracketed
    BY DEF KeysInv
<1> QED BY <1>1, KeysInitInv, KeysNextInv, PTL DEF KeysSpec

=============================================================================
