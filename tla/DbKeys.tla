------------------------------- MODULE DbKeys -------------------------------
(***************************************************************************)
(* A caller of Db::keys beside the callers of Db: it reads the clock once  *)
(* and then one shard after another, each under its read lock, while the   *)
(* other tasks change the shards it has read and those it has not.  One    *)
(* key, any one, is watched: all_keys and the histories are kept for it.   *)
(***************************************************************************)
EXTENDS Db

VARIABLES
    kpc,       \* where the call is: "idle", "scan" or "done"
    know,      \* its `now`
    kidx,      \* the next shard to read
    watched,   \* the key watched
    found,     \* it is in all_keys
    always,    \* history: it has been live during the whole call
    sometime   \* history: at some moment of the call it had an entry unexpired at `now`

keyVars == <<kpc, know, kidx, watched, found, always, sometime>>
allVars == <<vars, keyVars>>

KeysInit ==
    /\ Init
    /\ kpc = "idle"
    /\ know = 0
    /\ kidx = 0
    /\ watched = None
    /\ found = FALSE /\ always = FALSE /\ sometime = FALSE

LiveAt(k, now) == db[k] # None /\ ~ExpiredAt(db[k], now)

KeysCall(k) ==
    /\ kpc = "idle"
    /\ kpc' = "scan"
    /\ know' = clock
    /\ watched' = k
    /\ always' = LiveAt(k, clock) /\ sometime' = LiveAt(k, clock)
    /\ UNCHANGED <<vars, kidx, found>>

\* Mutant: an entry that expires at `now` is still listed.
ListedInclusive(k) == db[k].expires_at = None \/ db[k].expires_at >= know

Listed(k) == db[k].expires_at = None \/ db[k].expires_at > know

KeysShard ==
    /\ kpc = "scan"
    /\ ~WriteLocked(kidx)
    /\ found' = (found \/ (watched \in Present(kidx) /\ Listed(watched)))
    /\ IF kidx < LastShard THEN kidx' = kidx + 1 /\ kpc' = kpc
                           ELSE kidx' = 0 /\ kpc' = "done"
    /\ UNCHANGED <<vars, know, watched, always, sometime>>

\* The result is used and the locals go out of scope.
KeysReturn ==
    /\ kpc = "done"
    /\ kpc' = "idle"
    /\ know' = 0 /\ watched' = None
    /\ found' = FALSE /\ always' = FALSE /\ sometime' = FALSE
    /\ UNCHANGED <<vars, kidx>>

\* A step of another task, with what it means for the call under way.  What follows the call
\* does not matter to its result.
OtherStep ==
    /\ kpc # "done"
    /\ Next
    /\ UNCHANGED <<kpc, know, kidx, watched, found>>
    /\ IF kpc = "scan"
       THEN /\ always' = (always /\ LiveAt(watched, clock)')
            /\ sometime' = (sometime \/ LiveAt(watched, know)')
       ELSE UNCHANGED <<always, sometime>>

KeysNext == (\E k \in Keys : KeysCall(k)) \/ KeysShard \/ KeysReturn \/ OtherStep

KeysSpec == KeysInit /\ [][KeysNext]_allVars

\* The answer of keys may never have been the set of keys, since its shards are read at different
\* moments.  It does contain every key that was live during the whole call, and only keys that
\* had, at some moment of the call, an entry that had not expired when the call began.
KeysBracketed == kpc = "done" => (always => found) /\ (found => sometime)

=============================================================================
