-------------------------------- MODULE MCDb --------------------------------
(* Small instances of Db for TLC. *)
EXTENDS Db, TLC

CONSTANTS t1, t2, k1, k2, k3, v1, v2

\* Two keys in one shard.
OneShard == [k \in Keys |-> 0]

\* Keys spread over two shards.
TwoShards == [k \in Keys |-> IF k = k1 THEN 0 ELSE 1]

KeyLens == [k \in Keys |-> 0]

\* Values of different lengths: entries of one and of two bytes.
ValLens == [v \in Values |-> IF v = v1 THEN 0 ELSE 1]

\* Callers run the same code, and keys of the same length in one shard differ
\* in nothing.
Symmetry == Permutations(Threads) \cup Permutations(Keys)

=============================================================================
