------------------------------ MODULE MCDbKeys ------------------------------
(* Small instances of DbKeys for TLC. *)
EXTENDS DbKeys, MCDb

\* The keys of the second shard differ in nothing.
KeySymmetry == Permutations({k2, k3})

\* A call is not followed further once KeysBracketed holds of it whatever the other shards hold.
\* Every state of Db is also reached with no call under way.
Undecided == kpc = "scan" /\ sometime => always /\ ~found

=============================================================================
