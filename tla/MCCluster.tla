----------------------------- MODULE MCCluster -----------------------------
(* Small instances of Cluster: 3 slots, so that a range can have a middle. *)
EXTENDS Cluster

CONSTANTS me, p1, k1, k2, c1

KeySlots == k1 :> 0 @@ k2 :> 2

\* The default, a single slot, and a spec whose second part is refused.
Specs == {<<<<0, HashSlots - 1>>>>, <<<<1, 1>>>>, <<<<0, 0>>, <<2, 1>>, <<2, 2>>>>}

\* One slot; two; a slot followed by one past the end and by one that is fine.
Args == {<<0>>, <<2, 1>>, <<0, HashSlots, 2>>}
=============================================================================
