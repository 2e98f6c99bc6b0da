--------------------------- MODULE MCReplication ---------------------------
(* Small instances of Replication. *)
EXTENDS Replication

CONSTANTS c1, c2, k1, k2, k3, v1, v2, r1, r2

\* One client; two clients, each key with one writer; two clients that write one key.
OneKey == c1 :> {k1}
OneWriter == c1 :> {k1, k2} @@ c2 :> {k3}
SharedKey == c1 :> {k1} @@ c2 :> {k1}

\* The replicas connect; or one does and there is no other, or both have been registered.
AllNew == {[r \in Replicas |-> "new"]}
OneOrTwo == {r1 :> "new" @@ r2 :> "absent", r1 :> "joined" @@ r2 :> "joined"}

=============================================================================
