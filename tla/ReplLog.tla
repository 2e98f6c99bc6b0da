------------------------------ MODULE ReplLog ------------------------------
(***************************************************************************)
(* What replication promises, without connections, frames or bytes: there  *)
(* is one log of write commands, a replica joins it at its end, and from   *)
(* there on executes every command once, in the order of the log, until    *)
(* its connection breaks.  What was written before a replica joined it     *)
(* does not get (the RDB is empty), and nothing is promised after a break  *)
(* but that what it still executes comes next in the log.                  *)
(***************************************************************************)
EXTENDS Naturals, Sequences

CONSTANTS Replicas, Commands, None

VARIABLES
    log,      \* the commands propagated
    start,    \* where each replica joined the log, or None
    applied,  \* the commands each replica has executed
    up        \* its connection is intact

vars == <<log, start, applied, up>>

Init ==
    /\ log = <<>>
    /\ start \in [Replicas -> {0, None}]
    /\ applied = [r \in Replicas |-> <<>>]
    /\ up = [r \in Replicas |-> TRUE]

Propagate ==
    /\ \E cmd \in Commands : log' = Append(log, cmd)
    /\ UNCHANGED <<start, applied, up>>

Join(r) ==
    /\ start[r] = None
    /\ start' = [start EXCEPT ![r] = Len(log)]
    /\ UNCHANGED <<log, applied, up>>

\* The next command of the log for this replica.
Position(r) == start[r] + Len(applied[r]) + 1

Apply(r) ==
    /\ start[r] # None
    /\ Position(r) <= Len(log)
    /\ applied' = [applied EXCEPT ![r] = Append(@, log[Position(r)])]
    /\ UNCHANGED <<log, start, up>>

Break(r) ==
    /\ up[r]
    /\ up' = [up EXCEPT ![r] = FALSE]
    /\ UNCHANGED <<log, start, applied>>

Next == Propagate \/ \E r \in Replicas : Join(r) \/ Apply(r) \/ Break(r)

\* A replica whose connection lasts goes on to the end of the log.
Spec == Init /\ [][Next]_vars /\ \A r \in Replicas : WF_vars(up[r] /\ Apply(r))

=============================================================================
