--------------------------- MODULE ReplLogProofs ---------------------------
(***************************************************************************)
(* What the abstract log means for replicas, for any number of them: each  *)
(* has executed a gapless piece of the log, so that two replicas never     *)
(* disagree about the command at a position both have passed.              *)
(***************************************************************************)
EXTENDS ReplLog, SequenceTheorems, TLAPS

\* The commands a replica has executed are those of the log from where it joined.
Executed(r) ==
    /\ start[r] = None => applied[r] = <<>>
    /\ start[r] # None =>
          /\ start[r] \in Nat
          /\ start[r] + Len(applied[r]) <= Len(log)
          /\ \A i \in 1..Len(applied[r]) : applied[r][i] = log[start[r] + i]

LogInv ==
    /\ log \in Seq(Commands)
    /\ start \in [Replicas -> Nat \cup {None}]
    /\ applied \in [Replicas -> Seq(Commands)]
    /\ \A r \in Replicas : Executed(r)

LEMMA LogInit == Init => LogInv
BY DEF Init, LogInv, Executed

\* A longer log still has what was executed.
LEMMA PropagateKeeps == LogInv /\ Propagate => LogInv'
<1> SUFFICES ASSUME LogInv, Propagate PROVE LogInv'
    OBVIOUS
<1>1. PICK cmd \in Commands : log' = Append(log, cmd)
    BY DEF Propagate
<1>2. /\ log' \in Seq(Commands) /\ Len(log') = Len(log) + 1
      /\ \A i \in 1..Len(log) : log'[i] = log[i]
    BY <1>1, AppendProperties DEF LogInv
<1>3. start' = start /\ applied' = applied
    BY DEF Propagate
<1>4. ASSUME NEW r \in Replicas PROVE Executed(r)'
  <2>1. Executed(r) /\ applied[r] \in Seq(Commands) /\ Len(applied[r]) \in Nat /\ Len(log) \in Nat
      BY DEF LogInv
  <2>2. CASE start[r] = None
      BY <1>3, <2>1, <2>2 DEF Executed
  <2>3. CASE start[r] # None
    <3>1. ASSUME NEW i \in 1..Len(applied[r]) PROVE applied[r][i] = log'[start[r] + i]
      <4>1. start[r] + i \in 1..Len(log) /\ applied[r][i] = log[start[r] + i]
          BY <2>1, <2>3 DEF Executed
      <4> QED BY <1>2, <4>1
    <3>2. start[r] \in Nat /\ start[r] + Len(applied[r]) <= Len(log')
        BY <1>2, <2>1, <2>3 DEF Executed
    <3> QED BY <1>3, <2>3, <3>1, <3>2 DEF Executed
  <2> QED BY <2>2, <2>3
<1> QED BY <1>2, <1>3, <1>4 DEF LogInv

LEMMA JoinKeeps == ASSUME NEW r \in Replicas, None \notin Nat, LogInv, Join(r) PROVE LogInv'
<1>1. Len(log) \in Nat /\ applied[r] = <<>> /\ log' = log /\ applied' = applied
    BY DEF LogInv, Join, Executed
<1>2. start' = [start EXCEPT ![r] = Len(log)] /\ start' \in [Replicas -> Nat \cup {None}]
    BY <1>1 DEF LogInv, Join
<1>3. Executed(r)'
    BY <1>1, <1>2 DEF LogInv, Executed
<1>4. ASSUME NEW q \in Replicas, q # r PROVE Executed(q)'
    BY <1>1, <1>2, <1>4 DEF LogInv, Executed
<1> QED BY <1>1, <1>2, <1>3, <1>4 DEF LogInv

\* The command executed next is the one after the piece already executed.
LEMMA ApplyKeeps == ASSUME NEW r \in Replicas, LogInv, Apply(r) PROVE LogInv'
<1> DEFINE seq == applied[r]
           cmd == log[Position(r)]
<1>1. /\ seq \in Seq(Commands) /\ Len(seq) \in Nat /\ Len(log) \in Nat
      /\ start[r] \in Nat
      /\ Position(r) = start[r] + Len(seq) + 1 /\ Position(r) <= Len(log)
      /\ \A i \in 1..Len(seq) : seq[i] = log[start[r] + i]
    BY DEF LogInv, Apply, Executed, Position
<1>2. cmd \in Commands
    BY <1>1 DEF LogInv
<1>3. /\ log' = log /\ start' = start
      /\ applied' = [applied EXCEPT ![r] = Append(seq, cmd)]
    BY DEF Apply
<1>4. /\ Append(seq, cmd) \in Seq(Commands) /\ Len(Append(seq, cmd)) = Len(seq) + 1
      /\ \A i \in 1..Len(seq) : Append(seq, cmd)[i] = seq[i]
      /\ Append(seq, cmd)[Len(seq) + 1] = cmd
    BY <1>1, <1>2, AppendProperties
<1>5. applied' \in [Replicas -> Seq(Commands)] /\ applied'[r] = Append(seq, cmd)
    BY <1>3, <1>4 DEF LogInv
<1>6. Executed(r)'
  <2>1. \A i \in 1..(Len(seq) + 1) : Append(seq, cmd)[i] = log[start[r] + i]
      BY <1>1, <1>4
  <2> QED BY <1>1, <1>3, <1>4, <1>5, <2>1 DEF Executed, LogInv, Apply
<1>7. ASSUME NEW q \in Replicas, q # r PROVE Executed(q)'
    BY <1>3, <1>7 DEF LogInv, Executed
<1> QED BY <1>3, <1>5, <1>6, <1>7 DEF LogInv

LEMMA LogStep == None \notin Nat /\ LogInv /\ [Next]_vars => LogInv'
<1> SUFFICES ASSUME None \notin Nat, LogInv, [Next]_vars PROVE LogInv'
    OBVIOUS
<1>1. CASE UNCHANGED <<log, start, applied>>
    BY <1>1 DEF LogInv, Executed
<1>2. ASSUME NEW r \in Replicas, Break(r) PROVE LogInv'
    BY <1>1, <1>2 DEF Break
<1>3. CASE UNCHANGED vars
    BY <1>1, <1>3 DEF vars
<1> QED BY <1>2, <1>3, PropagateKeeps, JoinKeeps, ApplyKeeps DEF Next

\* Whatever breaks and whenever replicas join, the commands a replica has executed are those of
\* the log from the position it joined at, without a gap, a repetition or a swap
\* (propagate_downstream to run_replica_loop).
THEOREM ReplicasExecuteTheLog ==
    ASSUME None \notin Nat
    PROVE  Spec => [](\A r \in Replicas : Executed(r))
<1>1. LogInv => \A r \in Replicas : Executed(r)
    BY DEF LogInv
<1>2. LogInv /\ [Next]_vars => LogInv'
    BY LogStep
<1> QED BY <1>1, <1>2, LogInit, PTL DEF Spec

=============================================================================
