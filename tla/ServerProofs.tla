---------------------------- MODULE ServerProofs ----------------------------
(***************************************************************************)
(* Proofs about Server, for any number of clients, connections and         *)
(* requests: the connection limit is kept exactly, and a shutdown on a     *)
(* runtime that lives on lets every executed command be answered.          *)
(***************************************************************************)
EXTENDS Server, FiniteSetTheorems, TLAPS

\* The prover of a step that names none; steps that need arithmetic, or extensionality of
\* functions and sequences, name SMT.
USE ZenonT(30)

States == Running \cup {"away", "queued", "rejected", "ended"}

\* A task that no longer runs gives its one permit back: the permits of the others are
\* as many as before.
LEMMA EndKeepsPermits ==
    ASSUME TypeOK, PermitsExact, NEW c \in Clients, task[c] \in Running, End(c)
    PROVE  permits' \in 0..MaxConnections /\ PermitsExact'
<1>1. task \in [Clients -> States] /\ permits \in Nat /\ permits' = permits + 1
      /\ task' = [task EXCEPT ![c] = "ended"]
    BY SMTT(30) DEF TypeOK, End, States
<1>2. c \in Alive /\ Alive' = Alive \ {c}
    BY <1>1 DEF Alive, Running, States
<1>3. IsFiniteSet(Alive)
    BY ServerAssumption, FS_Subset DEF Alive
<1>4. Cardinality(Alive') = Cardinality(Alive) - 1 /\ Cardinality(Alive) \in Nat
      /\ Cardinality(Alive') \in Nat
    BY <1>2, <1>3, FS_RemoveElement, FS_CardinalityType, FS_Subset
<1> QED
    BY <1>1, <1>4, ServerAssumption, SMTT(30) DEF PermitsExact

\* A connection that is taken holds the permit that left the semaphore.
LEMMA SpawnKeepsPermits ==
    ASSUME TypeOK, PermitsExact, NEW c \in Clients, task[c] = "queued", permits > 0, Spawn(c)
    PROVE  permits' \in 0..MaxConnections /\ PermitsExact'
<1>1. task \in [Clients -> States] /\ permits \in 0..MaxConnections /\ permits' = permits - 1
      /\ task' = [task EXCEPT ![c] = "select"]
    BY DEF TypeOK, Spawn, States
<1>2. c \notin Alive /\ Alive' = Alive \cup {c}
    BY <1>1 DEF Alive, Running, States
<1>3. IsFiniteSet(Alive)
    BY ServerAssumption, FS_Subset DEF Alive
<1>4. Cardinality(Alive') = Cardinality(Alive) + 1 /\ Cardinality(Alive) \in Nat
    BY <1>2, <1>3, FS_AddElement, FS_CardinalityType
<1> QED
    BY <1>1, <1>4, ServerAssumption, SMTT(30) DEF PermitsExact

\* Every other step leaves the permits and the set of running tasks alone.
LEMMA SameTasksKeepPermits ==
    ASSUME PermitsExact, permits' = permits, Alive' = Alive
    PROVE  PermitsExact'
BY DEF PermitsExact

-----------------------------------------------------------------------------
\* A reply is owed only while it is being written, or to a client that closed, or by a task
\* that the program's exit dropped; only a program that exits drops tasks.
OwedWhileWriting ==
    /\ dropping => ~embedded
    /\ \A c \in owed : \/ task[c] = "write" /\ now[c] = "command"
                       \/ task[c] = "ended" /\ (~open[c] \/ ~embedded)

IInv == TypeOK /\ PermitsExact /\ OwedWhileWriting

LEMMA InitIInv == Init => IInv
<1> SUFFICES ASSUME Init PROVE IInv
    OBVIOUS
<1>a. permits \in 0..MaxConnections
    BY ServerAssumption, SMTT(30) DEF Init
<1>b. wire \in [Clients -> Seq(Kinds)] /\ buf \in [Clients -> Seq(Kinds)]
    BY SMTT(30) DEF Init
<1>c. task \in [Clients -> Running \cup {"away", "queued", "rejected", "ended"}]
      /\ now \in [Clients -> Kinds \cup {"forward", "none"}]
    BY DEF Init
<1>d. downstream \in [Clients -> Nat]
    BY SMTT(30) DEF Init
<1>1. TypeOK
    BY <1>a, <1>b, <1>c, <1>d DEF Init, TypeOK
<1>2. Alive = {}
    BY DEF Init, Alive, Running
<1>3. PermitsExact
    BY <1>2, FS_EmptySet, ServerAssumption, SMTT(30) DEF Init, PermitsExact
<1>4. OwedWhileWriting
    BY DEF Init, OwedWhileWriting
<1> QED
    BY <1>1, <1>3, <1>4 DEF IInv

-----------------------------------------------------------------------------
\* Types of the tasks' requests, the part of TypeOK that a step on one client can disturb.
ClientTypes ==
    /\ wire \in [Clients -> Seq(Kinds)] /\ buf \in [Clients -> Seq(Kinds)]
    /\ now \in [Clients -> Kinds \cup {"forward", "none"}]
    /\ stalled \in [Clients -> BOOLEAN]
    /\ told \subseteq Clients /\ replicas \subseteq Clients
    /\ downstream \in [Clients -> Nat]

LEMMA EndStep ==
    ASSUME IInv, NEW c \in Clients, task[c] \in Running, End(c),
           owed' \subseteq owed,
           c \in owed' => ~open[c] \/ ~embedded
    PROVE  IInv'
<1> USE DEF IInv
<1>1. permits' \in 0..MaxConnections /\ PermitsExact'
    BY EndKeepsPermits
<1>2. ClientTypes'
    <2>1. wire' = [wire EXCEPT ![c] = <<>>] /\ buf' = [buf EXCEPT ![c] = <<>>]
          /\ wire \in [Clients -> Seq(Kinds)] /\ buf \in [Clients -> Seq(Kinds)]
        BY DEF End, TypeOK
    <2>2. wire' \in [Clients -> Seq(Kinds)] /\ buf' \in [Clients -> Seq(Kinds)]
        BY <2>1, SMTT(30)
    <2>3. downstream' \in [Clients -> Nat]
        BY SMTT(30) DEF End, TypeOK
    <2>4. now' \in [Clients -> Kinds \cup {"forward", "none"}]
          /\ stalled' \in [Clients -> BOOLEAN]
        BY DEF End, TypeOK
    <2> QED
        BY <2>2, <2>3, <2>4 DEF ClientTypes, End, TypeOK
<1>3. task' \in [Clients -> Running \cup {"away", "queued", "rejected", "ended"}]
    BY DEF End, TypeOK
<1>4. TypeOK'
    BY <1>1, <1>2, <1>3 DEF End, TypeOK, ClientTypes
<1>5. OwedWhileWriting'
    <2>1. task' = [task EXCEPT ![c] = "ended"] /\ now' = [now EXCEPT ![c] = "none"]
          /\ UNCHANGED <<open, embedded, dropping>>
        BY DEF End
    <2>2. task \in [Clients -> States] /\ now \in [Clients -> Kinds \cup {"forward", "none"}]
          /\ owed \subseteq Clients
        BY DEF TypeOK, States
    <2> QED
        BY <2>1, <2>2 DEF OwedWhileWriting
<1> QED
    BY <1>1, <1>4, <1>5

-----------------------------------------------------------------------------
\* A step that starts or ends no task and writes no reply: what remains of IInv is types.
LEMMA QuietStep ==
    ASSUME IInv, TypeOK', permits' = permits, Alive' = Alive, owed' = owed, embedded' = embedded,
           dropping' => ~embedded,
           \A c \in owed : /\ task'[c] = task[c]
                           /\ now'[c] = now[c]
                           /\ open[c] = open'[c] \/ ~open'[c]
    PROVE  IInv'
<1>1. PermitsExact'
    BY SameTasksKeepPermits DEF IInv
<1>2. OwedWhileWriting'
    BY DEF IInv, OwedWhileWriting, TypeOK
<1> QED
    BY <1>1, <1>2 DEF IInv

LEMMA NextIInv == IInv /\ [Next]_vars => IInv'
<1> SUFFICES ASSUME IInv, [Next]_vars PROVE IInv'
    OBVIOUS
<1> USE DEF serverVars, clientVars, taskVars
<1>t. /\ TypeOK /\ PermitsExact /\ OwedWhileWriting
      /\ task \in [Clients -> States]
      /\ owed \subseteq Clients
    BY DEF IInv, TypeOK, States
<1>1. CASE \E c \in Clients : Connect(c)
    <2> PICK c \in Clients : Connect(c)
        BY <1>1
    <2>1. task' = [task EXCEPT ![c] = "queued"] /\ task[c] = "away"
        BY DEF Connect
    <2>2. TypeOK' /\ Alive' = Alive
        BY <1>t, <2>1 DEF Connect, TypeOK, Alive, Running
    <2>3. c \notin owed
        BY <1>t, <2>1 DEF OwedWhileWriting
    <2> QED
        BY <1>t, <2>1, <2>2, <2>3, QuietStep DEF Connect, OwedWhileWriting
<1>2. CASE \E c \in Clients : Stall(c) \/ Close(c)
    <2> PICK c \in Clients : Stall(c) \/ Close(c)
        BY <1>2
    <2>1. TypeOK'
        BY <1>t DEF Stall, Close, TypeOK
    <2>2. Alive' = Alive
        BY DEF Stall, Close, Alive
    <2> QED
        BY <1>t, <2>1, <2>2, QuietStep DEF Stall, Close, OwedWhileWriting, TypeOK
<1>3. CASE \E c \in Clients : Accept(c)
    <2> PICK c \in Clients : Accept(c)
        BY <1>3, SMTT(30)
    <2>q. task[c] = "queued"
        BY DEF Accept
    <2>0. c \notin owed
        BY <1>t, <2>q DEF OwedWhileWriting
    <2>1. CASE permits > 0 /\ Spawn(c)
        <3>1. permits' \in 0..MaxConnections /\ PermitsExact'
            BY <1>t, <2>1, <2>q, SpawnKeepsPermits
        <3>2. wire' \in [Clients -> Seq(Kinds)]
            <4>1. PICK n \in 0..MaxRequests : \E requests \in [1..n -> Kinds] :
                     wire' = [wire EXCEPT ![c] = requests]
                BY <2>1 DEF Spawn
            <4>2. PICK requests \in [1..n -> Kinds] : wire' = [wire EXCEPT ![c] = requests]
                BY <4>1
            <4>3. requests \in Seq(Kinds)
                BY <4>2, SMTT(30)
            <4> QED
                BY <1>t, <4>2, <4>3 DEF TypeOK
        <3>3. task' = [task EXCEPT ![c] = "select"]
            BY <2>1 DEF Spawn
        <3>4. task' \in [Clients -> Running \cup {"away", "queued", "rejected", "ended"}]
            BY <1>t, <3>3 DEF TypeOK, Running
        <3>5. TypeOK'
            BY <1>t, <3>1, <3>2, <3>4 DEF Accept, TypeOK
        <3>6. OwedWhileWriting'
            BY <1>t, <2>0, <3>3 DEF Accept, OwedWhileWriting
        <3> QED
            BY <3>1, <3>5, <3>6 DEF IInv
    <2>2. CASE task' = [task EXCEPT ![c] = "rejected"] /\ UNCHANGED <<permits, wire>>
        <3>1. TypeOK' /\ Alive' = Alive
            BY <1>t, <2>2, <2>q DEF Accept, TypeOK, Alive, Running
        <3> QED
            BY <1>t, <2>0, <2>2, <3>1, QuietStep DEF Accept, OwedWhileWriting
    <2> QED
        BY <2>1, <2>2 DEF Accept
<1>4. CASE \E c \in Clients : AcceptFails(c)
    <2> PICK c \in Clients : AcceptFails(c)
        BY <1>4, SMTT(30)
    <2>1. task' = [task EXCEPT ![c] = "rejected"] /\ task[c] = "queued"
        BY DEF AcceptFails
    <2>2. TypeOK' /\ Alive' = Alive
        BY <1>t, <2>1 DEF AcceptFails, TypeOK, Alive, Running
    <2>3. c \notin owed
        BY <1>t, <2>1 DEF OwedWhileWriting
    <2> QED
        BY <1>t, <2>1, <2>2, <2>3, QuietStep DEF AcceptFails, OwedWhileWriting
<1>5. CASE Signal \/ DropRuntime \/ (\E b \in Background : CancelBackground(b))
    <2>1. TypeOK' /\ Alive' = Alive
        BY <1>t, <1>5 DEF Signal, DropRuntime, CancelBackground, TypeOK, Alive
    <2> QED
        BY <1>t, <1>5, <2>1, QuietStep, SMTT(30)
        DEF Signal, DropRuntime, CancelBackground, OwedWhileWriting
<1>6. CASE Shutdown
    <2>1. TypeOK' /\ Alive' = Alive
        BY <1>t, <1>6 DEF Shutdown, TypeOK, Alive
    <2> QED
        BY <1>t, <1>6, <2>1, QuietStep DEF Shutdown, OwedWhileWriting
<1>7. CASE Return
    <2>1. task' = [c \in Clients |-> IF task[c] = "queued" THEN "rejected" ELSE task[c]]
        BY <1>7 DEF Return
    <2>2. task' \in [Clients -> Running \cup {"away", "queued", "rejected", "ended"}]
        BY <1>t, <2>1 DEF TypeOK
    <2>3. TypeOK' /\ Alive' = Alive
        BY <1>t, <1>7, <2>1, <2>2 DEF Return, TypeOK, Alive, Running
    <2>4. \A c \in owed : task'[c] = task[c]
        BY <1>t, <2>1 DEF OwedWhileWriting
    <2> QED
        BY <1>t, <1>7, <2>3, <2>4, QuietStep DEF Return, OwedWhileWriting
<1>8. CASE \E c \in Clients : Cancel(c) \/ SelectShutdown(c) \/ SelectEnd(c)
                             \/ Panic(c) \/ WriteFails(c)
    <2> PICK c \in Clients : Cancel(c) \/ SelectShutdown(c) \/ SelectEnd(c)
                             \/ Panic(c) \/ WriteFails(c)
        BY <1>8
    <2>1. task[c] \in Running /\ End(c) /\ owed' = owed
        BY DEF Cancel, SelectShutdown, SelectEnd, Panic, WriteFails, Running
    <2>2. c \in owed => ~open[c] \/ ~embedded
        BY <1>t DEF Cancel, SelectShutdown, SelectEnd, Panic, WriteFails, OwedWhileWriting
    <2> QED
        BY <2>1, <2>2, EndStep
<1>9. CASE \E c \in Clients : \E n \in 1..Len(wire[c]) : SelectRead(c, n)
    <2> PICK c \in Clients : \E n \in 1..Len(wire[c]) : SelectRead(c, n)
        BY <1>9
    <2> PICK n \in 1..Len(wire[c]) : SelectRead(c, n)
        OBVIOUS
    <2>1. wire[c] \in Seq(Kinds) /\ Len(wire[c]) \in Nat
        BY <1>t, SMTT(30) DEF TypeOK
    <2>2. SubSeq(wire[c], 1, n) \in Seq(Kinds)
          /\ SubSeq(wire[c], n + 1, Len(wire[c])) \in Seq(Kinds)
        BY <2>1, SMTT(30)
    <2>3. wire' \in [Clients -> Seq(Kinds)] /\ buf' \in [Clients -> Seq(Kinds)]
        BY <1>t, <2>2 DEF SelectRead, TypeOK
    <2>4. task' \in [Clients -> Running \cup {"away", "queued", "rejected", "ended"}]
          /\ now' \in [Clients -> Kinds \cup {"forward", "none"}]
        <3>1. /\ task' = [task EXCEPT ![c] = "write"] \/ task' = [task EXCEPT ![c] = "frames"]
              /\ now' = [now EXCEPT ![c] = "oversized"] \/ now' = now
            BY DEF SelectRead
        <3>2. /\ task \in [Clients -> Running \cup {"away", "queued", "rejected", "ended"}]
              /\ now \in [Clients -> Kinds \cup {"forward", "none"}]
            BY <1>t DEF TypeOK
        <3> QED
            BY <3>1, <3>2 DEF Running, Kinds
    <2>5. TypeOK'
        BY <1>t, <2>3, <2>4 DEF SelectRead, TypeOK
    <2>6. Alive' = Alive
        BY <1>t DEF SelectRead, Alive, Running
    <2>7. c \notin owed
        BY <1>t DEF SelectRead, OwedWhileWriting
    <2>8. \A d \in owed : task'[d] = task[d] /\ now'[d] = now[d]
        BY <1>t, <2>7, SMTT(30) DEF SelectRead, TypeOK
    <2> QED
        BY <1>t, <2>5, <2>6, <2>8, QuietStep DEF SelectRead, OwedWhileWriting
<1>f. CASE \E c \in Clients : SelectForward(c)
    <2> PICK c \in Clients : SelectForward(c)
        BY <1>f
    <2>1. downstream \in [Clients -> Nat] /\ downstream[c] > 0
          /\ downstream' = [downstream EXCEPT ![c] = downstream[c] - 1]
        BY <1>t DEF SelectForward, TypeOK
    <2>2. downstream' \in [Clients -> Nat]
        BY <2>1, SMTT(30)
    <2>3. task' \in [Clients -> Running \cup {"away", "queued", "rejected", "ended"}]
          /\ now' \in [Clients -> Kinds \cup {"forward", "none"}]
        BY <1>t DEF SelectForward, TypeOK, Running
    <2>4. TypeOK'
        BY <1>t, <2>2, <2>3 DEF SelectForward, TypeOK
    <2>5. Alive' = Alive
        BY <1>t DEF SelectForward, Alive, Running
    <2>6. c \notin owed
        BY <1>t DEF SelectForward, OwedWhileWriting
    <2>7. \A d \in owed : task'[d] = task[d] /\ now'[d] = now[d]
        BY <1>t, <2>6 DEF SelectForward, TypeOK
    <2> QED
        BY <1>t, <2>4, <2>5, <2>7, QuietStep DEF SelectForward, OwedWhileWriting
<1>10. CASE \E c \in Clients : FramesDone(c)
    <2> PICK c \in Clients : FramesDone(c)
        BY <1>10, SMTT(30)
    <2>1. TypeOK' /\ Alive' = Alive
        BY <1>t DEF FramesDone, TypeOK, Alive, Running
    <2>2. c \notin owed
        BY <1>t DEF FramesDone, OwedWhileWriting
    <2> QED
        BY <1>t, <2>1, <2>2, QuietStep DEF FramesDone, OwedWhileWriting
<1>11. CASE \E c \in Clients : Frame(c)
    <2> PICK c \in Clients : Frame(c)
        BY <1>11, SMTT(30)
    <2>1. buf[c] \in Seq(Kinds) /\ buf[c] # <<>>
        BY <1>t DEF Frame, TypeOK
    <2>2. Head(buf[c]) \in Kinds /\ Tail(buf[c]) \in Seq(Kinds)
        BY <2>1, SMTT(30)
    <2>3. TypeOK'
        <3>1. buf' \in [Clients -> Seq(Kinds)] /\ now' \in [Clients -> Kinds \cup {"forward", "none"}]
            BY <1>t, <2>2 DEF Frame, TypeOK
        <3>2. task' \in [Clients -> Running \cup {"away", "queued", "rejected", "ended"}]
            BY <1>t DEF Frame, TypeOK, Running
        <3>3. downstream' = downstream
              \/ downstream' = [d \in Clients |-> downstream[d] + (IF d \in replicas THEN 1 ELSE 0)]
            BY DEF Frame
        <3>4. downstream \in [Clients -> Nat]
            BY <1>t DEF TypeOK
        <3>5. downstream' \in [Clients -> Nat]
            BY ONLY <3>3, <3>4, SMTT(30)
        <3> QED
            BY <1>t, <3>1, <3>2, <3>5 DEF Frame, TypeOK
    <2>4. Alive' = Alive /\ permits' = permits
        BY <1>t DEF Frame, Alive, Running
    <2>5. PermitsExact'
        BY <1>t, <2>4, SameTasksKeepPermits
    <2>6. c \notin owed
        BY <1>t DEF Frame, OwedWhileWriting
    <2>7. OwedWhileWriting'
        BY <1>t, <2>6 DEF Frame, OwedWhileWriting, TypeOK
    <2> QED
        BY <2>3, <2>5, <2>7 DEF IInv
<1>12. CASE \E c \in Clients : Wrote(c)
    <2> PICK c \in Clients : Wrote(c)
        BY <1>12, SMTT(30)
    <2>1. CASE now[c] \in {"quit", "oversized"}
        BY <1>t, <2>1, EndStep DEF Wrote, Running
    <2>2. CASE now[c] \notin {"quit", "oversized"}
        <3>0. /\ task' = [task EXCEPT ![c] = IF now[c] = "malformed" THEN "select" ELSE "frames"]
              /\ buf' = [buf EXCEPT ![c] = IF now[c] = "malformed" THEN <<>> ELSE buf[c]]
              /\ now' = [now EXCEPT ![c] = "none"]
            BY <2>2 DEF Wrote
        <3>1. buf' \in [Clients -> Seq(Kinds)]
            <4>1. (IF now[c] = "malformed" THEN <<>> ELSE buf[c]) \in Seq(Kinds)
                BY <1>t, SMTT(30) DEF TypeOK
            <4> QED
                BY <1>t, <3>0, <4>1 DEF TypeOK
        <3>2. task' \in [Clients -> Running \cup {"away", "queued", "rejected", "ended"}]
              /\ now' \in [Clients -> Kinds \cup {"forward", "none"}]
            <4>1. (IF now[c] = "malformed" THEN "select" ELSE "frames") \in Running
                BY DEF Running
            <4> QED
                BY <1>t, <3>0, <4>1 DEF TypeOK
        <3>r. replicas' \subseteq Clients
            <4>1. replicas' = replicas \/ replicas' = replicas \cup {c}
                BY <2>2 DEF Wrote
            <4>2. replicas \subseteq Clients
                BY <1>t DEF TypeOK
            <4> QED
                BY <4>1, <4>2
        <3>3. TypeOK'
            BY <1>t, <2>2, <3>1, <3>2, <3>r DEF Wrote, TypeOK
        <3>4. Alive' = Alive /\ permits' = permits
            BY <1>t, <2>2 DEF Wrote, Alive, Running
        <3>5. PermitsExact'
            BY <1>t, <3>4, SameTasksKeepPermits, SMTT(30)
        <3>6. OwedWhileWriting'
            BY <1>t, <2>2, SMTT(30) DEF Wrote, OwedWhileWriting, TypeOK
        <3> QED
            BY <3>3, <3>5, <3>6, SMTT(30) DEF IInv
    <2> QED
        BY <2>1, <2>2
<1>13. CASE UNCHANGED vars
    BY <1>13, <1>t DEF vars, IInv, TypeOK, PermitsExact, Alive, OwedWhileWriting
<1> QED
    BY <1>1, <1>2, <1>3, <1>4, <1>5, <1>6, <1>7, <1>8, <1>9, <1>f, <1>10, <1>11, <1>12, <1>13
    DEF Next, TaskStep

-----------------------------------------------------------------------------
\* The state of the listener, of the tasks and of their buffers keeps its types; in particular
\* permits never exceed max_connections nor wrap (server.rs, run_with_shutdown; connection.rs, handle).
THEOREM TypeCorrect == Spec => []TypeOK
<1>1. IInv => TypeOK
    BY DEF IInv
<1> QED
    BY <1>1, InitIInv, NextIInv, PTL DEF Spec

\* Every permit is in the semaphore or held by exactly one running task, however tasks end
\* (server.rs, run_with_shutdown).
THEOREM PermitsAreExact == Spec => []PermitsExact
<1>1. IInv => PermitsExact
    BY DEF IInv
<1> QED
    BY <1>1, InitIInv, NextIInv, PTL DEF Spec

\* At most max_connections connections are served at any moment.
THEOREM NeverOverLimit == Spec => [](Cardinality(Alive) <= MaxConnections)
<1>1. IInv => Cardinality(Alive) <= MaxConnections
    <2> SUFFICES ASSUME IInv PROVE Cardinality(Alive) <= MaxConnections
        OBVIOUS
    <2>1. Cardinality(Alive) \in Nat
        BY ServerAssumption, FS_Subset, FS_CardinalityType DEF Alive
    <2> QED
        BY <2>1, ServerAssumption, SMTT(30) DEF IInv, TypeOK, PermitsExact
<1> QED
    BY <1>1, InitIInv, NextIInv, PTL DEF Spec

\* On a runtime that lives on, a shutdown leaves no executed command unanswered unless its
\* client went away (connection.rs, handle).
THEOREM RepliesSurviveShutdown == Spec => []ShutdownFinishesReplies
<1>1. IInv => ShutdownFinishesReplies
    BY DEF IInv, OwedWhileWriting, ShutdownFinishesReplies
<1> QED
    BY <1>1, InitIInv, NextIInv, PTL DEF Spec

=============================================================================
