------------------------------- MODULE Server -------------------------------
(***************************************************************************)
(* The server's tasks (server.rs, run_with_shutdown; main.rs): the accept  *)
(* loop with its limit on connections, one task per connection             *)
(* (connection.rs, handle) with the points where it waits, the background  *)
(* tasks, and how they all stop.                                           *)
(*                                                                         *)
(* Requests are kinds, by the way they leave the frame loop: "command" is  *)
(* answered, "psync" makes the connection a replica's after its answer,    *)
(* "quit" closes after its answer, "malformed" drops the buffer after its  *)
(* answer, "oversized" ends the connection at the read, "panic" is a       *)
(* command that panics: CLUSTER MEET with a port above 55535, where        *)
(* overflow is checked.  Connection models their bytes, Replication what   *)
(* goes to the replicas.                                                   *)
(***************************************************************************)
EXTENDS Integers, Sequences, FiniteSets

CONSTANTS
    Clients,
    MaxConnections,  \* max_connections
    Background,      \* the background tasks: "ttl", and "replica" when the role is Replica
    MaxRequests      \* bound on the requests of a client

ASSUME ServerAssumption ==
    /\ IsFiniteSet(Clients)
    /\ MaxConnections \in Nat
    /\ MaxRequests \in Nat

Kinds == {"command", "psync", "quit", "malformed", "oversized", "panic"}

VARIABLES
    embedded,   \* run_with_shutdown is called on a runtime that lives on (not by main)
    signal,     \* shutdown_rx has a message, or its sender is gone
    listener,   \* "up"; "down" once the loop is left; "returned" with client_shutdown_tx dropped
    dropping,   \* main is leaving: the runtime is being dropped
    background, \* background tasks that run
    permits,    \* connection_semaphore
    task,       \* each client's connection
    told,       \* tasks whose receiver holds the shutdown message
    wire,       \* requests the client has sent or will send, not read yet
    buf,        \* requests in the task's buffer
    now,        \* what is being written: the reply to a request, "forward", or "none"
    replicas,   \* tasks with is_downstream_replica set, their sender registered
    downstream, \* number of commands in each task's downstream_rx
    open,       \* the client has not closed its end
    stalled,    \* the client takes no bytes, so that write_all waits
    owed        \* history: clients with a command executed and its reply not written

serverVars == <<embedded, signal, listener, dropping, background, permits>>
clientVars == <<wire, open, stalled>>
taskVars == <<task, told, buf, now, replicas, downstream, owed>>
vars == <<serverVars, clientVars, taskVars>>

\* A task exists, and holds its permit, in these states.
Running == {"select", "frames", "write"}
Alive == {c \in Clients : task[c] \in Running}

TypeOK ==
    /\ embedded \in BOOLEAN /\ signal \in BOOLEAN /\ dropping \in BOOLEAN
    /\ listener \in {"up", "down", "returned"}
    /\ background \subseteq Background
    /\ permits \in 0..MaxConnections
    /\ task \in [Clients -> Running \cup {"away", "queued", "rejected", "ended"}]
    /\ told \subseteq Clients
    /\ wire \in [Clients -> Seq(Kinds)] /\ buf \in [Clients -> Seq(Kinds)]
    /\ now \in [Clients -> Kinds \cup {"forward", "none"}]
    /\ replicas \subseteq Clients /\ downstream \in [Clients -> Nat]
    /\ open \in [Clients -> BOOLEAN] /\ stalled \in [Clients -> BOOLEAN]
    /\ owed \subseteq Clients

\* The listener is bound and the background tasks are spawned before the first accept.
Init ==
    /\ embedded \in BOOLEAN
    /\ signal = FALSE
    /\ listener = "up"
    /\ dropping = FALSE
    /\ background = Background
    /\ permits = MaxConnections
    /\ task = [c \in Clients |-> "away"]
    /\ told = {}
    /\ wire = [c \in Clients |-> <<>>]
    /\ buf = [c \in Clients |-> <<>>]
    /\ now = [c \in Clients |-> "none"]
    /\ replicas = {}
    /\ downstream = [c \in Clients |-> 0]
    /\ open = [c \in Clients |-> TRUE]
    /\ stalled = [c \in Clients |-> FALSE]
    /\ owed = {}

-----------------------------------------------------------------------------
(* Clients, as the sockets show them *)

\* The kernel completes the connection and keeps it for accept.
Connect(c) ==
    /\ listener = "up"
    /\ task[c] = "away"
    /\ task' = [task EXCEPT ![c] = "queued"]
    /\ UNCHANGED <<serverVars, clientVars, told, buf, now, replicas, downstream, owed>>

\* The client stops taking bytes, or starts again.
Stall(c) ==
    /\ task[c] \in Running /\ open[c]
    /\ stalled' = [stalled EXCEPT ![c] = ~@]
    /\ UNCHANGED <<serverVars, taskVars, wire, open>>

Close(c) ==
    /\ task[c] \in Running /\ open[c]
    /\ open' = [open EXCEPT ![c] = FALSE]
    /\ UNCHANGED <<serverVars, taskVars, wire, stalled>>

-----------------------------------------------------------------------------
(* The accept loop *)

\* What the client will send is chosen when its connection is taken.
Spawn(c) ==
    /\ permits' = permits - 1
    /\ task' = [task EXCEPT ![c] = "select"]
    /\ \E n \in 0..MaxRequests : \E requests \in [1..n -> Kinds] :
          wire' = [wire EXCEPT ![c] = requests]

\* Mutant: acquire_owned().await in place of try_acquire_owned.
AcceptWaits(c) ==
    /\ listener = "up"
    /\ task[c] = "queued"
    /\ permits > 0 /\ Spawn(c)
    /\ UNCHANGED <<embedded, signal, listener, dropping, background, open, stalled,
                   told, buf, now, replicas, downstream, owed>>

\* Without a permit the stream is dropped.  The task subscribes before it is spawned, in the
\* same step as the accept.
Accept(c) ==
    /\ listener = "up"
    /\ task[c] = "queued"
    /\ \/ permits > 0 /\ Spawn(c)
       \/ permits = 0 /\ task' = [task EXCEPT ![c] = "rejected"] /\ UNCHANGED <<permits, wire>>
    /\ UNCHANGED <<embedded, signal, listener, dropping, background, open, stalled,
                   told, buf, now, replicas, downstream, owed>>

\* accept returns an error, which is logged: the connection was aborted in the queue.
AcceptFails(c) ==
    /\ listener = "up"
    /\ task[c] = "queued"
    /\ task' = [task EXCEPT ![c] = "rejected"]
    /\ UNCHANGED <<serverVars, clientVars, told, buf, now, replicas, downstream, owed>>

\* Ctrl-C, or the embedding program signals or drops its sender.
Signal ==
    /\ ~signal
    /\ signal' = TRUE
    /\ UNCHANGED <<embedded, listener, dropping, background, permits, clientVars, taskVars>>

Shutdown ==
    /\ listener = "up" /\ signal
    /\ listener' = "down"
    /\ told' = Alive
    /\ UNCHANGED <<embedded, signal, dropping, background, permits, clientVars,
                   task, buf, now, replicas, downstream, owed>>

\* The listener and client_shutdown_tx are dropped; nobody is waited for.
Return ==
    /\ listener = "down"
    /\ listener' = "returned"
    /\ task' = [c \in Clients |-> IF task[c] = "queued" THEN "rejected" ELSE task[c]]
    /\ UNCHANGED <<embedded, signal, dropping, background, permits, clientVars,
                   told, buf, now, replicas, downstream, owed>>

\* Mutant: main waits for the connections first.
DropRuntimeWhenIdle ==
    /\ listener = "returned" /\ ~embedded /\ ~dropping
    /\ Alive = {}
    /\ dropping' = TRUE
    /\ UNCHANGED <<embedded, signal, listener, background, permits, clientVars, taskVars>>

\* main returns from block_on.
DropRuntime ==
    /\ listener = "returned" /\ ~embedded /\ ~dropping
    /\ dropping' = TRUE
    /\ UNCHANGED <<embedded, signal, listener, background, permits, clientVars, taskVars>>

\* The runtime drops a background task at its next await; nothing else stops one.
CancelBackground(b) ==
    /\ dropping /\ b \in background
    /\ background' = background \ {b}
    /\ UNCHANGED <<embedded, signal, listener, dropping, permits, clientVars, taskVars>>

-----------------------------------------------------------------------------
(* A connection's task *)

\* handle returns, panics or is dropped: the socket, the buffer and _permit go out of scope.
End(c) ==
    /\ task' = [task EXCEPT ![c] = "ended"]
    /\ permits' = permits + 1
    /\ wire' = [wire EXCEPT ![c] = <<>>]
    /\ buf' = [buf EXCEPT ![c] = <<>>]
    /\ now' = [now EXCEPT ![c] = "none"]
    /\ replicas' = replicas \ {c}
    /\ downstream' = [downstream EXCEPT ![c] = 0]
    /\ stalled' = [stalled EXCEPT ![c] = FALSE]
    /\ told' = told \ {c}
    /\ UNCHANGED <<embedded, signal, listener, dropping, background, open>>

\* The runtime drops the task while it waits.
Cancel(c) ==
    /\ dropping /\ task[c] \in Running
    /\ End(c)
    /\ UNCHANGED owed

\* Mutant: the branch does not leave the loop.
SelectShutdownContinues(c) ==
    /\ task[c] = "select"
    /\ c \in told
    /\ told' = told \ {c}
    /\ UNCHANGED <<serverVars, clientVars, task, buf, now, replicas, downstream, owed>>

\* Mutant: the signal is awaited around the whole handler, not between requests.
SelectShutdownAnywhere(c) ==
    /\ task[c] \in Running
    /\ c \in told \/ listener = "returned"
    /\ End(c)
    /\ UNCHANGED owed

\* recv returns the message, or an error once the sender is gone.
SelectShutdown(c) ==
    /\ task[c] = "select"
    /\ c \in told \/ listener = "returned"
    /\ End(c)
    /\ UNCHANGED owed

\* A propagated command is written to the replica; the shutdown signal waits meanwhile.
SelectForward(c) ==
    /\ task[c] = "select" /\ c \in replicas /\ downstream[c] > 0
    /\ task' = [task EXCEPT ![c] = "write"]
    /\ now' = [now EXCEPT ![c] = "forward"]
    /\ downstream' = [downstream EXCEPT ![c] = @ - 1]
    /\ UNCHANGED <<serverVars, clientVars, told, buf, replicas, owed>>

\* A read gets the first n requests of the wire; the payload check follows.
SelectRead(c, n) ==
    LET got == SubSeq(wire[c], 1, n)
    IN  /\ task[c] = "select"
        /\ n \in 1..Len(wire[c])
        /\ wire' = [wire EXCEPT ![c] = SubSeq(@, n + 1, Len(@))]
        /\ buf' = [buf EXCEPT ![c] = got]
        /\ IF \E i \in 1..n : got[i] = "oversized"
           THEN /\ task' = [task EXCEPT ![c] = "write"]
                /\ now' = [now EXCEPT ![c] = "oversized"]
           ELSE /\ task' = [task EXCEPT ![c] = "frames"]
                /\ UNCHANGED now
        /\ UNCHANGED <<serverVars, open, stalled, told, replicas, downstream, owed>>

\* End of stream or a read error; a reset also discards what was on the wire.
SelectEnd(c) ==
    /\ task[c] = "select" /\ ~open[c]
    /\ End(c)
    /\ UNCHANGED owed

FramesDone(c) ==
    /\ task[c] = "frames" /\ buf[c] = <<>>
    /\ task' = [task EXCEPT ![c] = "select"]
    /\ UNCHANGED <<serverVars, clientVars, told, buf, now, replicas, downstream, owed>>

\* The next request of the buffer, up to the await of its write_all; a command that writes goes
\* to every registered replica.  The shutdown signal is not looked at between two requests.
Frame(c) ==
    /\ task[c] = "frames" /\ buf[c] # <<>> /\ Head(buf[c]) # "panic"
    /\ task' = [task EXCEPT ![c] = "write"]
    /\ now' = [now EXCEPT ![c] = Head(buf[c])]
    /\ buf' = [buf EXCEPT ![c] = Tail(@)]
    /\ owed' = IF Head(buf[c]) = "command" THEN owed \cup {c} ELSE owed
    /\ \/ UNCHANGED downstream
       \/ /\ Head(buf[c]) = "command"
          /\ downstream' = [d \in Clients |-> downstream[d] + (IF d \in replicas THEN 1 ELSE 0)]
    /\ UNCHANGED <<serverVars, clientVars, told, replicas>>

\* Mutant: the permit is given back after handle, not by its drop.
PanicKeepsPermit(c) ==
    /\ task[c] = "frames" /\ buf[c] # <<>> /\ Head(buf[c]) = "panic"
    /\ task' = [task EXCEPT ![c] = "ended"]
    /\ UNCHANGED <<serverVars, clientVars, told, buf, now, replicas, downstream, owed>>

\* MEET with a port that overflows, or an array count that no Vec can hold: the task unwinds
\* before it has taken a lock, and the process goes on.
Panic(c) ==
    /\ task[c] = "frames" /\ buf[c] # <<>> /\ Head(buf[c]) = "panic"
    /\ End(c)
    /\ UNCHANGED owed

\* A write that waits for a client that takes no bytes.
Blocked(c) == task[c] = "write" /\ stalled[c] /\ open[c]

\* write_all and flush complete; a client that has closed may still be written to.
Wrote(c) ==
    /\ task[c] = "write" /\ ~Blocked(c)
    /\ owed' = owed \ {c}
    /\ IF now[c] \in {"quit", "oversized"} THEN End(c)
       ELSE /\ task' = [task EXCEPT ![c] = IF now[c] = "malformed" THEN "select" ELSE "frames"]
            /\ buf' = [buf EXCEPT ![c] = IF now[c] = "malformed" THEN <<>> ELSE @]
            /\ now' = [now EXCEPT ![c] = "none"]
            /\ replicas' = IF now[c] = "psync" THEN replicas \cup {c} ELSE replicas
            /\ UNCHANGED <<serverVars, clientVars, told, downstream>>

\* Mutant: the error path gives the permit back once more.
WriteFailsReleasesTwice(c) ==
    /\ task[c] = "write" /\ ~open[c]
    /\ task' = [task EXCEPT ![c] = "ended"]
    /\ permits' = permits + 2
    /\ UNCHANGED <<embedded, signal, listener, dropping, background, clientVars,
                   told, buf, now, replicas, downstream, owed>>

WriteFails(c) ==
    /\ task[c] = "write" /\ ~open[c]
    /\ End(c)
    /\ UNCHANGED owed

-----------------------------------------------------------------------------
TaskStep(c) ==
    \/ SelectShutdown(c) \/ SelectEnd(c) \/ SelectForward(c)
    \/ \E n \in 1..Len(wire[c]) : SelectRead(c, n)
    \/ FramesDone(c) \/ Frame(c) \/ Panic(c)
    \/ Wrote(c) \/ WriteFails(c)

Next ==
    \/ \E c \in Clients :
          \/ Connect(c) \/ Stall(c) \/ Close(c)
          \/ Accept(c) \/ AcceptFails(c)
          \/ TaskStep(c) \/ Cancel(c)
    \/ Signal \/ Shutdown \/ Return \/ DropRuntime
    \/ \E b \in Background : CancelBackground(b)

Spec == Init /\ [][Next]_vars

(***************************************************************************)
(* Fairness: the runtime polls every task that is woken, and accept hands  *)
(* out queued connections in order.  select! begins at a random branch, so *)
(* a shutdown that stays ready is taken although reads are ready too.      *)
(* Nothing is assumed of clients or of the signal.                         *)
(***************************************************************************)
Fairness ==
    /\ WF_vars(Shutdown) /\ WF_vars(Return) /\ WF_vars(DropRuntime)
    /\ \A b \in Background : WF_vars(CancelBackground(b))
    /\ \A c \in Clients :
          /\ WF_vars(Accept(c))
          /\ WF_vars(TaskStep(c))
          /\ SF_vars(SelectShutdown(c))
          /\ WF_vars(Cancel(c))

FairSpec == Spec /\ Fairness

-----------------------------------------------------------------------------
(* Properties *)

\* Every permit is either in the semaphore or held by exactly one running task, whatever way
\* tasks end: QUIT, end of stream, error, refusal, panic, shutdown or a dropped runtime.
PermitsExact == permits + Cardinality(Alive) = MaxConnections

\* On a runtime that lives on, no command is executed without its reply being written unless
\* the client went away: the signal is only looked at between reads, never during a write.
ShutdownFinishesReplies ==
    embedded => \A c \in Clients : task[c] = "ended" /\ open[c] => c \notin owed

\* A connection in the accept queue is served or turned away, also when every permit is held
\* by clients that never read, and when the server stops.
QueueDrains == \A c \in Clients : task[c] = "queued" ~> task[c] # "queued"

\* Once the server has been told to stop, every connection ends, pipelined requests included,
\* unless its task is in a write to a client that takes nothing.
ConnectionsStop ==
    \A c \in Clients : signal /\ task[c] \in Running ~> task[c] \notin Running \/ Blocked(c)

\* The program (main) stops everything after the signal, the background tasks that no signal
\* reaches and the tasks that wait for clients included.
ProgramStops == ~embedded /\ signal ~> Alive = {} /\ background = {}

=============================================================================
