---------------------------- MODULE Replication ----------------------------
(***************************************************************************)
(* Master-replica replication: the write commands of commands/mod.rs on    *)
(* the master, ReplicationState (replication/state.rs), the connection     *)
(* task that serves a replica (connection.rs), the byte stream between     *)
(* them and the replica's loop (replication/replica.rs).                   *)
(*                                                                         *)
(* A store is a function from keys to values or None: Db is modelled in    *)
(* its own module, and here an entry that expires or is evicted is         *)
(* forgotten.  A frame of the stream is a run of bytes, each tagged with   *)
(* its frame and its position, so that reads may split and join frames.    *)
(*                                                                         *)
(* A replica process makes one connection attempt in its life; a restarted *)
(* process is another member of Replicas.                                  *)
(***************************************************************************)
EXTENDS Naturals, FiniteSets, SequencesExt

CONSTANTS
    Clients,         \* connections that issue writes to the master
    Keys,
    Values,
    ClientKeys,      \* the keys that each client writes
    MaxDelKeys,      \* bound on the number of keys of a DEL
    Replicas,
    Starts,          \* how each replica may stand at first: "new", "joined" or "absent"
    MasterAuth,      \* masterauth.is_some(): the handshake has an AUTH step
    CmdLen,          \* bytes of a write command on the wire
    RdbLen,          \* bytes of the RDB payload
    MasterForgets,   \* entries of the master may expire or be evicted
    ReplicaKeys,     \* keys that clients write on a replica and that expire or are evicted there
    Faults,          \* connections may fail
    GetAcks,         \* the master sends REPLCONF GETACK (another Redis does)
    MaxLog,          \* bound on the number of write commands
    MaxSent,         \* bound on the stream position at which GETACK is sent
    None

ASSUME ReplicationAssumption ==
    /\ ClientKeys \in [Clients -> SUBSET Keys]
    /\ Starts \subseteq [Replicas -> {"new", "joined", "absent"}]
    /\ MaxDelKeys \in Nat
    /\ CmdLen \in Nat \ {0} /\ RdbLen \in Nat
    /\ {MasterAuth, MasterForgets, Faults, GetAcks} \subseteq BOOLEAN
    /\ ReplicaKeys \subseteq Keys
    /\ MaxLog \in Nat /\ MaxSent \in Nat
    /\ None \notin Values /\ None \notin Nat

Store == [Keys -> Values \cup {None}]

SetCmd(k, v) == [op |-> "SET", keys |-> <<k>>, value |-> v]
DelCmd(ks) == [op |-> "DEL", keys |-> ks, value |-> None]
DelArgs(S) == UNION {[1..n -> S] : n \in 1..MaxDelKeys}
Command == {SetCmd(k, v) : k \in Keys, v \in Values} \cup {DelCmd(ks) : ks \in DelArgs(Keys)}

\* What executing a write command does to a store.
Execute(store, cmd) ==
    [k \in Keys |-> IF k \in ToSet(cmd.keys) THEN cmd.value ELSE store[k]]

\* Frames of the master's side of the stream.  A simple line is any one-line reply;
\* the stream position in a GETACK frame is there for AckIsStreamPosition.
Line == [type |-> "line"]
FullResync == [type |-> "fullresync"]
RdbHeader == [type |-> "header"]
RdbPayload == [type |-> "rdb"]
CmdFrame(cmd) == [type |-> "cmd", cmd |-> cmd]
GetAckFrame(pos) == [type |-> "getack", pos |-> pos]

FrameLen(frame) ==
    CASE frame.type = "cmd" -> CmdLen
      [] frame.type = "rdb" -> RdbLen
      [] OTHER -> 1

Bytes(frame) == [i \in 1..FrameLen(frame) |-> [frame |-> frame, at |-> i]]

\* Requests of the replica's side.
Request(type) == [type |-> type]
Ack(offset, pos) == [type |-> "ACK", offset |-> offset, pos |-> pos]

VARIABLES
    mdb,        \* the master's store
    offset,     \* master_repl_offset
    senders,    \* downstream_senders: the connections registered
    connected,  \* connected_replicas
    cpc,        \* where each client's command is
    cmd,        \* the command each client executes
    count,      \* keys deleted so far (the keys before `next` have been tried)
    next,       \* the position of the next key of a DEL
    conn,       \* the master's connection task for each replica
    chan,       \* the unbounded channel to that task
    wire,       \* bytes on their way to the replica
    reqs,       \* requests on their way to the master
    link,       \* the TCP connection is intact
    rpc,        \* where each replica's loop is
    buf,        \* the replica's read buffer
    rdb,        \* the replica's store
    processed,  \* replica_bytes_processed
    log,        \* history: the commands propagated
    start,      \* history: the length of log when the replica was registered
    applied,    \* history: the commands the replica has executed
    sent,       \* history: the bytes of the stream written after the RDB
    last,       \* history: the value the last write left at each key
    stale       \* history: keys no write has changed on the master since the replica was
                \* registered, or since they changed on the replica itself

clientVars == <<cpc, cmd, count, next>>
masterVars == <<mdb, offset, senders, connected>>
netVars == <<wire, reqs, link>>
replicaVars == <<rpc, buf, rdb, processed>>
histVars == <<log, start, applied, sent, last, stale>>
vars == <<clientVars, masterVars, conn, chan, netVars, replicaVars, histVars>>

Phases == {"connect", "ping", "auth", "port", "capa", "psync", "header", "payload",
           "stream", "down"}

\* Types of the variables.
TypeOK ==
    /\ mdb \in Store /\ offset \in Nat /\ senders \subseteq Replicas /\ connected \in Nat
    /\ cpc \in [Clients -> {"idle", "del", "propagate"}]
    /\ cmd \in [Clients -> Command \cup {None}]
    /\ count \in [Clients -> Nat] /\ next \in [Clients -> Nat]
    /\ conn \in [Replicas -> {"none", "open", "synced", "streaming", "closed"}]
    /\ chan \in [Replicas -> Seq(Command)]
    /\ link \in [Replicas -> BOOLEAN]
    /\ rpc \in [Replicas -> Phases]
    /\ rdb \in [Replicas -> Store]
    /\ processed \in [Replicas -> Nat]
    /\ \A r \in Replicas :
          /\ \A i \in DOMAIN wire[r] : wire[r][i].at \in 1..FrameLen(wire[r][i].frame)
          /\ \A i \in DOMAIN buf[r] : buf[r][i].at \in 1..FrameLen(buf[r][i].frame)
    /\ log \in Seq(Command)

\* The system at its start, or at a moment when nothing has been written yet, some replicas have
\* been registered and others have failed to connect.
InitAs(status) ==
    LET joined == {r \in Replicas : status[r] = "joined"}
    IN  /\ senders = joined /\ connected = Cardinality(joined)
        /\ conn = [r \in Replicas |-> IF r \in joined THEN "streaming" ELSE "none"]
        /\ rpc = [r \in Replicas |-> CASE status[r] = "new" -> "connect"
                                       [] status[r] = "joined" -> "stream"
                                       [] status[r] = "absent" -> "down"]
        /\ start = [r \in Replicas |-> IF r \in joined THEN 0 ELSE None]

Init ==
    /\ \E status \in Starts : InitAs(status)
    /\ mdb = [k \in Keys |-> None] /\ offset = 0
    /\ cpc = [c \in Clients |-> "idle"]
    /\ cmd = [c \in Clients |-> None]
    /\ count = [c \in Clients |-> 0] /\ next = [c \in Clients |-> 0]
    /\ chan = [r \in Replicas |-> <<>>]
    /\ wire = [r \in Replicas |-> <<>>]
    /\ reqs = [r \in Replicas |-> <<>>]
    /\ link = [r \in Replicas |-> TRUE]
    /\ buf = [r \in Replicas |-> <<>>]
    /\ rdb = [r \in Replicas |-> [k \in Keys |-> None]]
    /\ processed = [r \in Replicas |-> 0]
    /\ log = <<>>
    /\ applied = [r \in Replicas |-> <<>>]
    /\ sent = [r \in Replicas |-> 0]
    /\ last = [k \in Keys |-> None]
    /\ stale = [r \in Replicas |-> Keys]

-----------------------------------------------------------------------------
(***************************************************************************)
(* Clients of the master.  The store is updated first; the raw command is  *)
(* propagated by a later step, with no lock held in between.               *)
(***************************************************************************)

\* The stale keys after a write that changed k.
Rewritten(k) == [r \in Replicas |-> IF start[r] = None THEN stale[r] ELSE stale[r] \ {k}]

Outstanding == Cardinality({c \in Clients : cpc[c] # "idle"})

\* Command::Set of execute, up to db.set.
ClientSet(c, k, v) ==
    /\ cpc[c] = "idle" /\ Len(log) + Outstanding < MaxLog
    /\ mdb' = [mdb EXCEPT ![k] = v]
    /\ cpc' = [cpc EXCEPT ![c] = "propagate"]
    /\ cmd' = [cmd EXCEPT ![c] = SetCmd(k, v)]
    /\ last' = [last EXCEPT ![k] = v] /\ stale' = Rewritten(k)
    /\ UNCHANGED <<offset, senders, connected, count, next, conn, chan, netVars, replicaVars,
                   log, start, applied, sent>>

ClientDelCall(c, ks) ==
    /\ cpc[c] = "idle" /\ Len(log) + Outstanding < MaxLog
    /\ cpc' = [cpc EXCEPT ![c] = "del"]
    /\ cmd' = [cmd EXCEPT ![c] = DelCmd(ks)]
    /\ next' = [next EXCEPT ![c] = 1]
    /\ UNCHANGED <<masterVars, count, conn, chan, netVars, replicaVars, histVars>>

\* Mutant: a DEL is propagated only if its last key was there.
ClientDelKeyLast(c) ==
    LET ks == cmd[c].keys
        k == ks[next[c]]
        n == IF mdb[k] # None THEN 1 ELSE 0
    IN  /\ cpc[c] = "del"
        /\ mdb' = [mdb EXCEPT ![k] = None]
        /\ last' = [last EXCEPT ![k] = None]
        /\ stale' = (IF mdb[k] # None THEN Rewritten(k) ELSE stale)
        /\ IF next[c] < Len(ks)
             THEN /\ next' = [next EXCEPT ![c] = @ + 1] /\ count' = [count EXCEPT ![c] = n]
                  /\ UNCHANGED <<cpc, cmd>>
             ELSE /\ next' = [next EXCEPT ![c] = 0] /\ count' = [count EXCEPT ![c] = 0]
                  /\ cpc' = [cpc EXCEPT ![c] = IF n > 0 THEN "propagate" ELSE "idle"]
                  /\ cmd' = [cmd EXCEPT ![c] = IF n > 0 THEN @ ELSE None]
        /\ UNCHANGED <<offset, senders, connected, conn, chan, netVars, replicaVars,
                       log, start, applied, sent>>

\* One iteration of the loop of Command::Del; after the last one the command is
\* propagated if it deleted anything.
ClientDelKey(c) ==
    LET ks == cmd[c].keys
        k == ks[next[c]]
        n == count[c] + (IF mdb[k] # None THEN 1 ELSE 0)
    IN  /\ cpc[c] = "del"
        /\ mdb' = [mdb EXCEPT ![k] = None]
        /\ last' = [last EXCEPT ![k] = None]
        /\ stale' = (IF mdb[k] # None THEN Rewritten(k) ELSE stale)
        /\ IF next[c] < Len(ks)
             THEN /\ next' = [next EXCEPT ![c] = @ + 1] /\ count' = [count EXCEPT ![c] = n]
                  /\ UNCHANGED <<cpc, cmd>>
             ELSE /\ next' = [next EXCEPT ![c] = 0] /\ count' = [count EXCEPT ![c] = 0]
                  /\ cpc' = [cpc EXCEPT ![c] = IF n > 0 THEN "propagate" ELSE "idle"]
                  /\ cmd' = [cmd EXCEPT ![c] = IF n > 0 THEN @ ELSE None]
        /\ UNCHANGED <<offset, senders, connected, conn, chan, netVars, replicaVars,
                       log, start, applied, sent>>

\* Mutant: when one connection is gone, retain stops there and the others get nothing.
ClientPropagateStops(c) ==
    LET live == {r \in senders : conn[r] # "closed"}
        served == IF live = senders THEN live ELSE {}
    IN  /\ cpc[c] = "propagate"
        /\ offset' = offset + CmdLen
        /\ senders' = live
        /\ chan' = [r \in Replicas |-> IF r \in served THEN Append(chan[r], cmd[c]) ELSE chan[r]]
        /\ log' = Append(log, cmd[c])
        /\ cpc' = [cpc EXCEPT ![c] = "idle"] /\ cmd' = [cmd EXCEPT ![c] = None]
        /\ UNCHANGED <<mdb, connected, count, next, conn, netVars, replicaVars,
                       start, applied, sent, last, stale>>

\* propagate_downstream: under the lock, count the bytes, hand the command to every
\* connection that still has its receiver and forget the others.
ClientPropagate(c) ==
    LET live == {r \in senders : conn[r] # "closed"}
    IN  /\ cpc[c] = "propagate"
        /\ offset' = offset + CmdLen
        /\ senders' = live
        /\ chan' = [r \in Replicas |-> IF r \in live THEN Append(chan[r], cmd[c]) ELSE chan[r]]
        /\ log' = Append(log, cmd[c])
        /\ cpc' = [cpc EXCEPT ![c] = "idle"] /\ cmd' = [cmd EXCEPT ![c] = None]
        /\ UNCHANGED <<mdb, connected, count, next, conn, netVars, replicaVars,
                       start, applied, sent, last, stale>>

\* An entry of the master or of a replica expires or is evicted; nothing is propagated.
MasterForget(k) ==
    /\ MasterForgets /\ mdb[k] # None
    /\ mdb' = [mdb EXCEPT ![k] = None]
    /\ UNCHANGED <<offset, senders, connected, clientVars, conn, chan, netVars, replicaVars,
                   histVars>>

ReplicaForget(r, k) ==
    /\ rdb[r][k] # None
    /\ rdb' = [rdb EXCEPT ![r][k] = None]
    /\ stale' = [stale EXCEPT ![r] = @ \cup {k}]
    /\ UNCHANGED <<masterVars, clientVars, conn, chan, netVars, rpc, buf, processed,
                   log, start, applied, sent, last>>

\* A client's SET on the replica: execute checks is_replica only before propagating.
ReplicaWrite(r, k, v) ==
    /\ rdb[r][k] # v
    /\ rdb' = [rdb EXCEPT ![r][k] = v]
    /\ stale' = [stale EXCEPT ![r] = @ \cup {k}]
    /\ UNCHANGED <<masterVars, clientVars, conn, chan, netVars, rpc, buf, processed,
                   log, start, applied, sent, last>>

-----------------------------------------------------------------------------
(***************************************************************************)
(* The master's connection task.  A write on a broken connection is lost   *)
(* (or fails: then ConnClose is the next step).                            *)
(***************************************************************************)

Sending(r, bytes) == [wire EXCEPT ![r] = IF link[r] THEN @ \o bytes ELSE @]
Received(r) == [reqs EXCEPT ![r] = Tail(@)]

Waiting(r, types) ==
    conn[r] \in {"open", "streaming"} /\ reqs[r] # <<>> /\ Head(reqs[r]).type \in types

\* Mutant: REPLCONF capa gets no reply.
ConnReplyNotCapa(r) ==
    /\ Waiting(r, {"PING", "AUTH", "PORT", "CAPA"})
    /\ reqs' = Received(r) /\ wire' = (IF Head(reqs[r]).type = "CAPA" THEN wire ELSE Sending(r, Bytes(Line)))
    /\ UNCHANGED <<masterVars, clientVars, conn, chan, link, replicaVars, histVars>>

\* PING, AUTH and REPLCONF get a one-line reply, whatever it says.
ConnReply(r) ==
    /\ Waiting(r, {"PING", "AUTH", "PORT", "CAPA"})
    /\ reqs' = Received(r) /\ wire' = Sending(r, Bytes(Line))
    /\ UNCHANGED <<masterVars, clientVars, conn, chan, link, replicaVars, histVars>>

\* PSYNC: the whole resync answer is written before the connection is registered.
ConnPsync(r) ==
    /\ Waiting(r, {"PSYNC"})
    /\ reqs' = Received(r)
    /\ wire' = Sending(r, Bytes(FullResync) \o Bytes(RdbHeader) \o Bytes(RdbPayload))
    /\ conn' = [conn EXCEPT ![r] = "synced"]
    /\ UNCHANGED <<masterVars, clientVars, chan, link, replicaVars, histVars>>

\* register_downstream.
ConnRegister(r) ==
    /\ conn[r] = "synced"
    /\ conn' = [conn EXCEPT ![r] = "streaming"]
    /\ senders' = senders \cup {r} /\ connected' = connected + 1
    /\ start' = [start EXCEPT ![r] = Len(log)]
    /\ UNCHANGED <<mdb, offset, clientVars, chan, netVars, replicaVars,
                   log, applied, sent, last, stale>>

\* REPLCONF ACK gets no reply.
ConnAck(r) ==
    /\ Waiting(r, {"ACK"})
    /\ reqs' = Received(r)
    /\ UNCHANGED <<masterVars, clientVars, conn, chan, wire, link, replicaVars, histVars>>

\* Mutant: the newest command of the channel is sent first.
ConnForwardNewest(r) ==
    LET bytes == Bytes(CmdFrame(Last(chan[r])))
    IN  /\ conn[r] = "streaming" /\ chan[r] # <<>>
        /\ chan' = [chan EXCEPT ![r] = Front(@)]
        /\ wire' = Sending(r, bytes)
        /\ sent' = [sent EXCEPT ![r] = @ + Len(bytes)]
        /\ UNCHANGED <<masterVars, clientVars, conn, reqs, link, replicaVars,
                       log, start, applied, last, stale>>

\* The downstream_rx branch of select!.
ConnForward(r) ==
    LET bytes == Bytes(CmdFrame(Head(chan[r])))
    IN  /\ conn[r] = "streaming" /\ chan[r] # <<>>
        /\ chan' = [chan EXCEPT ![r] = Tail(@)]
        /\ wire' = Sending(r, bytes)
        /\ sent' = [sent EXCEPT ![r] = @ + Len(bytes)]
        /\ UNCHANGED <<masterVars, clientVars, conn, reqs, link, replicaVars,
                       log, start, applied, last, stale>>

\* Mutant: every connection that closes is taken off connected_replicas.
ConnCloseUncounts(r) ==
    /\ conn[r] \in {"open", "synced", "streaming"} /\ ~link[r]
    /\ conn' = [conn EXCEPT ![r] = "closed"] /\ chan' = [chan EXCEPT ![r] = <<>>]
    /\ connected' = connected - 1
    /\ UNCHANGED <<mdb, offset, senders, clientVars, netVars, replicaVars, histVars>>

\* End of file or an error on the socket ends the task and drops downstream_rx.
ConnClose(r) ==
    /\ conn[r] \in {"open", "synced", "streaming"} /\ ~link[r]
    /\ conn' = [conn EXCEPT ![r] = "closed"] /\ chan' = [chan EXCEPT ![r] = <<>>]
    /\ UNCHANGED <<masterVars, clientVars, netVars, replicaVars, histVars>>

\* A master that asks for the replica's offset between two commands of the stream.
MasterGetAck(r) ==
    LET pos == sent[r] + FrameLen(GetAckFrame(0))
    IN  /\ GetAcks /\ conn[r] = "streaming" /\ pos <= MaxSent
        /\ wire' = Sending(r, Bytes(GetAckFrame(pos)))
        /\ sent' = [sent EXCEPT ![r] = pos]
        /\ UNCHANGED <<masterVars, clientVars, conn, chan, reqs, link, replicaVars,
                       log, start, applied, last, stale>>

-----------------------------------------------------------------------------
(***************************************************************************)
(* The network.  A connection that breaks delivers a prefix of what was    *)
(* in flight in each direction.                                            *)
(***************************************************************************)

LinkBreak(r) ==
    /\ Faults /\ conn[r] # "none" /\ link[r]
    /\ link' = [link EXCEPT ![r] = FALSE]
    /\ \E n \in 0..Len(wire[r]) : wire' = [wire EXCEPT ![r] = SubSeq(@, 1, n)]
    /\ \E n \in 0..Len(reqs[r]) : reqs' = [reqs EXCEPT ![r] = SubSeq(@, 1, n)]
    /\ UNCHANGED <<masterVars, clientVars, conn, chan, replicaVars, histVars>>

-----------------------------------------------------------------------------
(***************************************************************************)
(* The replica's loop, run_replica_loop.                                   *)
(***************************************************************************)

HandshakeRequest ==
    [ping |-> "PING", auth |-> "AUTH", port |-> "PORT", capa |-> "CAPA", psync |-> "PSYNC"]

PhaseAfter(phase) ==
    CASE phase = "ping" -> IF MasterAuth THEN "auth" ELSE "port"
      [] phase = "auth" -> "port"
      [] phase = "port" -> "capa"
      [] phase = "capa" -> "psync"

Requesting(r, req) == [reqs EXCEPT ![r] = IF link[r] THEN Append(@, req) ELSE @]

\* TcpStream::connect and the PING; the master accepts the connection.
Connect(r) ==
    /\ rpc[r] = "connect"
    /\ rpc' = [rpc EXCEPT ![r] = "ping"]
    /\ conn' = [conn EXCEPT ![r] = "open"]
    /\ reqs' = Requesting(r, Request("PING"))
    /\ UNCHANGED <<masterVars, clientVars, chan, wire, link, buf, rdb, processed, histVars>>

ConnectFail(r) ==
    /\ Faults /\ rpc[r] = "connect"
    /\ rpc' = [rpc EXCEPT ![r] = "down"]
    /\ UNCHANGED <<masterVars, clientVars, conn, chan, netVars, buf, rdb, processed, histVars>>

IsLine(byte) == byte.frame.type \in {"line", "fullresync", "header"}

\* A whole frame of the given type is at the front of the buffer.
FrameReady(r, type) ==
    /\ buf[r] # <<>> /\ Head(buf[r]).at = 1
    /\ Head(buf[r]).frame.type = type
    /\ Len(buf[r]) >= FrameLen(Head(buf[r]).frame)

\* What the replica waits for in each phase is in the buffer.
CanParse(r) ==
    CASE rpc[r] \in {"ping", "auth", "port", "capa", "psync"} ->
             buf[r] # <<>> /\ IsLine(Head(buf[r]))
      [] rpc[r] = "header" -> FrameReady(r, "header")
      [] rpc[r] = "payload" -> Len(buf[r]) >= RdbLen
      [] rpc[r] = "stream" -> FrameReady(r, "cmd") \/ FrameReady(r, "getack")
      [] OTHER -> FALSE

Consumed(r, n) == [buf EXCEPT ![r] = SubSeq(@, n + 1, Len(@))]

\* A parse error of the stream discards one byte before the next read.
Resynced(r) ==
    IF rpc[r] = "stream" /\ buf[r] # <<>> /\ Head(buf[r]).at # 1 THEN Tail(buf[r]) ELSE buf[r]

\* stream.read, called only when the buffer holds nothing complete; it returns any
\* non-empty part of what has arrived.
ReplicaRead(r) ==
    /\ rpc[r] \notin {"connect", "down"} /\ ~CanParse(r)
    /\ \E n \in 1..Len(wire[r]) :
          /\ buf' = [buf EXCEPT ![r] = Resynced(r) \o SubSeq(wire[r], 1, n)]
          /\ wire' = [wire EXCEPT ![r] = SubSeq(@, n + 1, Len(@))]
    /\ UNCHANGED <<masterVars, clientVars, conn, chan, reqs, link, rpc, rdb, processed, histVars>>

\* read_simple_response returns, and the next request of the handshake is sent.
HandshakeReply(r) ==
    /\ rpc[r] \in {"ping", "auth", "port", "capa"} /\ CanParse(r)
    /\ buf' = Consumed(r, 1)
    /\ rpc' = [rpc EXCEPT ![r] = PhaseAfter(@)]
    /\ reqs' = Requesting(r, Request(HandshakeRequest[PhaseAfter(rpc[r])]))
    /\ UNCHANGED <<masterVars, clientVars, conn, chan, wire, link, rdb, processed, histVars>>

\* read_fullresync_response: any other line is an error, and the function returns.
ReadFullResync(r) ==
    LET ok == FrameReady(r, "fullresync")
    IN  /\ rpc[r] = "psync" /\ CanParse(r)
        /\ buf' = Consumed(r, 1)
        /\ rpc' = [rpc EXCEPT ![r] = IF ok THEN "header" ELSE "down"]
        /\ link' = [link EXCEPT ![r] = @ /\ ok]
        /\ UNCHANGED <<masterVars, clientVars, conn, chan, wire, reqs, rdb, processed, histVars>>

\* read_rdb_file: the header, then the payload, which is skipped and not loaded.
ReadRdbHeader(r) ==
    /\ rpc[r] = "header" /\ CanParse(r)
    /\ buf' = Consumed(r, 1) /\ rpc' = [rpc EXCEPT ![r] = "payload"]
    /\ UNCHANGED <<masterVars, clientVars, conn, chan, netVars, rdb, processed, histVars>>

ReadRdbPayload(r) ==
    /\ rpc[r] = "payload" /\ CanParse(r)
    /\ buf' = Consumed(r, RdbLen) /\ rpc' = [rpc EXCEPT ![r] = "stream"]
    /\ UNCHANGED <<masterVars, clientVars, conn, chan, netVars, rdb, processed, histVars>>

\* A write command of the stream.
StreamCommand(r) ==
    LET c == Head(buf[r]).frame.cmd
    IN  /\ rpc[r] = "stream" /\ FrameReady(r, "cmd")
        /\ rdb' = [rdb EXCEPT ![r] = Execute(@, c)]
        /\ applied' = [applied EXCEPT ![r] = Append(@, c)]
        /\ buf' = Consumed(r, CmdLen)
        /\ processed' = [processed EXCEPT ![r] = @ + CmdLen]
        /\ UNCHANGED <<masterVars, clientVars, conn, chan, netVars, rpc,
                       log, start, sent, last, stale>>

\* Mutant: the GETACK bytes are not counted in the reply.
StreamGetAckUncounted(r) ==
    LET frame == Head(buf[r]).frame
        total == processed[r] + FrameLen(frame)
    IN  /\ rpc[r] = "stream" /\ FrameReady(r, "getack")
        /\ buf' = Consumed(r, FrameLen(frame))
        /\ processed' = [processed EXCEPT ![r] = total]
        /\ reqs' = Requesting(r, Ack(processed[r], frame.pos))
        /\ UNCHANGED <<masterVars, clientVars, conn, chan, wire, link, rpc, rdb, histVars>>

\* REPLCONF GETACK: the offset sent back counts the bytes of the request itself.
StreamGetAck(r) ==
    LET frame == Head(buf[r]).frame
        total == processed[r] + FrameLen(frame)
    IN  /\ rpc[r] = "stream" /\ FrameReady(r, "getack")
        /\ buf' = Consumed(r, FrameLen(frame))
        /\ processed' = [processed EXCEPT ![r] = total]
        /\ reqs' = Requesting(r, Ack(total, frame.pos))
        /\ UNCHANGED <<masterVars, clientVars, conn, chan, wire, link, rpc, rdb, histVars>>

\* End of file or an error on the socket: the function returns and is not called again.
ReplicaDown(r) ==
    /\ rpc[r] \notin {"connect", "down"} /\ ~link[r]
    /\ \/ wire[r] = <<>> /\ ~CanParse(r)
       \/ rpc[r] = "stream" /\ FrameReady(r, "getack")
    /\ rpc' = [rpc EXCEPT ![r] = "down"] /\ buf' = [buf EXCEPT ![r] = <<>>]
    /\ UNCHANGED <<masterVars, clientVars, conn, chan, netVars, rdb, processed, histVars>>

-----------------------------------------------------------------------------
ClientStep(c) == ClientDelKey(c) \/ ClientPropagate(c)
ConnRequest(r) == ConnReply(r) \/ ConnPsync(r) \/ ConnRegister(r) \/ ConnAck(r)
ReplicaStep(r) ==
    \/ ReplicaRead(r) \/ HandshakeReply(r) \/ ReadFullResync(r)
    \/ ReadRdbHeader(r) \/ ReadRdbPayload(r)
    \/ StreamCommand(r) \/ StreamGetAck(r) \/ ReplicaDown(r)

Next ==
    \/ \E c \in Clients :
          \/ \E k \in ClientKeys[c], v \in Values : ClientSet(c, k, v)
          \/ \E ks \in DelArgs(ClientKeys[c]) : ClientDelCall(c, ks)
          \/ ClientStep(c)
    \/ \E k \in Keys : MasterForget(k)
    \/ \E r \in Replicas :
          \/ \E k \in ReplicaKeys : ReplicaForget(r, k)
          \/ \E k \in ReplicaKeys, v \in Values : ReplicaWrite(r, k, v)
          \/ ConnRequest(r) \/ ConnForward(r) \/ ConnClose(r)
          \/ MasterGetAck(r) \/ LinkBreak(r)
          \/ Connect(r) \/ ConnectFail(r) \/ ReplicaStep(r)

Spec == Init /\ [][Next]_vars

(***************************************************************************)
(* Fairness.  A command that has started runs to its end; tokio schedules  *)
(* every task that can go on, and select! chooses at random between its    *)
(* ready branches, so neither starves; TCP delivers what it holds.  Clients *)
(* need not issue commands, and nothing has to fail.                       *)
(***************************************************************************)
Fairness ==
    /\ \A c \in Clients : WF_vars(ClientStep(c))
    /\ \A r \in Replicas :
          /\ WF_vars(ConnRequest(r)) /\ WF_vars(ConnForward(r)) /\ WF_vars(ConnClose(r))
          /\ WF_vars(Connect(r)) /\ WF_vars(ReplicaStep(r))

FairSpec == Spec /\ Fairness

-----------------------------------------------------------------------------
(***************************************************************************)
(* Properties.                                                             *)
(***************************************************************************)

\* The commands in the replica's buffer or on the wire, in order.
InFlight(r) ==
    LET heads == SelectSeq(buf[r] \o wire[r], LAMBDA b : b.at = 1 /\ b.frame.type = "cmd")
    IN  [i \in DOMAIN heads |-> heads[i].frame.cmd]

Expected(r) == SubSeq(log, start[r] + 1, Len(log))

\* From its registration on, a replica executes the master's propagated commands once each,
\* in the order of propagation, however reads split and join frames: while the connection
\* lasts, what it has executed, what is in flight and what waits in the channel make up the
\* stream; after a break it has executed a prefix (propagate_downstream, the select! loop of
\* Connection::handle and the stream loop of run_replica_loop).
StreamIntact ==
    \A r \in Replicas : start[r] # None =>
        IF link[r] THEN applied[r] \o InFlight(r) \o chan[r] = Expected(r)
                   ELSE IsPrefix(applied[r], Expected(r))

\* The offset in a REPLCONF ACK is the number of bytes of the stream sent to this replica up
\* to and with the GETACK it answers (GETACK branch of run_replica_loop).  The offset that
\* FULLRESYNC announced is not part of it: the replica does not read it.
AckIsStreamPosition ==
    \A r \in Replicas : \A i \in DOMAIN reqs[r] :
        reqs[r][i].type = "ACK" => reqs[r][i].offset = reqs[r][i].pos

\* Nothing is under way for this replica, and it is connected.
Quiet(r) ==
    /\ \A c \in Clients : cpc[c] = "idle"
    /\ conn[r] = "streaming" /\ rpc[r] = "stream" /\ link[r]
    /\ chan[r] = <<>> /\ wire[r] = <<>> /\ buf[r] = <<>>

\* Once the stream has drained, a connected replica holds, for every key written since it
\* was registered, what the last write left on the master (Command::execute with
\* propagate_downstream; the end-to-end test: a GET on the replica returns the master's value).
Converges ==
    \A r \in Replicas : Quiet(r) => \A k \in Keys \ stale[r] : rdb[r][k] = last[k]

\* A key whose last write on the master is a DEL is not on a connected replica once the
\* stream has drained (Command::Del: "Master forwards all write commands").
DeletesReachReplicas ==
    \A r \in Replicas : Quiet(r) =>
        \A k \in Keys \ stale[r] : last[k] = None => rdb[r][k] = None

\* The handshake ends: a replica's loop reaches the command stream or gives up, whatever
\* breaks and whenever (run_replica_loop never waits for an answer that cannot come).
HandshakeSettles ==
    \A r \in Replicas : <>(rpc[r] \in {"stream", "down"})

\* Replication implements the abstract log, its liveness included: propagate_downstream appends,
\* register_downstream joins, and however the bytes travel every step of a replica's loop
\* executes the next command of the log or none.
Log == INSTANCE ReplLog WITH Commands <- Command, up <- link
ImplementsLog == Log!Spec

=============================================================================
