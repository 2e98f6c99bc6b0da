----------------------------- MODULE Connection -----------------------------
(***************************************************************************)
(* One client connection at the level of bytes (connection.rs, handle):    *)
(* reads of any size fill the buffer, the frame loop takes complete        *)
(* requests out of it, routes and executes them and writes the replies.    *)
(*                                                                         *)
(* A session is a client's script and the server it meets:                 *)
(*   reqs       its requests, values or Raw bytes that are no request;     *)
(*   pass       requirepass, or None;                                      *)
(*   cluster    whether cluster mode is on;                                *)
(*   owned      the slots this node owns at first;                         *)
(*   peers      the slots other nodes own;                                 *)
(*   replica    whether the server is itself a replica;                    *)
(*   max        max_payload_size;                                          *)
(*   probes     keys whose slot the client computes for itself.            *)
(* Several connections at work on one store are the subject of Db and      *)
(* Replication; here the connection has the store to itself.               *)
(***************************************************************************)
EXTENDS Commands

CONSTANT Sessions

VARIABLES
    session,
    input,     \* bytes the client has sent or will send, not read yet
    buffer,    \* self.buffer
    pc,        \* "select", "frames", or how the task ended: "closed", "refused", "failed"
    state,     \* the store, is_authenticated and the owned slots
    isReplica, \* is_downstream_replica, this connection being registered
    channel,   \* downstream_rx
    out,       \* bytes written to the client
    replies,   \* history: the replies written, one by one
    streamed,  \* history: the raw commands propagated
    largest    \* history: the length of the longest request handled

vars == <<session, input, buffer, pc, state, isReplica, channel, out, replies, streamed, largest>>

Raw(bytes) == [type |-> "raw", data |-> bytes]
Bytes(req) == IF req.type = "raw" THEN req.data ELSE Serialize(req)
Concat(seqs) == FoldLeft(LAMBDA s, t : s \o t, <<>>, seqs)
Script(s) == Concat([i \in DOMAIN s.reqs |-> Bytes(s.reqs[i])])

FirstState(s) == [store |-> << >>, auth |-> s.pass = None, owned |-> s.owned]

Init ==
    /\ session \in Sessions
    /\ input = Script(session)
    /\ buffer = <<>>
    /\ pc = "select"
    /\ state = FirstState(session)
    /\ isReplica = FALSE
    /\ channel = <<>>
    /\ out = <<>>
    /\ replies = <<>>
    /\ streamed = <<>>
    /\ largest = 0

-----------------------------------------------------------------------------
(***************************************************************************)
(* What a request does: the bytes of its reply, the state after it,        *)
(* whether it is propagated, registers a replica or closes the connection. *)
(***************************************************************************)

ProtocolError == Serialize(Err)
PayloadError == Serialize(Err)
FullResync == <<Plus, 70>> \o CRLF \o <<Dollar, 50>> \o CRLF \o <<0, 255>>
Moved == <<Minus, 77>> \o CRLF
ClusterDown == <<Minus, 68>> \o CRLF

Answer(bytes, st) ==
    [bytes |-> bytes, state |-> st, propagate |-> FALSE, register |-> FALSE, close |-> FALSE]

\* Only an authenticated client is redirected.
Redirected(cmd, st, s) ==
    /\ s.cluster
    /\ TargetKey(cmd) # None
    /\ st.auth
    /\ SlotOfKey(TargetKey(cmd)) \notin st.owned

\* A command that has been executed.
Executed(done, s) ==
    [Answer(IF done.reply = None THEN <<>> ELSE Serialize(done.reply), done.state)
        EXCEPT !.propagate = done.propagate /\ ~s.replica]

HandleCommand(cmd, st, s) ==
    CASE cmd.name = "invalid" -> Answer(Serialize(Error(cmd.text)), st)
      [] cmd.name = "psync" -> [Answer(FullResync, st) EXCEPT !.register = TRUE]
      [] cmd.name = "quit" -> [Answer(Serialize(Ok), st) EXCEPT !.close = TRUE]
      [] cmd.name \notin {"invalid", "psync", "quit"} /\ Redirected(cmd, st, s) ->
            Answer(IF SlotOfKey(TargetKey(cmd)) \in s.peers THEN Moved ELSE ClusterDown, st)
      [] OTHER -> Executed(Execute(cmd, st, s), s)
Handle(val, st, s) == HandleCommand(FromValue(val), st, s)

-----------------------------------------------------------------------------
(* The select! *)

\* Mutant: a buffer that is just full is refused.
TooLargeInclusive(bytes) == Len(bytes) >= session.max

\* Mutant: only what is left from earlier reads is counted.
TooLargeEarlier(bytes) == Len(buffer) > session.max

TooLarge(bytes) == Len(bytes) > session.max

\* A read of n bytes.  The error about the payload is sent if the client still takes it.
Read(n) ==
    LET bytes == buffer \o SubSeq(input, 1, n)
    IN  /\ pc = "select"
        /\ n \in 1..Len(input)
        /\ input' = SubSeq(input, n + 1, Len(input))
        /\ buffer' = bytes
        /\ IF TooLarge(bytes)
           THEN /\ pc' = "refused"
                /\ \E sent \in {<<>>, PayloadError} : out' = out \o sent
           ELSE pc' = "frames" /\ UNCHANGED out
        /\ UNCHANGED <<session, state, isReplica, channel, replies, streamed, largest>>

\* The end of the stream, also before the script has ended, or the shutdown signal.
Leave ==
    /\ pc = "select"
    /\ pc' = "closed"
    /\ UNCHANGED <<session, input, buffer, state, isReplica, channel, out, replies, streamed, largest>>

ReadFails ==
    /\ pc = "select"
    /\ pc' = "failed"
    /\ UNCHANGED <<session, input, buffer, state, isReplica, channel, out, replies, streamed, largest>>

\* A propagated command goes to this replica; the frame loop runs afterwards.
Forward ==
    /\ pc = "select"
    /\ isReplica
    /\ channel # <<>>
    /\ channel' = Tail(channel)
    /\ \/ out' = out \o Head(channel) /\ pc' = "frames"
       \/ UNCHANGED out /\ pc' = "failed"
    /\ UNCHANGED <<session, input, buffer, state, isReplica, replies, streamed, largest>>

-----------------------------------------------------------------------------
(* The frame loop *)

NeedMore ==
    /\ pc = "frames"
    /\ IF buffer = <<>> THEN TRUE ELSE Parse(buffer).status = "more"
    /\ pc' = "select"
    /\ UNCHANGED <<session, input, buffer, state, isReplica, channel, out, replies, streamed, largest>>

\* The task unwinds; nothing more is written.
ParsePanics ==
    /\ pc = "frames"
    /\ buffer # <<>>
    /\ Parse(buffer).status = "panic"
    /\ pc' = "failed"
    /\ UNCHANGED <<session, input, buffer, state, isReplica, channel, out, replies, streamed, largest>>

\* The whole buffer goes, with whatever the read has put behind the bad frame.
ProtocolErr ==
    /\ pc = "frames"
    /\ buffer # <<>>
    /\ Parse(buffer).status = "malformed"
    /\ \/ /\ out' = out \o ProtocolError
          /\ replies' = Append(replies, ProtocolError)
          /\ buffer' = <<>>
          /\ pc' = "select"
       \/ /\ pc' = "failed"
          /\ UNCHANGED <<buffer, out, replies>>
    /\ UNCHANGED <<session, input, state, isReplica, channel, streamed, largest>>

\* Mutant: the replicas get the buffer as it was read, not the one request.
RawWholeBuffer(consumed) == buffer

\* raw_cmd, the bytes of the request just parsed.
RawCommand(consumed) == SubSeq(buffer, 1, consumed)

\* What the request with these bytes, handled as h, does.  If the write fails the effects stay,
\* and the client has part of the reply.
Respond(raw, h) ==
    /\ state' = h.state
    /\ streamed' = IF h.propagate THEN streamed \o raw ELSE streamed
    /\ channel' = IF h.propagate /\ isReplica THEN Append(channel, raw) ELSE channel
    /\ largest' = Max({largest, Len(raw)})
    /\ \/ /\ out' = out \o h.bytes
          /\ replies' = IF h.bytes = <<>> THEN replies ELSE Append(replies, h.bytes)
          /\ isReplica' = (isReplica \/ h.register)
          /\ pc' = IF h.close THEN "closed" ELSE "frames"
       \/ /\ h.bytes # <<>>
          /\ \E k \in 0..(Len(h.bytes) - 1) : out' = out \o SubSeq(h.bytes, 1, k)
          /\ pc' = "failed"
          /\ UNCHANGED <<replies, isReplica>>

Request ==
    /\ pc = "frames"
    /\ buffer # <<>>
    /\ \E parsed \in {Parse(buffer)} :
          /\ parsed.status = "done"
          /\ buffer' = SubSeq(buffer, parsed.next, Len(buffer))
          /\ Respond(RawCommand(parsed.next - 1), Handle(parsed.value, state, session))
    /\ UNCHANGED <<session, input>>

Next ==
    \/ \E n \in 1..Len(input) : Read(n)
    \/ Leave
    \/ ReadFails
    \/ Forward
    \/ NeedMore
    \/ ParsePanics
    \/ ProtocolErr
    \/ Request

Spec == Init /\ [][Next]_vars

-----------------------------------------------------------------------------
(***************************************************************************)
(* The reference: the requests of the script handled one after the other,  *)
(* up to a QUIT or to bytes that are no request.                           *)
(***************************************************************************)
ServeHandled(acc, h) ==
    [state |-> h.state,
     stop |-> IF h.close THEN "quit" ELSE "no",
     replies |-> IF h.bytes = <<>> THEN acc.replies ELSE Append(acc.replies, h.bytes)]
ServeOne(acc, req) ==
    IF acc.stop # "no" THEN acc
    ELSE IF req.type = "raw"
    THEN [acc EXCEPT !.stop = "malformed", !.replies = Append(@, ProtocolError)]
    ELSE ServeHandled(acc, Handle(req, acc.state, session))
Served ==
    FoldLeft(ServeOne, [state |-> FirstState(session), stop |-> "no", replies |-> <<>>], session.reqs)

\* The values in a run of bytes, and the bytes left over.
RECURSIVE Values(_)
WithValue(value, rest) == [list |-> <<value>> \o rest.list, left |-> rest.left]
ValuesFrom(bytes, parsed) ==
    IF parsed.status # "done" THEN [list |-> <<>>, left |-> bytes]
    ELSE WithValue(parsed.value, Values(SubSeq(bytes, parsed.next, Len(bytes))))
Values(bytes) == ValuesFrom(bytes, Parse(bytes))

\* The store of a replica that executes the propagated bytes from the start.
Replayed ==
    LET Apply(st, v) ==
            IF FromValue(v).name = "invalid" THEN st
            ELSE Execute(FromValue(v), st, [pass |-> None, cluster |-> FALSE]).state
    IN  FoldLeft(Apply, FirstState(session), Values(streamed).list).store

TypeOK ==
    /\ session \in Sessions
    /\ pc \in {"select", "frames", "closed", "refused", "failed"}
    /\ input \in Seq(0..255) /\ buffer \in Seq(0..255) /\ out \in Seq(0..255)
    /\ pc # "refused" => Len(buffer) <= session.max
    /\ state.auth \in BOOLEAN
    /\ state.owned \subseteq 0..(HASH_SLOTS - 1)
    /\ isReplica \in BOOLEAN
    /\ isReplica \/ channel = <<>>

\* However the reads cut the bytes, the frame loop answers the requests of the script one by one
\* as if each had come alone: the replies are always the first replies of the reference, and
\* when everything has been read and handled they are all of them, with the same state.  Bytes
\* that are no request end the promise, since the loop then drops whatever was read with them.
FramingIndependentOfReads ==
    \E want \in {Served} :
        LET upto == IF want.stop = "malformed" /\ Len(replies) > Len(want.replies)
                    THEN SubSeq(replies, 1, Len(want.replies)) ELSE replies
        IN  /\ IsPrefix(upto, want.replies)
            /\ pc = "select" /\ input = <<>> /\ want.stop = "no" =>
                  replies = want.replies /\ state = want.state

\* An error is one line, but quotes an unknown command or subcommand as the client sent it.
QuotesOneLine(req) ==
    req.type # "raw" =>
        LET cmd == FromValue(req)
        IN  cmd.name = "invalid" => LineEnd(cmd.text, 1) = 0

\* What the client has received parses into exactly one value per reply, nothing left over, as
\* long as the connection has not become a replica's or broken: a reply, null or nested, never
\* spoils the framing of the next one.  Keys and values may be any bytes; the unknown names the
\* client sends, which the errors quote as they are, have no line end in them.
RepliesFramed ==
    /\ \A i \in DOMAIN session.reqs : QuotesOneLine(session.reqs[i])
    /\ ~isReplica /\ pc \in {"select", "frames", "closed"}
    => \E got \in {Values(out)} : Len(got.list) = Len(replies) /\ got.left = <<>>

\* Executing the propagated raw bytes in order on an empty store gives the master's store, with
\* the PX of every entry: pipelined requests are propagated one by one and completely.
StreamReplays == ~session.replica => Replayed = state.store

\* In cluster mode a key is stored only under a slot that this node owns, the slot being Redis
\* Cluster's CRC16 of the key or its hashtag, whatever the client did before logging in.
RoutedBySlot ==
    session.cluster => \A k \in DOMAIN state.store : RedisSlot(k) \in state.owned

\* key_slot is Redis Cluster's: the remainder of the key, or of its hashtag, by the polynomial
\* x^16 + x^12 + x^5 + 1, modulo 16384.  The code looks the remainder up in a table.
KeySlotMatchesRedis == \A k \in session.probes : SlotOfKey(k) = RedisSlot(k)

\* No request longer than the payload limit is ever handled; and when each request is within the
\* limit, only a read that went on past the end of a request is refused.  A client that waits for
\* each reply never is: between reads the buffer holds less than one request.
PayloadGuard ==
    /\ largest <= session.max
    /\ pc = "refused" =>
          \/ \E i \in DOMAIN session.reqs : Len(Bytes(session.reqs[i])) > session.max
          \/ \E first \in {Parse(buffer)} : first.status = "done" /\ first.next <= Len(buffer)

=============================================================================
