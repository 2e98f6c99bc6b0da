------------------------------ MODULE Commands ------------------------------
(***************************************************************************)
(* Commands (commands/mod.rs) as functions: from_value turns a parsed      *)
(* value into a command, Execute says what a command replies and does to   *)
(* the server's state when no other task interferes (Db, Replication and   *)
(* Cluster model the interference).                                        *)
(*                                                                         *)
(* A command name is one byte, in either case, and a text of the code's own *)
(* is one byte too: nothing but the parser looks at their letters.  A name *)
(* that the server does not know goes back to the client inside the error. *)
(* The store maps a key to its value and the PX it was set with.           *)
(***************************************************************************)
EXTENDS Resp, KeySlot, FiniteSets

CommandName ==
    <<80>> :> "ping" @@ <<69>> :> "echo" @@ <<71>> :> "get" @@ <<83>> :> "set" @@
    <<68>> :> "del" @@ <<88>> :> "exists" @@ <<75>> :> "keys" @@ <<73>> :> "info" @@
    <<82>> :> "replconf" @@ <<89>> :> "psync" @@ <<65>> :> "auth" @@ <<67>> :> "cluster" @@
    <<81>> :> "quit" @@ <<79>> :> "command"
Subcommand ==
    <<75>> :> "keyslot" @@ <<73>> :> "info" @@ <<78>> :> "nodes" @@ <<83>> :> "slots" @@
    <<77>> :> "meet" @@ <<65>> :> "addslots"
GETACK == <<71>>
ACK == <<65>>
PX == <<80>>

Text == <<116>>
Ok == SimpleString(<<79, 75>>)
Pong == SimpleString(<<80>>)
Err == Error(Text)

\* to_ascii_uppercase of a string, or None.
Upper(s) ==
    IF s = None THEN None
    ELSE [i \in DOMAIN s |-> IF s[i] \in 97..122 THEN s[i] - 32 ELSE s[i]]

-----------------------------------------------------------------------------
(* from_value.  w holds the as_str of every item. *)

\* The Err of from_value.  The text about an unknown name quotes it as it came, upper-cased.
InvalidAs(text) == [name |-> "invalid", args |-> <<>>, text |-> text]
Invalid == InvalidAs(Text)
Unknown(name) == InvalidAs(Text \o <<39>> \o name \o <<39>>)

Cmd(name, args) == [name |-> name, args |-> args]

Strings(w, from) == SelectSeq(SubSeq(w, from, Len(w)), LAMBDA s : s # None)
Default(w, i, s) == IF i > Len(w) \/ w[i] = None THEN s ELSE w[i]

\* str::parse::<u16>.
InU16(n) == IF n = None THEN None ELSE IF n < 65536 THEN n ELSE None
ParseU16(s) == IF s = None THEN None ELSE InU16(ParseUnsigned(s))

\* The options of SET, from left to right: PX takes the word after it, and the last PX
\* counts, also one whose word is not a number.
PxOption(w) ==
    FoldLeft(LAMBDA acc, i :
                IF i < acc.next \/ Upper(w[i]) # PX \/ i = Len(w) THEN acc
                ELSE [next |-> i + 2,
                      px |-> IF w[i + 1] = None THEN acc.px ELSE ParseUnsigned(w[i + 1])],
             [next |-> 4, px |-> None], [i \in 1..Len(w) |-> i]).px

ClusterCommand(w) ==
    IF Default(w, 2, None) = None THEN Invalid
    ELSE IF Upper(w[2]) \notin DOMAIN Subcommand THEN Unknown(Upper(w[2]))
    ELSE LET sub == Subcommand[Upper(w[2])]
             numbers == [i \in 1..(Len(w) - 2) |-> ParseU16(w[i + 2])]
             With(args) == [name |-> "cluster", sub |-> sub, args |-> args]
         IN  CASE sub = "keyslot" -> IF Len(w) < 3 THEN Invalid ELSE With(<<Default(w, 3, <<>>)>>)
               [] sub = "meet" ->
                     IF Len(w) < 4 THEN Invalid
                     ELSE IF ParseU16(w[4]) = None THEN Invalid ELSE With(<<>>)
               [] sub = "addslots" ->
                     IF Len(w) < 3 \/ None \in ToSet(numbers) THEN Invalid ELSE With(numbers)
               [] OTHER -> With(<<>>)

FromWords(w) ==
    LET name == CommandName[Upper(w[1])]
        n == Len(w)
    IN  CASE name = "ping" -> Cmd(name, IF Default(w, 2, None) = None THEN <<>> ELSE <<w[2]>>)
          [] name = "echo" -> IF n < 2 THEN Invalid ELSE Cmd(name, <<Default(w, 2, <<>>)>>)
          [] name = "get" ->
                IF Default(w, 2, None) = None THEN Invalid ELSE Cmd(name, <<w[2]>>)
          [] name = "set" ->
                IF n < 3 \/ Default(w, 2, None) = None THEN Invalid
                ELSE [name |-> name, args |-> <<w[2]>>,
                      entry |-> <<Default(w, 3, <<>>), PxOption(w)>>]
          [] name \in {"del", "exists"} -> IF n < 2 THEN Invalid ELSE Cmd(name, Strings(w, 2))
          [] name = "replconf" -> Cmd(name, Strings(w, 2))
          [] name = "auth" ->
                IF n < 2 THEN Invalid ELSE Cmd(name, <<Default(w, IF n = 2 THEN 2 ELSE 3, <<>>)>>)
          [] name = "cluster" -> ClusterCommand(w)
          [] OTHER -> Cmd(name, <<>>)

FromValue(v) ==
    IF v.type # "array" THEN Invalid
    ELSE IF v.items = None \/ v.items = <<>> THEN Invalid
    ELSE LET w == [i \in DOMAIN v.items |-> AsStr(v.items[i])]
         IN  IF w[1] = None THEN Invalid
             ELSE IF Upper(w[1]) \notin DOMAIN CommandName THEN Unknown(Upper(w[1]))
             ELSE FromWords(w)

\* Mutant: a SET is not a key command.
TargetKeyNotSet(cmd) ==
    IF cmd.name \in {"get", "del", "exists"} /\ cmd.args # <<>> THEN cmd.args[1] ELSE None

\* target_key: the key that decides where a command is routed.
TargetKey(cmd) ==
    IF cmd.name \in {"get", "set", "del", "exists"} /\ cmd.args # <<>> THEN cmd.args[1] ELSE None

-----------------------------------------------------------------------------
(***************************************************************************)
(* execute, on the state [store, auth, owned] of a connection: the store,  *)
(* is_authenticated and the slots the node owns.  `propagate` says that    *)
(* the raw command goes to the replicas of a master.                       *)
(***************************************************************************)

Reply(v, state) == [reply |-> v, state |-> state, propagate |-> FALSE]
Write(v, state) == [reply |-> v, state |-> state, propagate |-> TRUE]

ExecuteDel(keys, state) ==
    LET found == ToSet(keys) \cap DOMAIN state.store
        after == [state EXCEPT !.store =
                    [k \in DOMAIN state.store \ found |-> state.store[k]]]
    IN  IF found = {} THEN Reply(Integer(0), state) ELSE Write(Integer(Cardinality(found)), after)

ExecuteReplConf(args, state) ==
    CASE args = <<>> -> Reply(Err, state)
      [] args # <<>> /\ Upper(args[1]) = GETACK ->
            Reply(Array(<<BulkString(Text), BulkString(ACK), BulkString(Digits(0))>>), state)
      [] args # <<>> /\ Upper(args[1]) = ACK -> Reply(None, state)
      [] OTHER -> Reply(Ok, state)

\* CLUSTER SLOTS: the longest ranges of slots with one owner, in order, and with each the
\* owner's address, port and id.  The other nodes appear as one here; Cluster follows the scan.
SlotsReport(owned, peers) ==
    LET Mine(s) == s \in owned
        Same(s, t) == t \in owned \cup peers /\ Mine(s) = Mine(t)
        starts == SetToSortSeq({s \in owned \cup peers : ~Same(s, s - 1)}, <)
        End(s) == CHOOSE e \in owned \cup peers :
                      /\ e >= s /\ \A t \in s..e : Same(s, t)
                      /\ ~Same(s, e + 1)
        Node == Array(<<BulkString(Text), Integer(7), BulkString(Text)>>)
    IN  Array([i \in DOMAIN starts |-> Array(<<Integer(starts[i]), Integer(End(starts[i])), Node>>)])

\* ADDSLOTS stops at the first slot that is refused.
ExecuteCluster(cmd, state, peers) ==
    LET refused == {i \in DOMAIN cmd.args : cmd.args[i] >= HASH_SLOTS}
        taken == IF refused = {} THEN cmd.args ELSE SubSeq(cmd.args, 1, Min(refused) - 1)
    IN  CASE cmd.sub = "keyslot" -> Reply(Integer(SlotOfKey(cmd.args[1])), state)
          [] cmd.sub = "addslots" ->
                Reply(IF refused = {} THEN Ok ELSE Err, [state EXCEPT !.owned = @ \cup ToSet(taken)])
          [] cmd.sub = "meet" -> Reply(Ok, state)
          [] cmd.sub = "slots" -> Reply(SlotsReport(state.owned, peers), state)
          [] OTHER -> Reply(BulkString(Text), state)

Execute(cmd, state, config) ==
    LET args == cmd.args
        store == state.store
        login == [state EXCEPT !.auth = TRUE]
    IN  IF config.pass # None /\ ~state.auth
        THEN CASE cmd.name = "auth" /\ args[1] = config.pass -> Reply(Ok, login)
               [] cmd.name = "quit" -> Reply(Ok, state)
               [] OTHER -> Reply(Err, state)
        ELSE CASE cmd.name = "auth" -> Reply(Ok, login)
               [] cmd.name = "ping" -> Reply(IF args = <<>> THEN Pong ELSE BulkString(args[1]), state)
               [] cmd.name = "echo" -> Reply(BulkString(args[1]), state)
               [] cmd.name = "get" ->
                     Reply(BulkString(IF args[1] \in DOMAIN store THEN store[args[1]][1] ELSE None), state)
               [] cmd.name = "set" ->
                     Write(Ok, [state EXCEPT !.store = (args[1] :> cmd.entry) @@ store])
               [] cmd.name = "del" -> ExecuteDel(args, state)
               [] cmd.name = "exists" ->
                     Reply(Integer(Cardinality({i \in DOMAIN args : args[i] \in DOMAIN store})), state)
               [] cmd.name = "keys" ->
                     LET keys == SetToSeq(DOMAIN store)
                     IN  Reply(Array([i \in DOMAIN keys |-> BulkString(keys[i])]), state)
               [] cmd.name = "info" -> Reply(BulkString(Text), state)
               [] cmd.name = "replconf" -> ExecuteReplConf(args, state)
               [] cmd.name = "cluster" ->
                     IF config.cluster THEN ExecuteCluster(cmd, state, config.peers) ELSE Reply(Err, state)
               [] cmd.name = "command" -> Reply(Array(<<>>), state)
               [] cmd.name = "psync" -> Reply(SimpleString(Text), state)
               [] cmd.name = "quit" -> Reply(Ok, state)

=============================================================================
