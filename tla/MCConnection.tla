---------------------------- MODULE MCConnection ----------------------------
(***************************************************************************)
(* Sessions for Connection.  They cover every command, pipelining, a       *)
(* password, cluster redirection, a replica's connection, unknown names,   *)
(* bytes that are no request and the payload limit, each read in every     *)
(* possible split.                                                         *)
(***************************************************************************)
EXTENDS Connection

\* A request, its name and its arguments as byte strings.
Req(words) == Array([i \in DOMAIN words |-> BulkString(words[i])])

\* The letters of names and arguments.
A == <<65>>
C == <<67>>
D == <<68>>
E == <<69>>
G == <<71>>
I == <<73>>
K == <<75>>
M == <<77>>
N == <<78>>
O == <<79>>
P == <<80>>
Q == <<81>>
R == <<82>>
S == <<83>>
X == <<88>>
Y == <<89>>
a == <<97>>
b == <<98>>
g == <<103>>
p == <<112>>
q == <<113>>
Tagged == <<123, 97, 125, 98>>       \* {a}b
Binary == <<13, 10, 36>>             \* CR LF $
Seven == <<55>>

Default0 ==
    [reqs |-> <<>>, pass |-> None, cluster |-> FALSE, owned |-> {}, peers |-> {},
     replica |-> FALSE, max |-> 1000, probes |-> {}]
Play(reqs) == [Default0 EXCEPT !.reqs = reqs]

\* Writes and reads in one pipeline, with PX and with a value that looks like the protocol.
Pipeline == Play(<<Req(<<S, a, Binary, P, Seven>>), Req(<<G, a>>), Req(<<S, b, a>>),
                   Req(<<D, a, a, N>>), Req(<<X, b, b, a>>), Req(<<G, a>>), Req(<<K>>)>>)

\* SET's options: the last PX counts, a PX without a number or at the end.
Options == Play(<<Req(<<S, a, b, P, Seven, P, a>>), Req(<<S, b, b, N, P, Seven>>),
                  Req(<<S, A, b, p>>), Req(<<D, N>>), Req(<<q>>), Req(<<P>>)>>)

\* Requests that are well framed and no command.
Refusals == Play(<<Req(<<N>>), Array(<<>>), Array(None), Integer(-12), SimpleString(P),
                   Req(<<g>>), Req(<<S, a>>), Array(<<Integer(1)>>), Req(<<E>>), Req(<<A>>),
                   Array(<<BulkString(G), BulkString(None)>>), Req(<<C, Seven>>),
                   Array(<<BulkString(C), BulkString(None)>>),
                   Array(<<BulkString(S), BulkString(a), BulkString(None)>>), Req(<<G, a>>)>>)

\* A command that does not exist, its name with a line end in it.
LineEndInName == Play(<<Req(<<Binary>>), Req(<<P>>)>>)

Reports == Play(<<Req(<<P>>), Req(<<P, a>>), Req(<<E, Binary>>), Req(<<I>>), Req(<<O>>),
                  Req(<<R>>), Req(<<R, G>>), Req(<<R, A, Seven>>), Req(<<R, P>>),
                  Req(<<C, I>>), Req(<<A, a>>)>>)

\* A password: nothing works before it, and a redirection is no answer before it.
Login == [Play(<<Req(<<S, a, b>>), Req(<<A, b>>), Req(<<A, N, a>>), Req(<<S, a, b>>),
                 Req(<<S, Tagged, b>>), Req(<<S, b, b>>)>>)
            EXCEPT !.pass = a, !.cluster = TRUE, !.owned = {RedisSlot(a)}]

\* Cluster commands, a slot taken and one refused, and redirection to a peer or to nobody.
Routing == [Play(<<Req(<<S, b, a>>), Req(<<C, K, Tagged>>),
                   Req(<<C, A, Digits(RedisSlot(b)), Digits(HASH_SLOTS), Seven>>), Req(<<S, b, a>>),
                   Req(<<D, a, b>>), Req(<<G, E>>), Req(<<C, A, a>>), Req(<<C, M, a, Seven>>),
                   Req(<<C, M, a, a>>), Req(<<C, S>>), Req(<<C, N>>)>>)
              EXCEPT !.cluster = TRUE, !.owned = {0, 1}, !.peers = {2, RedisSlot(a)}]

\* A replica's connection that also writes; the second server is itself a replica.
Replica == Play(<<Req(<<S, a, a>>), Req(<<Y, N, N>>), Req(<<S, b, a>>), Req(<<D, a>>)>>)
OnReplica == [Replica EXCEPT !.replica = TRUE]

\* Bytes that are no request between requests.
Broken(bytes) == Play(<<Req(<<S, a, a>>), Raw(bytes), Req(<<G, a>>)>>)
Garbage == {Broken(<<97>>), Broken(<<Star, 97>> \o CRLF),
            Broken(<<Dollar, 49>> \o CRLF \o <<97, 97, 97>>), Broken(<<Star, Minus, 50>> \o CRLF),
            Broken(<<Star>> \o Digits(MaxCapacity + 1) \o CRLF)}

\* The longest request is exactly as long as the limit, and one is a byte longer.
Longest == Req(<<S, a, Binary>>)
Limit == [Play(<<Longest, Req(<<G, a>>), Req(<<P>>)>>) EXCEPT !.max = Len(Serialize(Longest))]
OverLimit == [Limit EXCEPT !.max = @ - 1]
Exact == [Play(<<Longest>>) EXCEPT !.max = Len(Serialize(Longest))]

\* A client of the cluster that computes slots itself: every key of up to five bytes made of braces
\* and a letter, every key of one byte and of two bytes with a fixed first one, which between
\* them use every entry of the table twice.
ProbeKeys ==
    UNION {[1..n -> {97, OpenBrace, CloseBrace}] : n \in 0..5}
        \cup {<<c>> : c \in 0..255} \cup {<<90, c>> : c \in 0..255}
ClusterClient == [Default0 EXCEPT !.cluster = TRUE, !.probes = ProbeKeys]

MCSessions ==
    {Pipeline, Options, Refusals, LineEndInName, Reports, Login, Routing, Replica, OnReplica,
     Limit, OverLimit, Exact, ClusterClient} \cup Garbage

=============================================================================
