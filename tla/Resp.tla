-------------------------------- MODULE Resp --------------------------------
(***************************************************************************)
(* The wire format (protocol/resp.rs): Value, its serialization and the    *)
(* incremental parser.  Bytes are their codes; text is ASCII.  The parser  *)
(* works at a position of the bytes received so far, where the code cuts   *)
(* bytes off the front, and says "more" for Ok(None).                      *)
(***************************************************************************)
EXTENDS Integers, SequencesExt

CONSTANTS
    None,        \* Option::None
    MaxCapacity  \* elements a Vec<Value> can hold, isize::MAX / size_of::<Value>()

CR == 13
LF == 10
CRLF == <<CR, LF>>
Plus == 43
Minus == 45
Colon == 58
Dollar == 36
Star == 42

SimpleString(s) == [type |-> "simple", data |-> s]
Error(s) == [type |-> "error", data |-> s]
Integer(n) == [type |-> "integer", number |-> n]
BulkString(s) == [type |-> "bulk", data |-> s]
Array(items) == [type |-> "array", items |-> items]

\* as_str: the text of a simple or a bulk string.
AsStr(v) == IF v.type \in {"simple", "bulk"} THEN v.data ELSE None

-----------------------------------------------------------------------------
(* Decimal numbers *)

IsDigits(s) == s # <<>> /\ \A i \in DOMAIN s : s[i] \in 48..57
NatOf(s) == FoldLeft(LAMBDA n, d : 10 * n + d - 48, 0, s)

\* str::parse of a signed and of an unsigned integer; no input here overflows.
ParseInt(s) ==
    CASE IsDigits(s) -> NatOf(s)
      [] s # <<>> /\ s[1] = Plus /\ IsDigits(Tail(s)) -> NatOf(Tail(s))
      [] s # <<>> /\ s[1] = Minus /\ IsDigits(Tail(s)) -> -NatOf(Tail(s))
      [] OTHER -> None
ParseUnsigned(s) == IF s # <<>> /\ s[1] = Minus THEN None ELSE ParseInt(s)

RECURSIVE Digits(_)
Digits(n) == IF n < 10 THEN <<48 + n>> ELSE Digits(n \div 10) \o <<48 + (n % 10)>>
Decimal(n) == IF n < 0 THEN <<Minus>> \o Digits(-n) ELSE Digits(n)

-----------------------------------------------------------------------------
(* serialize.  An error gets the prefix "ERR " whatever it says. *)

ErrPrefix == <<69, 82, 82, 32>>

RECURSIVE Serialize(_)

\* Mutant: no string is an empty one, and its CRLF is forgotten.
SerializeNullAsEmpty(v) ==
    CASE v.type = "simple" -> <<Plus>> \o v.data \o CRLF
      [] v.type = "error" -> <<Minus>> \o ErrPrefix \o v.data \o CRLF
      [] v.type = "integer" -> <<Colon>> \o Decimal(v.number) \o CRLF
      [] v.type = "bulk" -> <<Dollar>> \o Decimal(IF v.data = None THEN 0 ELSE Len(v.data)) \o CRLF
                                \o (IF v.data = None THEN <<>> ELSE v.data \o CRLF)
      [] v.type = "array" ->
            <<Star>> \o Decimal(IF v.items = None THEN -1 ELSE Len(v.items)) \o CRLF
                \o FoldLeft(LAMBDA bytes, item : bytes \o Serialize(item), <<>>,
                            IF v.items = None THEN <<>> ELSE v.items)

Serialize(v) ==
    CASE v.type = "simple" -> <<Plus>> \o v.data \o CRLF
      [] v.type = "error" -> <<Minus>> \o ErrPrefix \o v.data \o CRLF
      [] v.type = "integer" -> <<Colon>> \o Decimal(v.number) \o CRLF
      [] v.type = "bulk" ->
            IF v.data = None THEN <<Dollar>> \o Decimal(-1) \o CRLF
            ELSE <<Dollar>> \o Decimal(Len(v.data)) \o CRLF \o v.data \o CRLF
      [] v.type = "array" ->
            IF v.items = None THEN <<Star>> \o Decimal(-1) \o CRLF
            ELSE <<Star>> \o Decimal(Len(v.items)) \o CRLF
                    \o FoldLeft(LAMBDA bytes, item : bytes \o Serialize(item), <<>>, v.items)

-----------------------------------------------------------------------------
(* parse *)

More == [status |-> "more"]
Malformed == [status |-> "malformed"]
Panics == [status |-> "panic"]
Done(v, next) == [status |-> "done", value |-> v, next |-> next]

\* get_line: where the first CRLF at or after p is, or 0.
LineEnd(buf, p) ==
    LET ends == {i \in p..(Len(buf) - 1) : buf[i] = CR /\ buf[i + 1] = LF}
    IN  IF ends = {} THEN 0 ELSE Min(ends)

\* The rest of a value whose first line, up to `next`, holds the number n, or None if it is not one.
ParseInteger(n, next) == IF n = None THEN Malformed ELSE Done(Integer(n), next)

\* Mutant: the CRLF after the data need not have arrived.
ParseBulkStringEager(buf, n, next) ==
    LET end == next + n
    IN  CASE n = None -> Malformed
          [] n = -1 -> Done(BulkString(None), next)
          [] n # None /\ n < -1 -> Malformed
          [] n # None /\ n >= 0 /\ Len(buf) + 1 < end -> More
          [] OTHER -> Done(BulkString(SubSeq(buf, next, end - 1)), Min({end + 2, Len(buf) + 1}))

\* The data starts at `next`, and its CRLF is at `end`.
ParseBulkString(buf, n, next) ==
    LET end == next + n
    IN  CASE n = None -> Malformed
          [] n = -1 -> Done(BulkString(None), next)
          [] n # None /\ n < -1 -> Malformed
          [] n # None /\ n >= 0 /\ Len(buf) < end + 1 -> More
          [] n # None /\ n >= 0 /\ Len(buf) >= end + 1 ->
                IF SubSeq(buf, end, end + 1) # CRLF THEN Malformed
                ELSE Done(BulkString(SubSeq(buf, next, end - 1)), end + 2)

RECURSIVE ParseAt(_, _)
RECURSIVE ParseElements(_, _, _, _)

\* `count` more elements of an array, from p on.
ParseElements(buf, p, count, items) ==
    IF count = 0 THEN Done(Array(items), p)
    ELSE LET elem == ParseAt(buf, p)
         IN  IF elem.status # "done" THEN elem
             ELSE ParseElements(buf, elem.next, count - 1, Append(items, elem.value))

\* The elements' Vec is allocated before the first one is parsed; with_capacity panics on a
\* count that no Vec can hold.
ParseArray(buf, n, next) ==
    CASE n = None -> Malformed
      [] n = -1 -> Done(Array(None), next)
      [] n # None /\ n < -1 -> Malformed
      [] n # None /\ n > MaxCapacity -> Panics
      [] n # None /\ n \in 0..MaxCapacity -> ParseElements(buf, next, n, <<>>)

\* A value that starts at p, with the CRLF of its first line at `end`.
ParseLine(buf, p, end) ==
    LET line == SubSeq(buf, p + 1, end - 1)
    IN  CASE buf[p] = Plus -> Done(SimpleString(line), end + 2)
          [] buf[p] = Minus -> Done(Error(line), end + 2)
          [] buf[p] = Colon -> ParseInteger(ParseInt(line), end + 2)
          [] buf[p] = Dollar -> ParseBulkString(buf, ParseInt(line), end + 2)
          [] buf[p] = Star -> ParseArray(buf, ParseInt(line), end + 2)

\* Value::parse of the bytes from p on.
ParseAt(buf, p) ==
    IF p > Len(buf) THEN More
    ELSE IF buf[p] \notin {Plus, Minus, Colon, Dollar, Star} THEN Malformed
    ELSE IF LineEnd(buf, p) = 0 THEN More
    ELSE ParseLine(buf, p, LineEnd(buf, p))

Parse(buf) == ParseAt(buf, 1)

=============================================================================
