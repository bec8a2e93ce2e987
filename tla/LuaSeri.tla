------------------------------- MODULE LuaSeri -------------------------------
(***************************************************************************)
(* lua-seri.c: the arguments of a message between services are packed into *)
(* bytes and unpacked by the receiver.  Integers take the shortest of five *)
(* forms, strings and arrays keep short lengths in the type byte, and the  *)
(* bytes are collected in a chain of blocks.                               *)
(*                                                                         *)
(* A byte of a number is a digit to the base Radix, so that words of 2, 4  *)
(* and 8 bytes can be small; a type byte is a number of its own.           *)
(***************************************************************************)
EXTENDS Integers, Sequences, FiniteSets, SequencesExt

CONSTANTS
    Radix,          \* values of a byte: 256
    BLOCK_SIZE,     \* 128
    MAX_COOKIE,     \* 32
    MAX_DEPTH,      \* 32
    SeriValue,      \* arguments: see Num, Str, Tab
    MaxArgs         \* bound: arguments of a message

ASSUME SeriAssumption ==
    /\ Radix \in Nat \ {0, 1} /\ Radix % 2 = 0 /\ BLOCK_SIZE \in Nat \ {0}
    /\ MAX_COOKIE \in Nat \ {0, 1} /\ MAX_DEPTH \in Nat /\ MaxArgs \in Nat

VARIABLES
    args,           \* the arguments of luaseri_pack
    buffer,         \* the bytes, as far as they have not been read
    unpacked,            \* the values unpacked
    stage           \* "args", "sent", "done"; "refused": pack raised; "invalid": unpack raised

seriVars == <<args, buffer, unpacked, stage>>

(* Values.  A table has pairs <<key, value>> and a border, what rawlen      *)
(* answers, below which values may be missing.                              *)
NilValue == [t |-> "nil"]
Bool(b) == [t |-> "boolean", b |-> b]
Num(v) == [t |-> "integer", v |-> v]
Real(v) == [t |-> "real", v |-> v]
Str(s) == [t |-> "string", s |-> s]
Tab(n, pairs) == [t |-> "table", rawlen |-> n, pairs |-> pairs]
At(pairs, k) == IF \E p \in pairs : p[1] = k THEN (CHOOSE p \in pairs : p[1] = k)[2] ELSE NilValue

TYPE_NIL == 0
TYPE_BOOLEAN == 1
TYPE_NUMBER == 2
TYPE_SHORT_STRING == 4
TYPE_LONG_STRING == 5
TYPE_TABLE == 6
(* Cookies of numbers. *)
ZERO == 0
BYTE == 1
WORD == 2
DWORD == 4
QWORD == 6
REAL == 8
COMBINE_TYPE(t, v) == t + 8 * v

(* The k bytes of number n, the lowest first, and back. *)
Bytes(n, k) == [i \in 1..k |-> (((n + Radix^k) % Radix^k) \div Radix^(i - 1)) % Radix]
Unsigned(b) == FoldLeftDomain(LAMBDA sum, i : sum + b[i] * Radix^(i - 1), 0, b)
Signed(b) == LET n == Unsigned(b) IN IF 2 * n >= Radix^Len(b) THEN n - Radix^Len(b) ELSE n
Cast32(v) == Signed(Bytes(v, 4))

-----------------------------------------------------------------------------
(* Packing. *)
EmptyBlocks == [chain |-> <<<<>>>>, len |-> 0]

(* A full block is followed by a new one; what does not fit is split. *)
RECURSIVE wb_push(_, _)
wb_push(wb, buf) ==
    LET chain == IF Len(Last(wb.chain)) = BLOCK_SIZE THEN Append(wb.chain, <<>>) ELSE wb.chain
        space == BLOCK_SIZE - Len(Last(chain))
        fill(bytes) == Append(Front(chain), Last(chain) \o bytes)
    IN IF Len(buf) <= space THEN [chain |-> fill(buf), len |-> wb.len + Len(buf)]
       ELSE wb_push([chain |-> fill(SubSeq(buf, 1, space)), len |-> wb.len + space],
                    SubSeq(buf, space + 1, Len(buf)))

Header(wb, t, v) == wb_push(wb, <<COMBINE_TYPE(t, v)>>)

(* Mutant of wb_integer: the sign is not looked at. *)
wb_integer_unsigned(wb, v) ==
    IF v = 0 THEN Header(wb, TYPE_NUMBER, ZERO)
    ELSE IF v # Cast32(v) THEN wb_push(Header(wb, TYPE_NUMBER, QWORD), Bytes(v, 8))
    ELSE IF v < Radix THEN wb_push(Header(wb, TYPE_NUMBER, BYTE), Bytes(v, 1))
    ELSE IF v < Radix^2 THEN wb_push(Header(wb, TYPE_NUMBER, WORD), Bytes(v, 2))
    ELSE wb_push(Header(wb, TYPE_NUMBER, DWORD), Bytes(v, 4))

wb_integer(wb, v) ==
    IF v = 0 THEN Header(wb, TYPE_NUMBER, ZERO)
    ELSE IF v # Cast32(v) THEN wb_push(Header(wb, TYPE_NUMBER, QWORD), Bytes(v, 8))
    ELSE IF v < 0 THEN wb_push(Header(wb, TYPE_NUMBER, DWORD), Bytes(v, 4))
    ELSE IF v < Radix THEN wb_push(Header(wb, TYPE_NUMBER, BYTE), Bytes(v, 1))
    ELSE IF v < Radix^2 THEN wb_push(Header(wb, TYPE_NUMBER, WORD), Bytes(v, 2))
    ELSE wb_push(Header(wb, TYPE_NUMBER, DWORD), Bytes(v, 4))

wb_string(wb, s) ==
    IF Len(s) < MAX_COOKIE THEN wb_push(Header(wb, TYPE_SHORT_STRING, Len(s)), s)
    ELSE IF Len(s) < Radix^2
      THEN wb_push(wb_push(Header(wb, TYPE_LONG_STRING, 2), Bytes(Len(s), 2)), s)
    ELSE wb_push(wb_push(Header(wb, TYPE_LONG_STRING, 4), Bytes(Len(s), 4)), s)

(* How an array starts: its size in the type byte, or behind it. *)
wb_table_size(wb, n) ==
    IF n >= MAX_COOKIE - 1 THEN wb_integer(Header(wb, TYPE_TABLE, MAX_COOKIE - 1), n)
    ELSE Header(wb, TYPE_TABLE, n)

(* wb_table_array and wb_table_hash: the values up to the border, then the  *)
(* other pairs in some order, then nil.                                     *)
Elements(v) ==
    LET array == [i \in 1..v.rawlen |-> At(v.pairs, Num(i))]
        hash == SetToSeq({p \in v.pairs : ~\E i \in 1..v.rawlen : p[1] = Num(i)})
    IN array \o FoldLeft(LAMBDA seq, p : seq \o p, <<>>, hash) \o <<NilValue>>

RECURSIVE pack_one(_, _, _)
pack_one(wb, v, depth) ==
    IF v.t = "nil" THEN Header(wb, TYPE_NIL, 0)
    ELSE IF v.t = "boolean" THEN Header(wb, TYPE_BOOLEAN, IF v.b THEN 1 ELSE 0)
    ELSE IF v.t = "integer" THEN wb_integer(wb, v.v)
    ELSE IF v.t = "real" THEN wb_push(Header(wb, TYPE_NUMBER, REAL), Bytes(v.v, 8))
    ELSE IF v.t = "string" THEN wb_string(wb, v.s)
    ELSE FoldLeft(LAMBDA b, e : pack_one(b, e, depth + 1), wb_table_size(wb, v.rawlen), Elements(v))

(* A value that pack_one reaches deeper than MAX_DEPTH makes it raise.      *)
RECURSIVE TooDeep(_, _)
TooDeep(v, depth) ==
    \/ depth > MAX_DEPTH
    \/ v.t = "table" /\ \E e \in Range(Elements(v)) : e # NilValue /\ TooDeep(e, depth + 1)

(* seri: the blocks are copied into one buffer of len bytes. *)
RECURSIVE seri(_, _)
seri(chain, len) ==
    IF len = 0 THEN <<>>
    ELSE IF len >= BLOCK_SIZE THEN Head(chain) \o seri(Tail(chain), len - BLOCK_SIZE)
    ELSE SubSeq(Head(chain), 1, len)

-----------------------------------------------------------------------------
(* Unpacking.  Every reader answers the value and the bytes behind it; one  *)
(* that misses bytes raises.                                                *)
Invalid == [ok |-> FALSE, v |-> NilValue, rest |-> <<>>]
Read(v, rest) == [ok |-> TRUE, v |-> v, rest |-> rest]
rb_read(rb, sz) ==
    IF Len(rb) < sz THEN Invalid ELSE Read(SubSeq(rb, 1, sz), SubSeq(rb, sz + 1, Len(rb)))

get_number(rb, sz, signed) ==
    LET r == rb_read(rb, sz)
    IN IF r.ok THEN Read(Num(IF signed THEN Signed(r.v) ELSE Unsigned(r.v)), r.rest) ELSE Invalid

get_integer(rb, cookie) ==
    IF cookie = ZERO THEN Read(Num(0), rb)
    ELSE IF cookie = BYTE THEN get_number(rb, 1, FALSE)
    ELSE IF cookie = WORD THEN get_number(rb, 2, FALSE)
    ELSE IF cookie = DWORD THEN get_number(rb, 4, TRUE)
    ELSE IF cookie = QWORD THEN get_number(rb, 8, TRUE)
    ELSE Invalid

get_real(rb) == LET r == get_number(rb, 8, TRUE) IN IF r.ok THEN Read(Real(r.v.v), r.rest) ELSE Invalid

get_buffer(rb, len) == LET r == rb_read(rb, len) IN IF r.ok THEN Read(Str(r.v), r.rest) ELSE Invalid

get_long(rb, cookie) ==
    LET n == get_integer(rb, IF cookie = 2 THEN WORD ELSE DWORD)
    IN IF cookie \notin {2, 4} \/ ~n.ok THEN Invalid ELSE get_buffer(n.rest, n.v.v)

(* The size of an array whose type byte has this cookie. *)
table_size(rb, cookie) ==
    IF cookie # MAX_COOKIE - 1 THEN Read(Num(cookie), rb)
    ELSE IF rb = <<>> \/ Head(rb) % 8 # TYPE_NUMBER \/ Head(rb) \div 8 = REAL THEN Invalid
    ELSE get_integer(Tail(rb), Head(rb) \div 8)

(* rawset and rawseti: a nil is no entry. *)
With(pairs, k, v) == {p \in pairs : p[1] # k} \cup IF v = NilValue THEN {} ELSE {<<k, v>>}

RECURSIVE unpack_one(_), unpack_array(_, _, _, _), unpack_hash(_, _, _)
unpack_array(rb, i, n, pairs) ==
    IF i > n THEN unpack_hash(rb, n, pairs)
    ELSE LET r == unpack_one(rb)
         IN IF r.ok THEN unpack_array(r.rest, i + 1, n, With(pairs, Num(i), r.v)) ELSE Invalid
unpack_hash(rb, n, pairs) ==
    LET k == unpack_one(rb)
        v == unpack_one(k.rest)
    IN IF ~k.ok THEN Invalid
       ELSE IF k.v = NilValue THEN Read(Tab(n, pairs), k.rest)
       ELSE IF v.ok THEN unpack_hash(v.rest, n, With(pairs, k.v, v.v)) ELSE Invalid
unpack_one(rb) ==
    IF rb = <<>> THEN Invalid
    ELSE LET type == Head(rb) % 8
             cookie == Head(rb) \div 8
             rest == Tail(rb)
             size == table_size(rest, cookie)
         IN IF type = TYPE_NIL THEN Read(NilValue, rest)
            ELSE IF type = TYPE_BOOLEAN THEN Read(Bool(cookie # 0), rest)
            ELSE IF type = TYPE_NUMBER /\ cookie = REAL THEN get_real(rest)
            ELSE IF type = TYPE_NUMBER THEN get_integer(rest, cookie)
            ELSE IF type = TYPE_SHORT_STRING THEN get_buffer(rest, cookie)
            ELSE IF type = TYPE_LONG_STRING THEN get_long(rest, cookie)
            ELSE IF type = TYPE_TABLE /\ size.ok THEN unpack_array(size.rest, 1, size.v.v, {})
            ELSE Invalid

-----------------------------------------------------------------------------
SeriInit == args = <<>> /\ buffer = <<>> /\ unpacked = <<>> /\ stage = "args"

AddArg(v) ==
    /\ stage = "args" /\ Len(args) < MaxArgs /\ args' = Append(args, v)
    /\ UNCHANGED <<buffer, unpacked, stage>>

(* luaseri_pack *)
luaseri_pack ==
    LET wb == FoldLeft(LAMBDA b, v : pack_one(b, v, 0), EmptyBlocks, args)
    IN /\ stage = "args"
       /\ IF \E v \in Range(args) : TooDeep(v, 0) THEN stage' = "refused" /\ UNCHANGED buffer
          ELSE stage' = "sent" /\ buffer' = seri(wb.chain, wb.len)
       /\ UNCHANGED <<args, unpacked>>

(* luaseri_unpack: one turn of its loop. *)
luaseri_unpack ==
    LET r == unpack_one(buffer)
    IN /\ stage = "sent"
       /\ IF buffer = <<>> THEN stage' = "done" /\ UNCHANGED <<buffer, unpacked>>
          ELSE IF r.ok THEN buffer' = r.rest /\ unpacked' = Append(unpacked, r.v) /\ UNCHANGED stage
          ELSE stage' = "invalid" /\ UNCHANGED <<buffer, unpacked>>
       /\ UNCHANGED args

SeriNext == (\E v \in SeriValue : AddArg(v)) \/ luaseri_pack \/ luaseri_unpack

SeriSpec == SeriInit /\ [][SeriNext]_seriVars

-----------------------------------------------------------------------------
(* Two values are the same to a program: borders do not count. *)
RECURSIVE Same(_, _)
Same(v, w) ==
    /\ v.t = w.t
    /\ IF v.t # "table" THEN v = w
       ELSE \E f \in Bijection(v.pairs, w.pairs) : \A p \in v.pairs : Same(p[1], f[p][1]) /\ Same(p[2], f[p][2])

(* The receiver gets the arguments that were sent, one by one and no more:   *)
(* at every boundary of the integer forms, of the lengths of strings and     *)
(* arrays and of the blocks.                                                 *)
RoundTrip ==
    /\ stage # "invalid" /\ Len(unpacked) <= Len(args)
    /\ \A i \in 1..Len(unpacked) : Same(args[i], unpacked[i])
    /\ stage = "done" => Len(unpacked) = Len(args)
=============================================================================
