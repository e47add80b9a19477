------------------------------- MODULE Bencode -------------------------------
(***************************************************************************)
(* The decoder of bencode.c, on files that are sequences of octets, and what *)
(* it should compute: the inverse of Encode.                                *)
(*                                                                         *)
(* A decoding is the node that was built, the place where the decoder stands *)
(* and how it ended: "ok"; "crashed" at a null pointer; or "endless", when it *)
(* waits for the end of a list at a place that it cannot leave.  The nodes   *)
(* are recursive, and so are the operators: TLC only.                       *)
(***************************************************************************)
EXTENDS Integers, Sequences

NoString == <<-1>>      \* the null pointer in place of a string

NoNode    == [type |-> "none"]
Str(s)    == [type |-> "str", s |-> s]
Number(n) == [type |-> "int", i |-> n]
List(l)   == [type |-> "list", l |-> l]
Dict(d)   == [type |-> "dict", d |-> d]
Entry(key, val) == [key |-> key, val |-> val]

MINUS == 45
COLON == 58
DIGITS == 48 .. 57
d_ == 100
e_ == 101
i_ == 105
l_ == 108

be_str_len(s) == IF s = NoString THEN 0 ELSE Len(s)

(* A null pointer ends the loops over a list and over a dictionary: what comes  *)
(* before the first of the places in nulls.                                 *)
BeforeNull(seq, nulls) ==
    IF nulls = {} THEN seq
    ELSE SubSeq(seq, 1, (CHOOSE k \in nulls : \A m \in nulls : k <= m) - 1)

-----------------------------------------------------------------------------
(* Behind the file the buffer is 0.                                         *)
At(file, at) == IF at <= Len(file) THEN file[at] ELSE 0

Left(file, at) == Len(file) - at + 1        \* data_len

(* Mutant: one digit is all.                                                *)
DecodeIntDigit(file, at) ==
    IF At(file, at) \in DIGITS THEN [n |-> file[at] - 48, at |-> at + 1] ELSE [n |-> 0, at |-> at]

(* strtoll of at most a few digits; without any, 0 and no progress.          *)
DecodeInt(file, at) ==
    LET first == IF At(file, at) = MINUS THEN at + 1 ELSE at
        last  == CHOOSE k \in {first - 1} \cup (first .. Len(file)) :
                    /\ At(file, k + 1) \notin DIGITS
                    /\ \A m \in first .. k : file[m] \in DIGITS
        value[k \in first - 1 .. last] ==
            IF k < first THEN 0 ELSE 10 * value[k - 1] + file[k] - 48
    IN IF last < first THEN [n |-> 0, at |-> at]
       ELSE [n |-> IF first = at THEN value[last] ELSE -value[last], at |-> last + 1]

(* A string of which not all is there is null, and its length is skipped.    *)
DecodeStr(file, at) ==
    LET len == DecodeInt(file, at)
    IN IF len.n \in 0 .. Left(file, len.at) - 1 /\ At(file, len.at) = COLON
       THEN [s |-> SubSeq(file, len.at + 1, len.at + len.n), at |-> len.at + len.n + 1]
       ELSE [s |-> NoString, at |-> len.at]

Decoding(node, at) == [node |-> node, at |-> at, end |-> "ok"]
Ended(how, at)     == [node |-> NoNode, at |-> at, end |-> how]

(* Mutant: the end of the file ends a list, too.                             *)
EndsAtEnd(file, at) == At(file, at) \in {e_, 0}

(* The test of the loop of a list and of a dictionary.                       *)
EndsHere(file, at) == At(file, at) = e_

RECURSIVE Decode(_, _), Elements(_, _, _), Entries(_, _, _)

(* The array of an empty list or dictionary was never allocated.             *)
Elements(file, at, nodes) ==
    IF EndsHere(file, at)
    THEN IF nodes = <<>> THEN Ended("crashed", at) ELSE Decoding(List(nodes), at + 1)
    ELSE LET next == Decode(file, at)
         IN IF next.end # "ok" THEN next
            ELSE IF next.at = at THEN Ended("endless", at)
            ELSE Elements(file, next.at, Append(nodes, next.node))

Entries(file, at, entries) ==
    IF EndsHere(file, at)
    THEN IF entries = <<>> THEN Ended("crashed", at) ELSE Decoding(Dict(entries), at + 1)
    ELSE LET key  == DecodeStr(file, at)
             next == Decode(file, key.at)
         IN IF next.end # "ok" THEN next
            ELSE IF next.at = at THEN Ended("endless", at)
            ELSE Entries(file, next.at, Append(entries, Entry(key.s, next.node)))

Decode(file, at) ==
    IF Left(file, at) = 0 THEN Decoding(NoNode, at)
    ELSE CASE At(file, at) = l_ -> Elements(file, at + 1, <<>>)
           [] At(file, at) = d_ -> Entries(file, at + 1, <<>>)
           [] At(file, at) = i_ ->
                LET number == DecodeInt(file, at + 1)
                IN IF EndsHere(file, number.at) THEN Decoding(Number(number.n), number.at + 1)
                   ELSE Decoding(NoNode, number.at)
           [] At(file, at) \in DIGITS ->
                LET string == DecodeStr(file, at) IN Decoding(Str(string.s), string.at)
           [] OTHER -> Decoding(NoNode, at)

be_decoden(file) == Decode(file, 1)

-----------------------------------------------------------------------------
(* The reference: how a value is written.                                   *)

RECURSIVE Decimal(_), Encode(_)

Decimal(n) ==
    CASE n < 0 -> <<MINUS>> \o Decimal(-n)
      [] n \in 0 .. 9 -> <<48 + n>>
      [] OTHER -> Decimal(n \div 10) \o <<48 + (n % 10)>>

EncodeStr(s) == Decimal(Len(s)) \o <<COLON>> \o s
EncodeInt(n) == <<i_>> \o Decimal(n) \o <<e_>>

Concat(seqs) ==
    LET upTo[k \in 0 .. Len(seqs)] == IF k = 0 THEN <<>> ELSE upTo[k - 1] \o seqs[k]
    IN upTo[Len(seqs)]

Encode(v) ==
    CASE v.type = "str"  -> EncodeStr(v.s)
      [] v.type = "int"  -> EncodeInt(v.i)
      [] v.type = "list" ->
            <<l_>> \o Concat([k \in DOMAIN v.l |-> Encode(v.l[k])]) \o <<e_>>
      [] v.type = "dict" ->
            <<d_>> \o Concat([k \in DOMAIN v.d |->
                        EncodeStr(v.d[k].key) \o Encode(v.d[k].val)]) \o <<e_>>
=============================================================================
