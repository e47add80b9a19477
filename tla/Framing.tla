------------------------------ MODULE Framing ------------------------------
(***************************************************************************)
(* Messages between peers as the bytes they are on a stream.  A message is    *)
(* its length in four bytes, big-endian, then its number in one byte, then    *)
(* its payload; the length counts number and payload.  A handler takes the   *)
(* bytes it wants from the front of the stream, whether or not the message    *)
(* ends there.                                                              *)
(***************************************************************************)
EXTENDS BitField, Sequences

CHOKE         == 0
UNCHOKE       == 1
INTERSTED     == 2
NOT_INTERSTED == 3
HAVE_PEICE    == 4
BIT_FIELD     == 5
REQUEST       == 6
PEICE         == 7
CANCLE        == 8

(* The greatest int.                                                         *)
MaxInt == 2147483647

(* htonl and ntohl between an int and the stream, either byte order; words of *)
(* 32 bits, in two's complement.  The factors are the powers of 256.          *)
Word(n) == << (n \div 16777216) % 256, (n \div 65536) % 256, (n \div 256) % 256, n % 256 >>

IntOf(w) ==
    (IF w[1] >= 128 THEN w[1] - 256 ELSE w[1]) * 16777216
        + w[2] * 65536 + w[3] * 256 + w[4]

(* Bytes first .. last of s; what is missing at the end of a stream reads as  *)
(* the zeros the buffer was set to.                                         *)
Bytes(s, first, last) ==
    [k \in 1 .. last - first + 1 |->
        IF first + k - 1 <= Len(s) THEN s[first + k - 1] ELSE 0]

WordAt(s, first) == IntOf(Bytes(s, first, first + 3))

(* The bits of a byte, the first of them first.                              *)
Weight == <<128, 64, 32, 16, 8, 4, 2, 1>>

(* A bit field of n pieces as bytes, and bytes as the set of their bits.      *)
BitFieldBytes(bits, n) ==
    LET bit(k, b) == IF 8 * (k - 1) + b - 1 \in bits THEN Weight[b] ELSE 0
    IN [k \in 1 .. bit_field_size(n) |->
            bit(k, 1) + bit(k, 2) + bit(k, 3) + bit(k, 4)
                + bit(k, 5) + bit(k, 6) + bit(k, 7) + bit(k, 8)]

BitsOf(bytes) ==
    { b \in 0 .. 8 * Len(bytes) - 1 :
        (bytes[b \div 8 + 1] \div Weight[(b % 8) + 1]) % 2 = 1 }

Message(id, payload) == Word(1 + Len(payload)) \o <<id>> \o payload

KeepAlive == Word(0)
BitFieldMessage(bits, n) == Message(BIT_FIELD, BitFieldBytes(bits, n))
RequestMessage(p, begin, n) == Message(REQUEST, Word(p) \o Word(begin) \o Word(n))


PeiceMessage(p, begin, data) == Message(PEICE, Word(p) \o Word(begin) \o data)
=============================================================================
