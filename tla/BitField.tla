------------------------------ MODULE BitField ------------------------------
(***************************************************************************)
(* The bit fields of the client: which bit of the byte array                *)
(* get_bit_field and set_bit_field address for a piece number.             *)
(*                                                                         *)
(* A bit field is the set of the bits that are 1, a bit being named by its  *)
(* number on the wire: bit b is in byte b \div 8, the most significant bit  *)
(* of a byte first.  The two functions find the byte and the mask by the    *)
(* same loop; Cell is the closed form of that loop, and BitFieldLoop.tla   *)
(* shows that the loop computes it.                                        *)
(***************************************************************************)
EXTENDS Integers

(* The loop leaves the mask 0 at position 8: no bit is addressed.           *)
NoCell == -1

(* Mutant: the loop runs once more than it should.                           *)
CellOneMore(position) == IF position < 0 THEN 0 ELSE position + 1

(* The bit the loop stops at.  The mask is reset one iteration late, so     *)
(* position 8 has no bit and every later position is one bit too low.  A    *)
(* negative position runs no iteration and addresses bit 0.                 *)
Cell(position) ==
    CASE position < 0       -> 0
      [] position \in 0 .. 7 -> position
      [] position = 8       -> NoCell
      [] position > 8       -> position - 1

get_bit_field(bits, position) == Cell(position) \in bits

set_bit_field(bits, position) ==
    IF Cell(position) = NoCell THEN bits ELSE bits \cup {Cell(position)}

(* The number of bytes that a field of n bits takes.                        *)
bit_field_size(n) == IF n % 8 # 0 THEN n \div 8 + 1 ELSE n \div 8

(* The positions the spare-bit test of get_bit_field_message looks at.      *)
SparePositions(n) == { i \in n .. n + 7 : i < 8 * bit_field_size(n) }
=============================================================================
