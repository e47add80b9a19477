---------------------------- MODULE BitFieldLoop ----------------------------
(***************************************************************************)
(* The loop that get_bit_field and set_bit_field share, one iteration per   *)
(* step: i counts up to the position asked for, shift is the 8-bit mask     *)
(* and j the byte it applies to.                                           *)
(***************************************************************************)
EXTENDS BitField, Sequences

CONSTANT Positions      \* the positions asked for

ASSUME PositionsAssumption == Positions \subseteq Int

VARIABLES position, i, j, shift

vars == <<position, i, j, shift>>

Init ==
    /\ position \in Positions
    /\ i = 0
    /\ j = 0
    /\ shift = 128

(* Mutant: the mask is reset in time.                                        *)
IterateInTime ==
    /\ i < position
    /\ i' = i + 1
    /\ IF i' % 8 = 0
       THEN j' = j + 1 /\ shift' = 128
       ELSE j' = j /\ shift' = shift \div 2
    /\ UNCHANGED position

(* shift is uint8_t, so halving it drops the bit that falls out.            *)
Iterate ==
    /\ i < position
    /\ i' = i + 1
    /\ IF i # 0 /\ i % 8 = 0
       THEN j' = j + 1 /\ shift' = 128
       ELSE j' = j /\ shift' = shift \div 2
    /\ UNCHANGED position

Next == Iterate

Spec == Init /\ [][Next]_vars

-----------------------------------------------------------------------------

(* The masks of bits 0 to 7 of a byte, most significant first.              *)
Mask == <<128, 64, 32, 16, 8, 4, 2, 1>>

Finished == i >= position

TypeOK ==
    /\ position \in Positions
    /\ i \in Nat /\ j \in Nat
    /\ shift \in 0 .. 255

(* When the loop ends, byte j under mask shift is the bit that Cell names:   *)
(* none at position 8, else bit Cell(position) of the field.  This is what  *)
(* get_bit_field and set_bit_field read and write.                         *)
LoopStopsAtCell ==
    Finished =>
        IF Cell(position) = NoCell
        THEN shift = 0
        ELSE /\ j = Cell(position) \div 8
             /\ shift = Mask[(Cell(position) % 8) + 1]

(* A piece number below n never makes the two functions touch a byte beyond  *)
(* the field that is allocated for n pieces; position + 1 is the least such *)
(* n.                                                                      *)
StaysInField == Finished /\ position >= 0 => j < bit_field_size(position + 1)
=============================================================================
