------------------------- MODULE BitFieldLoopProofs -------------------------
(***************************************************************************)
(* For every set of positions, the loop of get_bit_field and set_bit_field  *)
(* stops at the bit that Cell names, inside the field.                      *)
(***************************************************************************)
EXTENDS BitFieldLoop, TLAPS

(* The mask and the byte as a function of the iterations done: bit i up to  *)
(* iteration 7, no bit after iteration 8, bit i - 1 from then on.           *)
At(m) ==
    /\ m <= 7 => j = 0 /\ shift = Mask[m + 1]
    /\ m = 8 => j = 0 /\ shift = 0
    /\ m > 8 => j = (m - 1) \div 8 /\ shift = Mask[((m - 1) % 8) + 1]

(* The inductive invariant: what TypeOK says, how far the loop may have     *)
(* come, and the two working variables.                                     *)
LoopInv ==
    /\ TypeOK
    /\ i = 0 \/ i <= position
    /\ At(i)

(* Each mask is half of the one before it, down to 1.                        *)
LEMMA MaskHalves ==
    /\ Mask[1] = 128 /\ Mask[8] = 1
    /\ \A r \in 1 .. 8 : Mask[r] \in 1 .. 128
    /\ \A r \in 1 .. 7 : Mask[r] \div 2 = Mask[r + 1]
BY DEF Mask

(* The loop starts in LoopInv: no iteration done, mask 128, byte 0.          *)
LEMMA LoopStarts == Init => LoopInv
<1> SUFFICES ASSUME Init PROVE LoopInv
  OBVIOUS
<1>1. TypeOK
  BY DEF Init, TypeOK
<1>2. At(i)
  BY MaskHalves DEF Init, At
<1> QED
  BY <1>1, <1>2 DEF Init, LoopInv

(* An iteration keeps LoopInv: the mask of iteration i becomes that of i + 1. *)
LEMMA LoopGoesOn == LoopInv /\ [Next]_vars => LoopInv'
<1> SUFFICES ASSUME LoopInv, [Next]_vars PROVE LoopInv'
  OBVIOUS
<1>1. CASE UNCHANGED vars
  BY <1>1 DEF LoopInv, TypeOK, At, vars
<1>2. CASE Iterate
  <2> USE <1>2
  <2>1. i \in Nat /\ j \in Nat /\ position \in Int /\ i < position /\ i' = i + 1 /\ position' = position
    BY PositionsAssumption DEF LoopInv, TypeOK, Iterate
  <2>2. CASE i \in 0 .. 6
    <3>1. j' = j /\ shift' = shift \div 2 /\ j = 0 /\ shift = Mask[i + 1]
      BY <2>1, <2>2 DEF LoopInv, At, Iterate
    <3>2. shift' = Mask[i + 2] /\ shift' \in 0 .. 255
      BY <2>1, <2>2, <3>1, MaskHalves
    <3> QED
      BY <2>1, <2>2, <3>1, <3>2 DEF LoopInv, TypeOK, At
  <2>3. CASE i = 7
    <3>1. j' = 0 /\ shift' = 0
      BY <2>1, <2>3, MaskHalves DEF LoopInv, At, Iterate
    <3> QED
      BY <2>1, <2>3, <3>1 DEF LoopInv, TypeOK, At
  <2>4. CASE i >= 8 /\ i % 8 = 0
    <3>1. j' = j + 1 /\ shift' = 128
      BY <2>1, <2>4 DEF Iterate
    <3>2. j + 1 = i \div 8
      BY <2>1, <2>4 DEF LoopInv, At
    <3> QED
      BY <2>1, <2>4, <3>1, <3>2, MaskHalves DEF LoopInv, TypeOK, At
  <2>5. CASE i > 8 /\ i % 8 # 0
    <3>1. j' = j /\ shift' = shift \div 2
      BY <2>1, <2>5 DEF Iterate
    <3>2. j = (i - 1) \div 8 /\ shift = Mask[((i - 1) % 8) + 1]
      BY <2>1, <2>5 DEF LoopInv, At
    <3>3. i \div 8 = (i - 1) \div 8 /\ i % 8 = ((i - 1) % 8) + 1 /\ (i - 1) % 8 \in 0 .. 6
      BY <2>1, <2>5
    <3>4. shift' = Mask[(i % 8) + 1] /\ shift' \in 0 .. 255
      BY <3>1, <3>2, <3>3, MaskHalves
    <3> QED
      BY <2>1, <2>5, <3>1, <3>2, <3>3, <3>4 DEF LoopInv, TypeOK, At
  <2> QED
    BY <2>1, <2>2, <2>3, <2>4, <2>5
<1> QED
  BY <1>1, <1>2 DEF Next

(* The mask and the byte of the loop are those of its iteration, throughout. *)
THEOREM LoopInvariance == Spec => []LoopInv
BY LoopStarts, LoopGoesOn, PTL DEF Spec

(* The loop computes the bit of BitField!Cell, whatever position is asked   *)
(* for: get_bit_field and set_bit_field are correct for positions 0 to 7,   *)
(* address nothing at 8 and the bit before theirs from 9 on.                *)
THEOREM LoopCorrect == Spec => []LoopStopsAtCell
<1>1. LoopInv => LoopStopsAtCell
  <2> SUFFICES ASSUME LoopInv, Finished PROVE LoopStopsAtCell
    BY DEF LoopStopsAtCell
  <2>1. position \in Int /\ i \in Nat /\ (i = 0 \/ i = position) /\ i >= position
    BY PositionsAssumption DEF LoopInv, TypeOK, Finished
  <2>2. CASE position <= 7
    BY <2>1, <2>2, MaskHalves DEF LoopStopsAtCell, Cell, NoCell, LoopInv, At
  <2>3. CASE position = 8
    BY <2>1, <2>3 DEF LoopStopsAtCell, Cell, NoCell, LoopInv, At
  <2>4. CASE position > 8
    BY <2>1, <2>4 DEF LoopStopsAtCell, Cell, NoCell, LoopInv, At
  <2> QED
    BY <2>1, <2>2, <2>3, <2>4
<1> QED
  BY <1>1, LoopInvariance, PTL

(* A piece number of the torrent never leads outside the bytes allocated.   *)
THEOREM LoopStaysInField == Spec => []StaysInField
<1>1. LoopInv => StaysInField
  <2> SUFFICES ASSUME LoopInv, Finished, position >= 0
               PROVE  j < bit_field_size(position + 1)
    BY DEF StaysInField
  <2>1. position \in Int /\ i \in Nat /\ i = position
    BY PositionsAssumption DEF LoopInv, TypeOK, Finished
  <2>2. CASE position <= 8
    BY <2>1, <2>2 DEF LoopInv, At, bit_field_size
  <2>3. CASE position > 8
    BY <2>1, <2>3 DEF LoopInv, At, bit_field_size
  <2> QED
    BY <2>1, <2>2, <2>3
<1> QED
  BY <1>1, LoopInvariance, PTL
=============================================================================
