-------------------------------- MODULE SHA1 --------------------------------
(***************************************************************************)
(* sha1.c: the context of a hash, fed octet by octet, its padding and the     *)
(* compression of a block.  A 32-bit word is its two halves, the high one     *)
(* first.                                                                  *)
(***************************************************************************)
EXTENDS Integers, Sequences, Bitwise

Half == 65536

Word(hi, lo) == <<hi, lo>>
Zero == Word(0, 0)

Octets(w) == <<w[1] \div 256, w[1] % 256, w[2] \div 256, w[2] % 256>>

Xor_(v, w) == <<v[1] ^^ w[1], v[2] ^^ w[2]>>
And_(v, w) == <<v[1] & w[1], v[2] & w[2]>>
Or_(v, w)  == <<v[1] | w[1], v[2] | w[2]>>
Not_(w)    == <<Half - 1 - w[1], Half - 1 - w[2]>>

Plus(v, w) ==
    LET lo == v[2] + w[2]
    IN <<(v[1] + w[1] + (lo \div Half)) % Half, lo % Half>>

SHA1CircularShift(bits, w) ==
    LET n == bits % 16
        v == IF bits < 16 THEN w ELSE <<w[2], w[1]>>
    IN <<((v[1] * 2^n) % Half) + (v[2] \div 2^(16 - n)),
         ((v[2] * 2^n) % Half) + (v[1] \div 2^(16 - n))>>

-----------------------------------------------------------------------------
K == << Word(23170, 31129), Word(28377, 60321), Word(36635, 48348), Word(51810, 49622) >>

(* The function and the constant of round t, by twenties.                    *)
Mix(t, B, C, D) ==
    CASE t \div 20 = 0 -> Or_(And_(B, C), And_(Not_(B), D))
      [] t \div 20 = 2 -> Or_(Or_(And_(B, C), And_(B, D)), And_(C, D))
      [] OTHER -> Xor_(Xor_(B, C), D)

(* W[t] is at place t + 1 of the schedule.                                   *)
FirstWords(block) ==
    [t \in 1 .. 16 |-> <<256 * block[4 * t - 4] + block[4 * t - 3],
                         256 * block[4 * t - 2] + block[4 * t - 1]>>]

NextWord(W, t) ==
    SHA1CircularShift(1, Xor_(Xor_(W[t - 2], W[t - 7]), Xor_(W[t - 13], W[t - 15])))

Round(buffers, t, w) ==
    LET A == buffers[1] B == buffers[2] C == buffers[3] D == buffers[4] E == buffers[5]
    IN << Plus(Plus(Plus(SHA1CircularShift(5, A), Mix(t, B, C, D)), Plus(E, w)), K[(t \div 20) + 1]),
          A, SHA1CircularShift(30, B), C, D >>

(* The loops from round `from` to round `to`, by halves: the first half is a  *)
(* bound variable of the second, so that TLC evaluates it before.            *)
RECURSIVE Schedule(_, _, _), Rounds(_, _, _, _)

Schedule(W, from, to) ==
    IF from = to THEN Append(W, NextWord(W, from))
    ELSE LET mid == (from + to) \div 2
         IN CHOOSE all \in { Schedule(half, mid + 1, to) : half \in {Schedule(W, from, mid)} } : TRUE

Rounds(buffers, W, from, to) ==
    IF from = to THEN Round(buffers, from, W[from + 1])
    ELSE LET mid == (from + to) \div 2
         IN CHOOSE all \in { Rounds(half, W, mid + 1, to) : half \in {Rounds(buffers, W, from, mid)} } : TRUE

SHA1ProcessMessageBlock(context) ==
    LET W == Schedule(FirstWords(context.Message_Block), 16, 79)
        buffers == Rounds(context.Intermediate_Hash, W, 0, 79)
    IN [context EXCEPT
            !.Intermediate_Hash = [k \in 1 .. 5 |-> Plus(@[k], buffers[k])],
            !.Message_Block_Index = 0]

-----------------------------------------------------------------------------
(* The context is on the stack, and its block is what was there.              *)
SHA1Reset(leftover) ==
    [Intermediate_Hash |-> << Word(26437, 8961), Word(61389, 43913), Word(39098, 56574),
                              Word(4146, 21622), Word(50130, 57840) >>,
     Length_Low |-> Zero, Length_High |-> Zero,
     Message_Block_Index |-> 0, Message_Block |-> [k \in 0 .. 63 |-> leftover],
     Computed |-> FALSE, Corrupted |-> FALSE]

Put(context, octet) ==
    [context EXCEPT !.Message_Block[context.Message_Block_Index] = octet,
                    !.Message_Block_Index = @ + 1]

(* Eight bits more, in 64.                                                  *)
Counted(context) ==
    LET low  == Plus(context.Length_Low, Word(0, 8))
        high == IF low = Zero THEN Plus(context.Length_High, Word(0, 1)) ELSE context.Length_High
    IN [context EXCEPT !.Length_Low = low, !.Length_High = high,
                       !.Corrupted = low = Zero /\ high = Zero]

(* The body of the loop of SHA1Input, on a context that is not corrupted.     *)
SHA1Input(context, octet) ==
    LET put == Counted(Put(context, octet))
    IN IF put.Message_Block_Index = 64 THEN SHA1ProcessMessageBlock(put) ELSE put

(* Zeros up to the place `to`.                                              *)
ZerosTo(context, to) ==
    [context EXCEPT
        !.Message_Block = [k \in 0 .. 63 |->
            IF k \in context.Message_Block_Index .. to - 1 THEN 0 ELSE @[k]],
        !.Message_Block_Index = to]

(* Mutant: one octet too late for a second block.                            *)
SpillsLate(context) == context.Message_Block_Index > 56

Spills(context) == context.Message_Block_Index > 55

SHA1PadMessage(context) ==
    LET marked == Put(context, 128)
        padded == IF Spills(context)
                  THEN ZerosTo(SHA1ProcessMessageBlock(ZerosTo(marked, 64)), 56)
                  ELSE ZerosTo(marked, 56)
        bits == Octets(context.Length_High) \o Octets(context.Length_Low)
    IN SHA1ProcessMessageBlock(
            [padded EXCEPT !.Message_Block =
                [k \in 0 .. 63 |-> IF k < 56 THEN @[k] ELSE bits[k - 55]]])

(* The digest is the intermediate hash, high octets first.                   *)
SHA1Result(context) ==
    LET padded == IF context.Computed THEN context ELSE SHA1PadMessage(context)
    IN [context |-> [padded EXCEPT !.Message_Block = [k \in 0 .. 63 |-> 0],
                                   !.Length_Low = Zero, !.Length_High = Zero, !.Computed = TRUE],
        digest |-> [k \in 1 .. 5 |-> padded.Intermediate_Hash[k]]]
=============================================================================
