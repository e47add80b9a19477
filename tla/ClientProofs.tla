---------------------------- MODULE ClientProofs ----------------------------
(***************************************************************************)
(* What the proofs about clients and their streams share: the sizes of a      *)
(* torrent, words and messages as bytes, and what a reader finds at the front *)
(* of a stream.                                                             *)
(***************************************************************************)
EXTENDS Client, SequenceTheorems, TLAPS

-----------------------------------------------------------------------------
(* Sizes                                                                    *)

LEMMA Sizes ==
    /\ MaxInt \in Nat
    /\ FileSize \in Nat \ {0} /\ PieceSize \in Nat \ {0}
    /\ FileSize < MaxInt /\ PieceSize < MaxInt /\ PieceSize + 9 <= MaxInt
    /\ no_of_peices \in Nat \ {0}
    /\ no_of_peices <= FileSize
    /\ (no_of_peices - 1) * PieceSize < FileSize
    /\ FileSize <= no_of_peices * PieceSize
<1> DEFINE q == FileSize \div PieceSize
           r == FileSize % PieceSize
<1>0. MaxInt \in Nat
  BY SMT DEF MaxInt
<1>1. /\ FileSize \in Nat \ {0} /\ PieceSize \in Nat \ {0}
      /\ FileSize < MaxInt /\ PieceSize < MaxInt /\ PieceSize + 9 <= MaxInt
  BY ClientAssumption, <1>0
<1>2. /\ q \in Nat /\ r \in Nat /\ r < PieceSize
      /\ FileSize = PieceSize * q + r
  BY <1>1
<1>3. no_of_peices = IF r # 0 THEN q + 1 ELSE q
  BY DEF no_of_peices
<1> HIDE DEF q, r
<1>4. r = 0 => q # 0
  BY <1>1, <1>2
<1>5. no_of_peices \in Nat \ {0}
  BY <1>2, <1>3, <1>4
<1>6. PieceSize * q = q * PieceSize /\ q <= PieceSize * q
  BY <1>1, <1>2
<1>7. no_of_peices <= FileSize
  BY <1>1, <1>2, <1>3, <1>6
<1>8. (q + 1) * PieceSize = q * PieceSize + PieceSize
  BY <1>1, <1>2
<1>9. (q - 1) * PieceSize = q * PieceSize - PieceSize
  BY <1>1, <1>2
<1>10. (no_of_peices - 1) * PieceSize < FileSize
  <2>1. CASE r # 0
    BY <1>1, <1>2, <1>3, <1>6, <2>1
  <2>2. CASE r = 0
    BY <1>1, <1>2, <1>3, <1>6, <1>9, <2>2
  <2> QED
    BY <2>1, <2>2
<1>11. FileSize <= no_of_peices * PieceSize
  BY <1>1, <1>2, <1>3, <1>6, <1>8
<1> QED
  BY <1>0, <1>1, <1>5, <1>7, <1>10, <1>11

(* A piece starts within the file and has bytes, PieceSize at most.           *)
LEMMA PieceFits ==
    ASSUME NEW p \in Pieces
    PROVE  /\ p \in Nat /\ p < MaxInt
           /\ p * PieceSize \in Nat
           /\ TrueLength(p) \in 1 .. PieceSize
           /\ p * PieceSize + TrueLength(p) <= FileSize
<1>1. p \in Nat /\ p <= no_of_peices - 1
  BY Sizes DEF Pieces
<1>2. /\ p * PieceSize \in Nat
      /\ (p + 1) * PieceSize = p * PieceSize + PieceSize
      /\ p * PieceSize <= (no_of_peices - 1) * PieceSize
  BY <1>1, Sizes
<1> DEFINE start == p * PieceSize
<1>3. start < FileSize
  <2>1. (no_of_peices - 1) * PieceSize \in Nat
    BY Sizes
  <2> QED
    BY <1>2, <2>1, Sizes
<1>4. TrueLength(p) = IF start + PieceSize <= FileSize THEN PieceSize ELSE FileSize - start
  BY <1>2 DEF TrueLength
<1> HIDE DEF start
<1>5. start \in Nat
  BY <1>2 DEF start
<1>6. /\ TrueLength(p) \in 1 .. PieceSize
      /\ start + TrueLength(p) <= FileSize
  BY <1>3, <1>4, <1>5, Sizes
<1> QED
  BY <1>1, <1>2, <1>6, Sizes DEF start

-----------------------------------------------------------------------------
(* Words                                                                    *)

Int31 == 0 .. MaxInt

(* A word has four bytes, and is read back as the number it was written for.  *)
LEMMA WordBytes ==
    ASSUME NEW n \in Int
    PROVE  /\ Word(n) \in Seq(Int)
           /\ Len(Word(n)) = 4
           /\ \A k \in 1 .. 4 : Word(n)[k] \in 0 .. 255
BY SMT DEF Word

LEMMA IntOfWord ==
    ASSUME NEW n \in Int31
    PROVE  IntOf(Word(n)) = n
<1> DEFINE a == n \div 256
           b == n \div 65536
           c == n \div 16777216
<1>1. n \in Nat /\ n <= 2147483647
  <2>1. n \in Nat /\ n <= MaxInt
    BY Sizes DEF Int31
  <2> QED
    BY <2>1, SMT DEF MaxInt
<1>2. a \in Nat /\ n % 256 \in 0 .. 255 /\ n = 256 * a + (n % 256)
  BY <1>1, SMT
<1>3. b \in Nat /\ b = a \div 256 /\ a % 256 \in 0 .. 255 /\ a = 256 * b + (a % 256)
  BY <1>1, SMTT(30)
<1>4. c \in Nat /\ c = b \div 256 /\ b % 256 \in 0 .. 255 /\ b = 256 * c + (b % 256)
  BY <1>1, SMT
<1>5. c < 128 /\ c % 256 = c
  BY <1>1, SMT
<1>6. Word(n) = <<c % 256, b % 256, a % 256, n % 256>>
  BY SMT DEF Word
<1> HIDE DEF a, b, c
<1>7. IntOf(Word(n)) = c * 16777216 + (b % 256) * 65536 + (a % 256) * 256 + (n % 256)
  BY <1>4, <1>5, <1>6, SMT DEF IntOf
<1> QED
  BY <1>1, <1>2, <1>3, <1>4, <1>7, SMT

(* The four bytes of s from k on are the word of n.                          *)
HasWord(s, k, n) == \A j \in 1 .. 4 : s[k + j - 1] = Word(n)[j]

LEMMA FourBytesThere ==
    ASSUME NEW s, NEW k \in Nat, NEW n,
           s[k] = Word(n)[1], s[k + 1] = Word(n)[2],
           s[k + 2] = Word(n)[3], s[k + 3] = Word(n)[4]
    PROVE  HasWord(s, k, n)
<1> SUFFICES ASSUME NEW j \in 1 .. 4 PROVE s[k + j - 1] = Word(n)[j]
  BY DEF HasWord
<1>1. \/ j = 1 /\ k + j - 1 = k
      \/ j = 2 /\ k + j - 1 = k + 1
      \/ j = 3 /\ k + j - 1 = k + 2
      \/ j = 4 /\ k + j - 1 = k + 3
  OBVIOUS
<1> QED
  BY <1>1

LEMMA FourBytesAre ==
    ASSUME NEW s, NEW k \in Nat, NEW n, HasWord(s, k, n)
    PROVE  /\ s[k] = Word(n)[1] /\ s[k + 1] = Word(n)[2]
           /\ s[k + 2] = Word(n)[3] /\ s[k + 3] = Word(n)[4]
<1>1. k + 1 - 1 = k /\ k + 2 - 1 = k + 1 /\ k + 3 - 1 = k + 2 /\ k + 4 - 1 = k + 3
  OBVIOUS
<1> QED
  BY <1>1 DEF HasWord

LEMMA BytesThere ==
    ASSUME NEW s \in Seq(Int), NEW f \in Nat \ {0}, NEW l \in Nat, l <= Len(s),
           NEW k \in 1 .. l - f + 1
    PROVE  Bytes(s, f, l)[k] = s[f + k - 1]
<1>1. f + k - 1 <= Len(s)
  OBVIOUS
<1>2. Bytes(s, f, l)[k] = IF f + k - 1 <= Len(s) THEN s[f + k - 1] ELSE 0
  BY DEF Bytes
<1> QED
  BY <1>1, <1>2

LEMMA FourBytes ==
    ASSUME NEW s \in Seq(Int), NEW k \in Nat \ {0}, k + 3 <= Len(s)
    PROVE  WordAt(s, k) = IntOf(<<s[k], s[k + 1], s[k + 2], s[k + 3]>>)
<1> DEFINE t == Bytes(s, k, k + 3)
<1>1. \A j \in 1 .. 4 : t[j] = s[k + j - 1]
  <2> TAKE j \in 1 .. 4
  <2>1. k + 3 \in Nat /\ j \in 1 .. (k + 3) - k + 1
    OBVIOUS
  <2> QED
    BY <2>1, BytesThere
<1> HIDE DEF t
<1>2. t[1] = s[k] /\ t[2] = s[k + 1] /\ t[3] = s[k + 2] /\ t[4] = s[k + 3]
  BY <1>1
<1>3. IntOf(t) = IntOf(<<s[k], s[k + 1], s[k + 2], s[k + 3]>>)
  BY <1>2, SMT DEF IntOf
<1> QED
  BY <1>3 DEF WordAt, t

LEMMA WordIsRead ==
    ASSUME NEW s \in Seq(Int), NEW k \in Nat \ {0}, k + 3 <= Len(s),
           NEW n \in Int31, HasWord(s, k, n)
    PROVE  WordAt(s, k) = n
<1>1. /\ s[k] = Word(n)[1] /\ s[k + 1] = Word(n)[2]
      /\ s[k + 2] = Word(n)[3] /\ s[k + 3] = Word(n)[4]
  BY DEF HasWord
<1>2. <<Word(n)[1], Word(n)[2], Word(n)[3], Word(n)[4]>> = Word(n)
  BY SMT DEF Word
<1> QED
  BY <1>1, <1>2, FourBytes, IntOfWord

LEMMA WordIsInt ==
    ASSUME NEW s \in Seq(Int), NEW k \in Nat \ {0}
    PROVE  WordAt(s, k) \in Int
<1> DEFINE t == Bytes(s, k, k + 3)
<1>1. \A j \in 1 .. (k + 3) - k + 1 : t[j] \in Int
  BY DEF Bytes
<1> HIDE DEF t
<1>2. t[1] \in Int /\ t[2] \in Int /\ t[3] \in Int /\ t[4] \in Int
  BY <1>1
<1> DEFINE first == IF t[1] >= 128 THEN t[1] - 256 ELSE t[1]
           a == first * 16777216
           b == t[2] * 65536
           c == t[3] * 256
<1>3. first \in Int
  BY <1>2
<1>4. a \in Int /\ b \in Int /\ c \in Int
  <2> HIDE DEF first
  <2> QED
    BY <1>2, <1>3, SMT
<1>5. IntOf(t) = a + b + c + t[4]
  BY SMT DEF IntOf
<1> HIDE DEF a, b, c
<1>6. IntOf(t) \in Int
  BY <1>2, <1>4, <1>5
<1> QED
  BY <1>6 DEF WordAt, t

-----------------------------------------------------------------------------
ConnType ==
    [in_use : BOOLEAN, am_chocking : BOOLEAN, am_intersted : BOOLEAN,
     peer_chocking : BOOLEAN, peer_intersted : BOOLEAN, request_sent : BOOLEAN,
     intersted_peice : Int, bit_field : (SUBSET Int) \cup {NULL}]

Procs == {"up", "killed", "crashed", "exited", "overrun"}

ClientType ==
    [proc : Procs, seeder : BOOLEAN, swaps : BOOLEAN, uploaded : Int,
     bits : SUBSET Int, stat : [Index -> Status], rank : [Pieces -> Nat],
     conn : [Slots -> ConnType]]

(* The client with another record in slot i, and with another process state.  *)
WithSlot(c, i, d) == [c EXCEPT !.conn[i] = d]

(* What a handler sends to one slot or to none.                               *)
LEMMA Outs ==
    /\ \A k \in Slots : Silence[k] = <<>>
    /\ \A i \in Slots : \A m : To(i, m)[i] = m /\ \A k \in Slots \ {i} : To(i, m)[k] = <<>>
BY DEF Silence, To

-----------------------------------------------------------------------------
(* The bytes of messages                                                    *)

(* m is a message with the number id, whose length field says n.             *)
Shape(m, id, n) ==
    /\ m \in Seq(Int)
    /\ n \in Int31 \ {0}
    /\ Len(m) = 4 + n
    /\ HasWord(m, 1, n)
    /\ m[5] = id

(* The elements of two sequences joined.                                     *)
LEMMA Joined ==
    ASSUME NEW a \in Seq(Int), NEW b \in Seq(Int)
    PROVE  /\ a \o b \in Seq(Int)
           /\ Len(a \o b) = Len(a) + Len(b)
           /\ \A k \in 1 .. Len(a) : (a \o b)[k] = a[k]
           /\ \A k \in 1 .. Len(b) : (a \o b)[Len(a) + k] = b[k]
OBVIOUS

LEMMA MessageBytes ==
    ASSUME NEW id \in Int, NEW q \in Seq(Int), 1 + Len(q) \in Int31
    PROVE  /\ Shape(Message(id, q), id, 1 + Len(q))
           /\ \A k \in 1 .. Len(q) : Message(id, q)[5 + k] = q[k]
<1> DEFINE w == Word(1 + Len(q))
<1>1. w \in Seq(Int) /\ Len(w) = 4
  BY WordBytes
<1>2. Message(id, q) = (w \o <<id>>) \o q
  BY DEF Message
<1> HIDE DEF w
<1> DEFINE h == w \o <<id>>
<1>3. /\ h \in Seq(Int) /\ Len(h) = 5 /\ h[5] = id
      /\ \A k \in 1 .. 4 : h[k] = w[k]
  <2> DEFINE b == <<id>>
  <2>1. b \in Seq(Int) /\ Len(b) = 1 /\ b[1] = id
    OBVIOUS
  <2> HIDE DEF b
  <2>2. /\ h \in Seq(Int) /\ Len(h) = Len(w) + Len(b)
        /\ \A k \in 1 .. Len(w) : h[k] = w[k]
        /\ \A k \in 1 .. Len(b) : h[Len(w) + k] = b[k]
    BY <1>1, <2>1, Joined DEF b
  <2> QED
    BY <1>1, <2>1, <2>2
<1> HIDE DEF h
<1> DEFINE m == Message(id, q)
<1>4. /\ m \in Seq(Int) /\ Len(m) = 5 + Len(q)
      /\ \A k \in 1 .. 5 : m[k] = h[k]
      /\ \A k \in 1 .. Len(q) : m[5 + k] = q[k]
  <2>1. m = h \o q
    BY <1>2 DEF h
  <2> HIDE DEF m
  <2>2. /\ m \in Seq(Int) /\ Len(m) = Len(h) + Len(q)
        /\ \A k \in 1 .. Len(h) : m[k] = h[k]
        /\ \A k \in 1 .. Len(q) : m[Len(h) + k] = q[k]
    BY <1>3, <2>1, Joined
  <2> QED
    BY <1>3, <2>2
<1> HIDE DEF m
<1>5. HasWord(m, 1, 1 + Len(q))
  <2> DEFINE one == 1
             len == 1 + Len(q)
  <2>1. m[1] = w[1] /\ m[2] = w[2] /\ m[3] = w[3] /\ m[4] = w[4]
    <3>1. h[1] = w[1] /\ h[2] = w[2] /\ h[3] = w[3] /\ h[4] = w[4]
      BY <1>3
    <3>2. m[1] = h[1] /\ m[2] = h[2] /\ m[3] = h[3] /\ m[4] = h[4]
      BY <1>4
    <3> QED
      BY <3>1, <3>2
  <2>2. /\ m[one] = Word(len)[1] /\ m[one + 1] = Word(len)[2]
        /\ m[one + 2] = Word(len)[3] /\ m[one + 3] = Word(len)[4]
        /\ one \in Nat
    BY <2>1 DEF w
  <2> HIDE DEF one, len
  <2>3. HasWord(m, one, len)
    BY <2>2, FourBytesThere
  <2> QED
    BY <2>3 DEF one, len
<1>6. 1 + Len(q) # 0 /\ m[5] = id
  BY <1>3, <1>4
<1> QED
  BY <1>3, <1>4, <1>5, <1>6 DEF Shape, m

LEMMA SmallInts == \A n \in 0 .. 13 : n \in Int31
<1>1. 13 <= MaxInt
  BY SMT DEF MaxInt
<1> QED
  BY <1>1, Sizes DEF Int31

LEMMA EmptyMessage ==
    ASSUME NEW id \in Int
    PROVE  Shape(Message(id, <<>>), id, 1)
<1>1. <<>> \in Seq(Int) /\ 1 + Len(<<>>) = 1
  OBVIOUS
<1>2. 1 \in Int31
  BY SmallInts
<1> QED
  BY <1>1, <1>2, MessageBytes

LEMMA KeepAliveBytes ==
    KeepAlive \in Seq(Int) /\ Len(KeepAlive) = 4 /\ HasWord(KeepAlive, 1, 0)
BY WordBytes DEF KeepAlive, HasWord

(* A request and a cancel message: three words after the number.              *)
LEMMA ThreeWords ==
    ASSUME NEW id \in Int, NEW p \in Int, NEW b \in Int, NEW n \in Int
    PROVE  LET m == Message(id, Word(p) \o Word(b) \o Word(n))
           IN /\ Shape(m, id, 13)
              /\ HasWord(m, 6, p) /\ HasWord(m, 10, b) /\ HasWord(m, 14, n)
<1> DEFINE wp == Word(p)
           wb == Word(b)
           wn == Word(n)
           pb == wp \o wb
           q  == pb \o wn
           m  == Message(id, q)
<1>1. /\ wp \in Seq(Int) /\ Len(wp) = 4
      /\ wb \in Seq(Int) /\ Len(wb) = 4
      /\ wn \in Seq(Int) /\ Len(wn) = 4
  BY WordBytes
<1> HIDE DEF wp, wb, wn
<1>2. /\ pb \in Seq(Int) /\ Len(pb) = 8
      /\ \A k \in 1 .. 4 : pb[k] = wp[k] /\ pb[4 + k] = wb[k]
  <2>1. /\ pb \in Seq(Int) /\ Len(pb) = Len(wp) + Len(wb)
        /\ \A k \in 1 .. Len(wp) : pb[k] = wp[k]
        /\ \A k \in 1 .. Len(wb) : pb[Len(wp) + k] = wb[k]
    BY <1>1, Joined
  <2> HIDE DEF pb
  <2> QED
    BY <1>1, <2>1
<1> HIDE DEF pb
<1>3. /\ q \in Seq(Int) /\ Len(q) = 12
      /\ \A k \in 1 .. 8 : q[k] = pb[k]
      /\ \A k \in 1 .. 4 : q[8 + k] = wn[k]
  <2>1. /\ q \in Seq(Int) /\ Len(q) = Len(pb) + Len(wn)
        /\ \A k \in 1 .. Len(pb) : q[k] = pb[k]
        /\ \A k \in 1 .. Len(wn) : q[Len(pb) + k] = wn[k]
    BY <1>1, <1>2, Joined
  <2> HIDE DEF q
  <2> QED
    BY <1>1, <1>2, <2>1
<1> HIDE DEF q
<1>4. 1 + Len(q) = 13 /\ 13 \in Int31
  BY <1>3, SmallInts
<1>5. Shape(m, id, 13) /\ \A k \in 1 .. 12 : m[5 + k] = q[k]
  <2>1. Shape(m, id, 1 + Len(q)) /\ \A k \in 1 .. Len(q) : m[5 + k] = q[k]
    BY <1>3, <1>4, MessageBytes
  <2> QED
    BY <1>3, <1>4, <2>1
<1> HIDE DEF m
<1>6. /\ m[6] = wp[1] /\ m[7] = wp[2] /\ m[8] = wp[3] /\ m[9] = wp[4]
      /\ m[10] = wb[1] /\ m[11] = wb[2] /\ m[12] = wb[3] /\ m[13] = wb[4]
      /\ m[14] = wn[1] /\ m[15] = wn[2] /\ m[16] = wn[3] /\ m[17] = wn[4]
  <2>1. /\ pb[1] = wp[1] /\ pb[2] = wp[2] /\ pb[3] = wp[3] /\ pb[4] = wp[4]
        /\ pb[5] = wb[1] /\ pb[6] = wb[2] /\ pb[7] = wb[3] /\ pb[8] = wb[4]
    BY <1>2
  <2>2. /\ q[1] = pb[1] /\ q[2] = pb[2] /\ q[3] = pb[3] /\ q[4] = pb[4]
        /\ q[5] = pb[5] /\ q[6] = pb[6] /\ q[7] = pb[7] /\ q[8] = pb[8]
        /\ q[9] = wn[1] /\ q[10] = wn[2] /\ q[11] = wn[3] /\ q[12] = wn[4]
    BY <1>3
  <2>3. /\ m[6] = q[1] /\ m[7] = q[2] /\ m[8] = q[3] /\ m[9] = q[4]
        /\ m[10] = q[5] /\ m[11] = q[6] /\ m[12] = q[7] /\ m[13] = q[8]
        /\ m[14] = q[9] /\ m[15] = q[10] /\ m[16] = q[11] /\ m[17] = q[12]
    BY <1>5
  <2> QED
    BY <2>1, <2>2, <2>3
<1>7. HasWord(m, 6, p) /\ HasWord(m, 10, b) /\ HasWord(m, 14, n)
  <2>1. /\ m[6] = wp[1] /\ m[6 + 1] = wp[2] /\ m[6 + 2] = wp[3] /\ m[6 + 3] = wp[4]
        /\ m[10] = wb[1] /\ m[10 + 1] = wb[2] /\ m[10 + 2] = wb[3] /\ m[10 + 3] = wb[4]
        /\ m[14] = wn[1] /\ m[14 + 1] = wn[2] /\ m[14 + 2] = wn[3] /\ m[14 + 3] = wn[4]
    BY <1>6
  <2> QED
    BY <2>1, FourBytesThere DEF wp, wb, wn
<1> QED
  BY <1>5, <1>7 DEF m, q, pb, wp, wb, wn

(* A have message: one word after the number.                                *)
LEMMA OneWord ==
    ASSUME NEW p \in Int
    PROVE  LET m == Message(HAVE_PEICE, Word(p))
           IN Shape(m, HAVE_PEICE, 5) /\ HasWord(m, 6, p)
<1> DEFINE q == Word(p)
           m == Message(HAVE_PEICE, q)
<1>1. q \in Seq(Int) /\ Len(q) = 4
  BY WordBytes
<1> HIDE DEF q
<1>2. 1 + Len(q) = 5 /\ 5 \in Int31
  BY <1>1, SmallInts
<1>3. Shape(m, HAVE_PEICE, 5) /\ \A k \in 1 .. 4 : m[5 + k] = q[k]
  <2>1. HAVE_PEICE \in Int
    BY DEF HAVE_PEICE
  <2>2. Shape(m, HAVE_PEICE, 1 + Len(q)) /\ \A k \in 1 .. Len(q) : m[5 + k] = q[k]
    BY <1>1, <1>2, <2>1, MessageBytes
  <2> QED
    BY <1>1, <1>2, <2>2
<1> HIDE DEF m
<1>4. HasWord(m, 6, p)
  <2>1. m[6] = q[1] /\ m[6 + 1] = q[2] /\ m[6 + 2] = q[3] /\ m[6 + 3] = q[4]
    BY <1>3
  <2> QED
    BY <2>1, FourBytesThere DEF q
<1> QED
  BY <1>3, <1>4 DEF m, q

(* A block: two words and the data.                                          *)
LEMMA PeiceBytes ==
    ASSUME NEW p \in Int, NEW b \in Int, NEW n \in Nat, 9 + n \in Int31
    PROVE  LET m == PeiceMessage(p, b, Data(p, b, n))
           IN /\ Shape(m, PEICE, 9 + n)
              /\ HasWord(m, 6, p) /\ HasWord(m, 10, b)
              /\ \A k \in 1 .. n : m[13 + k] = 100 + p
<1> DEFINE data == Data(p, b, n)
           wp == Word(p)
           wb == Word(b)
           pb == wp \o wb
           q  == pb \o data
           m  == Message(PEICE, q)
<1>1. /\ wp \in Seq(Int) /\ Len(wp) = 4
      /\ wb \in Seq(Int) /\ Len(wb) = 4
  BY WordBytes
<1>2. data \in Seq(Int) /\ Len(data) = n /\ \A k \in 1 .. n : data[k] = 100 + p
  BY DEF Data
<1>3. m = PeiceMessage(p, b, Data(p, b, n))
  BY DEF PeiceMessage
<1> HIDE DEF wp, wb, data
<1>4. /\ pb \in Seq(Int) /\ Len(pb) = 8
      /\ \A k \in 1 .. 4 : pb[k] = wp[k] /\ pb[4 + k] = wb[k]
  <2>1. /\ pb \in Seq(Int) /\ Len(pb) = Len(wp) + Len(wb)
        /\ \A k \in 1 .. Len(wp) : pb[k] = wp[k]
        /\ \A k \in 1 .. Len(wb) : pb[Len(wp) + k] = wb[k]
    BY <1>1, Joined
  <2> HIDE DEF pb
  <2> QED
    BY <1>1, <2>1
<1> HIDE DEF pb
<1>5. /\ q \in Seq(Int) /\ Len(q) = 8 + n
      /\ \A k \in 1 .. 8 : q[k] = pb[k]
      /\ \A k \in 1 .. n : q[8 + k] = data[k]
  <2>1. /\ q \in Seq(Int) /\ Len(q) = Len(pb) + Len(data)
        /\ \A k \in 1 .. Len(pb) : q[k] = pb[k]
        /\ \A k \in 1 .. Len(data) : q[Len(pb) + k] = data[k]
    BY <1>2, <1>4, Joined
  <2> HIDE DEF q
  <2> QED
    BY <1>2, <1>4, <2>1
<1> HIDE DEF q
<1>6. Shape(m, PEICE, 9 + n) /\ \A k \in 1 .. 8 + n : m[5 + k] = q[k]
  <2>1. PEICE \in Int /\ 1 + Len(q) = 9 + n
    BY <1>5 DEF PEICE
  <2>2. Shape(m, PEICE, 1 + Len(q)) /\ \A k \in 1 .. Len(q) : m[5 + k] = q[k]
    BY <1>5, <2>1, MessageBytes
  <2> QED
    BY <1>5, <2>1, <2>2
<1> HIDE DEF m
<1>7. /\ m[6] = wp[1] /\ m[7] = wp[2] /\ m[8] = wp[3] /\ m[9] = wp[4]
      /\ m[10] = wb[1] /\ m[11] = wb[2] /\ m[12] = wb[3] /\ m[13] = wb[4]
  <2>1. /\ pb[1] = wp[1] /\ pb[2] = wp[2] /\ pb[3] = wp[3] /\ pb[4] = wp[4]
        /\ pb[5] = wb[1] /\ pb[6] = wb[2] /\ pb[7] = wb[3] /\ pb[8] = wb[4]
    BY <1>4
  <2>2. /\ q[1] = pb[1] /\ q[2] = pb[2] /\ q[3] = pb[3] /\ q[4] = pb[4]
        /\ q[5] = pb[5] /\ q[6] = pb[6] /\ q[7] = pb[7] /\ q[8] = pb[8]
    BY <1>5
  <2>3. /\ m[6] = q[1] /\ m[7] = q[2] /\ m[8] = q[3] /\ m[9] = q[4]
        /\ m[10] = q[5] /\ m[11] = q[6] /\ m[12] = q[7] /\ m[13] = q[8]
    BY <1>6
  <2> QED
    BY <2>1, <2>2, <2>3
<1>8. HasWord(m, 6, p) /\ HasWord(m, 10, b)
  <2>1. /\ m[6] = wp[1] /\ m[6 + 1] = wp[2] /\ m[6 + 2] = wp[3] /\ m[6 + 3] = wp[4]
        /\ m[10] = wb[1] /\ m[10 + 1] = wb[2] /\ m[10 + 2] = wb[3] /\ m[10 + 3] = wb[4]
    BY <1>7
  <2> QED
    BY <2>1, FourBytesThere DEF wp, wb
<1>9. \A k \in 1 .. n : m[13 + k] = 100 + p
  <2> TAKE k \in 1 .. n
  <2>1. 8 + k \in 1 .. 8 + n /\ 5 + (8 + k) = 13 + k
    OBVIOUS
  <2>2. m[13 + k] = q[8 + k]
    BY <1>6, <2>1
  <2> QED
    BY <1>2, <1>5, <2>2
<1> QED
  BY <1>3, <1>6, <1>8, <1>9

LEMMA FieldSize ==
    /\ bit_field_size(no_of_peices) \in Nat
    /\ 1 + bit_field_size(no_of_peices) \in Int31 \ {0}
<1> DEFINE n == no_of_peices
           q == n \div 8
<1>1. n \in Nat \ {0} /\ n < MaxInt /\ MaxInt \in Nat
  BY Sizes
<1>2. q \in Nat /\ 8 * q <= n /\ (n % 8 # 0 => 8 * q < n)
  BY <1>1
<1>3. bit_field_size(n) = IF n % 8 # 0 THEN q + 1 ELSE q
  BY DEF bit_field_size
<1> HIDE DEF n, q
<1>4. bit_field_size(n) \in Nat /\ bit_field_size(n) <= n
  BY <1>1, <1>2, <1>3
<1> QED
  BY <1>1, <1>4 DEF n, Int31

(* A bit field message, and its bytes when no bit is set.                     *)
LEMMA BitFieldMessageBytes ==
    ASSUME NEW has \in SUBSET Pieces
    PROVE  LET m == BitFieldMessage(has, no_of_peices)
               q == BitFieldBytes(has, no_of_peices)
           IN /\ Shape(m, BIT_FIELD, 1 + bit_field_size(no_of_peices))
              /\ q \in Seq(Int) /\ Len(q) = bit_field_size(no_of_peices)
              /\ \A k \in 1 .. bit_field_size(no_of_peices) : m[5 + k] = q[k]
              /\ has = {} => \A k \in 1 .. bit_field_size(no_of_peices) : m[5 + k] = 0
<1> DEFINE n == bit_field_size(no_of_peices)
           q == BitFieldBytes(has, no_of_peices)
           bit(k, b) == IF 8 * (k - 1) + b - 1 \in has THEN Weight[b] ELSE 0
<1>1. n \in Nat /\ 1 + n \in Int31
  BY FieldSize
<1>2. \A k \in 1 .. n, b \in 1 .. 8 : bit(k, b) \in Int /\ (has = {} => bit(k, b) = 0)
  BY DEF Weight
<1>3. q = [k \in 1 .. n |-> bit(k, 1) + bit(k, 2) + bit(k, 3) + bit(k, 4)
                + bit(k, 5) + bit(k, 6) + bit(k, 7) + bit(k, 8)]
  BY DEF BitFieldBytes
<1> HIDE DEF n, q, bit
<1>4. \A k \in 1 .. n : q[k] \in Int /\ (has = {} => q[k] = 0)
  <2> TAKE k \in 1 .. n
  <2>1. /\ bit(k, 1) \in Int /\ bit(k, 2) \in Int /\ bit(k, 3) \in Int /\ bit(k, 4) \in Int
        /\ bit(k, 5) \in Int /\ bit(k, 6) \in Int /\ bit(k, 7) \in Int /\ bit(k, 8) \in Int
    BY <1>2
  <2>2. has = {} =>
          /\ bit(k, 1) = 0 /\ bit(k, 2) = 0 /\ bit(k, 3) = 0 /\ bit(k, 4) = 0
          /\ bit(k, 5) = 0 /\ bit(k, 6) = 0 /\ bit(k, 7) = 0 /\ bit(k, 8) = 0
    BY <1>2
  <2>3. q[k] = bit(k, 1) + bit(k, 2) + bit(k, 3) + bit(k, 4)
                 + bit(k, 5) + bit(k, 6) + bit(k, 7) + bit(k, 8)
    BY <1>3
  <2> QED
    BY <2>1, <2>2, <2>3
<1>5. q \in Seq(Int) /\ Len(q) = n
  <2>1. q \in [1 .. n -> Int]
    BY <1>3, <1>4
  <2> QED
    BY <1>1, <2>1
<1>6. /\ Shape(Message(BIT_FIELD, q), BIT_FIELD, 1 + n)
      /\ \A k \in 1 .. n : Message(BIT_FIELD, q)[5 + k] = q[k]
  <2>1. /\ Shape(Message(BIT_FIELD, q), BIT_FIELD, 1 + Len(q))
        /\ \A k \in 1 .. Len(q) : Message(BIT_FIELD, q)[5 + k] = q[k]
    <3>1. 1 + Len(q) \in Int31 /\ BIT_FIELD \in Int
      BY <1>1, <1>5 DEF BIT_FIELD
    <3> QED
      BY <1>5, <3>1, MessageBytes
  <2> QED
    BY <1>5, <2>1
<1>7. has = {} => \A k \in 1 .. n : Message(BIT_FIELD, q)[5 + k] = 0
  BY <1>4, <1>6
<1> QED
  BY <1>5, <1>6, <1>7 DEF BitFieldMessage, n, q

-----------------------------------------------------------------------------
(* The front of a stream                                                    *)

(* The message m stands in s from place h on.                                *)
Here(m, s, h) ==
    /\ h + Len(m) - 1 <= Len(s)
    /\ \A k \in 1 .. Len(m) : s[h + k - 1] = m[k]

LEMMA HereAtOne ==
    ASSUME NEW s \in Seq(Int), NEW m \in Seq(Int), Here(m, s, 1)
    PROVE  Len(m) <= Len(s) /\ \A k \in 1 .. Len(m) : s[k] = m[k]
<1>1. 1 + Len(m) - 1 = Len(m) /\ \A k \in 1 .. Len(m) : 1 + k - 1 = k
  OBVIOUS
<1>2. /\ 1 + Len(m) - 1 <= Len(s)
      /\ \A k \in 1 .. Len(m) : s[1 + k - 1] = m[k]
  BY DEF Here
<1> QED
  BY <1>1, <1>2

(* What has arrived, w, of a stream that begins with m, is the front of m.     *)
Begins(m, w, t) == Here(m, w \o t, 1)

FrontOf(w, m) == \A k \in 1 .. Len(m) : k <= Len(w) => w[k] = m[k]

LEMMA Arrived ==
    ASSUME NEW w \in Seq(Int), NEW t \in Seq(Int), NEW m \in Seq(Int),
           Begins(m, w, t)
    PROVE  FrontOf(w, m)
<1> DEFINE s == w \o t
<1>1. s \in Seq(Int) /\ \A k \in 1 .. Len(w) : s[k] = w[k]
  BY Joined
<1> HIDE DEF s
<1>2. \A k \in 1 .. Len(m) : s[k] = m[k]
  <2>1. Here(m, s, 1)
    BY DEF s, Begins
  <2> QED
    BY <1>1, <2>1, HereAtOne
<1> QED
  BY <1>1, <1>2 DEF FrontOf

(* A word of a message is a word of what has arrived of it.                   *)
LEMMA WordArrived ==
    ASSUME NEW w \in Seq(Int), NEW m \in Seq(Int),
           FrontOf(w, m), NEW k \in Nat \ {0}, NEW n \in Int31, HasWord(m, k, n),
           k + 3 <= Len(m), k + 3 <= Len(w)
    PROVE  WordAt(w, k) = n
<1>1. /\ m[k] = Word(n)[1] /\ m[k + 1] = Word(n)[2]
      /\ m[k + 2] = Word(n)[3] /\ m[k + 3] = Word(n)[4]
  BY FourBytesAre
<1> DEFINE lm == Len(m)
           lw == Len(w)
<1>2. /\ lm \in Nat /\ lw \in Nat /\ k + 3 <= lm /\ k + 3 <= lw
      /\ \A j \in 1 .. lm : j <= lw => w[j] = m[j]
  BY DEF FrontOf
<1> HIDE DEF lm, lw
<1>3. w[k] = m[k] /\ w[k + 1] = m[k + 1] /\ w[k + 2] = m[k + 2] /\ w[k + 3] = m[k + 3]
  <2>1. /\ k \in 1 .. lm /\ k <= lw /\ k + 1 \in 1 .. lm /\ k + 1 <= lw
        /\ k + 2 \in 1 .. lm /\ k + 2 <= lw /\ k + 3 \in 1 .. lm /\ k + 3 <= lw
    BY <1>2
  <2> QED
    BY <1>2, <2>1
<1>4. HasWord(w, k, n)
  <2>1. /\ w[k] = Word(n)[1] /\ w[k + 1] = Word(n)[2]
        /\ w[k + 2] = Word(n)[3] /\ w[k + 3] = Word(n)[4]
    BY <1>1, <1>3
  <2> QED
    BY <2>1, FourBytesThere
<1> QED
  BY <1>4, WordIsRead

LEMMA HereIsPrefix ==
    ASSUME NEW s \in Seq(Int), NEW m \in Seq(Int), Here(m, s, 1)
    PROVE  IsPrefix(m, s)
<1>1. Len(m) <= Len(s) /\ \A k \in 1 .. Len(m) : s[k] = m[k]
  BY HereAtOne
<1>2. SubSeq(m, 1, Len(m)) = SubSeq(s, 1, Len(m))
  BY <1>1
<1> QED
  BY <1>1, <1>2 DEF IsPrefix

(* What has arrived, w, of a stream that begins with m: nothing happens before *)
(* number and length are there, and they are read as they were written.      *)
HeaderThere(w) == Len(w) >= 5

LEMMA HeaderIsRead ==
    ASSUME NEW c, NEW i, NEW w \in Seq(Int), NEW t \in Seq(Int),
           NEW m, NEW id, NEW n, Shape(m, id, n), Begins(m, w, t)
    PROVE  /\ Reactions(c, i, w, FALSE) # {} => HeaderThere(w)
           /\ HeaderThere(w) => /\ Reactions(c, i, w, FALSE) = Handle(c, i, w, FALSE)
                                /\ w[5] = id /\ WordAt(w, 1) = n
           /\ FrontOf(w, m)
<1>1. /\ m \in Seq(Int) /\ n \in Int31 \ {0} /\ Len(m) = 4 + n
      /\ HasWord(m, 1, n) /\ m[5] = id /\ n \in Nat \ {0}
  BY Sizes DEF Shape, Int31
<1>2. FrontOf(w, m)
  BY <1>1, Arrived
<1>3. Len(w) >= 4 => WordAt(w, 1) = n
  <2> SUFFICES ASSUME Len(w) >= 4 PROVE WordAt(w, 1) = n
    OBVIOUS
  <2>1. 1 + 3 <= Len(m) /\ 1 + 3 <= Len(w) /\ 1 \in Nat \ {0}
    BY <1>1
  <2> QED
    BY <1>1, <1>2, <2>1, WordArrived
<1>4. Len(w) >= 5 => w[5] = id
  BY <1>1, <1>2 DEF FrontOf
<1> DEFINE len == Len(w)
<1>8. len \in Nat
  OBVIOUS
<1> HIDE DEF len
<1>5. len < 4 => Reactions(c, i, w, FALSE) = {}
  BY DEF Reactions, len
<1>6. len = 4 => Reactions(c, i, w, FALSE) = {}
  <2> SUFFICES ASSUME len = 4 PROVE Reactions(c, i, w, FALSE) = {}
    OBVIOUS
  <2>1. ~(len < 4) /\ WordAt(w, 1) # 0
    BY <1>1, <1>3 DEF len
  <2> QED
    BY <2>1 DEF Reactions, len
<1>7. len >= 5 => Reactions(c, i, w, FALSE) = Handle(c, i, w, FALSE)
  <2> SUFFICES ASSUME len >= 5
               PROVE  Reactions(c, i, w, FALSE) = Handle(c, i, w, FALSE)
    OBVIOUS
  <2>1. ~(len < 4) /\ len # 4 /\ len >= 4
    BY <1>8
  <2>2. WordAt(w, 1) # 0
    BY <1>1, <1>3, <2>1 DEF len
  <2> QED
    BY <2>1, <2>2 DEF Reactions, len
<1>9. (Reactions(c, i, w, FALSE) # {} => len >= 5)
  <2>1. len < 4 \/ len = 4 \/ len >= 5
    BY <1>8
  <2> QED
    BY <1>5, <1>6, <2>1
<1>10. len >= 5 => len >= 4
  BY <1>8
<1> QED
  BY <1>2, <1>3, <1>4, <1>7, <1>9, <1>10 DEF len, HeaderThere

Coming(m, id, n, w, t) ==
    /\ w \in Seq(Int) /\ t \in Seq(Int)
    /\ Shape(m, id, n)
    /\ Begins(m, w, t)

LEMMA HandlerOf ==
    ASSUME NEW m, NEW id, NEW n, NEW w, NEW t, Coming(m, id, n, w, t),
           NEW c, NEW i, NEW r \in Reactions(c, i, w, FALSE)
    PROVE  /\ HeaderThere(w)
           /\ w[5] = id /\ WordAt(w, 1) = n
           /\ r \in Handle(c, i, w, FALSE)
           /\ FrontOf(w, m)
<1>1. /\ Reactions(c, i, w, FALSE) # {} => HeaderThere(w)
      /\ HeaderThere(w) => /\ Reactions(c, i, w, FALSE) = Handle(c, i, w, FALSE)
                           /\ w[5] = id /\ WordAt(w, 1) = n
      /\ FrontOf(w, m)
  BY HeaderIsRead DEF Coming
<1> QED
  BY <1>1

LEMMA HandleIs ==
    ASSUME NEW c, NEW i, NEW s, NEW eof
    PROVE  /\ s[5] = INTERSTED => Handle(c, i, s, eof) = ReadIntersted(c, i)
           /\ s[5] = NOT_INTERSTED => Handle(c, i, s, eof) = ReadNotIntersted(c, i)
           /\ s[5] = BIT_FIELD => Handle(c, i, s, eof) = ReadBitField(c, i, s, eof)
           /\ s[5] = HAVE_PEICE => Handle(c, i, s, eof) = ReadHave(c, i, s, eof)
           /\ s[5] = REQUEST => Handle(c, i, s, eof) = ReadRequest(c, i, s, eof)
BY DEF Handle, CHOKE, UNCHOKE, INTERSTED, NOT_INTERSTED, HAVE_PEICE, BIT_FIELD, REQUEST,
       PEICE, CANCLE

(* A sequence without its first l elements.                                  *)
LEMMA Dropped ==
    ASSUME NEW S, NEW s \in Seq(S), NEW l \in 0 .. Len(s)
    PROVE  LET u == SubSeq(s, l + 1, Len(s))
           IN /\ u \in Seq(S) /\ Len(u) = Len(s) - l
              /\ \A k \in 1 .. Len(s) - l : u[k] = s[l + k]
<1>1. SubSeq(s, l + 1, Len(s)) \in Seq(S)
  OBVIOUS
<1>2. Len(SubSeq(s, l + 1, Len(s))) = Len(s) - l
  OBVIOUS
<1>3. ASSUME NEW k \in 1 .. Len(s) - l
      PROVE  SubSeq(s, l + 1, Len(s))[k] = s[l + k]
  <2>1. k \in Nat /\ l \in Nat /\ Len(s) \in Nat /\ l + 1 + k - 1 = l + k
    OBVIOUS
  <2>2. SubSeq(s, l + 1, Len(s))[k] = s[l + 1 + k - 1]
    BY <2>1
  <2> QED
    BY <2>1, <2>2
<1> QED
  BY <1>1, <1>2, <1>3

(* A message in a stream that grows, and in one that loses its front.         *)
LEMMA HereLasts ==
    ASSUME NEW s \in Seq(Int), NEW t \in Seq(Int), NEW m \in Seq(Int),
           NEW h \in Nat \ {0}, Here(m, s, h)
    PROVE  Here(m, s \o t, h)
<1> DEFINE u == s \o t
           l == Len(s)
           n == Len(m)
<1>1. /\ Len(u) = l + Len(t) /\ \A k \in 1 .. l : u[k] = s[k]
      /\ l \in Nat /\ n \in Nat /\ Len(t) \in Nat
  BY Joined
<1>2. h + n - 1 <= l /\ \A k \in 1 .. n : s[h + k - 1] = m[k]
  BY DEF Here
<1> HIDE DEF u, l, n
<1>3. \A k \in 1 .. n : h + k - 1 \in 1 .. l
  BY <1>1, <1>2
<1>4. h + n - 1 <= Len(u) /\ \A k \in 1 .. n : u[h + k - 1] = m[k]
  BY <1>1, <1>2, <1>3
<1> QED
  BY <1>4 DEF Here, u, n

LEMMA HereAtEnd ==
    ASSUME NEW s \in Seq(Int), NEW m \in Seq(Int)
    PROVE  Here(m, s \o m, Len(s) + 1)
<1>1. /\ Len(s \o m) = Len(s) + Len(m)
      /\ \A k \in 1 .. Len(m) : (s \o m)[Len(s) + k] = m[k]
      /\ Len(s) \in Nat /\ Len(m) \in Nat
  BY Joined
<1>2. \A k \in 1 .. Len(m) : Len(s) + 1 + k - 1 = Len(s) + k
  BY <1>1
<1> QED
  BY <1>1, <1>2 DEF Here

LEMMA HereShifts ==
    ASSUME NEW s \in Seq(Int), NEW l \in Nat, l <= Len(s), NEW m \in Seq(Int),
           NEW h \in Nat, l < h, Here(m, s, h)
    PROVE  Here(m, SubSeq(s, l + 1, Len(s)), h - l)
<1> DEFINE u == SubSeq(s, l + 1, Len(s))
           n == Len(m)
           ls == Len(s)
<1>1. n \in Nat /\ ls \in Nat
  OBVIOUS
<1>2. Len(u) = ls - l /\ \A k \in 1 .. ls - l : u[k] = s[l + k]
  <2>1. l \in 0 .. Len(s)
    <3> HIDE DEF u
    <3> QED
      BY <1>1
  <2> QED
    BY <2>1, Dropped
<1>3. h + n - 1 <= ls /\ \A k \in 1 .. n : s[h + k - 1] = m[k]
  BY DEF Here
<1>4. l <= ls
  OBVIOUS
<1> HIDE DEF u, n, ls
<1>5. \A k \in 1 .. n : h - l + k - 1 \in 1 .. ls - l /\ l + (h - l + k - 1) = h + k - 1
  BY <1>1, <1>3, <1>4
<1>6. h - l + n - 1 <= Len(u) /\ \A k \in 1 .. n : u[h - l + k - 1] = m[k]
  BY <1>1, <1>2, <1>3, <1>4, <1>5
<1> QED
  BY <1>6 DEF Here, u, n
=============================================================================
