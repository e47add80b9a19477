----------------------------- MODULE SwarmProofs -----------------------------
(***************************************************************************)
(* Two clients that run this program and the two streams between them: what   *)
(* is on its way from one to the other is whole messages, and brings what    *)
(* one knows of the other to what is so.  For every torrent, every number of  *)
(* clients and connections, and any mixture of byte orders.                 *)
(***************************************************************************)
EXTENDS Swarm, ClientProofs, WellFoundedInduction

-----------------------------------------------------------------------------
(* Streams as stories                                                       *)

(* The bits that set_bit_field ever sets for a piece.                        *)
Cells == { Cell(p) : p \in Pieces } \ {NoCell}

(* What the reader of a stream knows of its sender, and how many requests for *)
(* pieces and how many blocks it has read.                                  *)
Views ==
    [choking : BOOLEAN, bits : (SUBSET Int) \cup {NULL}, wants : BOOLEAN,
     reqs : Nat, blks : Nat]

(* The messages, and what each makes of a view.  A bit field comes before the  *)
(* sender has unchoked the reader, a have message after the bit field, and a  *)
(* request when the sender is known to be interested.                       *)
ReadsBits(m, v, w) ==
    /\ v.choking
    /\ \E B \in SUBSET Cells : m = BitFieldMessage(B, no_of_peices) /\ w = [v EXCEPT !.bits = B]
ReadsUnchoke(m, v, w) == m = Message(UNCHOKE, <<>>) /\ w = [v EXCEPT !.choking = FALSE]
ReadsWish(m, v, w) ==
    \/ m = Message(INTERSTED, <<>>) /\ w = [v EXCEPT !.wants = TRUE]
    \/ m = Message(NOT_INTERSTED, <<>>) /\ w = [v EXCEPT !.wants = FALSE]
ReadsHave(m, v, w) ==
    /\ v.bits # NULL
    /\ \E p \in Pieces : /\ m = Message(HAVE_PEICE, Word(p))
                         /\ w = [v EXCEPT !.bits = set_bit_field(@, p)]
ReadsRequest(m, v, w) ==
    /\ v.wants
    /\ \E p \in Index : /\ m = RequestMessage(p, 0, RequestLength(p))
                        /\ w = [v EXCEPT !.reqs = IF p \in Pieces THEN @ + 1 ELSE @]
ReadsBlock(m, v, w) ==
    \E p \in Pieces : /\ m = PeiceMessage(p, 0, Data(p, 0, RequestLength(p)))
                      /\ w = [v EXCEPT !.blks = @ + 1]

Reads(m, v, w) ==
    \/ ReadsBits(m, v, w)
    \/ ReadsUnchoke(m, v, w)
    \/ ReadsWish(m, v, w)
    \/ ReadsHave(m, v, w)
    \/ ReadsRequest(m, v, w)
    \/ ReadsBlock(m, v, w)

(* Story(s, v, w): s is whole messages, and reading them turns v into w.  The   *)
(* relation is the least one with the empty stream and one message more.      *)
Tales == Seq(Int) \X Views \X Views

Ongoing(R) ==
    /\ \A v \in Views : <<<<>>, v, v>> \in R
    /\ \A m, s \in Seq(Int), u, v, w \in Views :
          Reads(m, u, v) /\ <<s, v, w>> \in R => <<m \o s, u, w>> \in R

Story(s, v, w) == \A R \in SUBSET Tales : Ongoing(R) => <<s, v, w>> \in R

LEMMA IsTale ==
    ASSUME NEW s \in Seq(Int), NEW v \in Views, NEW w \in Views
    PROVE  <<s, v, w>> \in Tales
<1> DEFINE S == Seq(Int)
<1>1. s \in S
  OBVIOUS
<1> HIDE DEF S
<1>2. <<s, v, w>> \in S \X Views \X Views
  BY <1>1
<1> QED
  BY <1>2 DEF Tales, S

LEMMA EmptyTale ==
    ASSUME NEW v \in Views PROVE <<<<>>, v, v>> \in Tales
<1>1. <<>> \in Seq(Int)
  OBVIOUS
<1> QED
  BY <1>1, IsTale

LEMMA LongerTale ==
    ASSUME NEW m \in Seq(Int), NEW s \in Seq(Int), NEW v \in Views, NEW w \in Views
    PROVE  <<m \o s, v, w>> \in Tales
<1>1. m \o s \in Seq(Int)
  OBVIOUS
<1> QED
  BY <1>1, IsTale

LEMMA TalesOngo == Ongoing(Tales)
BY EmptyTale, LongerTale DEF Ongoing

LEMMA StoryTypes ==
    ASSUME NEW s, NEW v, NEW w, Story(s, v, w)
    PROVE  s \in Seq(Int) /\ v \in Views /\ w \in Views
<1>1. <<s, v, w>> \in Tales
  BY TalesOngo DEF Story
<1> QED
  BY <1>1 DEF Tales

LEMMA StoryEmpty ==
    ASSUME NEW v \in Views PROVE Story(<<>>, v, v)
BY DEF Story, Ongoing

LEMMA StoryStep ==
    ASSUME NEW m \in Seq(Int), NEW s, NEW u \in Views, NEW v, NEW w,
           Reads(m, u, v), Story(s, v, w)
    PROVE  Story(m \o s, u, w)
<1>1. s \in Seq(Int) /\ v \in Views /\ w \in Views
  BY StoryTypes
<1> SUFFICES ASSUME NEW R \in SUBSET Tales, Ongoing(R) PROVE <<m \o s, u, w>> \in R
  BY DEF Story
<1>2. <<s, v, w>> \in R
  BY DEF Story
<1> QED
  BY <1>1, <1>2 DEF Ongoing

(* A property of the empty stream that one message more keeps is one of all    *)
(* stories: R is the set of the stories that have it.                        *)
LEMMA StoryIn ==
    ASSUME NEW R \in SUBSET Tales, Ongoing(R), NEW s, NEW v, NEW w, Story(s, v, w)
    PROVE  <<s, v, w>> \in R
BY DEF Story

LEMMA StoryFront ==
    ASSUME NEW s, NEW u, NEW w, Story(s, u, w)
    PROVE  \/ s = <<>> /\ u = w
           \/ \E m, t \in Seq(Int), v \in Views :
                s = m \o t /\ Reads(m, u, v) /\ Story(t, v, w)
<1> DEFINE Split(x) ==
             \/ x[1] = <<>> /\ x[2] = x[3]
             \/ \E m, t \in Seq(Int), v \in Views :
                  x[1] = m \o t /\ Reads(m, x[2], v) /\ Story(t, v, x[3])
           R == { x \in Tales : Story(x[1], x[2], x[3]) /\ Split(x) }
<1>1. R \in SUBSET Tales
  OBVIOUS
<1>2. Ongoing(R)
  <2>1. ASSUME NEW v \in Views PROVE <<<<>>, v, v>> \in R
    <3>1. <<<<>>, v, v>> \in Tales
      BY EmptyTale
    <3> QED
      BY <3>1, StoryEmpty
  <2>2. ASSUME NEW m \in Seq(Int), NEW t \in Seq(Int), NEW a \in Views, NEW v \in Views,
               NEW b \in Views, Reads(m, a, v), <<t, v, b>> \in R
        PROVE  <<m \o t, a, b>> \in R
    <3> DEFINE x == <<m \o t, a, b>>
    <3>1. Story(t, v, b)
      BY <2>2
    <3>2. x \in Tales
      BY LongerTale
    <3>3. x[1] = m \o t /\ x[2] = a /\ x[3] = b
      OBVIOUS
    <3>4. Story(x[1], x[2], x[3])
      BY <2>2, <3>1, <3>3, StoryStep
    <3>5. Split(x)
      BY <2>2, <3>1, <3>3
    <3> QED
      BY <3>2, <3>4, <3>5
  <2> HIDE DEF R
  <2> QED
    BY <2>1, <2>2 DEF Ongoing
<1>3. <<s, u, w>> \in R
  <2> HIDE DEF R
  <2> QED
    BY <1>1, <1>2, StoryIn
<1> QED
  BY <1>3

LEMMA StoriesJoin ==
    ASSUME NEW s, NEW u, NEW v, Story(s, u, v), NEW t, NEW w, Story(t, v, w)
    PROVE  Story(s \o t, u, w)
<1> DEFINE Ext(x) == \A b \in Views : Story(t, x[3], b) => Story(x[1] \o t, x[2], b)
           R == { x \in Tales : Ext(x) }
<1>0. t \in Seq(Int) /\ w \in Views
  BY StoryTypes
<1>1. R \in SUBSET Tales
  OBVIOUS
<1>2. Ongoing(R)
  <2>1. ASSUME NEW x \in Views PROVE <<<<>>, x, x>> \in R
    <3>1. <<<<>>, x, x>> \in Tales
      BY EmptyTale
    <3>2. <<>> \o t = t
      BY <1>0
    <3> QED
      BY <3>1, <3>2
  <2>2. ASSUME NEW m \in Seq(Int), NEW q \in Seq(Int), NEW a \in Views, NEW x \in Views,
               NEW b \in Views, Reads(m, a, x), <<q, x, b>> \in R
        PROVE  <<m \o q, a, b>> \in R
    <3>1. ASSUME NEW z \in Views, Story(t, b, z) PROVE Story((m \o q) \o t, a, z)
      <4>1. Story(q \o t, x, z)
        BY <2>2, <3>1
      <4>2. Story(m \o (q \o t), a, z)
        BY <2>2, <4>1, StoryStep
      <4>3. (m \o q) \o t = m \o (q \o t)
        BY <1>0, ConcatAssociative
      <4> QED
        BY <4>2, <4>3
    <3>2. <<m \o q, a, b>> \in Tales
      BY LongerTale
    <3>3. Ext(<<m \o q, a, b>>)
      BY <3>1
    <3> QED
      BY <3>2, <3>3
  <2> HIDE DEF R
  <2> QED
    BY <2>1, <2>2 DEF Ongoing
<1>3. <<s, u, v>> \in R
  <2> HIDE DEF R
  <2> QED
    BY <1>1, <1>2, StoryIn
<1> QED
  BY <1>0, <1>3

LEMMA ReadsMore ==
    ASSUME NEW m, NEW u \in Views, NEW v, Reads(m, u, v)
    PROVE  /\ u.reqs <= v.reqs /\ u.blks <= v.blks
           /\ u.reqs \in Nat /\ v.reqs \in Nat /\ u.blks \in Nat /\ v.blks \in Nat
BY DEF Reads, ReadsBits, ReadsUnchoke, ReadsWish, ReadsHave, ReadsRequest, ReadsBlock, Views

LEMMA StoryCounts ==
    ASSUME NEW s, NEW u, NEW w, Story(s, u, w)
    PROVE  /\ u.reqs \in Nat /\ w.reqs \in Nat /\ u.blks \in Nat /\ w.blks \in Nat
           /\ u.reqs <= w.reqs /\ u.blks <= w.blks
<1> DEFINE R == { x \in Tales : x[2].reqs <= x[3].reqs /\ x[2].blks <= x[3].blks }
<1>0. \A v \in Views : v.reqs \in Nat /\ v.blks \in Nat
  BY DEF Views
<1>1. R \in SUBSET Tales
  OBVIOUS
<1>2. Ongoing(R)
  <2>1. ASSUME NEW x \in Views PROVE <<<<>>, x, x>> \in R
    <3>1. <<<<>>, x, x>> \in Tales
      BY EmptyTale
    <3>2. x.reqs <= x.reqs /\ x.blks <= x.blks
      BY <1>0
    <3> QED
      BY <3>1, <3>2
  <2>2. ASSUME NEW m \in Seq(Int), NEW q \in Seq(Int), NEW a \in Views, NEW x \in Views,
               NEW b \in Views, Reads(m, a, x), <<q, x, b>> \in R
        PROVE  <<m \o q, a, b>> \in R
    <3>1. a.reqs <= x.reqs /\ a.blks <= x.blks
      BY <2>2, ReadsMore
    <3>2. x.reqs <= b.reqs /\ x.blks <= b.blks
      BY <2>2
    <3>3. a.reqs <= b.reqs /\ a.blks <= b.blks
      BY <1>0, <3>1, <3>2
    <3>4. <<m \o q, a, b>> \in Tales
      BY LongerTale
    <3> QED
      BY <3>3, <3>4
  <2> HIDE DEF R
  <2> QED
    BY <2>1, <2>2 DEF Ongoing
<1>3. <<s, u, w>> \in R
  <2> HIDE DEF R
  <2> QED
    BY <1>1, <1>2, StoryIn
<1>4. u.reqs <= w.reqs /\ u.blks <= w.blks
  BY <1>3
<1> QED
  BY <1>0, <1>4, StoryTypes

-----------------------------------------------------------------------------
(* Bytes                                                                    *)

LEMMA MinusOne == IntOf(Word(-1)) = -1
BY SMT DEF IntOf, Word

(* What send_request asks for is a block of the file, one byte at least.      *)
LEMMA RequestFits ==
    ASSUME NEW p \in Index
    PROVE  /\ p \in Int
           /\ RequestLength(p) \in 1 .. PieceSize
           /\ p \in Pieces => RequestLength(p) <= FileSize
<1> DEFINE q == FileSize \div PieceSize
           r == FileSize % PieceSize
           N == no_of_peices
<1>1. FileSize \in Nat \ {0} /\ PieceSize \in Nat \ {0} /\ N \in Nat \ {0}
  BY Sizes
<1>2. q \in Nat /\ r \in Nat /\ r < PieceSize /\ FileSize = PieceSize * q + r
  BY <1>1
<1>3. N = IF r # 0 THEN q + 1 ELSE q
  BY DEF no_of_peices
<1>4. RequestLength(p) = IF p = N - 1 /\ r # 0 THEN r ELSE PieceSize
  BY DEF RequestLength
<1>5. p \in -1 .. N - 1 /\ (p \in Pieces <=> p \in 0 .. N - 1)
  BY DEF Index, Pieces
<1> HIDE DEF q, r, N
<1>6. p \in Int
  BY <1>1, <1>5
<1>7. RequestLength(p) \in 1 .. PieceSize
  BY <1>1, <1>2, <1>4
<1>8. q >= 1 => PieceSize * q >= PieceSize
  BY <1>1, <1>2
<1>9. PieceSize * q >= 0
  BY <1>1, <1>2
<1>10. p \in Pieces => RequestLength(p) <= FileSize
  <2> SUFFICES ASSUME p \in Pieces PROVE RequestLength(p) <= FileSize
    OBVIOUS
  <2>1. CASE p = N - 1 /\ r # 0
    BY <1>1, <1>2, <1>4, <1>9, <2>1
  <2>2. CASE ~(p = N - 1 /\ r # 0)
    <3>1. q >= 1
      BY <1>1, <1>2, <1>3, <1>5, <2>2
    <3> QED
      BY <1>1, <1>2, <1>4, <1>8, <2>2, <3>1
  <2> QED
    BY <2>1, <2>2
<1> QED
  BY <1>6, <1>7, <1>10

(* What is found in a byte for a bit is what was put there.                   *)
ByteOf(x1, x2, x3, x4, x5, x6, x7, x8) == x1 + x2 + x3 + x4 + x5 + x6 + x7 + x8

LEMMA OneBit ==
    ASSUME NEW x1 \in {0, 128}, NEW x2 \in {0, 64}, NEW x3 \in {0, 32}, NEW x4 \in {0, 16},
           NEW x5 \in {0, 8}, NEW x6 \in {0, 4}, NEW x7 \in {0, 2}, NEW x8 \in {0, 1}
    PROVE  LET y == ByteOf(x1, x2, x3, x4, x5, x6, x7, x8)
           IN /\ ((y \div 128) % 2 = 1) <=> x1 # 0
              /\ ((y \div 64) % 2 = 1) <=> x2 # 0
              /\ ((y \div 32) % 2 = 1) <=> x3 # 0
              /\ ((y \div 16) % 2 = 1) <=> x4 # 0
              /\ ((y \div 8) % 2 = 1) <=> x5 # 0
              /\ ((y \div 4) % 2 = 1) <=> x6 # 0
              /\ ((y \div 2) % 2 = 1) <=> x7 # 0
              /\ ((y \div 1) % 2 = 1) <=> x8 # 0
<1> DEFINE y == ByteOf(x1, x2, x3, x4, x5, x6, x7, x8)
<1>0. y = x1 + x2 + x3 + x4 + x5 + x6 + x7 + x8
  BY DEF ByteOf
<1> HIDE DEF y
<1>1. ((y \div 128) % 2 = 1) <=> x1 # 0
  BY <1>0, SMTT(30)
<1>2. ((y \div 64) % 2 = 1) <=> x2 # 0
  BY <1>0, SMTT(30)
<1>3. ((y \div 32) % 2 = 1) <=> x3 # 0
  BY <1>0, SMTT(30)
<1>4. ((y \div 16) % 2 = 1) <=> x4 # 0
  BY <1>0, SMTT(30)
<1>5. ((y \div 8) % 2 = 1) <=> x5 # 0
  BY <1>0, SMTT(30)
<1>6. ((y \div 4) % 2 = 1) <=> x6 # 0
  BY <1>0, SMTT(30)
<1>7. ((y \div 2) % 2 = 1) <=> x7 # 0
  BY <1>0, SMTT(30)
<1>8. ((y \div 1) % 2 = 1) <=> x8 # 0
  BY <1>0, SMTT(30)
<1> QED
  BY <1>1, <1>2, <1>3, <1>4, <1>5, <1>6, <1>7, <1>8 DEF y

(* A bit field is read as the set it was written for.                        *)
LEMMA BitsComeBack ==
    ASSUME NEW has \in SUBSET Pieces
    PROVE  BitsOf(BitFieldBytes(has, no_of_peices)) = has
<1> DEFINE n == bit_field_size(no_of_peices)
           q == BitFieldBytes(has, no_of_peices)
           bit(k, b) == IF 8 * (k - 1) + b - 1 \in has THEN Weight[b] ELSE 0
<1>1. n \in Nat /\ no_of_peices \in Nat \ {0}
  BY FieldSize, Sizes
<1>2. no_of_peices <= 8 * n
  <2> DEFINE N == no_of_peices
             d == N \div 8
  <2>1. n = IF N % 8 # 0 THEN d + 1 ELSE d
    BY DEF bit_field_size
  <2>2. d \in Nat /\ N <= 8 * d + 7 /\ (N % 8 = 0 => N = 8 * d)
    BY <1>1
  <2> HIDE DEF n, N, d
  <2>3. CASE N % 8 # 0
    BY <1>1, <2>1, <2>2, <2>3 DEF N
  <2>4. CASE N % 8 = 0
    BY <1>1, <2>1, <2>2, <2>4 DEF N
  <2> QED
    BY <2>3, <2>4 DEF N
<1>3. Len(q) = n
  BY BitFieldMessageBytes
<1>4. q = [k \in 1 .. n |-> ByteOf(bit(k, 1), bit(k, 2), bit(k, 3), bit(k, 4),
                                   bit(k, 5), bit(k, 6), bit(k, 7), bit(k, 8))]
  BY DEF BitFieldBytes, ByteOf
<1>5. ASSUME NEW x \in 0 .. 8 * n - 1
      PROVE  ((q[x \div 8 + 1] \div Weight[(x % 8) + 1]) % 2 = 1) <=> x \in has
  <2> DEFINE k == x \div 8 + 1
             b == (x % 8) + 1
  <2>1. k \in 1 .. n /\ b \in 1 .. 8 /\ x = 8 * (k - 1) + b - 1
    BY <1>1
  <2>2. q[k] = ByteOf(bit(k, 1), bit(k, 2), bit(k, 3), bit(k, 4),
                      bit(k, 5), bit(k, 6), bit(k, 7), bit(k, 8))
    <3> HIDE DEF q, n, k, b, bit
    <3> QED
      BY <1>4, <2>1
  <2> HIDE DEF q, n, k, b
  <2>3. /\ bit(k, 1) \in {0, 128} /\ bit(k, 2) \in {0, 64} /\ bit(k, 3) \in {0, 32}
        /\ bit(k, 4) \in {0, 16} /\ bit(k, 5) \in {0, 8} /\ bit(k, 6) \in {0, 4}
        /\ bit(k, 7) \in {0, 2} /\ bit(k, 8) \in {0, 1}
    BY DEF Weight
  <2>4. \A e \in 1 .. 8 : bit(k, e) # 0 <=> 8 * (k - 1) + e - 1 \in has
    BY DEF Weight
  <2> DEFINE x1 == bit(k, 1)
             x2 == bit(k, 2)
             x3 == bit(k, 3)
             x4 == bit(k, 4)
             x5 == bit(k, 5)
             x6 == bit(k, 6)
             x7 == bit(k, 7)
             x8 == bit(k, 8)
             y  == q[k]
  <2>5. /\ x1 \in {0, 128} /\ x2 \in {0, 64} /\ x3 \in {0, 32} /\ x4 \in {0, 16}
        /\ x5 \in {0, 8} /\ x6 \in {0, 4} /\ x7 \in {0, 2} /\ x8 \in {0, 1}
        /\ y = ByteOf(x1, x2, x3, x4, x5, x6, x7, x8)
    BY <2>2, <2>3
  <2>6. ((y \div Weight[b]) % 2 = 1) <=> bit(k, b) # 0
    <3>1. /\ Weight[1] = 128 /\ Weight[2] = 64 /\ Weight[3] = 32 /\ Weight[4] = 16
          /\ Weight[5] = 8 /\ Weight[6] = 4 /\ Weight[7] = 2 /\ Weight[8] = 1
      BY DEF Weight
    <3>2. /\ bit(k, 1) = x1 /\ bit(k, 2) = x2 /\ bit(k, 3) = x3 /\ bit(k, 4) = x4
          /\ bit(k, 5) = x5 /\ bit(k, 6) = x6 /\ bit(k, 7) = x7 /\ bit(k, 8) = x8
      OBVIOUS
    <3> HIDE DEF bit, x1, x2, x3, x4, x5, x6, x7, x8, y
    <3>3. /\ ((y \div 128) % 2 = 1) <=> x1 # 0
          /\ ((y \div 64) % 2 = 1) <=> x2 # 0
          /\ ((y \div 32) % 2 = 1) <=> x3 # 0
          /\ ((y \div 16) % 2 = 1) <=> x4 # 0
          /\ ((y \div 8) % 2 = 1) <=> x5 # 0
          /\ ((y \div 4) % 2 = 1) <=> x6 # 0
          /\ ((y \div 2) % 2 = 1) <=> x7 # 0
          /\ ((y \div 1) % 2 = 1) <=> x8 # 0
      BY <2>5, OneBit
    <3>4. b = 1 \/ b = 2 \/ b = 3 \/ b = 4 \/ b = 5 \/ b = 6 \/ b = 7 \/ b = 8
      BY <2>1
    <3>5. CASE b = 1
      BY <3>1, <3>2, <3>3, <3>5
    <3>6. CASE b = 2
      BY <3>1, <3>2, <3>3, <3>6
    <3>7. CASE b = 3
      BY <3>1, <3>2, <3>3, <3>7
    <3>8. CASE b = 4
      BY <3>1, <3>2, <3>3, <3>8
    <3>9. CASE b = 5
      BY <3>1, <3>2, <3>3, <3>9
    <3>10. CASE b = 6
      BY <3>1, <3>2, <3>3, <3>10
    <3>11. CASE b = 7
      BY <3>1, <3>2, <3>3, <3>11
    <3>12. CASE b = 8
      BY <3>1, <3>2, <3>3, <3>12
    <3> QED
      BY <3>4, <3>5, <3>6, <3>7, <3>8, <3>9, <3>10, <3>11, <3>12
  <2> HIDE DEF bit
  <2>7. ((q[k] \div Weight[b]) % 2 = 1) <=> x \in has
    BY <2>1, <2>4, <2>6
  <2> QED
    BY <2>7 DEF k, b
<1>6. has \subseteq 0 .. 8 * n - 1
  BY <1>1, <1>2 DEF Pieces
<1>7. BitsOf(q) = { x \in 0 .. 8 * n - 1 :
                      (q[x \div 8 + 1] \div Weight[(x % 8) + 1]) % 2 = 1 }
  BY <1>3 DEF BitsOf
<1> HIDE DEF q, n
<1>8. BitsOf(q) = has
  BY <1>5, <1>6, <1>7
<1> QED
  BY <1>8 DEF q

(* The cells are bits of pieces; the spare bits are not among them.           *)
LEMMA CellFacts ==
    /\ Cells \subseteq Pieces
    /\ \A p \in Pieces : Cell(p) # NoCell => Cell(p) \in Cells
    /\ \A bits \in SUBSET Cells : ~SpareBitsSet(bits)
    /\ \A bits \in SUBSET Cells, p \in Pieces : set_bit_field(bits, p) \in SUBSET Cells
    /\ \A bits \in SUBSET Cells : NULL # bits
<1> DEFINE N == no_of_peices
<1>1. N \in Nat \ {0} /\ Pieces = 0 .. N - 1
  BY Sizes DEF Pieces
<1>2. \A p \in Pieces : p \in Nat /\ (Cell(p) # NoCell => Cell(p) \in Pieces)
  BY <1>1 DEF Cell, NoCell
<1>3. Cells \subseteq Pieces
  BY <1>2 DEF Cells
<1>4. ASSUME NEW bits \in SUBSET Cells PROVE ~SpareBitsSet(bits)
  <2> SUFFICES ASSUME NEW x \in SparePositions(N), Cell(x) \in bits PROVE FALSE
    BY DEF SpareBitsSet, get_bit_field
  <2>1. x \in N .. N + 7 /\ x < 8 * bit_field_size(N)
    BY DEF SparePositions
  <2>2. PICK p \in Pieces : Cell(x) = Cell(p) /\ Cell(p) # NoCell
    BY DEF Cells
  <2>3. N <= 8 => x < 8
    BY <1>1, <2>1 DEF bit_field_size
  <2> HIDE DEF N
  <2>4. x \in Nat /\ p \in Nat /\ p < x
    BY <1>1, <2>1
  <2>5. Cell(x) # Cell(p) \/ Cell(p) = NoCell
    <3>1. CASE x < 8
      BY <2>4, <3>1 DEF Cell, NoCell
    <3>2. CASE x >= 8 /\ N > 8
      <4>1. x >= N /\ p <= N - 1 /\ x > 8
        BY <1>1, <2>1, <3>2
      <4> QED
        BY <1>1, <2>4, <4>1 DEF Cell, NoCell
    <3> QED
      BY <1>1, <2>3, <2>4, <3>1, <3>2
  <2> QED
    BY <2>2, <2>5
<1>5. \A p \in Pieces : Cell(p) # NoCell => Cell(p) \in Cells
  BY DEF Cells
<1>6. \A bits \in SUBSET Cells, p \in Pieces : set_bit_field(bits, p) \in SUBSET Cells
  BY <1>5 DEF set_bit_field
<1>7. \A bits \in SUBSET Cells : NULL # bits
  BY <1>3, ClientAssumption
<1> QED
  BY <1>3, <1>4, <1>5, <1>6, <1>7

-----------------------------------------------------------------------------
(* What one end says and the other makes of it                              *)

Done(c) == { p \in Pieces : c.stat[p] = COMPLETED }

(* The have messages of c are have messages.                                 *)
Sane(c) == ~c.swaps \/ Done(c) = {}

(* f is what c knows of the peer in slot i, and g what is so of c for it.      *)
First(f, c, i) ==
    /\ f.choking = c.conn[i].peer_chocking
    /\ f.bits = c.conn[i].bit_field
    /\ f.wants = c.conn[i].peer_intersted
LastOf(g, c, i) ==
    /\ g.choking = c.conn[i].am_chocking
    /\ g.bits = c.bits

(* Of the peer in slot s, t is the number of requests it has not read and of  *)
(* blocks that c has not, w that it has been told, or will be, that c is      *)
(* interested.                                                              *)
Fit(c, s, w, t) ==
    /\ t \in {0, 1}
    /\ t = 1 => c.conn[s].request_sent /\ w /\ ~c.conn[s].peer_chocking
    /\ c.conn[s].am_intersted /\ Done(c) # Pieces => w

(* c becomes c1, has said o to slot s, has read got blocks from there and       *)
(* sent asked blocks at most.                                               *)
Speaks(c, c1, s, o, got, asked) ==
    \A v \in Views, t \in Int :
        LastOf(v, c, s) /\ got <= t /\ Fit(c, s, v.wants, t) =>
            \E v1 \in Views :
                /\ Story(o, v, v1)
                /\ LastOf(v1, c1, s)
                /\ v1.blks <= v.blks + asked
                /\ Fit(c1, s, v1.wants, t - got + v1.reqs - v.reqs)

LEMMA SpeaksOn ==
    ASSUME NEW c, NEW c1, NEW c2, NEW s, NEW o, NEW o2,
           NEW g \in Nat, NEW a \in Nat, NEW g2 \in Nat, NEW a2 \in Nat,
           Speaks(c, c1, s, o, g, a), Speaks(c1, c2, s, o2, g2, a2)
    PROVE  Speaks(c, c2, s, o \o o2, g + g2, a + a2)
<1> SUFFICES ASSUME NEW v \in Views, NEW t \in Int,
                    LastOf(v, c, s), g + g2 <= t, Fit(c, s, v.wants, t)
             PROVE  \E w \in Views :
                      /\ Story(o \o o2, v, w)
                      /\ LastOf(w, c2, s)
                      /\ w.blks <= v.blks + (a + a2)
                      /\ Fit(c2, s, w.wants, t - (g + g2) + w.reqs - v.reqs)
  BY DEF Speaks
<1>1. g <= t
  OBVIOUS
<1>2. PICK x \in Views : /\ Story(o, v, x) /\ LastOf(x, c1, s) /\ x.blks <= v.blks + a
                         /\ Fit(c1, s, x.wants, t - g + x.reqs - v.reqs)
  BY <1>1 DEF Speaks
<1>3. /\ v.reqs \in Nat /\ x.reqs \in Nat /\ v.blks \in Nat /\ x.blks \in Nat
      /\ v.reqs <= x.reqs
  BY <1>2, StoryCounts
<1> DEFINE u == t - g + x.reqs - v.reqs
<1>4. u \in Int /\ g2 <= u
  BY <1>3
<1> HIDE DEF u
<1>5. PICK w \in Views : /\ Story(o2, x, w) /\ LastOf(w, c2, s) /\ w.blks <= x.blks + a2
                         /\ Fit(c2, s, w.wants, u - g2 + w.reqs - x.reqs)
  BY <1>2, <1>4 DEF Speaks, u
<1>6. w.reqs \in Nat /\ w.blks \in Nat
  BY <1>5, StoryCounts
<1>7. u - g2 + w.reqs - x.reqs = t - (g + g2) + w.reqs - v.reqs
  BY <1>3, <1>6 DEF u
<1>8. w.blks <= v.blks + (a + a2)
  BY <1>2, <1>3, <1>5, <1>6
<1>9. Story(o \o o2, v, w)
  BY <1>2, <1>5, StoriesJoin
<1> QED
  BY <1>5, <1>7, <1>8, <1>9

LEMMA MessagesAre ==
    /\ \A id \in Int : Message(id, <<>>) \in Seq(Int)
    /\ \A p \in Int : Message(HAVE_PEICE, Word(p)) \in Seq(Int)
    /\ \A p \in Index : RequestMessage(p, 0, RequestLength(p)) \in Seq(Int)
    /\ \A p \in Pieces : PeiceMessage(p, 0, Data(p, 0, RequestLength(p))) \in Seq(Int)
    /\ \A B \in SUBSET Cells : BitFieldMessage(B, no_of_peices) \in Seq(Int)
<1>1. \A id \in Int : Message(id, <<>>) \in Seq(Int)
  BY EmptyMessage DEF Shape
<1>2. \A p \in Int : Message(HAVE_PEICE, Word(p)) \in Seq(Int)
  BY OneWord DEF Shape
<1>3. ASSUME NEW p \in Index PROVE RequestMessage(p, 0, RequestLength(p)) \in Seq(Int)
  <2> DEFINE n == RequestLength(p)
  <2>1. p \in Int /\ n \in Int
    BY RequestFits, Sizes
  <2> HIDE DEF n
  <2>2. 0 \in Int /\ REQUEST \in Int
    BY DEF REQUEST
  <2> QED
    BY <2>1, <2>2, ThreeWords DEF Shape, RequestMessage, n
<1>4. ASSUME NEW p \in Pieces
      PROVE  PeiceMessage(p, 0, Data(p, 0, RequestLength(p))) \in Seq(Int)
  <2> DEFINE n == RequestLength(p)
  <2>1. p \in Int /\ n \in Nat /\ n <= PieceSize
    BY RequestFits, Sizes DEF Index, Pieces
  <2> HIDE DEF n
  <2>2. 0 \in Int /\ 9 + n \in Int31
    BY <2>1, Sizes DEF Int31
  <2> QED
    BY <2>1, <2>2, PeiceBytes DEF Shape, n
<1>5. \A B \in SUBSET Cells : BitFieldMessage(B, no_of_peices) \in Seq(Int)
  BY CellFacts, BitFieldMessageBytes DEF Shape
<1> QED
  BY <1>1, <1>2, <1>3, <1>4, <1>5

LEMMA OneMessage ==
    ASSUME NEW m \in Seq(Int), NEW v \in Views, NEW w \in Views, Reads(m, v, w)
    PROVE  Story(m, v, w)
<1>1. m \o <<>> = m
  OBVIOUS
<1> QED
  BY <1>1, StoryEmpty, StoryStep

(* What c knows, has said and wants is as far as it matters what c1 does.      *)
LEMMA Quiet ==
    ASSUME NEW c, NEW c1, NEW s,
           c1.conn[s].am_chocking = c.conn[s].am_chocking, c1.bits = c.bits,
           c.conn[s].request_sent => c1.conn[s].request_sent,
           c1.conn[s].peer_chocking => c.conn[s].peer_chocking,
           c1.conn[s].am_intersted => c.conn[s].am_intersted,
           Done(c) \subseteq Done(c1)
    PROVE  Speaks(c, c1, s, <<>>, 0, 0)
<1> SUFFICES ASSUME NEW v \in Views, NEW t \in Int, LastOf(v, c, s), Fit(c, s, v.wants, t)
             PROVE  /\ Story(<<>>, v, v) /\ LastOf(v, c1, s) /\ v.blks <= v.blks + 0
                    /\ Fit(c1, s, v.wants, t - 0 + v.reqs - v.reqs)
  BY DEF Speaks
<1>1. t - 0 + v.reqs - v.reqs = t /\ v.blks <= v.blks + 0
  BY DEF Views
<1>2. Done(c1) \subseteq Pieces
  BY DEF Done
<1>3. Fit(c1, s, v.wants, t)
  BY <1>2 DEF Fit
<1> QED
  BY <1>1, <1>3, StoryEmpty DEF LastOf

(* The same after one message m.                                             *)
LEMMA Speaking ==
    ASSUME NEW c, NEW c1, NEW s, NEW m \in Seq(Int), NEW got, NEW asked \in Nat,
           \A v \in Views, t \in Int :
              LastOf(v, c, s) /\ got <= t /\ Fit(c, s, v.wants, t) =>
                \E w \in Views : /\ Reads(m, v, w) /\ LastOf(w, c1, s)
                                 /\ w.blks <= v.blks + asked
                                 /\ Fit(c1, s, w.wants, t - got + w.reqs - v.reqs)
    PROVE  Speaks(c, c1, s, m, got, asked)
BY OneMessage DEF Speaks

LEMMA SaysIntersted ==
    ASSUME NEW c, NEW c1, NEW s,
           c1.conn[s].am_chocking = c.conn[s].am_chocking, c1.bits = c.bits,
           c.conn[s].request_sent => c1.conn[s].request_sent,
           c1.conn[s].peer_chocking => c.conn[s].peer_chocking
    PROVE  Speaks(c, c1, s, Message(INTERSTED, <<>>), 0, 0)
<1> DEFINE m == Message(INTERSTED, <<>>)
<1>1. m \in Seq(Int)
  BY MessagesAre DEF INTERSTED
<1>2. ASSUME NEW v \in Views, NEW t \in Int, LastOf(v, c, s), Fit(c, s, v.wants, t)
      PROVE  \E w \in Views : /\ Reads(m, v, w) /\ LastOf(w, c1, s)
                              /\ w.blks <= v.blks + 0
                              /\ Fit(c1, s, w.wants, t - 0 + w.reqs - v.reqs)
  <2> DEFINE w == [v EXCEPT !.wants = TRUE]
  <2>1. /\ w \in Views /\ w.wants = TRUE /\ w.choking = v.choking /\ w.bits = v.bits
        /\ w.reqs = v.reqs /\ w.blks = v.blks /\ v.reqs \in Nat /\ v.blks \in Nat
    BY DEF Views
  <2>2. Reads(m, v, w)
    BY DEF Reads, ReadsWish
  <2> HIDE DEF w
  <2>3. t - 0 + w.reqs - v.reqs = t /\ w.blks <= v.blks + 0
    BY <2>1
  <2>4. Fit(c1, s, w.wants, t)
    BY <1>2, <2>1 DEF Fit
  <2>5. LastOf(w, c1, s)
    BY <1>2, <2>1 DEF LastOf
  <2> QED
    BY <2>1, <2>2, <2>3, <2>4, <2>5
<1> HIDE DEF m
<1> QED
  BY <1>1, <1>2, Speaking DEF m

LEMMA SaysNotIntersted ==
    ASSUME NEW c, NEW c1, NEW s,
           c1.conn[s].am_chocking = c.conn[s].am_chocking, c1.bits = c.bits,
           c.conn[s].peer_chocking \/ ~c.conn[s].request_sent,
           ~c1.conn[s].am_intersted \/ Done(c1) = Pieces
    PROVE  Speaks(c, c1, s, Message(NOT_INTERSTED, <<>>), 0, 0)
<1> DEFINE m == Message(NOT_INTERSTED, <<>>)
<1>1. m \in Seq(Int)
  BY MessagesAre DEF NOT_INTERSTED
<1>2. ASSUME NEW v \in Views, NEW t \in Int, LastOf(v, c, s), Fit(c, s, v.wants, t)
      PROVE  \E w \in Views : /\ Reads(m, v, w) /\ LastOf(w, c1, s)
                              /\ w.blks <= v.blks + 0
                              /\ Fit(c1, s, w.wants, t - 0 + w.reqs - v.reqs)
  <2> DEFINE w == [v EXCEPT !.wants = FALSE]
  <2>1. /\ w \in Views /\ w.wants = FALSE /\ w.choking = v.choking /\ w.bits = v.bits
        /\ w.reqs = v.reqs /\ w.blks = v.blks /\ v.reqs \in Nat /\ v.blks \in Nat
    BY DEF Views
  <2>2. Reads(m, v, w)
    BY DEF Reads, ReadsWish
  <2> HIDE DEF w
  <2>3. t - 0 + w.reqs - v.reqs = t /\ w.blks <= v.blks + 0
    BY <2>1
  <2>4. t = 0
    BY <1>2 DEF Fit
  <2>5. Fit(c1, s, w.wants, t)
    BY <2>1, <2>4 DEF Fit
  <2>6. LastOf(w, c1, s)
    BY <1>2, <2>1 DEF LastOf
  <2> QED
    BY <2>1, <2>2, <2>3, <2>5, <2>6
<1> HIDE DEF m
<1> QED
  BY <1>1, <1>2, Speaking DEF m

LEMMA SaysUnchoke ==
    ASSUME NEW c, NEW c1, NEW s,
           c1.conn[s].am_chocking = FALSE, c1.bits = c.bits,
           c.conn[s].request_sent => c1.conn[s].request_sent,
           c1.conn[s].peer_chocking => c.conn[s].peer_chocking,
           c1.conn[s].am_intersted => c.conn[s].am_intersted,
           Done(c) \subseteq Done(c1)
    PROVE  Speaks(c, c1, s, Message(UNCHOKE, <<>>), 0, 0)
<1> DEFINE m == Message(UNCHOKE, <<>>)
<1>1. m \in Seq(Int)
  BY MessagesAre DEF UNCHOKE
<1>2. ASSUME NEW v \in Views, NEW t \in Int, LastOf(v, c, s), Fit(c, s, v.wants, t)
      PROVE  \E w \in Views : /\ Reads(m, v, w) /\ LastOf(w, c1, s)
                              /\ w.blks <= v.blks + 0
                              /\ Fit(c1, s, w.wants, t - 0 + w.reqs - v.reqs)
  <2> DEFINE w == [v EXCEPT !.choking = FALSE]
  <2>1. /\ w \in Views /\ w.wants = v.wants /\ w.choking = FALSE /\ w.bits = v.bits
        /\ w.reqs = v.reqs /\ w.blks = v.blks /\ v.reqs \in Nat /\ v.blks \in Nat
    BY DEF Views
  <2>2. Reads(m, v, w)
    BY DEF Reads, ReadsUnchoke
  <2> HIDE DEF w
  <2>3. t - 0 + w.reqs - v.reqs = t /\ w.blks <= v.blks + 0
    BY <2>1
  <2>4. Done(c1) \subseteq Pieces
    BY DEF Done
  <2>5. Fit(c1, s, w.wants, t)
    BY <1>2, <2>1, <2>4 DEF Fit
  <2>6. LastOf(w, c1, s)
    BY <1>2, <2>1 DEF LastOf
  <2> QED
    BY <2>1, <2>2, <2>3, <2>5, <2>6
<1> HIDE DEF m
<1> QED
  BY <1>1, <1>2, Speaking DEF m

(* The block that was asked for has been read before, if got is 1.            *)
LEMMA SaysHave ==
    ASSUME NEW c, NEW c1, NEW s, NEW p \in Pieces, NEW got \in {0, 1},
           c.bits \in SUBSET Cells,
           c1.conn[s].am_chocking = c.conn[s].am_chocking,
           c1.bits = set_bit_field(c.bits, p),
           got = 0 => (c.conn[s].request_sent => c1.conn[s].request_sent),
           c1.conn[s].peer_chocking => c.conn[s].peer_chocking,
           got = 0 => (c1.conn[s].am_intersted => c.conn[s].am_intersted),
           Done(c) \subseteq Done(c1)
    PROVE  Speaks(c, c1, s, Message(HAVE_PEICE, Word(p)), got, 0)
<1> DEFINE m == Message(HAVE_PEICE, Word(p))
<1>1. m \in Seq(Int) /\ p \in Int
  BY MessagesAre, Sizes DEF Pieces
<1>2. ASSUME NEW v \in Views, NEW t \in Int, LastOf(v, c, s), got <= t, Fit(c, s, v.wants, t)
      PROVE  \E w \in Views : /\ Reads(m, v, w) /\ LastOf(w, c1, s)
                              /\ w.blks <= v.blks + 0
                              /\ Fit(c1, s, w.wants, t - got + w.reqs - v.reqs)
  <2> DEFINE w == [v EXCEPT !.bits = set_bit_field(@, p)]
  <2>0. set_bit_field(v.bits, p) \in SUBSET Int /\ v.bits # NULL
    <3>1. v.bits = c.bits
      BY <1>2 DEF LastOf
    <3>2. set_bit_field(c.bits, p) \in SUBSET Cells /\ NULL # c.bits /\ Cells \subseteq Pieces
      BY CellFacts
    <3>3. Pieces \subseteq Int
      BY Sizes DEF Pieces
    <3> QED
      BY <3>1, <3>2, <3>3
  <2>1. /\ w \in Views /\ w.wants = v.wants /\ w.choking = v.choking
        /\ w.bits = set_bit_field(v.bits, p)
        /\ w.reqs = v.reqs /\ w.blks = v.blks /\ v.reqs \in Nat /\ v.blks \in Nat
    BY <2>0 DEF Views
  <2>2. Reads(m, v, w)
    BY <2>0 DEF Reads, ReadsHave
  <2> HIDE DEF w
  <2>3. t - got + w.reqs - v.reqs = t - got /\ w.blks <= v.blks + 0
    BY <2>1
  <2>4. Done(c1) \subseteq Pieces
    BY DEF Done
  <2>5. Fit(c1, s, w.wants, t - got)
    <3>1. CASE got = 0
      <4>1. t - got = t
        BY <3>1
      <4> QED
        BY <1>2, <2>1, <2>4, <3>1, <4>1 DEF Fit
    <3>2. CASE got = 1
      <4>1. t = 1 /\ t - got = 0 /\ v.wants
        BY <1>2, <3>2 DEF Fit
      <4> QED
        BY <2>1, <4>1 DEF Fit
    <3> QED
      BY <3>1, <3>2
  <2>6. LastOf(w, c1, s)
    BY <1>2, <2>1 DEF LastOf
  <2> QED
    BY <2>1, <2>2, <2>3, <2>5, <2>6
<1> HIDE DEF m
<1> QED
  BY <1>1, <1>2, Speaking DEF m

LEMMA SaysRequest ==
    ASSUME NEW c, NEW c1, NEW s, NEW p \in Index,
           c1.conn[s].am_chocking = c.conn[s].am_chocking, c1.bits = c.bits,
           ~c.conn[s].request_sent, c.conn[s].am_intersted, Done(c) # Pieces,
           c1.conn[s].request_sent, ~c1.conn[s].peer_chocking
    PROVE  Speaks(c, c1, s, RequestMessage(p, 0, RequestLength(p)), 0, 0)
<1> DEFINE m == RequestMessage(p, 0, RequestLength(p))
<1>1. m \in Seq(Int)
  BY MessagesAre
<1>2. ASSUME NEW v \in Views, NEW t \in Int, LastOf(v, c, s), Fit(c, s, v.wants, t)
      PROVE  \E w \in Views : /\ Reads(m, v, w) /\ LastOf(w, c1, s)
                              /\ w.blks <= v.blks + 0
                              /\ Fit(c1, s, w.wants, t - 0 + w.reqs - v.reqs)
  <2> DEFINE w == [v EXCEPT !.reqs = IF p \in Pieces THEN @ + 1 ELSE @]
  <2>0. t = 0 /\ v.wants
    BY <1>2 DEF Fit
  <2>1. /\ w \in Views /\ w.wants = v.wants /\ w.choking = v.choking /\ w.bits = v.bits
        /\ w.reqs = (IF p \in Pieces THEN v.reqs + 1 ELSE v.reqs)
        /\ w.blks = v.blks /\ v.reqs \in Nat /\ v.blks \in Nat
    BY DEF Views
  <2>2. Reads(m, v, w)
    BY <2>0 DEF Reads, ReadsRequest
  <2> HIDE DEF w
  <2>3. t - 0 + w.reqs - v.reqs \in {0, 1} /\ w.blks <= v.blks + 0
    BY <2>0, <2>1
  <2>4. Fit(c1, s, w.wants, t - 0 + w.reqs - v.reqs)
    BY <2>0, <2>1, <2>3 DEF Fit
  <2>5. LastOf(w, c1, s)
    BY <1>2, <2>1 DEF LastOf
  <2> QED
    BY <2>1, <2>2, <2>3, <2>4, <2>5
<1> HIDE DEF m
<1> QED
  BY <1>1, <1>2, Speaking DEF m

LEMMA SaysBlock ==
    ASSUME NEW c, NEW c1, NEW s, NEW p \in Pieces,
           c1.conn[s].am_chocking = c.conn[s].am_chocking, c1.bits = c.bits,
           c.conn[s].request_sent => c1.conn[s].request_sent,
           c1.conn[s].peer_chocking => c.conn[s].peer_chocking,
           c1.conn[s].am_intersted => c.conn[s].am_intersted,
           Done(c) \subseteq Done(c1)
    PROVE  Speaks(c, c1, s, PeiceMessage(p, 0, Data(p, 0, RequestLength(p))), 0, 1)
<1> DEFINE m == PeiceMessage(p, 0, Data(p, 0, RequestLength(p)))
<1>1. m \in Seq(Int)
  BY MessagesAre
<1>2. ASSUME NEW v \in Views, NEW t \in Int, LastOf(v, c, s), Fit(c, s, v.wants, t)
      PROVE  \E w \in Views : /\ Reads(m, v, w) /\ LastOf(w, c1, s)
                              /\ w.blks <= v.blks + 1
                              /\ Fit(c1, s, w.wants, t - 0 + w.reqs - v.reqs)
  <2> DEFINE w == [v EXCEPT !.blks = @ + 1]
  <2>1. /\ w \in Views /\ w.wants = v.wants /\ w.choking = v.choking /\ w.bits = v.bits
        /\ w.reqs = v.reqs /\ w.blks = v.blks + 1 /\ v.reqs \in Nat /\ v.blks \in Nat
    BY DEF Views
  <2>2. Reads(m, v, w)
    BY DEF Reads, ReadsBlock
  <2> HIDE DEF w
  <2>3. t - 0 + w.reqs - v.reqs = t /\ w.blks <= v.blks + 1
    BY <2>1
  <2>4. Done(c1) \subseteq Pieces
    BY DEF Done
  <2>5. Fit(c1, s, w.wants, t)
    BY <1>2, <2>1, <2>4 DEF Fit
  <2>6. LastOf(w, c1, s)
    BY <1>2, <2>1 DEF LastOf
  <2> QED
    BY <2>1, <2>2, <2>3, <2>5, <2>6
<1> HIDE DEF m
<1> QED
  BY <1>1, <1>2, Speaking DEF m

-----------------------------------------------------------------------------
(* The search for the rarest piece                                          *)

(* What holds of every client in between.                                    *)
ClientOK(c) ==
    /\ c \in ClientType
    /\ c.bits \in SUBSET Cells
    /\ c.seeder => Done(c) = {}
    /\ \A i \in Slots :
          c.conn[i].in_use /\ c.conn[i].peer_intersted => ~c.conn[i].am_chocking

(* What c knows of the peer in slot s has not changed.                        *)
SameView(c, c1, s) ==
    /\ c1.conn[s].in_use = c.conn[s].in_use
    /\ c1.conn[s].peer_chocking = c.conn[s].peer_chocking
    /\ c1.conn[s].bit_field = c.conn[s].bit_field
    /\ c1.conn[s].peer_intersted = c.conn[s].peer_intersted

Outgoing == [Slots -> Seq(Int)]

(* A set of naturals that is not empty has a least member.                   *)
LEMMA LeastMember ==
    ASSUME NEW S, S \subseteq Nat, S # {}
    PROVE  \E s \in S : \A t \in S : s <= t
<1> DEFINE R == OpToRel(<, Nat)
<1>1. IsWellFoundedOn(R, Nat)
  BY NatLessThanWellFounded
<1>2. PICK x \in S : \A y \in S : <<y, x>> \notin R
  <2> HIDE DEF R
  <2> QED
    BY <1>1, WFMin, Zenon
<1>3. \A y \in S : ~ (y < x)
  <2> TAKE y \in S
  <2>1. <<y, x>> \notin R
    BY <1>2
  <2>2. <<y, x>> \in Nat \X Nat
    OBVIOUS
  <2> QED
    BY <2>1, <2>2 DEF OpToRel
<1> HIDE DEF R
<1> QED
  BY <1>3

LEMMA FirstOfFacts ==
    ASSUME NEW S \in SUBSET Slots
    PROVE  /\ FirstOf(S) \in S \/ FirstOf(S) = MAX_CONN
           /\ Slots \subseteq Nat /\ MAX_CONN \in Nat /\ \A s \in Slots : s < MAX_CONN
<1>1. Slots \subseteq Nat /\ MAX_CONN \in Nat /\ \A s \in Slots : s < MAX_CONN
  BY ClientAssumption DEF Slots
<1>2. CASE S = {}
  BY <1>1, <1>2 DEF FirstOf
<1>3. CASE S # {}
  <2>1. S \subseteq Nat
    BY <1>1
  <2>2. \E s \in S : \A t \in S : s <= t
    BY <1>3, <2>1, LeastMember
  <2>3. FirstOf(S) = CHOOSE s \in S : \A t \in S : s <= t
    BY <1>3 DEF FirstOf
  <2> QED
    BY <1>1, <2>2, <2>3
<1> QED
  BY <1>2, <1>3

LEMMA RarestThere ==
    ASSUME NEW c, ClientOK(c)
    PROVE  Rarest(c.rank) # {}
<1> DEFINE S == { c.rank[p] : p \in Pieces }
<1>1. c.rank \in [Pieces -> Nat]
  BY DEF ClientOK, ClientType
<1>2. S \subseteq Nat /\ S # {}
  <2>1. 0 \in Pieces
    BY Sizes DEF Pieces
  <2> QED
    BY <1>1, <2>1
<1>3. PICK x \in S : \A y \in S : x <= y
  BY <1>2, LeastMember
<1>4. PICK p \in Pieces : x = c.rank[p]
  OBVIOUS
<1>5. \A q \in Pieces : c.rank[p] <= c.rank[q]
  BY <1>3, <1>4
<1> QED
  BY <1>4, <1>5 DEF Rarest

(* The slots that are asked for piece r and for piece -1.                     *)
LEMMA SlotsAsked ==
    ASSUME NEW c, ClientOK(c), NEW r \in Pieces, NEW a, NEW b, NEW told,
           a = Chosen(c.conn, c.stat, r, -1), b = Chosen(c.conn, c.stat, -1, a),
           told = Told(c.conn, c.stat, r, a, b)
    PROVE  /\ told \subseteq Slots /\ \A s \in told : ~c.conn[s].am_intersted
           /\ \A s \in {a, b} \cap Slots :
                 /\ ~c.conn[s].peer_chocking /\ ~c.conn[s].request_sent
                 /\ c.stat[r] = NOT_DOWNLOADED
                 /\ ~c.conn[s].am_intersted => s \in told
           /\ a \in Slots => a # b
<1> DEFINE A == { s \in Holders(c.conn, c.stat, r, -1) :
                    ~c.conn[s].peer_chocking /\ ~c.conn[s].request_sent }
           B == { s \in Holders(c.conn, c.stat, -1, a) :
                    ~c.conn[s].peer_chocking /\ ~c.conn[s].request_sent }
<1>1. A \in SUBSET Slots /\ B \in SUBSET Slots
  BY DEF Holders
<1>2. a = FirstOf(A) /\ b = FirstOf(B)
  BY DEF Chosen
<1>3. /\ \A s \in A : /\ ~c.conn[s].peer_chocking /\ ~c.conn[s].request_sent
                      /\ c.stat[r] = NOT_DOWNLOADED
      /\ \A s \in B : ~c.conn[s].peer_chocking /\ ~c.conn[s].request_sent /\ s > a
  BY DEF Holders
<1> HIDE DEF A, B
<1>4. /\ a \in A \/ a = MAX_CONN
      /\ b \in B \/ b = MAX_CONN
      /\ Slots \subseteq Nat /\ MAX_CONN \in Nat /\ \A s \in Slots : s < MAX_CONN
  BY <1>1, <1>2, FirstOfFacts
<1>5. b \in Slots => a \in A /\ b \in B /\ a # b
  BY <1>1, <1>3, <1>4
<1>6. a \in Slots => a \in A /\ a # b
  BY <1>1, <1>3, <1>4
<1>7. /\ told \subseteq Slots
      /\ \A s \in told : ~c.conn[s].am_intersted
      /\ \A s \in {a, b} \cap Slots : ~c.conn[s].am_intersted => s \in told
  BY DEF Told, Nudged, Holders
<1> QED
  BY <1>3, <1>5, <1>6, <1>7

LEMMA ConnAfterIs ==
    ASSUME NEW conn \in [Slots -> ConnType], NEW r \in Int, NEW a, NEW b, NEW told,
           NEW s \in Slots
    PROVE  LET d == ConnAfter(conn, r, a, b, told)[s]
           IN /\ d \in ConnType
              /\ d.am_intersted = (conn[s].am_intersted \/ s \in told)
              /\ d.request_sent = (conn[s].request_sent \/ s \in {a, b})
              /\ d.in_use = conn[s].in_use
              /\ d.am_chocking = conn[s].am_chocking
              /\ d.peer_chocking = conn[s].peer_chocking
              /\ d.bit_field = conn[s].bit_field
              /\ d.peer_intersted = conn[s].peer_intersted
<1> DEFINE e == conn[s]
           keen == e.am_intersted \/ s \in told
           sent == e.request_sent \/ s \in {a, b}
           piece == IF s = a THEN r ELSE IF s = b THEN -1 ELSE e.intersted_peice
           d == ConnAfter(conn, r, a, b, told)[s]
<1>1. e \in ConnType
  OBVIOUS
<1>2. d = [e EXCEPT !.am_intersted = keen, !.request_sent = sent, !.intersted_peice = piece]
  BY DEF ConnAfter
<1>3. keen \in BOOLEAN /\ sent \in BOOLEAN
  OBVIOUS
<1>4. piece \in Int
  BY <1>1 DEF ConnType
<1> HIDE DEF e, keen, sent, piece, d
<1>5. /\ d \in ConnType
      /\ d.am_intersted = keen /\ d.request_sent = sent /\ d.in_use = e.in_use
      /\ d.am_chocking = e.am_chocking /\ d.peer_chocking = e.peer_chocking
      /\ d.bit_field = e.bit_field /\ d.peer_intersted = e.peer_intersted
  BY <1>1, <1>2, <1>3, <1>4 DEF ConnType
<1> QED
  BY <1>5 DEF e, keen, sent, d

(* What the search says to one slot.                                         *)
LEMMA SearchSpeaks ==
    ASSUME NEW c, ClientOK(c), NEW r \in Pieces, NEW used, NEW out, NEW s \in Slots,
           NEW a, NEW b, NEW told,
           a = Chosen(c.conn, c.stat, r, -1), b = Chosen(c.conn, c.stat, -1, a),
           told = Told(c.conn, c.stat, r, a, b),
           NEW c1, c1.conn = ConnAfter(c.conn, r, a, b, told), c1.bits = c.bits,
           Done(c1) = Done(c)
    PROVE  Speaks(c, c1, s, SendsTo(s, told, r, a, b), 0, 0)
<1>1. /\ told \subseteq Slots /\ \A x \in told : ~c.conn[x].am_intersted
      /\ \A x \in {a, b} \cap Slots :
            /\ ~c.conn[x].peer_chocking /\ ~c.conn[x].request_sent
            /\ c.stat[r] = NOT_DOWNLOADED
            /\ ~c.conn[x].am_intersted => x \in told
      /\ a \in Slots => a # b
  BY SlotsAsked
<1>2. c.conn \in [Slots -> ConnType] /\ c.stat \in [Index -> Status]
  BY DEF ClientOK, ClientType
<1>3. /\ c1.conn[s].am_chocking = c.conn[s].am_chocking
      /\ c1.conn[s].peer_chocking = c.conn[s].peer_chocking
      /\ c1.conn[s].am_intersted = (c.conn[s].am_intersted \/ s \in told)
      /\ c1.conn[s].request_sent = (c.conn[s].request_sent \/ s \in {a, b})
  <2>1. r \in Int
    BY Sizes DEF Pieces
  <2> QED
    BY <1>2, <2>1, ConnAfterIs
<1> DEFINE A == IF s \in told THEN Message(INTERSTED, <<>>) ELSE <<>>
           B == IF s = a THEN RequestMessage(r, 0, RequestLength(r)) ELSE <<>>
           D == IF s = b THEN RequestMessage(-1, 0, RequestLength(-1)) ELSE <<>>
           y == [c EXCEPT !.conn[s].am_intersted = TRUE]
<1>4. SendsTo(s, told, r, a, b) = A \o B \o D
  BY DEF SendsTo
<1>5. /\ y.conn[s].am_chocking = c.conn[s].am_chocking
      /\ y.conn[s].peer_chocking = c.conn[s].peer_chocking
      /\ y.conn[s].am_intersted = TRUE
      /\ y.conn[s].request_sent = c.conn[s].request_sent
      /\ y.bits = c.bits /\ y.stat = c.stat
  BY <1>2 DEF ConnType, ClientOK, ClientType
<1>6. Done(y) = Done(c)
  BY <1>5 DEF Done
<1> HIDE DEF y
<1>7. A \in Seq(Int) /\ B \in Seq(Int) /\ D \in Seq(Int)
  <2>1. r \in Index /\ -1 \in Index /\ <<>> \in Seq(Int) /\ INTERSTED \in Int
    BY Sizes DEF Index, Pieces, INTERSTED
  <2> QED
    BY <2>1, MessagesAre
<1>8. ASSUME s \in {a, b} PROVE Done(c) # Pieces
  <2>1. c.stat[r] = NOT_DOWNLOADED
    BY <1>1, <1>8
  <2> QED
    BY <2>1 DEF Done, NOT_DOWNLOADED, COMPLETED
<1>9. ASSUME s \in {a, b} PROVE Speaks(c, y, s, A, 0, 0)
  <2>1. CASE s \in told
    <3>1. A = Message(INTERSTED, <<>>)
      BY <2>1
    <3> QED
      BY <1>5, <3>1, SaysIntersted
  <2>2. CASE s \notin told
    <3>1. A = <<>> /\ c.conn[s].am_intersted
      BY <1>1, <1>9, <2>2
    <3> QED
      BY <1>5, <1>6, <3>1, Quiet
  <2> QED
    BY <2>1, <2>2
<1>10. CASE s = a
  <2>1. B = RequestMessage(r, 0, RequestLength(r)) /\ D = <<>> /\ r \in Index
    BY <1>1, <1>10, Sizes DEF Index, Pieces
  <2>2. Speaks(y, c1, s, B, 0, 0)
    <3>1. /\ ~y.conn[s].request_sent /\ Done(y) # Pieces
          /\ c1.conn[s].request_sent /\ ~c1.conn[s].peer_chocking
      BY <1>1, <1>3, <1>5, <1>6, <1>8, <1>10
    <3> HIDE DEF B
    <3> QED
      BY <1>3, <1>5, <2>1, <3>1, SaysRequest
  <2>3. Speaks(c, c1, s, A \o B, 0, 0)
    <3>1. Speaks(c, c1, s, A \o B, 0 + 0, 0 + 0)
      <4> HIDE DEF A, B
      <4> QED
        BY <1>9, <1>10, <2>2, SpeaksOn
    <3> QED
      BY <3>1
  <2>4. A \o B \o D = A \o B
    <3> HIDE DEF A, B, D
    <3> QED
      BY <1>7, <2>1
  <2> QED
    BY <1>4, <2>3, <2>4
<1>11. CASE s = b /\ s # a
  <2>1. B = <<>> /\ D = RequestMessage(-1, 0, RequestLength(-1)) /\ -1 \in Index
    BY <1>11, Sizes DEF Index
  <2>2. Speaks(y, c1, s, D, 0, 0)
    <3>1. /\ ~y.conn[s].request_sent /\ Done(y) # Pieces
          /\ c1.conn[s].request_sent /\ ~c1.conn[s].peer_chocking
      BY <1>1, <1>3, <1>5, <1>6, <1>8, <1>11
    <3> HIDE DEF D
    <3> QED
      BY <1>3, <1>5, <2>1, <3>1, SaysRequest
  <2>3. Speaks(c, c1, s, A \o D, 0, 0)
    <3>1. Speaks(c, c1, s, A \o D, 0 + 0, 0 + 0)
      <4> HIDE DEF A, D
      <4> QED
        BY <1>9, <1>11, <2>2, SpeaksOn
    <3> QED
      BY <3>1
  <2>4. A \o B \o D = A \o D
    <3> HIDE DEF A, B, D
    <3> QED
      BY <1>7, <2>1
  <2> QED
    BY <1>4, <2>3, <2>4
<1>12. CASE s # a /\ s # b
  <2>1. B = <<>> /\ D = <<>>
    BY <1>12
  <2>2. A \o B \o D = A
    <3> HIDE DEF A, B, D
    <3> QED
      BY <1>7, <2>1
  <2>3. Speaks(c, c1, s, A, 0, 0)
    <3>1. CASE s \in told
      <4>1. A = Message(INTERSTED, <<>>)
        BY <3>1
      <4> QED
        BY <1>3, <4>1, SaysIntersted
    <3>2. CASE s \notin told
      <4>1. A = <<>>
        BY <3>2
      <4> QED
        BY <1>3, <3>2, <4>1, Quiet
    <3> QED
      BY <3>1, <3>2
  <2> QED
    BY <1>4, <2>2, <2>3
<1> QED
  BY <1>10, <1>11, <1>12

(* c1 is c after some messages that bring nothing new to read.                *)
Searched(c, c1, out, out1) ==
    /\ ClientOK(c1)
    /\ c1.swaps = c.swaps /\ c1.seeder = c.seeder /\ c1.proc = c.proc
    /\ Done(c1) = Done(c)
    /\ out1 \in Outgoing
    /\ \A s \in Slots :
          /\ SameView(c, c1, s)
          /\ \E o : out1[s] = out[s] \o o /\ Speaks(c, c1, s, o, 0, 0)

LEMMA SearchKeeps ==
    ASSUME NEW c, ClientOK(c), NEW r \in Pieces, NEW used, NEW out \in Outgoing
    PROVE  LET x == SearchFor(c, used, out, r)
           IN x.used = used /\ Searched(c, x.client, out, x.out)
<1> DEFINE a == Chosen(c.conn, c.stat, r, -1)
           b == Chosen(c.conn, c.stat, -1, a)
           told == Told(c.conn, c.stat, r, a, b)
           conn1 == ConnAfter(c.conn, r, a, b, told)
           stat1 == StatAfter(c.stat, r, a, b)
           rank1 == RankAfter(c.rank, r, a)
           c1 == [c EXCEPT !.conn = conn1, !.stat = stat1, !.rank = rank1]
           more == [s \in Slots |-> SendsTo(s, told, r, a, b)]
           x == SearchFor(c, used, out, r)
<1>1. x.client = c1 /\ x.used = used /\ x.out = Then(out, more)
  BY DEF SearchFor, Result
<1>2. /\ told \subseteq Slots
      /\ \A s \in {a, b} \cap Slots : c.stat[r] = NOT_DOWNLOADED
  BY SlotsAsked
<1> HIDE DEF a, b, told
<1>3. /\ c.conn \in [Slots -> ConnType] /\ c.stat \in [Index -> Status]
      /\ c.rank \in [Pieces -> Nat] /\ c \in ClientType
  BY DEF ClientOK, ClientType
<1>4. -1 \notin Pieces /\ \A p \in Pieces : p \in Index /\ p \in Int
  BY Sizes DEF Pieces, Index
<1>5. conn1 \in [Slots -> ConnType]
  <2>1. r \in Int /\ -1 \in Int
    BY <1>4
  <2>2. \A s \in Slots : conn1[s] \in ConnType
    BY <1>3, <2>1, ConnAfterIs
  <2>3. conn1 = [s \in Slots |-> conn1[s]]
    BY DEF ConnAfter
  <2> HIDE DEF conn1
  <2> QED
    BY <2>2, <2>3
<1>6. stat1 \in [Index -> Status]
  BY <1>3 DEF StatAfter, Status
<1>7. rank1 \in [Pieces -> Nat]
  BY <1>3 DEF RankAfter, DOWNLOADING_RANKING
<1>8. \A p \in Pieces : stat1[p] = COMPLETED <=> c.stat[p] = COMPLETED
  BY <1>2, <1>4 DEF StatAfter, NOT_DOWNLOADED, DOWNLOADING, COMPLETED
<1>9. \A s \in Slots : /\ conn1[s].in_use = c.conn[s].in_use
                       /\ conn1[s].am_chocking = c.conn[s].am_chocking
                       /\ conn1[s].peer_chocking = c.conn[s].peer_chocking
                       /\ conn1[s].bit_field = c.conn[s].bit_field
                       /\ conn1[s].peer_intersted = c.conn[s].peer_intersted
  BY <1>3, <1>4, ConnAfterIs
<1> DEFINE conn2 == conn1
<1>10. /\ c1 \in ClientType /\ c1.conn = conn1 /\ c1.stat = stat1
       /\ c1.bits = c.bits /\ c1.swaps = c.swaps /\ c1.seeder = c.seeder
       /\ c1.proc = c.proc
  <2> HIDE DEF conn1, stat1, rank1
  <2> QED
    BY <1>3, <1>5, <1>6, <1>7 DEF ClientType
<1>11. Done(c1) = Done(c)
  <2> HIDE DEF c1, stat1
  <2> QED
    BY <1>8, <1>10 DEF Done
<1> HIDE DEF c1, stat1, rank1
<1>12. ClientOK(c1)
  <2> HIDE DEF conn1
  <2> QED
    BY <1>9, <1>10, <1>11 DEF ClientOK
<1>13. ASSUME NEW s \in Slots
       PROVE  SameView(c, c1, s)
  <2> HIDE DEF conn1
  <2> QED
    BY <1>9, <1>10 DEF SameView
<1>14. ASSUME NEW s \in Slots
       PROVE  Speaks(c, c1, s, SendsTo(s, told, r, a, b), 0, 0)
  BY <1>10, <1>11, SearchSpeaks DEF a, b, told
<1>15. \A s \in Slots : SendsTo(s, told, r, a, b) \in Seq(Int)
  <2>1. r \in Index /\ -1 \in Index /\ <<>> \in Seq(Int) /\ INTERSTED \in Int
    BY Sizes DEF Index, Pieces, INTERSTED
  <2>2. /\ Message(INTERSTED, <<>>) \in Seq(Int)
        /\ RequestMessage(r, 0, RequestLength(r)) \in Seq(Int)
        /\ RequestMessage(-1, 0, RequestLength(-1)) \in Seq(Int)
    BY <2>1, MessagesAre
  <2> TAKE s \in Slots
  <2> DEFINE A == IF s \in told THEN Message(INTERSTED, <<>>) ELSE <<>>
             B == IF s = a THEN RequestMessage(r, 0, RequestLength(r)) ELSE <<>>
             D == IF s = b THEN RequestMessage(-1, 0, RequestLength(-1)) ELSE <<>>
  <2>3. A \in Seq(Int) /\ B \in Seq(Int) /\ D \in Seq(Int)
    BY <2>1, <2>2
  <2>4. SendsTo(s, told, r, a, b) = A \o B \o D
    BY DEF SendsTo
  <2> HIDE DEF A, B, D
  <2> QED
    BY <2>3, <2>4
<1>16. /\ Then(out, more) \in Outgoing
       /\ \A s \in Slots : Then(out, more)[s] = out[s] \o SendsTo(s, told, r, a, b)
  BY <1>15 DEF Then, Outgoing
<1> HIDE DEF conn1, more, x
<1> QED
  BY <1>1, <1>10, <1>11, <1>12, <1>13, <1>14, <1>16 DEF Searched, x

LEMMA NothingMore ==
    ASSUME NEW c, ClientOK(c), NEW out \in Outgoing
    PROVE  Searched(c, c, out, out)
<1>1. ASSUME NEW s \in Slots
      PROVE  SameView(c, c, s) /\ out[s] = out[s] \o <<>> /\ Speaks(c, c, s, <<>>, 0, 0)
  BY Quiet DEF SameView, Outgoing
<1> QED
  BY <1>1 DEF Searched

(* The search for the rarest piece, which always comes to an end.             *)
LEMMA FindRarestKeeps ==
    ASSUME NEW c, ClientOK(c), NEW used, NEW out \in Outgoing
    PROVE  /\ FindRarest(c, used, out) # {}
           /\ \A x \in FindRarest(c, used, out) :
                x.used = used /\ Searched(c, x.client, out, x.out)
<1>1. CASE \E p \in Rarest(c.rank) : c.rank[p] = ALL_DONE_RANKING
  <2>1. FindRarest(c, used, out) = {Result(c, used, out)}
    BY <1>1 DEF FindRarest
  <2> QED
    BY <2>1, NothingMore DEF Result
<1>2. CASE ~\E p \in Rarest(c.rank) : c.rank[p] = ALL_DONE_RANKING
  <2>1. FindRarest(c, used, out) = { SearchFor(c, used, out, r) : r \in Rarest(c.rank) }
    BY <1>2 DEF FindRarest
  <2>2. Rarest(c.rank) # {} /\ Rarest(c.rank) \subseteq Pieces
    BY RarestThere DEF Rarest
  <2> QED
    BY <2>1, <2>2, SearchKeeps
<1> QED
  BY <1>1, <1>2

-----------------------------------------------------------------------------
(* What the handlers do                                                     *)

(* c has become c1 and said out, after reading from slot i.                   *)
Prepared(c, i, c1, out) ==
    /\ ClientOK(c1)
    /\ c1.swaps = c.swaps /\ c1.seeder = c.seeder
    /\ Done(c) \subseteq Done(c1)
    /\ out \in Outgoing
    /\ \A s \in Slots \ {i} :
          /\ SameView(c, c1, s)
          /\ c.conn[s].in_use /\ Sane(c1) => Speaks(c, c1, s, out[s], 0, 0)

Steady(c, i, x) == x.used \in Nat /\ Prepared(c, i, x.client, x.out)

LEMMA SearchAfter ==
    ASSUME NEW c, NEW i \in Slots, NEW c1, NEW c2, NEW out, NEW out2,
           Prepared(c, i, c1, out), Searched(c1, c2, out, out2)
    PROVE  /\ Prepared(c, i, c2, out2)
           /\ SameView(c1, c2, i)
           /\ Sane(c2) <=> Sane(c1)
           /\ \A g, a \in Nat :
                Speaks(c, c1, i, out[i], g, a) => Speaks(c, c2, i, out2[i], g, a)
<1>1. ASSUME NEW s \in Slots, NEW g \in Nat, NEW a \in Nat, Speaks(c, c1, s, out[s], g, a)
      PROVE  Speaks(c, c2, s, out2[s], g, a)
  <2>1. PICK o : out2[s] = out[s] \o o /\ Speaks(c1, c2, s, o, 0, 0)
    BY DEF Searched
  <2>2. Speaks(c, c2, s, out[s] \o o, g + 0, a + 0)
    BY <1>1, <2>1, SpeaksOn
  <2> QED
    BY <2>1, <2>2
<1>2. Sane(c2) <=> Sane(c1)
  BY DEF Searched, Sane
<1>3. ASSUME NEW s \in Slots \ {i}
      PROVE  /\ SameView(c, c2, s)
             /\ c.conn[s].in_use /\ Sane(c2) => Speaks(c, c2, s, out2[s], 0, 0)
  <2>1. SameView(c, c1, s) /\ SameView(c1, c2, s)
    BY DEF Prepared, Searched
  <2>2. SameView(c, c2, s)
    BY <2>1 DEF SameView
  <2>3. c.conn[s].in_use /\ Sane(c1) => Speaks(c, c1, s, out[s], 0, 0)
    BY DEF Prepared
  <2> QED
    BY <1>1, <1>2, <2>2, <2>3
<1>4. Prepared(c, i, c2, out2)
  BY <1>3 DEF Prepared, Searched
<1> QED
  BY <1>1, <1>2, <1>4 DEF Searched

(* Nothing but the record in slot i, and what neither end looks at.           *)
LEMMA OnlySlot ==
    ASSUME NEW c, ClientOK(c), NEW i \in Slots, NEW c1 \in ClientType, NEW out \in Outgoing,
           c1.bits = c.bits, c1.swaps = c.swaps, c1.seeder = c.seeder, Done(c1) = Done(c),
           \A s \in Slots \ {i} : c1.conn[s] = c.conn[s] /\ out[s] = <<>>,
           c1.conn[i].in_use /\ c1.conn[i].peer_intersted => ~c1.conn[i].am_chocking
    PROVE  Prepared(c, i, c1, out)
<1>1. ClientOK(c1)
  BY DEF ClientOK
<1>2. ASSUME NEW s \in Slots \ {i}
      PROVE  SameView(c, c1, s) /\ Speaks(c, c1, s, out[s], 0, 0)
  <2>1. c1.conn[s] = c.conn[s] /\ out[s] = <<>>
    OBVIOUS
  <2>2. Speaks(c, c1, s, <<>>, 0, 0)
    BY <2>1, Quiet
  <2> QED
    BY <2>1, <2>2 DEF SameView
<1> QED
  BY <1>1, <1>2 DEF Prepared

LEMMA WithSlotIs ==
    ASSUME NEW c \in ClientType, NEW i \in Slots, NEW d \in ConnType, NEW c1,
           c1 = WithSlot(c, i, d)
    PROVE  /\ c1 \in ClientType
           /\ c1.conn[i] = d
           /\ \A s \in Slots \ {i} : c1.conn[s] = c.conn[s]
           /\ c1.bits = c.bits /\ c1.swaps = c.swaps /\ c1.seeder = c.seeder
           /\ c1.proc = c.proc /\ c1.stat = c.stat /\ c1.rank = c.rank
           /\ Done(c1) = Done(c)
<1>1. /\ c1 \in ClientType
      /\ c1.conn[i] = d
      /\ \A s \in Slots \ {i} : c1.conn[s] = c.conn[s]
      /\ c1.bits = c.bits /\ c1.swaps = c.swaps /\ c1.seeder = c.seeder
      /\ c1.proc = c.proc /\ c1.stat = c.stat /\ c1.rank = c.rank
  BY DEF WithSlot, ClientType
<1> QED
  BY <1>1 DEF Done

LEMMA SlotChanged ==
    ASSUME NEW c, ClientOK(c), NEW i \in Slots, NEW d \in ConnType, NEW out \in Outgoing, NEW c1,
           c1 = WithSlot(c, i, d),
           d.in_use /\ d.peer_intersted => ~d.am_chocking,
           \A s \in Slots \ {i} : out[s] = <<>>
    PROVE  Prepared(c, i, c1, out)
<1>0. c \in ClientType
  BY DEF ClientOK
<1>1. /\ c1 \in ClientType
      /\ c1.conn[i] = d
      /\ \A s \in Slots \ {i} : c1.conn[s] = c.conn[s]
      /\ c1.bits = c.bits /\ c1.swaps = c.swaps /\ c1.seeder = c.seeder
      /\ Done(c1) = Done(c)
  BY <1>0, WithSlotIs
<1> QED
  BY <1>1, OnlySlot

LEMMA ConnIs ==
    ASSUME NEW c, ClientOK(c), NEW i \in Slots
    PROVE  /\ c.conn[i] \in ConnType /\ c \in ClientType
           /\ c.conn[i].in_use /\ c.conn[i].peer_intersted => ~c.conn[i].am_chocking
BY DEF ClientOK, ClientType

LEMMA OutsAre ==
    /\ Silence \in Outgoing
    /\ \A i \in Slots, m \in Seq(Int) : To(i, m) \in Outgoing
    /\ \A a, b \in Outgoing : /\ Then(a, b) \in Outgoing
                              /\ \A s \in Slots : Then(a, b)[s] = a[s] \o b[s]
<1>1. <<>> \in Seq(Int)
  OBVIOUS
<1>2. Silence \in Outgoing
  BY <1>1 DEF Silence, Outgoing
<1>3. \A i \in Slots, m \in Seq(Int) : To(i, m) \in Outgoing
  BY <1>1 DEF To, Outgoing
<1>4. ASSUME NEW a \in Outgoing, NEW b \in Outgoing
      PROVE  /\ Then(a, b) \in Outgoing
             /\ \A s \in Slots : Then(a, b)[s] = a[s] \o b[s]
  <2>1. \A s \in Slots : a[s] \in Seq(Int) /\ b[s] \in Seq(Int)
    BY DEF Outgoing
  <2>2. \A s \in Slots : a[s] \o b[s] \in Seq(Int)
    BY <2>1
  <2> QED
    BY <2>2 DEF Then, Outgoing
<1> QED
  BY <1>2, <1>3, <1>4

LEMMA MessageSeq ==
    ASSUME NEW id \in Int, NEW q \in Seq(Int)
    PROVE  Message(id, q) \in Seq(Int)
<1> DEFINE w == Word(1 + Len(q))
           b == <<id>>
<1>1. w \in Seq(Int)
  BY WordBytes
<1>2. b \in Seq(Int)
  OBVIOUS
<1>3. Message(id, q) = w \o b \o q
  BY DEF Message
<1> HIDE DEF w, b
<1> QED
  BY <1>1, <1>2, <1>3

LEMMA Numbers ==
    /\ UNCHOKE \in Int /\ INTERSTED \in Int /\ NOT_INTERSTED \in Int /\ HAVE_PEICE \in Int
    /\ BIT_FIELD \in Int /\ REQUEST \in Int /\ PEICE \in Int
BY DEF UNCHOKE, INTERSTED, NOT_INTERSTED, HAVE_PEICE, BIT_FIELD, REQUEST, PEICE

LEMMA TellIs ==
    ASSUME NEW i \in Slots, NEW id \in Int
    PROVE  /\ Tell(i, id) \in Outgoing
           /\ Tell(i, id)[i] = Message(id, <<>>)
           /\ \A s \in Slots \ {i} : Tell(i, id)[s] = <<>>
           /\ Message(id, <<>>) \in Seq(Int)
<1>1. Message(id, <<>>) \in Seq(Int)
  BY MessagesAre
<1> QED
  BY <1>1, Outs, OutsAre DEF Tell

LEMMA StaysSteady ==
    ASSUME NEW c, ClientOK(c), NEW i \in Slots, NEW used \in Nat
    PROVE  /\ Steady(c, i, Result(c, used, Silence))
           /\ Speaks(c, c, i, Silence[i], 0, 0)
<1>1. c \in ClientType /\ Silence \in Outgoing /\ \A s \in Slots : Silence[s] = <<>>
  BY Outs, OutsAre DEF ClientOK
<1>2. Prepared(c, i, c, Silence)
  BY <1>1, ConnIs, OnlySlot
<1>3. Speaks(c, c, i, <<>>, 0, 0)
  BY Quiet
<1> QED
  BY <1>1, <1>2, <1>3 DEF Steady, Result

LEMMA EndsSteady ==
    ASSUME NEW c, ClientOK(c), NEW i \in Slots, NEW used \in Nat, NEW how \in Procs
    PROVE  Steady(c, i, Ends(c, how, used)) /\ Ends(c, how, used).client.proc = how
<1> DEFINE c1 == [c EXCEPT !.proc = how]
<1>1. /\ c1 \in ClientType /\ c1.conn = c.conn /\ c1.bits = c.bits /\ c1.swaps = c.swaps
      /\ c1.seeder = c.seeder /\ c1.stat = c.stat /\ c1.proc = how
  BY DEF ClientOK, ClientType
<1>2. Silence \in Outgoing /\ \A s \in Slots : Silence[s] = <<>>
  BY Outs, OutsAre
<1>3. Ends(c, how, used) = Result(c1, used, Silence)
  BY DEF Ends
<1> HIDE DEF c1
<1>4. Done(c1) = Done(c)
  BY <1>1 DEF Done
<1>5. Prepared(c, i, c1, Silence)
  BY <1>1, <1>2, <1>4, ConnIs, OnlySlot
<1> QED
  BY <1>1, <1>3, <1>5 DEF Steady, Result

LEMMA CloseSteady ==
    ASSUME NEW c, ClientOK(c), NEW i \in Slots, NEW used \in Nat
    PROVE  /\ Steady(c, i, CloseConnection(c, i, used))
           /\ ~CloseConnection(c, i, used).client.conn[i].in_use
<1> DEFINE d == [c.conn[i] EXCEPT !.in_use = FALSE]
           c1 == [c EXCEPT !.conn = Closed(@, i)]
<1>1. c.conn[i] \in ConnType /\ c \in ClientType
  BY ConnIs
<1>2. d \in ConnType /\ ~d.in_use
  BY <1>1 DEF ConnType
<1>3. c1 = WithSlot(c, i, d)
  BY DEF WithSlot, Closed
<1>4. Silence \in Outgoing /\ \A s \in Slots : Silence[s] = <<>>
  BY Outs, OutsAre
<1>5. CloseConnection(c, i, used) = Result(c1, used, Silence)
  BY DEF CloseConnection
<1> HIDE DEF c1, d
<1>6. Prepared(c, i, c1, Silence)
  BY <1>2, <1>3, <1>4, SlotChanged
<1>7. c1.conn[i] = d
  BY <1>1, <1>2, <1>3, WithSlotIs
<1> QED
  BY <1>2, <1>5, <1>6, <1>7 DEF Steady, Result

-----------------------------------------------------------------------------
(* Messages without a payload                                               *)

LEMMA ChokeSteady ==
    ASSUME NEW c, ClientOK(c), NEW i \in Slots
    PROVE  Steady(c, i, Result([c EXCEPT !.conn[i].peer_chocking = TRUE], 5, Silence))
<1> DEFINE d == [c.conn[i] EXCEPT !.peer_chocking = TRUE]
           c1 == [c EXCEPT !.conn[i].peer_chocking = TRUE]
<1>1. c.conn[i] \in ConnType /\ c \in ClientType
  BY ConnIs
<1>2. d \in ConnType /\ (d.in_use /\ d.peer_intersted => ~d.am_chocking)
  BY <1>1, ConnIs DEF ConnType
<1>3. c1 = WithSlot(c, i, d)
  BY DEF WithSlot
<1>4. Silence \in Outgoing /\ \A s \in Slots : Silence[s] = <<>>
  BY Outs, OutsAre
<1> HIDE DEF c1, d
<1>5. Prepared(c, i, c1, Silence)
  BY <1>2, <1>3, <1>4, SlotChanged
<1> QED
  BY <1>5 DEF Steady, Result, c1

LEMMA UnchokeRead ==
    ASSUME NEW c, ClientOK(c), NEW i \in Slots
    PROVE  /\ ReadUnchoke(c, i) # {}
           /\ \A x \in ReadUnchoke(c, i) :
                /\ Steady(c, i, x)
                /\ x.used = 5
                /\ ~x.client.conn[i].peer_chocking
                /\ x.client.conn[i].bit_field = c.conn[i].bit_field
                /\ x.client.conn[i].peer_intersted = c.conn[i].peer_intersted
                /\ Speaks(c, x.client, i, x.out[i], 0, 0)
<1> DEFINE d == [c.conn[i] EXCEPT !.peer_chocking = FALSE]
           c1 == [c EXCEPT !.conn[i].peer_chocking = FALSE]
<1>1. c.conn[i] \in ConnType /\ c \in ClientType
  BY ConnIs
<1>2. /\ d \in ConnType /\ (d.in_use /\ d.peer_intersted => ~d.am_chocking)
      /\ ~d.peer_chocking /\ d.bit_field = c.conn[i].bit_field
      /\ d.peer_intersted = c.conn[i].peer_intersted
      /\ d.am_chocking = c.conn[i].am_chocking /\ d.request_sent = c.conn[i].request_sent
      /\ d.am_intersted = c.conn[i].am_intersted
  BY <1>1, ConnIs DEF ConnType
<1>3. c1 = WithSlot(c, i, d)
  BY DEF WithSlot
<1>4. Silence \in Outgoing /\ \A s \in Slots : Silence[s] = <<>>
  BY Outs, OutsAre
<1>5. ReadUnchoke(c, i) =
        IF c.conn[i].am_intersted THEN FindRarest(c1, 5, Silence) ELSE {Result(c1, 5, Silence)}
  BY DEF ReadUnchoke
<1> HIDE DEF c1, d
<1>6. Prepared(c, i, c1, Silence)
  BY <1>2, <1>3, <1>4, SlotChanged
<1>7. c1.conn[i] = d /\ c1.bits = c.bits /\ Done(c1) = Done(c)
  BY <1>1, <1>2, <1>3, WithSlotIs
<1>8. Speaks(c, c1, i, Silence[i], 0, 0)
  <2>1. Speaks(c, c1, i, <<>>, 0, 0)
    BY <1>2, <1>7, Quiet
  <2> QED
    BY <1>4, <2>1
<1>9. ClientOK(c1)
  BY <1>6 DEF Prepared
<1>10. /\ ReadUnchoke(c, i) # {}
       /\ \A x \in ReadUnchoke(c, i) : x.used = 5 /\ Searched(c1, x.client, Silence, x.out)
  <2>1. CASE c.conn[i].am_intersted
    BY <1>4, <1>5, <1>9, <2>1, FindRarestKeeps
  <2>2. CASE ~c.conn[i].am_intersted
    <3>1. ReadUnchoke(c, i) = {Result(c1, 5, Silence)}
      BY <1>5, <2>2
    <3>2. Searched(c1, c1, Silence, Silence)
      BY <1>4, <1>9, NothingMore
    <3> QED
      BY <3>1, <3>2 DEF Result
  <2> QED
    BY <2>1, <2>2
<1>11. ASSUME NEW x \in ReadUnchoke(c, i)
       PROVE  /\ Prepared(c, i, x.client, x.out) /\ SameView(c1, x.client, i)
              /\ Speaks(c, x.client, i, x.out[i], 0, 0)
  BY <1>6, <1>8, <1>10, SearchAfter
<1> QED
  BY <1>2, <1>7, <1>10, <1>11 DEF Steady, SameView

LEMMA InterstedRead ==
    ASSUME NEW c, ClientOK(c), NEW i \in Slots
    PROVE  /\ ReadIntersted(c, i) # {}
           /\ \A x \in ReadIntersted(c, i) :
                /\ Steady(c, i, x)
                /\ x.used = 5
                /\ x.client.conn[i].peer_chocking = c.conn[i].peer_chocking
                /\ x.client.conn[i].bit_field = c.conn[i].bit_field
                /\ x.client.conn[i].peer_intersted
                /\ Speaks(c, x.client, i, x.out[i], 0, 0)
<1> DEFINE d == [c.conn[i] EXCEPT !.peer_intersted = TRUE, !.am_chocking = FALSE]
           c1 == [c EXCEPT !.conn[i].peer_intersted = TRUE, !.conn[i].am_chocking = FALSE]
           out == Tell(i, UNCHOKE)
<1>1. c.conn[i] \in ConnType /\ c \in ClientType
  BY ConnIs
<1>2. /\ d \in ConnType /\ d.peer_intersted /\ ~d.am_chocking /\ d.am_chocking = FALSE
      /\ d.peer_chocking = c.conn[i].peer_chocking /\ d.bit_field = c.conn[i].bit_field
      /\ d.request_sent = c.conn[i].request_sent /\ d.am_intersted = c.conn[i].am_intersted
  BY <1>1 DEF ConnType
<1>3. c1 = WithSlot(c, i, d)
  BY <1>1 DEF WithSlot, ClientType
<1>4. /\ out \in Outgoing /\ out[i] = Message(UNCHOKE, <<>>)
      /\ \A s \in Slots \ {i} : out[s] = <<>>
  BY Numbers, TellIs
<1>5. ReadIntersted(c, i) = {Result(c1, 5, out)}
  BY DEF ReadIntersted
<1> HIDE DEF c1, d, out
<1>6. Prepared(c, i, c1, out)
  BY <1>2, <1>3, <1>4, SlotChanged
<1>7. c1.conn[i] = d /\ c1.bits = c.bits /\ Done(c1) = Done(c)
  BY <1>1, <1>2, <1>3, WithSlotIs
<1>8. Speaks(c, c1, i, out[i], 0, 0)
  <2>1. Speaks(c, c1, i, Message(UNCHOKE, <<>>), 0, 0)
    BY <1>2, <1>7, SaysUnchoke
  <2> QED
    BY <1>4, <2>1
<1> QED
  BY <1>2, <1>5, <1>6, <1>7, <1>8 DEF Steady, Result

LEMMA NotInterstedRead ==
    ASSUME NEW c, ClientOK(c), NEW i \in Slots
    PROVE  /\ ReadNotIntersted(c, i) # {}
           /\ \A x \in ReadNotIntersted(c, i) :
                /\ Steady(c, i, x)
                /\ x.used = 5
                /\ x.client.conn[i].peer_chocking = c.conn[i].peer_chocking
                /\ x.client.conn[i].bit_field = c.conn[i].bit_field
                /\ ~x.client.conn[i].peer_intersted
                /\ Speaks(c, x.client, i, x.out[i], 0, 0)
<1> DEFINE d == [c.conn[i] EXCEPT !.peer_intersted = FALSE]
           c1 == [c EXCEPT !.conn[i].peer_intersted = FALSE]
<1>1. c.conn[i] \in ConnType /\ c \in ClientType
  BY ConnIs
<1>2. /\ d \in ConnType /\ ~d.peer_intersted /\ d.am_chocking = c.conn[i].am_chocking
      /\ d.peer_chocking = c.conn[i].peer_chocking /\ d.bit_field = c.conn[i].bit_field
      /\ d.request_sent = c.conn[i].request_sent /\ d.am_intersted = c.conn[i].am_intersted
  BY <1>1 DEF ConnType
<1>3. c1 = WithSlot(c, i, d)
  BY DEF WithSlot
<1>4. Silence \in Outgoing /\ \A s \in Slots : Silence[s] = <<>>
  BY Outs, OutsAre
<1>5. ReadNotIntersted(c, i) = {Result(c1, 5, Silence)}
  BY DEF ReadNotIntersted
<1> HIDE DEF c1, d
<1>6. Prepared(c, i, c1, Silence)
  BY <1>2, <1>3, <1>4, SlotChanged
<1>7. c1.conn[i] = d /\ c1.bits = c.bits /\ Done(c1) = Done(c)
  BY <1>1, <1>2, <1>3, WithSlotIs
<1>8. Speaks(c, c1, i, Silence[i], 0, 0)
  <2>1. Speaks(c, c1, i, <<>>, 0, 0)
    BY <1>2, <1>7, Quiet
  <2> QED
    BY <1>4, <2>1
<1> QED
  BY <1>2, <1>5, <1>6, <1>7, <1>8 DEF Steady, Result

-----------------------------------------------------------------------------
(* Bit fields and have messages                                             *)

LEMMA CheckInterstedIs ==
    ASSUME NEW conn, NEW s, NEW own, NEW stat
    PROVE  check_intersted(conn, s, own, stat) \in Int
<1> DEFINE wanted == { p \in Pieces : /\ ~get_bit_field(own, p)
                                      /\ get_bit_field(conn[s].bit_field, p)
                                      /\ stat[p] = NOT_DOWNLOADED }
<1>1. Pieces \subseteq Nat
  BY Sizes DEF Pieces
<1>2. wanted \subseteq Nat
  BY <1>1
<1>3. check_intersted(conn, s, own, stat) =
        IF wanted = {} THEN -1 ELSE CHOOSE p \in wanted : \A q \in wanted : p <= q
  BY DEF check_intersted
<1> HIDE DEF wanted
<1>4. wanted # {} => \E p \in wanted : \A q \in wanted : p <= q
  BY <1>2, LeastMember
<1> DEFINE least == CHOOSE p \in wanted : \A q \in wanted : p <= q
<1>5. wanted # {} => least \in wanted
  BY <1>4
<1>6. check_intersted(conn, s, own, stat) = IF wanted = {} THEN -1 ELSE least
  BY <1>3
<1> HIDE DEF least
<1>7. CASE wanted = {}
  BY <1>6, <1>7
<1>8. CASE wanted # {}
  <2>1. check_intersted(conn, s, own, stat) = least
    BY <1>6, <1>8
  <2>2. least \in Nat
    BY <1>2, <1>5, <1>8
  <2> QED
    BY <2>1, <2>2
<1> QED
  BY <1>7, <1>8

LEMMA AddHolderIs ==
    ASSUME NEW rank \in [Pieces -> Nat], NEW bits
    PROVE  AddHolder(rank, bits) \in [Pieces -> Nat]
BY DEF AddHolder

LEMMA BitsRead ==
    ASSUME NEW s \in Seq(Int), NEW n \in Nat \ {0}
    PROVE  BitsOf(Bytes(s, 6, 4 + n)) \in SUBSET Int
<1> DEFINE q == Bytes(s, 6, 4 + n)
           l == Len(q)
<1>1. q \in [1 .. n - 1 -> Int]
  <2>1. (4 + n) - 6 + 1 = n - 1
    OBVIOUS
  <2>2. \A k \in 1 .. n - 1 : 6 + k - 1 <= Len(s) => s[6 + k - 1] \in Int
    OBVIOUS
  <2> QED
    BY <2>1, <2>2 DEF Bytes
<1>2. n - 1 \in Nat
  OBVIOUS
<1> HIDE DEF q
<1>3. q \in Seq(Int)
  BY <1>1, <1>2
<1>4. l \in Nat
  BY <1>3
<1>5. BitsOf(q) = { b \in 0 .. 8 * l - 1 : (q[b \div 8 + 1] \div Weight[(b % 8) + 1]) % 2 = 1 }
  BY DEF BitsOf
<1> HIDE DEF l
<1>6. 0 .. 8 * l - 1 \subseteq Int
  BY <1>4
<1>7. BitsOf(q) \subseteq 0 .. 8 * l - 1
  BY <1>5
<1> QED
  BY <1>6, <1>7 DEF q

(* A bit field that is accepted.                                             *)
LEMMA BitsStored ==
    ASSUME NEW c, ClientOK(c), NEW i \in Slots, NEW bits \in SUBSET Int, NEW used \in Nat
    PROVE  /\ StoreBits(c, i, bits, used) # {}
           /\ \A x \in StoreBits(c, i, bits, used) :
                /\ Steady(c, i, x)
                /\ x.used = used
                /\ x.client.proc = "up" =>
                     /\ x.client.conn[i].peer_chocking = c.conn[i].peer_chocking
                     /\ x.client.conn[i].bit_field = bits
                     /\ x.client.conn[i].peer_intersted = c.conn[i].peer_intersted
                     /\ c.conn[i].peer_chocking =>
                           Speaks(c, x.client, i, x.out[i], 0, 0)
<1> DEFINE d0 == [c.conn[i] EXCEPT !.bit_field = bits]
           c0 == [c EXCEPT !.conn = StoreBitField(@, i, bits), !.rank = AddHolder(@, bits)]
           want == check_intersted(c0.conn, i, c.bits, c.stat)
           d1 == [d0 EXCEPT !.am_intersted = TRUE, !.intersted_peice = want]
           d2 == [d0 EXCEPT !.am_intersted = FALSE]
           c1 == [c0 EXCEPT !.conn[i].am_intersted = TRUE, !.conn[i].intersted_peice = want]
           c2 == [c0 EXCEPT !.conn[i].am_intersted = FALSE]
           yes == Tell(i, INTERSTED)
           no == Tell(i, NOT_INTERSTED)
           crash == c.seeder /\ \E p \in Pieces : get_bit_field(bits, p)
<1>1. c.conn[i] \in ConnType /\ c \in ClientType
  BY ConnIs
<1>2. want \in Int
  BY CheckInterstedIs
<1>3. StoreBits(c, i, bits, used) =
        IF crash THEN {Ends(c, "crashed", used)}
        ELSE IF want >= 0 THEN FindRarest(c1, used, yes) ELSE {Result(c2, used, no)}
  BY DEF StoreBits
<1> DEFINE cr == [c EXCEPT !.rank = AddHolder(@, bits)]
<1>4. c0 = WithSlot(cr, i, d0)
  BY <1>1 DEF WithSlot, StoreBitField, ClientType
<1>5. /\ cr \in ClientType /\ cr.conn = c.conn /\ cr.bits = c.bits /\ cr.swaps = c.swaps
      /\ cr.seeder = c.seeder /\ cr.stat = c.stat
  <2>1. AddHolder(c.rank, bits) \in [Pieces -> Nat]
    BY <1>1, AddHolderIs DEF ClientType
  <2> QED
    BY <1>1, <2>1 DEF ClientType
<1>6. /\ d0 \in ConnType /\ d0.bit_field = bits /\ d0.in_use = c.conn[i].in_use
      /\ d0.am_chocking = c.conn[i].am_chocking /\ d0.peer_chocking = c.conn[i].peer_chocking
      /\ d0.peer_intersted = c.conn[i].peer_intersted
      /\ d0.request_sent = c.conn[i].request_sent
  BY <1>1 DEF ConnType
<1> HIDE DEF want
<1>7. c1 = WithSlot(c0, i, d1) /\ c2 = WithSlot(c0, i, d2)
  <2> HIDE DEF c0, cr, d0
  <2>1. c0.conn[i] = d0
    BY <1>4, <1>5, <1>6, WithSlotIs
  <2>2. c0 \in ClientType
    BY <1>4, <1>5, <1>6, WithSlotIs
  <2> HIDE DEF c0, d0
  <2> QED
    BY <2>1, <2>2 DEF WithSlot, ClientType
<1> HIDE DEF c0, cr, crash
<1>8. /\ d1 \in ConnType /\ d1.bit_field = bits /\ d1.in_use = c.conn[i].in_use
      /\ d1.am_chocking = c.conn[i].am_chocking /\ d1.peer_chocking = c.conn[i].peer_chocking
      /\ d1.peer_intersted = c.conn[i].peer_intersted
      /\ d1.request_sent = c.conn[i].request_sent
      /\ d2 \in ConnType /\ d2.bit_field = bits /\ d2.in_use = c.conn[i].in_use
      /\ d2.am_chocking = c.conn[i].am_chocking /\ d2.peer_chocking = c.conn[i].peer_chocking
      /\ d2.peer_intersted = c.conn[i].peer_intersted
      /\ d2.request_sent = c.conn[i].request_sent /\ ~d2.am_intersted
  <2> HIDE DEF d0
  <2> QED
    BY <1>2, <1>6 DEF ConnType
<1> HIDE DEF d0, d1, d2, c1, c2
<1>9. /\ c0 \in ClientType
      /\ \A s \in Slots \ {i} : c0.conn[s] = c.conn[s]
      /\ c0.bits = c.bits /\ c0.swaps = c.swaps /\ c0.seeder = c.seeder /\ c0.stat = c.stat
  <2>1. /\ c0 \in ClientType
        /\ \A s \in Slots \ {i} : c0.conn[s] = cr.conn[s]
        /\ c0.bits = cr.bits /\ c0.swaps = cr.swaps /\ c0.seeder = cr.seeder
        /\ c0.stat = cr.stat
    BY <1>4, <1>5, <1>6, WithSlotIs
  <2> QED
    BY <1>5, <2>1
<1>10. /\ c1 \in ClientType /\ c2 \in ClientType
       /\ \A s \in Slots \ {i} : c1.conn[s] = c.conn[s] /\ c2.conn[s] = c.conn[s]
       /\ c1.bits = c.bits /\ c1.swaps = c.swaps /\ c1.seeder = c.seeder /\ c1.stat = c.stat
       /\ c2.bits = c.bits /\ c2.swaps = c.swaps /\ c2.seeder = c.seeder /\ c2.stat = c.stat
       /\ c1.conn[i] = d1 /\ c2.conn[i] = d2
  <2>1. /\ c1 \in ClientType
        /\ c1.conn[i] = d1
        /\ \A s \in Slots \ {i} : c1.conn[s] = c0.conn[s]
        /\ c1.bits = c0.bits /\ c1.swaps = c0.swaps /\ c1.seeder = c0.seeder
        /\ c1.stat = c0.stat
    BY <1>7, <1>8, <1>9, WithSlotIs
  <2>2. /\ c2 \in ClientType
        /\ c2.conn[i] = d2
        /\ \A s \in Slots \ {i} : c2.conn[s] = c0.conn[s]
        /\ c2.bits = c0.bits /\ c2.swaps = c0.swaps /\ c2.seeder = c0.seeder
        /\ c2.stat = c0.stat
    BY <1>7, <1>8, <1>9, WithSlotIs
  <2> QED
    BY <1>9, <2>1, <2>2
<1>11. Done(c1) = Done(c) /\ Done(c2) = Done(c)
  BY <1>10 DEF Done
<1>12. /\ yes \in Outgoing /\ yes[i] = Message(INTERSTED, <<>>)
       /\ no \in Outgoing /\ no[i] = Message(NOT_INTERSTED, <<>>)
       /\ \A s \in Slots \ {i} : yes[s] = <<>> /\ no[s] = <<>>
  BY Numbers, TellIs
<1> HIDE DEF yes, no
<1>13. Prepared(c, i, c1, yes) /\ Prepared(c, i, c2, no)
  <2>1. /\ c1.conn[i].in_use /\ c1.conn[i].peer_intersted => ~c1.conn[i].am_chocking
        /\ c2.conn[i].in_use /\ c2.conn[i].peer_intersted => ~c2.conn[i].am_chocking
    BY <1>8, <1>10, ConnIs
  <2> QED
    BY <1>10, <1>11, <1>12, <2>1, OnlySlot
<1>14. Speaks(c, c1, i, yes[i], 0, 0)
  <2>1. Speaks(c, c1, i, Message(INTERSTED, <<>>), 0, 0)
    BY <1>8, <1>10, SaysIntersted
  <2> QED
    BY <1>12, <2>1
<1>15. c.conn[i].peer_chocking => Speaks(c, c2, i, no[i], 0, 0)
  <2>1. c.conn[i].peer_chocking => Speaks(c, c2, i, Message(NOT_INTERSTED, <<>>), 0, 0)
    BY <1>8, <1>10, SaysNotIntersted
  <2> QED
    BY <1>12, <2>1
<1>16. CASE crash
  <2>1. StoreBits(c, i, bits, used) = {Ends(c, "crashed", used)}
    BY <1>3, <1>16
  <2>2. /\ Steady(c, i, Ends(c, "crashed", used))
        /\ Ends(c, "crashed", used).client.proc = "crashed"
        /\ Ends(c, "crashed", used).used = used
    BY EndsSteady DEF Procs, Ends, Result
  <2> QED
    BY <2>1, <2>2
<1>17. CASE ~crash /\ want >= 0
  <2>1. StoreBits(c, i, bits, used) = FindRarest(c1, used, yes)
    BY <1>3, <1>17
  <2>2. ClientOK(c1)
    BY <1>13 DEF Prepared
  <2>3. /\ FindRarest(c1, used, yes) # {}
        /\ \A x \in FindRarest(c1, used, yes) : x.used = used /\ Searched(c1, x.client, yes, x.out)
    BY <1>12, <2>2, FindRarestKeeps
  <2>4. ASSUME NEW x \in FindRarest(c1, used, yes)
        PROVE  /\ Prepared(c, i, x.client, x.out) /\ SameView(c1, x.client, i)
               /\ Speaks(c, x.client, i, x.out[i], 0, 0)
    BY <1>13, <1>14, <2>3, SearchAfter
  <2> QED
    BY <1>8, <1>10, <2>1, <2>3, <2>4 DEF Steady, SameView
<1>18. CASE ~crash /\ ~(want >= 0)
  <2>1. StoreBits(c, i, bits, used) = {Result(c2, used, no)}
    BY <1>3, <1>18
  <2> QED
    BY <1>8, <1>10, <1>13, <1>15, <2>1 DEF Steady, Result
<1> QED
  BY <1>16, <1>17, <1>18

LEMMA BitFieldSteady ==
    ASSUME NEW c, ClientOK(c), NEW i \in Slots, NEW s \in Seq(Int), NEW eof \in BOOLEAN,
           NEW x \in ReadBitField(c, i, s, eof)
    PROVE  Steady(c, i, x)
<1> DEFINE n == WordAt(s, 1)
           bits == BitsOf(Bytes(s, 6, 4 + n))
<1>1. n \in Int
  BY WordIsInt
<1>2. ReadBitField(c, i, s, eof) =
        IF n < 1 THEN {CloseConnection(c, i, 5)}
        ELSE IF ~Enough(s, 4 + n, eof) THEN {}
        ELSE IF n - 1 # bit_field_size(no_of_peices) \/ SpareBitsSet(bits)
        THEN {CloseConnection(c, i, 4 + n)}
        ELSE StoreBits(c, i, bits, 4 + n)
  BY DEF ReadBitField
<1>3. n >= 1 => bits \in SUBSET Int
  <2> SUFFICES ASSUME n >= 1 PROVE bits \in SUBSET Int
    OBVIOUS
  <2>1. n \in Nat \ {0}
    BY <1>1
  <2> HIDE DEF n
  <2> QED
    BY <2>1, BitsRead
<1> HIDE DEF n, bits
<1>4. CASE n < 1
  BY <1>2, <1>4, CloseSteady
<1>5. CASE n >= 1
  <2>1. ~(n < 1) /\ 4 + n \in Nat
    BY <1>1, <1>5
  <2>2. x = CloseConnection(c, i, 4 + n) \/ x \in StoreBits(c, i, bits, 4 + n)
    BY <1>2, <2>1
  <2>3. Steady(c, i, CloseConnection(c, i, 4 + n))
    BY <2>1, CloseSteady
  <2>4. \A y \in StoreBits(c, i, bits, 4 + n) : Steady(c, i, y)
    BY <1>3, <1>5, <2>1, BitsStored
  <2> QED
    BY <2>2, <2>3, <2>4
<1> QED
  BY <1>1, <1>4, <1>5

(* A have message for a piece that there is.                                 *)
Noted(c, i, p) ==
    [c EXCEPT !.conn[i].bit_field = set_bit_field(@, p), !.rank[p] = @ + 1]

LEMMA HaveNoted ==
    ASSUME NEW c, ClientOK(c), NEW i \in Slots, NEW p \in Pieces, NEW c1,
           c.conn[i].bit_field # NULL,
           c1 = Noted(c, i, p)
    PROVE  /\ Prepared(c, i, c1, Silence) /\ Prepared(c, i, c1, Tell(i, INTERSTED))
           /\ c1.conn[i].peer_chocking = c.conn[i].peer_chocking
           /\ c1.conn[i].bit_field = set_bit_field(c.conn[i].bit_field, p)
           /\ c1.conn[i].peer_intersted = c.conn[i].peer_intersted
           /\ Speaks(c, c1, i, Silence[i], 0, 0)
           /\ Speaks(c, c1, i, Tell(i, INTERSTED)[i], 0, 0)
<1> DEFINE bits == set_bit_field(c.conn[i].bit_field, p)
           d == [c.conn[i] EXCEPT !.bit_field = bits]
           cr == [c EXCEPT !.rank[p] = @ + 1]
           yes == Tell(i, INTERSTED)
<1>1. c.conn[i] \in ConnType /\ c \in ClientType
  BY ConnIs
<1>2. bits \in SUBSET Int
  <2>1. c.conn[i].bit_field \in SUBSET Int /\ p \in Int
    BY <1>1, Sizes DEF ConnType, Pieces
  <2>2. Cell(p) \in Int
    <3>1. p \in Nat
      BY Sizes DEF Pieces
    <3> QED
      BY <3>1 DEF Cell, NoCell
  <2> QED
    BY <2>1, <2>2 DEF set_bit_field
<1>3. /\ cr \in ClientType /\ cr.conn = c.conn /\ cr.bits = c.bits /\ cr.swaps = c.swaps
      /\ cr.seeder = c.seeder /\ cr.stat = c.stat
  BY <1>1 DEF ClientType
<1>4. c1 = WithSlot(cr, i, d)
  BY <1>1 DEF WithSlot, ClientType, Noted
<1> HIDE DEF bits, cr
<1>5. /\ d \in ConnType /\ d.bit_field = bits /\ d.in_use = c.conn[i].in_use
      /\ d.am_chocking = c.conn[i].am_chocking /\ d.peer_chocking = c.conn[i].peer_chocking
      /\ d.peer_intersted = c.conn[i].peer_intersted
      /\ d.request_sent = c.conn[i].request_sent
      /\ d.am_intersted = c.conn[i].am_intersted
  BY <1>1, <1>2 DEF ConnType
<1> HIDE DEF d
<1>6. /\ c1 \in ClientType
      /\ \A s \in Slots \ {i} : c1.conn[s] = c.conn[s]
      /\ c1.bits = c.bits /\ c1.swaps = c.swaps /\ c1.seeder = c.seeder /\ c1.stat = c.stat
      /\ c1.conn[i] = d
  <2>1. /\ c1 \in ClientType
        /\ c1.conn[i] = d
        /\ \A s \in Slots \ {i} : c1.conn[s] = cr.conn[s]
        /\ c1.bits = cr.bits /\ c1.swaps = cr.swaps /\ c1.seeder = cr.seeder
        /\ c1.stat = cr.stat
    BY <1>3, <1>4, <1>5, WithSlotIs
  <2> QED
    BY <1>3, <2>1
<1>7. Done(c1) = Done(c)
  BY <1>6 DEF Done
<1>8. /\ yes \in Outgoing /\ yes[i] = Message(INTERSTED, <<>>)
      /\ Silence \in Outgoing /\ Silence[i] = <<>>
      /\ \A s \in Slots \ {i} : yes[s] = <<>> /\ Silence[s] = <<>>
  BY Numbers, TellIs, Outs, OutsAre
<1> HIDE DEF yes
<1>9. Prepared(c, i, c1, Silence) /\ Prepared(c, i, c1, yes)
  <2>1. c1.conn[i].in_use /\ c1.conn[i].peer_intersted => ~c1.conn[i].am_chocking
    BY <1>5, <1>6, ConnIs
  <2> QED
    BY <1>6, <1>7, <1>8, <2>1, OnlySlot
<1>10. Speaks(c, c1, i, <<>>, 0, 0) /\ Speaks(c, c1, i, Message(INTERSTED, <<>>), 0, 0)
  BY <1>5, <1>6, <1>7, Quiet, SaysIntersted
<1> QED
  BY <1>5, <1>6, <1>8, <1>9, <1>10 DEF yes, bits

LEMMA HaveRead ==
    ASSUME NEW c, ClientOK(c), NEW i \in Slots, NEW s \in Seq(Int), NEW eof \in BOOLEAN
    PROVE  /\ Len(s) >= 9 => ReadHave(c, i, s, eof) # {}
           /\ \A x \in ReadHave(c, i, s, eof) :
                /\ Steady(c, i, x)
                /\ x.used = 9
                /\ x.client.proc = "up" =>
                     /\ x.client.conn[i].peer_chocking = c.conn[i].peer_chocking
                     /\ x.client.conn[i].bit_field =
                           set_bit_field(c.conn[i].bit_field, WordAt(s, 6))
                     /\ x.client.conn[i].peer_intersted = c.conn[i].peer_intersted
                     /\ Speaks(c, x.client, i, x.out[i], 0, 0)
<1> DEFINE p == WordAt(s, 6)
           c1 == Noted(c, i, p)
           yes == Tell(i, INTERSTED)
           wanted == ~get_bit_field(c.bits, p) /\ c.stat[p] = NOT_DOWNLOADED
           H == ReadHave(c, i, s, eof)
<1>1. H = IF ~Enough(s, 9, eof) THEN {}
          ELSE IF c.conn[i].bit_field = NULL \/ c.seeder THEN {Ends(c, "crashed", 9)}
          ELSE IF p \notin Pieces THEN {Ends(c, "overrun", 9)}
          ELSE IF wanted THEN FindRarest(c1, 9, yes)
          ELSE {Result(c1, 9, Silence)}
  BY DEF ReadHave, Noted
<1>2. Len(s) >= 9 => Enough(s, 9, eof)
  BY DEF Enough
<1>3. ASSUME c.conn[i].bit_field # NULL, p \in Pieces
      PROVE  /\ Prepared(c, i, c1, Silence) /\ Prepared(c, i, c1, yes)
             /\ c1.conn[i].peer_chocking = c.conn[i].peer_chocking
             /\ c1.conn[i].bit_field = set_bit_field(c.conn[i].bit_field, p)
             /\ c1.conn[i].peer_intersted = c.conn[i].peer_intersted
             /\ Speaks(c, c1, i, Silence[i], 0, 0)
             /\ Speaks(c, c1, i, yes[i], 0, 0)
  <2> HIDE DEF p
  <2> QED
    BY <1>3, HaveNoted
<1> HIDE DEF p, c1, yes, wanted, H
<1>4. CASE ~Enough(s, 9, eof)
  BY <1>1, <1>2, <1>4 DEF H
<1>5. ASSUME NEW how \in Procs, how # "up", H = {Ends(c, how, 9)}
      PROVE  H # {} /\ \A x \in H : Steady(c, i, x) /\ x.used = 9 /\ x.client.proc # "up"
  <2>1. Ends(c, how, 9).used = 9
    BY DEF Ends, Result
  <2>2. Steady(c, i, Ends(c, how, 9)) /\ Ends(c, how, 9).client.proc = how
    BY EndsSteady
  <2> QED
    BY <1>5, <2>1, <2>2
<1>6. CASE Enough(s, 9, eof) /\ (c.conn[i].bit_field = NULL \/ c.seeder)
  <2>1. H = {Ends(c, "crashed", 9)}
    BY <1>1, <1>6
  <2> QED
    BY <1>5, <2>1 DEF Procs, H
<1>7. CASE Enough(s, 9, eof) /\ ~(c.conn[i].bit_field = NULL \/ c.seeder) /\ p \notin Pieces
  <2>1. H = {Ends(c, "overrun", 9)}
    BY <1>1, <1>7
  <2> QED
    BY <1>5, <2>1 DEF Procs, H
<1>8. CASE /\ Enough(s, 9, eof) /\ ~(c.conn[i].bit_field = NULL \/ c.seeder)
           /\ p \in Pieces /\ wanted
  <2>1. H = FindRarest(c1, 9, yes)
    BY <1>1, <1>8
  <2>2. ClientOK(c1) /\ yes \in Outgoing
    BY <1>3, <1>8 DEF Prepared
  <2>3. H # {} /\ \A x \in H : x.used = 9 /\ Searched(c1, x.client, yes, x.out)
    BY <2>1, <2>2, FindRarestKeeps
  <2>4. ASSUME NEW x \in H
        PROVE  /\ Prepared(c, i, x.client, x.out) /\ SameView(c1, x.client, i)
               /\ Speaks(c, x.client, i, x.out[i], 0, 0)
    BY <1>3, <1>8, <2>3, SearchAfter
  <2> QED
    BY <1>3, <1>8, <2>3, <2>4 DEF Steady, SameView, H, p
<1>9. CASE /\ Enough(s, 9, eof) /\ ~(c.conn[i].bit_field = NULL \/ c.seeder)
           /\ p \in Pieces /\ ~wanted
  <2>1. H = {Result(c1, 9, Silence)}
    BY <1>1, <1>9
  <2> QED
    BY <1>3, <1>9, <2>1 DEF Steady, Result, H, p
<1> QED
  BY <1>4, <1>6, <1>7, <1>8, <1>9

-----------------------------------------------------------------------------
(* Blocks                                                                   *)

(* The client when a piece is accepted, before it looks for another.          *)
Accepted(c, i, p, d) ==
    [c EXCEPT !.conn[i] = d, !.stat[p] = COMPLETED, !.bits = set_bit_field(@, p)]

LEMMA AcceptedIs ==
    ASSUME NEW c, ClientOK(c), ~c.seeder, NEW i \in Slots, NEW p \in Pieces,
           NEW d \in ConnType, NEW c1, c1 = Accepted(c, i, p, d),
           d.in_use /\ d.peer_intersted => ~d.am_chocking
    PROVE  /\ ClientOK(c1)
           /\ c1.swaps = c.swaps /\ c1.seeder = c.seeder /\ c1.proc = c.proc
           /\ c1.bits = set_bit_field(c.bits, p)
           /\ c1.conn[i] = d /\ \A s \in Slots \ {i} : c1.conn[s] = c.conn[s]
           /\ Done(c1) = Done(c) \cup {p}
           /\ (\A q \in Pieces : c1.stat[q] = COMPLETED) => Done(c1) = Pieces
<1>1. /\ c \in ClientType /\ c.bits \in SUBSET Cells
      /\ \A k \in Slots : c.conn[k].in_use /\ c.conn[k].peer_intersted =>
                            ~c.conn[k].am_chocking
  BY DEF ClientOK
<1>2. p \in Index /\ COMPLETED \in Status
  BY Sizes DEF Pieces, Index, Status
<1>3. set_bit_field(c.bits, p) \in SUBSET Cells
  BY <1>1, CellFacts
<1>4. set_bit_field(c.bits, p) \in SUBSET Pieces
  BY <1>3, CellFacts
<1> DEFINE x == WithSlot(c, i, d)
           B == set_bit_field(c.bits, p)
           S == [c.stat EXCEPT ![p] = COMPLETED]
<1>a. /\ x \in ClientType /\ x.conn[i] = d /\ \A s \in Slots \ {i} : x.conn[s] = c.conn[s]
      /\ x.bits = c.bits /\ x.swaps = c.swaps /\ x.seeder = c.seeder
      /\ x.proc = c.proc /\ x.stat = c.stat /\ x.rank = c.rank
  BY <1>1, WithSlotIs
<1>b. c1 = [x EXCEPT !.stat = S, !.bits = B]
  BY <1>1 DEF Accepted, ClientType, WithSlot
<1>c. c.stat \in [Index -> Status] /\ S \in [Index -> Status] /\ B \in SUBSET Int
  <2>1. Pieces \subseteq Int
    BY Sizes DEF Pieces
  <2> QED
    BY <1>1, <1>2, <1>4, <2>1 DEF ClientType
<1>d. S = [c.stat EXCEPT ![p] = COMPLETED] /\ B = set_bit_field(c.bits, p)
  OBVIOUS
<1> HIDE DEF x, B, S
<1>5. /\ c1 \in ClientType
      /\ c1.swaps = c.swaps /\ c1.seeder = c.seeder /\ c1.proc = c.proc
      /\ c1.bits = set_bit_field(c.bits, p)
      /\ c1.conn[i] = d /\ \A s \in Slots \ {i} : c1.conn[s] = c.conn[s]
      /\ c1.stat = [c.stat EXCEPT ![p] = COMPLETED]
      /\ c.stat \in [Index -> Status]
  <2>1. c1 \in ClientType
    BY <1>a, <1>b, <1>c DEF ClientType
  <2>2. /\ c1.swaps = x.swaps /\ c1.seeder = x.seeder /\ c1.proc = x.proc
        /\ c1.bits = B /\ c1.conn = x.conn /\ c1.stat = S
    BY <1>a, <1>b DEF ClientType
  <2> QED
    BY <1>a, <1>c, <1>d, <2>1, <2>2
<1>6. \A q \in Pieces : q \in Index
  BY Sizes DEF Pieces, Index
<1>7. \A q \in Pieces : c1.stat[q] = IF q = p THEN COMPLETED ELSE c.stat[q]
  BY <1>5, <1>6
<1>8. Done(c1) = Done(c) \cup {p}
  BY <1>7 DEF Done
<1>9. (\A q \in Pieces : c1.stat[q] = COMPLETED) => Done(c1) = Pieces
  BY DEF Done
<1>10. ClientOK(c1)
  BY <1>1, <1>3, <1>5 DEF ClientOK
<1> QED
  BY <1>5, <1>8, <1>9, <1>10

LEMMA SendHaveIs ==
    ASSUME NEW c1, NEW p \in Pieces
    PROVE  /\ SendHave(c1, p) \in Outgoing
           /\ \A s \in Slots : c1.conn[s].in_use /\ ~c1.swaps =>
                SendHave(c1, p)[s] = Message(HAVE_PEICE, Word(p))
<1>1. p \in Int /\ Word(p) \in Seq(Int)
  BY Sizes, WordBytes DEF Pieces
<1>2. HaveMessage(c1, p) \in Seq(Int)
  <2>1. (IF c1.swaps THEN 0 ELSE HAVE_PEICE) \in Int
    BY Numbers
  <2> QED
    BY <1>1, <2>1, MessageSeq DEF HaveMessage
<1>3. <<>> \in Seq(Int)
  OBVIOUS
<1>4. SendHave(c1, p) \in Outgoing
  BY <1>2, <1>3 DEF SendHave, Outgoing
<1>5. \A s \in Slots : c1.conn[s].in_use /\ ~c1.swaps =>
        SendHave(c1, p)[s] = Message(HAVE_PEICE, Word(p))
  BY DEF SendHave, HaveMessage
<1> QED
  BY <1>4, <1>5

(* A piece is told to all; the record in slot i becomes d.                    *)
LEMMA AcceptedPrepared ==
    ASSUME NEW c, ClientOK(c), ~c.seeder, NEW i \in Slots, NEW p \in Pieces,
           NEW d \in ConnType, NEW c1, c1 = Accepted(c, i, p, d), NEW out,
           d.in_use /\ d.peer_intersted => ~d.am_chocking,
           out = SendHave(c1, p)
    PROVE  /\ Prepared(c, i, c1, out)
           /\ /\ d.in_use /\ Sane(c1)
              /\ d.am_chocking = c.conn[i].am_chocking
              /\ d.peer_chocking => c.conn[i].peer_chocking
              => Speaks(c, c1, i, out[i], 1, 0)
<1>1. /\ ClientOK(c1)
      /\ c1.swaps = c.swaps /\ c1.seeder = c.seeder /\ c1.proc = c.proc
      /\ c1.bits = set_bit_field(c.bits, p)
      /\ c1.conn[i] = d /\ \A s \in Slots \ {i} : c1.conn[s] = c.conn[s]
      /\ Done(c1) = Done(c) \cup {p}
  BY AcceptedIs
<1>2. /\ out \in Outgoing
      /\ \A s \in Slots : c1.conn[s].in_use /\ ~c1.swaps => out[s] = Message(HAVE_PEICE, Word(p))
  BY SendHaveIs
<1>3. Sane(c1) => ~c1.swaps
  BY <1>1 DEF Sane
<1>4. c.bits \in SUBSET Cells /\ Done(c) \subseteq Done(c1)
  BY <1>1 DEF ClientOK
<1>5. ASSUME NEW s \in Slots \ {i}
      PROVE  /\ SameView(c, c1, s)
             /\ c.conn[s].in_use /\ Sane(c1) => Speaks(c, c1, s, out[s], 0, 0)
  <2>1. c1.conn[s] = c.conn[s]
    BY <1>1
  <2>2. Speaks(c, c1, s, Message(HAVE_PEICE, Word(p)), 0, 0)
    BY <1>1, <1>4, <2>1, SaysHave
  <2>3. c.conn[s].in_use /\ Sane(c1) => out[s] = Message(HAVE_PEICE, Word(p))
    BY <1>2, <1>3, <2>1
  <2> QED
    BY <2>1, <2>2, <2>3 DEF SameView
<1>6. ASSUME d.in_use, Sane(c1), d.am_chocking = c.conn[i].am_chocking,
             d.peer_chocking => c.conn[i].peer_chocking
      PROVE  Speaks(c, c1, i, out[i], 1, 0)
  <2>1. Speaks(c, c1, i, Message(HAVE_PEICE, Word(p)), 1, 0)
    BY <1>1, <1>4, <1>6, SaysHave
  <2>2. out[i] = Message(HAVE_PEICE, Word(p))
    BY <1>1, <1>2, <1>3, <1>6
  <2> QED
    BY <2>1, <2>2
<1>7. Prepared(c, i, c1, out)
  BY <1>1, <1>2, <1>4, <1>5 DEF Prepared
<1> QED
  BY <1>6, <1>7

(* A not intersted message after that.                                       *)
LEMMA AndNotIntersted ==
    ASSUME NEW c, NEW i \in Slots, NEW c1, NEW c2, NEW out, Prepared(c, i, c1, out),
           ClientOK(c2), c2.bits = c1.bits, c2.swaps = c1.swaps, c2.seeder = c1.seeder,
           Done(c2) = Done(c1),
           \A s \in Slots \ {i} : c2.conn[s] = c1.conn[s],
           c2.conn[i].am_chocking = c1.conn[i].am_chocking,
           ~c1.conn[i].request_sent,
           ~c2.conn[i].am_intersted \/ Done(c2) = Pieces
    PROVE  LET out2 == Then(out, Tell(i, NOT_INTERSTED))
           IN /\ Prepared(c, i, c2, out2)
              /\ Speaks(c, c1, i, out[i], 1, 0) => Speaks(c, c2, i, out2[i], 1, 0)
<1> DEFINE no == Tell(i, NOT_INTERSTED)
           out2 == Then(out, no)
<1>1. /\ no \in Outgoing /\ no[i] = Message(NOT_INTERSTED, <<>>)
      /\ \A s \in Slots \ {i} : no[s] = <<>>
  BY Numbers, TellIs
<1>2. out \in Outgoing /\ ClientOK(c1)
  BY DEF Prepared
<1> HIDE DEF no
<1>3. out2 \in Outgoing /\ \A s \in Slots : out2[s] = out[s] \o no[s]
  BY <1>1, <1>2, OutsAre
<1> HIDE DEF out2
<1>4. \A s \in Slots : out[s] \in Seq(Int)
  BY <1>2 DEF Outgoing
<1>5. Sane(c2) <=> Sane(c1)
  BY DEF Sane
<1>6. ASSUME NEW s \in Slots \ {i}
      PROVE  /\ SameView(c, c2, s)
             /\ c.conn[s].in_use /\ Sane(c2) => Speaks(c, c2, s, out2[s], 0, 0)
  <2>1. c2.conn[s] = c1.conn[s] /\ SameView(c, c1, s)
    BY DEF Prepared
  <2>2. SameView(c, c2, s)
    BY <2>1 DEF SameView
  <2>3. Speaks(c1, c2, s, no[s], 0, 0)
    <3>1. Speaks(c1, c2, s, <<>>, 0, 0)
      BY <2>1, Quiet
    <3> QED
      BY <1>1, <3>1
  <2>4. ASSUME c.conn[s].in_use, Sane(c2) PROVE Speaks(c, c2, s, out2[s], 0, 0)
    <3>1. Speaks(c, c1, s, out[s], 0, 0)
      BY <1>5, <2>4 DEF Prepared
    <3>2. Speaks(c, c2, s, out[s] \o no[s], 0 + 0, 0 + 0)
      BY <2>3, <3>1, SpeaksOn
    <3>3. out2[s] = out[s] \o no[s]
      BY <1>3
    <3>4. Speaks(c, c2, s, out2[s], 0 + 0, 0 + 0)
      BY <3>2, <3>3, Zenon
    <3> QED
      BY <3>4
  <2> QED
    BY <2>2, <2>4
<1>7. ASSUME Speaks(c, c1, i, out[i], 1, 0) PROVE Speaks(c, c2, i, out2[i], 1, 0)
  <2>1. Speaks(c1, c2, i, no[i], 0, 0)
    <3>1. Speaks(c1, c2, i, Message(NOT_INTERSTED, <<>>), 0, 0)
      BY SaysNotIntersted
    <3> QED
      BY <1>1, <3>1
  <2>2. Speaks(c, c2, i, out[i] \o no[i], 1 + 0, 0 + 0)
    BY <1>7, <2>1, SpeaksOn
  <2>3. out2[i] = out[i] \o no[i]
    BY <1>3
  <2>4. Speaks(c, c2, i, out2[i], 1 + 0, 0 + 0)
    BY <2>2, <2>3, Zenon
  <2> QED
    BY <2>4
<1>8. Prepared(c, i, c2, out2)
  BY <1>3, <1>6 DEF Prepared
<1> QED
  BY <1>7, <1>8 DEF out2, no

LEMMA PeiceAccepted ==
    ASSUME NEW c, ClientOK(c), ~c.seeder, NEW i \in Slots, c.conn[i].in_use,
           NEW p \in Pieces, NEW used \in Nat
    PROVE  /\ AcceptPeice(c, i, p, used) # {}
           /\ \A x \in AcceptPeice(c, i, p, used) :
                /\ Steady(c, i, x)
                /\ x.used = used
                /\ x.client.conn[i].peer_chocking = c.conn[i].peer_chocking
                /\ x.client.conn[i].bit_field = c.conn[i].bit_field
                /\ x.client.conn[i].peer_intersted = c.conn[i].peer_intersted
                /\ Sane(x.client) => Speaks(c, x.client, i, x.out[i], 1, 0)
<1> DEFINE d1 == [c.conn[i] EXCEPT !.request_sent = FALSE]
           d2 == [d1 EXCEPT !.am_intersted = TRUE]
           d3 == [d1 EXCEPT !.am_intersted = FALSE]
           c1 == Accepted(c, i, p, d1)
           c2 == Accepted(c, i, p, d2)
           c3 == Accepted(c, i, p, d3)
           have == SendHave(c1, p)
           no == Tell(i, NOT_INTERSTED)
           A == AcceptPeice(c, i, p, used)
           all == \A q \in Pieces : c1.stat[q] = COMPLETED
           more == check_intersted(c1.conn, i, c1.bits, c1.stat) >= 0
<1>1. c.conn[i] \in ConnType /\ c \in ClientType
      /\ (c.conn[i].in_use /\ c.conn[i].peer_intersted => ~c.conn[i].am_chocking)
  BY ConnIs
<1>2. A = IF all THEN {Result(c1, used, Then(have, no))}
          ELSE IF more THEN FindRarest([c1 EXCEPT !.conn[i].am_intersted = TRUE], used, have)
          ELSE {Result([c1 EXCEPT !.conn[i].am_intersted = FALSE], used, Then(have, no))}
  <2> DEFINE e == [c EXCEPT !.conn[i].request_sent = FALSE, !.stat[p] = COMPLETED,
                            !.bits = set_bit_field(@, p)]
  <2>1. e = c1
    BY <1>1 DEF Accepted, ClientType
  <2>2. A = IF \A q \in Pieces : e.stat[q] = COMPLETED
            THEN {Result(e, used, Then(SendHave(e, p), no))}
            ELSE IF check_intersted(e.conn, i, e.bits, e.stat) >= 0
            THEN FindRarest([e EXCEPT !.conn[i].am_intersted = TRUE], used, SendHave(e, p))
            ELSE {Result([e EXCEPT !.conn[i].am_intersted = FALSE], used,
                         Then(SendHave(e, p), no))}
    BY DEF AcceptPeice
  <2> HIDE DEF e, c1, no, A
  <2> QED
    BY <2>1, <2>2
<1>3. [c1 EXCEPT !.conn[i].am_intersted = TRUE] = c2
      /\ [c1 EXCEPT !.conn[i].am_intersted = FALSE] = c3
  BY <1>1 DEF Accepted, ClientType
<1>4. /\ d1 \in ConnType /\ d2 \in ConnType /\ d3 \in ConnType
      /\ \A d \in {d1, d2, d3} :
           /\ d.in_use = c.conn[i].in_use /\ d.am_chocking = c.conn[i].am_chocking
           /\ d.peer_chocking = c.conn[i].peer_chocking
           /\ d.bit_field = c.conn[i].bit_field
           /\ d.peer_intersted = c.conn[i].peer_intersted
           /\ ~d.request_sent
      /\ ~d3.am_intersted
  BY <1>1 DEF ConnType
<1> HIDE DEF d1, d2, d3, c1, c2, c3, have, no, A, all, more
<1>5. ASSUME NEW d \in {d1, d2, d3}, NEW e, e = Accepted(c, i, p, d)
      PROVE  /\ ClientOK(e) /\ e.conn[i] = d
             /\ e.swaps = c.swaps /\ e.seeder = c.seeder
             /\ e.bits = set_bit_field(c.bits, p)
             /\ \A s \in Slots \ {i} : e.conn[s] = c.conn[s]
             /\ Done(e) = Done(c) \cup {p}
             /\ Prepared(c, i, e, SendHave(e, p))
             /\ Sane(e) => Speaks(c, e, i, SendHave(e, p)[i], 1, 0)
             /\ (\A q \in Pieces : e.stat[q] = COMPLETED) => Done(e) = Pieces
  <2>1. d \in ConnType /\ d.in_use /\ (d.in_use /\ d.peer_intersted => ~d.am_chocking)
        /\ d.am_chocking = c.conn[i].am_chocking /\ d.peer_chocking = c.conn[i].peer_chocking
    BY <1>1, <1>4
  <2>2. /\ Prepared(c, i, e, SendHave(e, p))
        /\ Sane(e) => Speaks(c, e, i, SendHave(e, p)[i], 1, 0)
    BY <1>5, <2>1, AcceptedPrepared
  <2>3. /\ ClientOK(e) /\ e.conn[i] = d
        /\ e.swaps = c.swaps /\ e.seeder = c.seeder
        /\ e.bits = set_bit_field(c.bits, p)
        /\ \A s \in Slots \ {i} : e.conn[s] = c.conn[s]
        /\ Done(e) = Done(c) \cup {p}
        /\ (\A q \in Pieces : e.stat[q] = COMPLETED) => Done(e) = Pieces
    BY <1>5, <2>1, AcceptedIs
  <2> QED
    BY <2>2, <2>3
<1>6. /\ c1 = Accepted(c, i, p, d1) /\ c2 = Accepted(c, i, p, d2)
      /\ c3 = Accepted(c, i, p, d3)
  BY DEF c1, c2, c3
<1>7. SendHave(c2, p) = have /\ SendHave(c3, p) = have /\ have = SendHave(c1, p)
  <2>1. ASSUME NEW s \in Slots PROVE c2.conn[s].in_use = c1.conn[s].in_use
                                     /\ c3.conn[s].in_use = c1.conn[s].in_use
    <3>1. c1.conn[i] = d1 /\ c2.conn[i] = d2 /\ c3.conn[i] = d3
      BY <1>5, <1>6
    <3>2. /\ \A k \in Slots \ {i} : c1.conn[k] = c.conn[k]
          /\ \A k \in Slots \ {i} : c2.conn[k] = c.conn[k]
          /\ \A k \in Slots \ {i} : c3.conn[k] = c.conn[k]
      BY <1>5, <1>6
    <3> QED
      BY <1>4, <3>1, <3>2
  <2>2. c2.swaps = c1.swaps /\ c3.swaps = c1.swaps
    BY <1>5, <1>6
  <2> QED
    BY <2>1, <2>2 DEF SendHave, HaveMessage, have
<1>8. CASE all
  <2>1. A = {Result(c1, used, Then(have, no))}
    BY <1>2, <1>8
  <2>2. Done(c1) = Pieces
    BY <1>5, <1>6, <1>8 DEF all
  <2>3. /\ Prepared(c, i, c1, have) /\ ClientOK(c1) /\ ~c1.conn[i].request_sent
        /\ Sane(c1) => Speaks(c, c1, i, have[i], 1, 0)
        /\ c1.conn[i] = d1
    BY <1>4, <1>5, <1>6, <1>7
  <2>4. /\ Prepared(c, i, c1, Then(have, no))
        /\ Speaks(c, c1, i, have[i], 1, 0) => Speaks(c, c1, i, Then(have, no)[i], 1, 0)
    BY <2>2, <2>3, AndNotIntersted DEF no
  <2> QED
    BY <1>4, <2>1, <2>3, <2>4 DEF Steady, Result, A
<1>9. CASE ~all /\ more
  <2>1. A = FindRarest(c2, used, have)
    BY <1>2, <1>3, <1>9
  <2>2. /\ Prepared(c, i, c2, have) /\ ClientOK(c2)
        /\ Sane(c2) => Speaks(c, c2, i, have[i], 1, 0)
        /\ c2.conn[i] = d2
    BY <1>5, <1>6, <1>7
  <2>3. have \in Outgoing
    BY <2>2 DEF Prepared
  <2>4. A # {} /\ \A x \in A : x.used = used /\ Searched(c2, x.client, have, x.out)
    BY <2>1, <2>2, <2>3, FindRarestKeeps
  <2>5. ASSUME NEW x \in A
        PROVE  /\ Prepared(c, i, x.client, x.out) /\ SameView(c2, x.client, i)
               /\ Sane(x.client) => Speaks(c, x.client, i, x.out[i], 1, 0)
    BY <2>2, <2>4, SearchAfter
  <2> QED
    BY <1>4, <2>2, <2>4, <2>5 DEF Steady, SameView, A
<1>10. CASE ~all /\ ~more
  <2>1. A = {Result(c3, used, Then(have, no))}
    BY <1>2, <1>3, <1>10
  <2>2. /\ Prepared(c, i, c3, have) /\ ClientOK(c3)
        /\ Sane(c3) => Speaks(c, c3, i, have[i], 1, 0)
        /\ c3.conn[i] = d3 /\ ~c3.conn[i].request_sent /\ ~c3.conn[i].am_intersted
    BY <1>4, <1>5, <1>6, <1>7
  <2>3. /\ Prepared(c, i, c3, Then(have, no))
        /\ Speaks(c, c3, i, have[i], 1, 0) => Speaks(c, c3, i, Then(have, no)[i], 1, 0)
    BY <2>2, AndNotIntersted DEF no
  <2> QED
    BY <1>4, <2>1, <2>2, <2>3 DEF Steady, Result, A
<1> QED
  BY <1>8, <1>9, <1>10

LEMMA PeiceSteady ==
    ASSUME NEW c, ClientOK(c), NEW i \in Slots, c.conn[i].in_use,
           NEW s \in Seq(Int), NEW eof \in BOOLEAN,
           NEW x \in ReadPeice(c, i, s, eof)
    PROVE  Steady(c, i, x)
<1> DEFINE n == WordAt(s, 1)
           p == WordAt(s, 6)
           good == Bytes(s, 14, 4 + n) = Data(p, 0, TrueLength(p))
           odd == Len(s) < 13 \/ p # c.conn[i].intersted_peice \/ n < 9
<1>1. n \in Int
  BY WordIsInt
<1>2. ReadPeice(c, i, s, eof) =
        IF ~Enough(s, 13, eof) THEN {}
        ELSE IF odd THEN {CloseConnection(c, i, 13)}
        ELSE IF ~Enough(s, 4 + n, eof) THEN {}
        ELSE IF p \notin Pieces THEN {Ends(c, "overrun", 4 + n)}
        ELSE IF ~good THEN {CloseConnection(c, i, 4 + n)}
        ELSE IF c.seeder THEN {Ends(c, "exited", 4 + n)}
        ELSE AcceptPeice(c, i, p, 4 + n)
  BY DEF ReadPeice
<1>3. ~odd => n >= 9
  BY <1>1
<1> HIDE DEF n, p, good, odd
<1>4. CASE odd
  <2>1. x = CloseConnection(c, i, 13)
    BY <1>2, <1>4
  <2> QED
    BY <2>1, CloseSteady
<1>5. CASE ~odd
  <2>1. 4 + n \in Nat
    BY <1>1, <1>3, <1>5
  <2>2. \/ x = CloseConnection(c, i, 4 + n)
        \/ x = Ends(c, "overrun", 4 + n)
        \/ x = Ends(c, "exited", 4 + n)
        \/ p \in Pieces /\ ~c.seeder /\ x \in AcceptPeice(c, i, p, 4 + n)
    BY <1>2, <1>5
  <2>3. /\ Steady(c, i, CloseConnection(c, i, 4 + n))
        /\ Steady(c, i, Ends(c, "overrun", 4 + n))
        /\ Steady(c, i, Ends(c, "exited", 4 + n))
    BY <2>1, CloseSteady, EndsSteady DEF Procs
  <2>4. p \in Pieces /\ ~c.seeder => \A y \in AcceptPeice(c, i, p, 4 + n) : Steady(c, i, y)
    BY <2>1, PeiceAccepted
  <2> QED
    BY <2>2, <2>3, <2>4
<1> QED
  BY <1>4, <1>5

-----------------------------------------------------------------------------
(* Requests                                                                 *)

LEMMA BlockSeq ==
    ASSUME NEW p \in Int, NEW b \in Int, NEW n \in Nat
    PROVE  PeiceMessage(p, b, Data(p, b, n)) \in Seq(Int)
<1> DEFINE w == Word(p)
           x == Word(b)
           y == Data(p, b, n)
<1>1. w \in Seq(Int) /\ x \in Seq(Int)
  BY WordBytes
<1>2. y \in Seq(Int)
  BY DEF Data
<1>3. PEICE \in Int
  BY Numbers
<1>4. PeiceMessage(p, b, y) = Message(PEICE, w \o x \o y)
  BY DEF PeiceMessage
<1> HIDE DEF w, x, y
<1>5. w \o x \o y \in Seq(Int)
  BY <1>1, <1>2
<1> QED
  BY <1>3, <1>4, <1>5, MessageSeq DEF y

LEMMA AnswerRead ==
    ASSUME NEW c, ClientOK(c), NEW i \in Slots, NEW p \in Int, NEW b \in Int, NEW n \in Int
    PROVE  LET x == Answer(c, i, p, b, n)
           IN /\ Steady(c, i, x)
              /\ x.used = 17
              /\ x.client.conn = c.conn /\ x.client.bits = c.bits /\ x.client.stat = c.stat
              /\ \/ x.out[i] = <<>>
                 \/ p \in Pieces /\ x.out[i] = PeiceMessage(p, b, Data(p, b, n))
<1> DEFINE x == Answer(c, i, p, b, n)
           m == PeiceMessage(p, b, Data(p, b, n))
           c1 == [c EXCEPT !.uploaded = @ + n]
           yes == InPiece(p, b, n) /\ get_bit_field(c.bits, p) /\ CanRead(c, p, b, n)
<1>1. x = IF yes THEN Result(c1, 17, To(i, m)) ELSE Result(c, 17, Silence)
  BY DEF Answer, SendBlock
<1>2. yes => p \in Pieces /\ n \in Nat
  BY DEF InPiece, CanRead
<1>3. /\ c1 \in ClientType /\ c1.conn = c.conn /\ c1.bits = c.bits /\ c1.swaps = c.swaps
      /\ c1.seeder = c.seeder /\ c1.stat = c.stat
  BY DEF ClientOK, ClientType
<1>4. Done(c1) = Done(c)
  BY <1>3 DEF Done
<1>5. n \in Nat => m \in Seq(Int)
  BY BlockSeq
<1> HIDE DEF m, c1, x, yes
<1>6. CASE yes
  <2>1. /\ To(i, m) \in Outgoing /\ To(i, m)[i] = m
        /\ \A s \in Slots \ {i} : To(i, m)[s] = <<>>
    BY <1>2, <1>5, <1>6, Outs, OutsAre
  <2>2. Prepared(c, i, c1, To(i, m))
    BY <1>3, <1>4, <2>1, ConnIs, OnlySlot
  <2>3. x = Result(c1, 17, To(i, m))
    BY <1>1, <1>6
  <2> QED
    BY <1>2, <1>3, <1>6, <2>1, <2>2, <2>3 DEF Steady, Result, x, m
<1>7. CASE ~yes
  <2>1. x = Result(c, 17, Silence)
    BY <1>1, <1>7
  <2>2. Steady(c, i, Result(c, 17, Silence)) /\ Silence[i] = <<>>
    BY StaysSteady, Outs
  <2> QED
    BY <2>1, <2>2 DEF Result, x
<1> QED
  BY <1>6, <1>7

LEMMA RequestSteady ==
    ASSUME NEW c, ClientOK(c), NEW i \in Slots, NEW s \in Seq(Int), NEW eof \in BOOLEAN,
           NEW x \in ReadRequest(c, i, s, eof)
    PROVE  Steady(c, i, x)
<1>1. \A w \in RequestWords(s) : w[1] \in Int /\ w[2] \in Int /\ w[3] \in Int
  <2>1. WordAt(s, 6) \in Int /\ WordAt(s, 10) \in Int /\ WordAt(s, 14) \in Int
    BY WordIsInt
  <2>2. Index \subseteq Int /\ 0 .. PieceSize \subseteq Int
    BY Sizes DEF Index
  <2>3. CASE Len(s) >= 17
    <3>1. RequestWords(s) = { <<WordAt(s, 6), WordAt(s, 10), WordAt(s, 14)>> }
      BY <2>3 DEF RequestWords
    <3> QED
      BY <2>1, <3>1
  <2>4. CASE ~(Len(s) >= 17)
    <3>1. RequestWords(s) = Index \X (0 .. PieceSize) \X (0 .. PieceSize)
      BY <2>4 DEF RequestWords
    <3> QED
      BY <2>2, <3>1
  <2> QED
    BY <2>3, <2>4
<1>2. \/ x = Result(c, 5, Silence)
      \/ \E w \in RequestWords(s) : x = Answer(c, i, w[1], w[2], w[3])
  BY DEF ReadRequest
<1>3. CASE x = Result(c, 5, Silence)
  BY <1>3, StaysSteady
<1>4. ASSUME NEW w \in RequestWords(s), x = Answer(c, i, w[1], w[2], w[3])
      PROVE  Steady(c, i, x)
  <2>1. w[1] \in Int /\ w[2] \in Int /\ w[3] \in Int
    BY <1>1
  <2> QED
    BY <1>4, <2>1, AnswerRead
<1> QED
  BY <1>2, <1>3, <1>4

-----------------------------------------------------------------------------
(* Whatever is in the stream                                                *)

LEMMA HandlersAre ==
    ASSUME NEW c, NEW i, NEW s, NEW eof
    PROVE  /\ s[5] = CHOKE => Handle(c, i, s, eof) =
                {Result([c EXCEPT !.conn[i].peer_chocking = TRUE], 5, Silence)}
           /\ s[5] = UNCHOKE => Handle(c, i, s, eof) = ReadUnchoke(c, i)
           /\ s[5] = PEICE => Handle(c, i, s, eof) = ReadPeice(c, i, s, eof)
           /\ s[5] = CANCLE => Handle(c, i, s, eof) = {Result(c, 5, Silence)}
           /\ s[5] \notin {CHOKE, UNCHOKE, INTERSTED, NOT_INTERSTED, BIT_FIELD, HAVE_PEICE,
                           REQUEST, PEICE, CANCLE} =>
                Handle(c, i, s, eof) = {CloseConnection(c, i, 5)}
<1> DEFINE choke == {Result([c EXCEPT !.conn[i].peer_chocking = TRUE], 5, Silence)}
           unchoke == ReadUnchoke(c, i)
           likes == ReadIntersted(c, i)
           not == ReadNotIntersted(c, i)
           bits == ReadBitField(c, i, s, eof)
           have == ReadHave(c, i, s, eof)
           asks == ReadRequest(c, i, s, eof)
           block == ReadPeice(c, i, s, eof)
           cancel == {Result(c, 5, Silence)}
           other == {CloseConnection(c, i, 5)}
           id == s[5]
           H == Handle(c, i, s, eof)
<1>1. H = CASE id = CHOKE         -> choke
            [] id = UNCHOKE       -> unchoke
            [] id = INTERSTED     -> likes
            [] id = NOT_INTERSTED -> not
            [] id = BIT_FIELD     -> bits
            [] id = HAVE_PEICE    -> have
            [] id = REQUEST       -> asks
            [] id = PEICE         -> block
            [] id = CANCLE        -> cancel
            [] OTHER              -> other
  BY DEF Handle
<1> HIDE DEF choke, unchoke, likes, not, bits, have, asks, block, cancel, other, id, H
<1>2. /\ id = CHOKE => H = choke
      /\ id = UNCHOKE => H = unchoke
      /\ id = PEICE => H = block
      /\ id = CANCLE => H = cancel
  BY <1>1 DEF CHOKE, UNCHOKE, INTERSTED, NOT_INTERSTED, HAVE_PEICE, BIT_FIELD, REQUEST,
       PEICE, CANCLE
<1>3. id \notin {CHOKE, UNCHOKE, INTERSTED, NOT_INTERSTED, BIT_FIELD, HAVE_PEICE,
                 REQUEST, PEICE, CANCLE} => H = other
  BY <1>1
<1> QED
  BY <1>2, <1>3 DEF choke, unchoke, block, cancel, other, id, H

LEMMA TwoHandlers ==
    ASSUME NEW c, NEW i, NEW s, NEW eof
    PROVE  /\ s[5] = UNCHOKE => Handle(c, i, s, eof) = ReadUnchoke(c, i)
           /\ s[5] = PEICE => Handle(c, i, s, eof) = ReadPeice(c, i, s, eof)
BY DEF Handle, CHOKE, UNCHOKE, INTERSTED, NOT_INTERSTED, HAVE_PEICE, BIT_FIELD, REQUEST,
       PEICE, CANCLE

LEMMA ReactionsSteady ==
    ASSUME NEW c, ClientOK(c), NEW i \in Slots, c.conn[i].in_use,
           NEW s \in Seq(Int), NEW eof \in BOOLEAN, NEW x \in Reactions(c, i, s, eof)
    PROVE  Steady(c, i, x)
<1>1. \/ x = CloseConnection(c, i, 0)
      \/ x = Result(c, Len(s), Silence)
      \/ x = Result(c, 4, Silence)
      \/ x = CloseConnection(c, i, 4)
      \/ x \in Handle(c, i, s, eof)
  BY DEF Reactions
<1>2. CASE x \in Handle(c, i, s, eof)
  <2>1. \/ x = Result([c EXCEPT !.conn[i].peer_chocking = TRUE], 5, Silence)
        \/ x \in ReadUnchoke(c, i)
        \/ x \in ReadIntersted(c, i)
        \/ x \in ReadNotIntersted(c, i)
        \/ x \in ReadBitField(c, i, s, eof)
        \/ x \in ReadHave(c, i, s, eof)
        \/ x \in ReadRequest(c, i, s, eof)
        \/ x \in ReadPeice(c, i, s, eof)
        \/ x = Result(c, 5, Silence)
        \/ x = CloseConnection(c, i, 5)
    <3> DEFINE H == Handle(c, i, s, eof)
               id == s[5]
    <3>1. /\ id = CHOKE => x = Result([c EXCEPT !.conn[i].peer_chocking = TRUE], 5, Silence)
          /\ id = UNCHOKE => x \in ReadUnchoke(c, i)
          /\ id = PEICE => x \in ReadPeice(c, i, s, eof)
          /\ id = CANCLE => x = Result(c, 5, Silence)
          /\ id \notin {CHOKE, UNCHOKE, INTERSTED, NOT_INTERSTED, BIT_FIELD, HAVE_PEICE,
                        REQUEST, PEICE, CANCLE} => x = CloseConnection(c, i, 5)
      <4>1. /\ id = CHOKE =>
                  H = {Result([c EXCEPT !.conn[i].peer_chocking = TRUE], 5, Silence)}
            /\ id = UNCHOKE => H = ReadUnchoke(c, i)
            /\ id = PEICE => H = ReadPeice(c, i, s, eof)
            /\ id = CANCLE => H = {Result(c, 5, Silence)}
            /\ id \notin {CHOKE, UNCHOKE, INTERSTED, NOT_INTERSTED, BIT_FIELD, HAVE_PEICE,
                          REQUEST, PEICE, CANCLE} => H = {CloseConnection(c, i, 5)}
        BY HandlersAre
      <4>2. x \in H
        BY <1>2
      <4> HIDE DEF H, id
      <4> QED
        BY <4>1, <4>2
    <3>2. /\ id = INTERSTED => x \in ReadIntersted(c, i)
          /\ id = NOT_INTERSTED => x \in ReadNotIntersted(c, i)
          /\ id = BIT_FIELD => x \in ReadBitField(c, i, s, eof)
          /\ id = HAVE_PEICE => x \in ReadHave(c, i, s, eof)
          /\ id = REQUEST => x \in ReadRequest(c, i, s, eof)
      BY <1>2, HandleIs
    <3> HIDE DEF id
    <3> QED
      BY <3>1, <3>2
  <2>2. CASE x = Result([c EXCEPT !.conn[i].peer_chocking = TRUE], 5, Silence)
    BY <2>2, ChokeSteady
  <2>3. CASE x \in ReadUnchoke(c, i)
    BY <2>3, UnchokeRead
  <2>4. CASE x \in ReadIntersted(c, i)
    BY <2>4, InterstedRead
  <2>5. CASE x \in ReadNotIntersted(c, i)
    BY <2>5, NotInterstedRead
  <2>6. CASE x \in ReadBitField(c, i, s, eof)
    BY <2>6, BitFieldSteady
  <2>7. CASE x \in ReadHave(c, i, s, eof)
    BY <2>7, HaveRead
  <2>8. CASE x \in ReadRequest(c, i, s, eof)
    BY <2>8, RequestSteady
  <2>9. CASE x \in ReadPeice(c, i, s, eof)
    BY <2>9, PeiceSteady
  <2>10. CASE x = Result(c, 5, Silence)
    BY <2>10, StaysSteady
  <2>11. CASE x = CloseConnection(c, i, 5)
    BY <2>11, CloseSteady
  <2> QED
    BY <2>1, <2>2, <2>3, <2>4, <2>5, <2>6, <2>7, <2>8, <2>9, <2>10, <2>11
<1>3. Len(s) \in Nat
  OBVIOUS
<1> QED
  BY <1>1, <1>2, <1>3, CloseSteady, StaysSteady

-----------------------------------------------------------------------------
(* A whole message                                                          *)

(* s begins with the message m, with number id and length field n.            *)
Whole(m, id, n, s) ==
    /\ Shape(m, id, n)
    /\ \E rest \in Seq(Int) : s = m \o rest

LEMMA WholeThere ==
    ASSUME NEW m, NEW id, NEW n, NEW s, Whole(m, id, n, s)
    PROVE  /\ s \in Seq(Int) /\ n \in Nat \ {0} /\ Len(m) = 4 + n
           /\ Len(s) >= 4 + n
           /\ s[5] = id /\ WordAt(s, 1) = n
           /\ \A k \in 1 .. 4 + n : s[k] = m[k]
<1>1. /\ m \in Seq(Int) /\ n \in Int31 \ {0} /\ Len(m) = 4 + n
      /\ HasWord(m, 1, n) /\ m[5] = id /\ n \in Nat \ {0}
  BY Sizes DEF Whole, Shape, Int31
<1>2. PICK rest \in Seq(Int) : s = m \o rest
  BY DEF Whole
<1>3. /\ s \in Seq(Int) /\ Len(s) = Len(m) + Len(rest)
      /\ \A k \in 1 .. Len(m) : s[k] = m[k]
  BY <1>1, <1>2, Joined
<1>4. Len(s) >= 4 + n /\ \A k \in 1 .. 4 + n : s[k] = m[k]
  BY <1>1, <1>3
<1>5. s[5] = id
  BY <1>1, <1>4
<1>6. WordAt(s, 1) = n
  <2>1. FrontOf(s, m)
    BY <1>3 DEF FrontOf
  <2>2. 1 + 3 <= Len(m) /\ 1 + 3 <= Len(s)
    BY <1>1, <1>4
  <2> QED
    BY <1>1, <1>3, <2>1, <2>2, WordArrived
<1> QED
  BY <1>1, <1>3, <1>4, <1>5, <1>6

LEMMA WholeHead ==
    \A m, id, n, s : Whole(m, id, n, s) =>
        s \in Seq(Int) /\ Len(m) = 4 + n /\ Len(s) >= 4 + n /\ s[5] = id
BY WholeThere

LEMMA WholeHandled ==
    \A m, id, n, s, c, i, eof : Whole(m, id, n, s) =>
        Reactions(c, i, s, eof) = Handle(c, i, s, eof)
<1> SUFFICES ASSUME NEW m, NEW id, NEW n, NEW s, Whole(m, id, n, s), NEW c, NEW i, NEW eof
             PROVE  Reactions(c, i, s, eof) = Handle(c, i, s, eof)
  OBVIOUS
<1> DEFINE l == Len(s)
<1>1. /\ s \in Seq(Int) /\ n \in Nat \ {0} /\ l >= 4 + n /\ WordAt(s, 1) = n
  BY WholeThere
<1>2. l \in Nat
  BY <1>1
<1> HIDE DEF l
<1>3. ~(l < 4) /\ l # 4 /\ WordAt(s, 1) # 0
  BY <1>1, <1>2
<1> QED
  BY <1>3 DEF Reactions, l

LEMMA WordThere ==
    ASSUME NEW m, NEW id, NEW n, NEW s, Whole(m, id, n, s),
           NEW k \in Nat \ {0}, k + 3 <= 4 + n, NEW v \in Int31 \cup {-1}, HasWord(m, k, v)
    PROVE  WordAt(s, k) = v
<1>1. /\ s \in Seq(Int) /\ n \in Nat /\ Len(s) >= 4 + n
      /\ \A j \in 1 .. 4 + n : s[j] = m[j]
  BY WholeThere
<1>2. /\ m[k] = Word(v)[1] /\ m[k + 1] = Word(v)[2]
      /\ m[k + 2] = Word(v)[3] /\ m[k + 3] = Word(v)[4]
  BY FourBytesAre
<1>3. s[k] = m[k] /\ s[k + 1] = m[k + 1] /\ s[k + 2] = m[k + 2] /\ s[k + 3] = m[k + 3]
  <2>1. /\ k \in 1 .. 4 + n /\ k + 1 \in 1 .. 4 + n
        /\ k + 2 \in 1 .. 4 + n /\ k + 3 \in 1 .. 4 + n
    BY <1>1
  <2> QED
    BY <1>1, <2>1
<1>4. k + 3 <= Len(s)
  <2>1. Len(s) \in Nat
    BY <1>1
  <2> QED
    BY <1>1, <2>1
<1>5. WordAt(s, k) = IntOf(<<s[k], s[k + 1], s[k + 2], s[k + 3]>>)
  BY <1>1, <1>4, FourBytes
<1>6. <<Word(v)[1], Word(v)[2], Word(v)[3], Word(v)[4]>> = Word(v)
  BY SMT DEF Word
<1>7. IntOf(Word(v)) = v
  BY IntOfWord, MinusOne
<1> QED
  BY <1>2, <1>3, <1>5, <1>6, <1>7

-----------------------------------------------------------------------------
(* What reading a message does to the slot it came from                     *)

(* Of a stream s that begins with m, m is read, and what c then knows is g.    *)
Understood(c, i, m, s, eof, f, g) ==
    /\ Reactions(c, i, s, eof) # {}
    /\ \A x \in Reactions(c, i, s, eof) :
          x.client.proc = "up" /\ x.client.conn[i].in_use =>
            /\ x.used = Len(m)
            /\ First(g, x.client, i)
            /\ Sane(x.client) =>
                 Speaks(c, x.client, i, x.out[i], g.blks - f.blks, g.reqs - f.reqs)

LEMMA SpeaksLess ==
    ASSUME NEW c, NEW c1, NEW s, NEW o, NEW got, NEW a \in Nat, NEW b \in Nat, a <= b,
           Speaks(c, c1, s, o, got, a)
    PROVE  Speaks(c, c1, s, o, got, b)
<1> SUFFICES ASSUME NEW v \in Views, NEW t \in Int,
                    LastOf(v, c, s), got <= t, Fit(c, s, v.wants, t)
             PROVE  \E w \in Views :
                      /\ Story(o, v, w)
                      /\ LastOf(w, c1, s)
                      /\ w.blks <= v.blks + b
                      /\ Fit(c1, s, w.wants, t - got + w.reqs - v.reqs)
  BY DEF Speaks
<1>1. PICK w \in Views : /\ Story(o, v, w) /\ LastOf(w, c1, s) /\ w.blks <= v.blks + a
                         /\ Fit(c1, s, w.wants, t - got + w.reqs - v.reqs)
  BY DEF Speaks
<1>2. w.blks \in Nat /\ v.blks \in Nat
  BY DEF Views
<1>3. w.blks <= v.blks + b
  BY <1>1, <1>2
<1> QED
  BY <1>1, <1>3

LEMMA UnchokeUnderstood ==
    ASSUME NEW c, ClientOK(c), NEW i \in Slots, NEW m, NEW rest \in Seq(Int), NEW eof \in BOOLEAN,
           NEW f \in Views, NEW g \in Views, First(f, c, i), ReadsUnchoke(m, f, g)
    PROVE  Understood(c, i, m, m \o rest, eof, f, g)
<1> DEFINE s == m \o rest
<1>1. m = Message(UNCHOKE, <<>>)
  BY DEF ReadsUnchoke
<1> DEFINE n == 1
<1>2. Whole(m, UNCHOKE, n, s)
  BY <1>1, Numbers, EmptyMessage DEF Whole
<1> HIDE DEF s, n
<1>3. Len(m) = 5 /\ s[5] = UNCHOKE
  <2>1. Len(m) = 4 + n /\ s[5] = UNCHOKE
    BY <1>2, WholeHead
  <2> QED
    BY <2>1 DEF n
<1>4. Reactions(c, i, s, eof) = ReadUnchoke(c, i)
  <2>1. Reactions(c, i, s, eof) = Handle(c, i, s, eof)
    BY <1>2, WholeHandled
  <2>2. Handle(c, i, s, eof) = ReadUnchoke(c, i)
    BY <1>3, TwoHandlers
  <2> QED
    BY <2>1, <2>2
<1>5. /\ g.choking = FALSE /\ g.bits = f.bits /\ g.wants = f.wants
      /\ g.reqs - f.reqs = 0 /\ g.blks - f.blks = 0
  BY DEF ReadsUnchoke, Views
<1>6. ASSUME NEW x \in ReadUnchoke(c, i)
      PROVE  /\ x.used = Len(m)
             /\ First(g, x.client, i)
             /\ Speaks(c, x.client, i, x.out[i], g.blks - f.blks, g.reqs - f.reqs)
  <2>1. /\ Steady(c, i, x)
        /\ x.used = 5
        /\ ~x.client.conn[i].peer_chocking
        /\ x.client.conn[i].bit_field = c.conn[i].bit_field
        /\ x.client.conn[i].peer_intersted = c.conn[i].peer_intersted
        /\ Speaks(c, x.client, i, x.out[i], 0, 0)
    BY UnchokeRead
  <2>2. x.client.conn[i] \in ConnType
    BY <2>1, ConnIs DEF Steady, Prepared
  <2>3. x.client.conn[i].peer_chocking = FALSE
    BY <2>1, <2>2 DEF ConnType
  <2> QED
    BY <1>3, <1>5, <2>1, <2>3 DEF First
<1>7. ReadUnchoke(c, i) # {}
  BY UnchokeRead
<1> QED
  BY <1>4, <1>6, <1>7 DEF Understood, s

LEMMA WishUnderstood ==
    ASSUME NEW c, ClientOK(c), NEW i \in Slots, NEW m, NEW rest \in Seq(Int), NEW eof \in BOOLEAN,
           NEW f \in Views, NEW g \in Views, First(f, c, i), ReadsWish(m, f, g)
    PROVE  Understood(c, i, m, m \o rest, eof, f, g)
<1> DEFINE s == m \o rest
<1>1. PICK id \in {INTERSTED, NOT_INTERSTED} :
        m = Message(id, <<>>) /\ g = [f EXCEPT !.wants = (id = INTERSTED)]
  <2>1. INTERSTED = INTERSTED /\ NOT_INTERSTED # INTERSTED
    BY DEF INTERSTED, NOT_INTERSTED
  <2>2. \/ m = Message(INTERSTED, <<>>) /\ g = [f EXCEPT !.wants = TRUE]
        \/ m = Message(NOT_INTERSTED, <<>>) /\ g = [f EXCEPT !.wants = FALSE]
    BY DEF ReadsWish
  <2>3. CASE m = Message(INTERSTED, <<>>) /\ g = [f EXCEPT !.wants = TRUE]
    <3>1. (INTERSTED = INTERSTED) = TRUE
      OBVIOUS
    <3> WITNESS INTERSTED \in {INTERSTED, NOT_INTERSTED}
    <3> QED
      BY <2>3, <3>1
  <2>4. CASE m = Message(NOT_INTERSTED, <<>>) /\ g = [f EXCEPT !.wants = FALSE]
    <3>1. (NOT_INTERSTED = INTERSTED) = FALSE
      BY <2>1
    <3> WITNESS NOT_INTERSTED \in {INTERSTED, NOT_INTERSTED}
    <3> QED
      BY <2>4, <3>1
  <2> QED
    BY <2>2, <2>3, <2>4
<1> DEFINE n == 1
<1>2. Whole(m, id, n, s)
  BY <1>1, Numbers, EmptyMessage DEF Whole
<1> HIDE DEF s, n
<1>3. Len(m) = 5 /\ s[5] = id
  <2>1. Len(m) = 4 + n /\ s[5] = id
    BY <1>2, WholeHead
  <2> QED
    BY <2>1 DEF n
<1>4. Reactions(c, i, s, eof) = Handle(c, i, s, eof)
  BY <1>2, WholeHandled
<1>5. /\ g.choking = f.choking /\ g.bits = f.bits /\ g.wants = (id = INTERSTED)
      /\ g.reqs - f.reqs = 0 /\ g.blks - f.blks = 0
  BY <1>1 DEF Views
<1>6. CASE id = INTERSTED
  <2>1. Reactions(c, i, s, eof) = ReadIntersted(c, i)
    BY <1>3, <1>4, <1>6, HandleIs
  <2>2. ASSUME NEW x \in ReadIntersted(c, i)
        PROVE  /\ x.used = Len(m)
               /\ First(g, x.client, i)
               /\ Speaks(c, x.client, i, x.out[i], g.blks - f.blks, g.reqs - f.reqs)
    <3>1. /\ Steady(c, i, x)
          /\ x.used = 5
          /\ x.client.conn[i].peer_chocking = c.conn[i].peer_chocking
          /\ x.client.conn[i].bit_field = c.conn[i].bit_field
          /\ x.client.conn[i].peer_intersted
          /\ Speaks(c, x.client, i, x.out[i], 0, 0)
      BY InterstedRead
    <3>2. x.client.conn[i] \in ConnType
      BY <3>1, ConnIs DEF Steady, Prepared
    <3>3. x.client.conn[i].peer_intersted = TRUE
      BY <3>1, <3>2 DEF ConnType
    <3> QED
      BY <1>3, <1>5, <1>6, <3>1, <3>3 DEF First
  <2>3. ReadIntersted(c, i) # {}
    BY InterstedRead
  <2> QED
    BY <2>1, <2>2, <2>3 DEF Understood, s
<1>7. CASE id = NOT_INTERSTED
  <2>1. Reactions(c, i, s, eof) = ReadNotIntersted(c, i)
    BY <1>3, <1>4, <1>7, HandleIs
  <2>2. ASSUME NEW x \in ReadNotIntersted(c, i)
        PROVE  /\ x.used = Len(m)
               /\ First(g, x.client, i)
               /\ Speaks(c, x.client, i, x.out[i], g.blks - f.blks, g.reqs - f.reqs)
    <3>1. /\ Steady(c, i, x)
          /\ x.used = 5
          /\ x.client.conn[i].peer_chocking = c.conn[i].peer_chocking
          /\ x.client.conn[i].bit_field = c.conn[i].bit_field
          /\ ~x.client.conn[i].peer_intersted
          /\ Speaks(c, x.client, i, x.out[i], 0, 0)
      BY NotInterstedRead
    <3>2. x.client.conn[i] \in ConnType
      BY <3>1, ConnIs DEF Steady, Prepared
    <3>3. x.client.conn[i].peer_intersted = FALSE
      BY <3>1, <3>2 DEF ConnType
    <3>4. g.wants = FALSE
      <4>1. id # INTERSTED
        BY <1>7 DEF INTERSTED, NOT_INTERSTED
      <4> HIDE DEF INTERSTED
      <4>2. (id = INTERSTED) = FALSE
        BY <4>1
      <4> QED
        BY <1>5, <4>2
    <3> QED
      BY <1>3, <1>5, <3>1, <3>3, <3>4 DEF First
  <2>3. ReadNotIntersted(c, i) # {}
    BY NotInterstedRead
  <2> QED
    BY <2>1, <2>2, <2>3 DEF Understood, s
<1> QED
  BY <1>6, <1>7

LEMMA BitsUnderstood ==
    ASSUME NEW c, ClientOK(c), NEW i \in Slots, NEW m, NEW rest \in Seq(Int), NEW eof \in BOOLEAN,
           NEW f \in Views, NEW g \in Views, First(f, c, i), ReadsBits(m, f, g)
    PROVE  Understood(c, i, m, m \o rest, eof, f, g)
<1> DEFINE s == m \o rest
           n == bit_field_size(no_of_peices)
<1>1. PICK B \in SUBSET Cells :
        m = BitFieldMessage(B, no_of_peices) /\ g = [f EXCEPT !.bits = B]
  BY DEF ReadsBits
<1> DEFINE q == BitFieldBytes(B, no_of_peices)
<1>2. B \in SUBSET Pieces /\ B \in SUBSET Int
  BY CellFacts, Sizes DEF Pieces
<1>3. /\ Shape(m, BIT_FIELD, 1 + n)
      /\ q \in Seq(Int) /\ Len(q) = n
      /\ \A k \in 1 .. n : m[5 + k] = q[k]
  BY <1>1, <1>2, BitFieldMessageBytes
<1>4. Whole(m, BIT_FIELD, 1 + n, s)
  BY <1>3 DEF Whole
<1>5. n \in Nat
  BY FieldSize
<1> HIDE DEF s, n, q
<1>6. /\ s \in Seq(Int) /\ Len(m) = 4 + (1 + n) /\ Len(s) >= 4 + (1 + n)
      /\ s[5] = BIT_FIELD /\ WordAt(s, 1) = 1 + n
      /\ \A k \in 1 .. 4 + (1 + n) : s[k] = m[k]
  BY <1>4, WholeThere
<1>7. Reactions(c, i, s, eof) = ReadBitField(c, i, s, eof)
  <2>1. Reactions(c, i, s, eof) = Handle(c, i, s, eof)
    BY <1>4, WholeHandled
  <2>2. Handle(c, i, s, eof) = ReadBitField(c, i, s, eof)
    BY <1>6, HandleIs
  <2> QED
    BY <2>1, <2>2
<1>8. Bytes(s, 6, 4 + (1 + n)) = q
  <2> DEFINE l == 4 + (1 + n)
  <2>1. l \in Nat /\ l - 6 + 1 = n /\ l <= Len(s)
    BY <1>5, <1>6
  <2>2. ASSUME NEW k \in 1 .. n PROVE Bytes(s, 6, l)[k] = q[k]
    <3>1. k \in 1 .. l - 6 + 1 /\ 6 + k - 1 = 5 + k /\ 5 + k \in 1 .. l
      BY <1>5, <2>1
    <3>2. Bytes(s, 6, l)[k] = s[5 + k]
      <4> HIDE DEF l
      <4>1. 6 \in Nat \ {0} /\ s \in Seq(Int)
        BY <1>6
      <4>2. Bytes(s, 6, l)[k] = s[6 + k - 1]
        BY <2>1, <3>1, <4>1, BytesThere
      <4> QED
        BY <3>1, <4>2
    <3> QED
      BY <1>3, <1>6, <3>1, <3>2
  <2>3. Bytes(s, 6, l) = [k \in 1 .. n |-> Bytes(s, 6, l)[k]]
    BY <2>1 DEF Bytes
  <2>4. q = [k \in 1 .. n |-> q[k]]
    BY <1>3
  <2> HIDE DEF l
  <2>5. Bytes(s, 6, l) = q
    BY <2>2, <2>3, <2>4
  <2> QED
    BY <2>5 DEF l
<1>9. BitsOf(q) = B /\ ~SpareBitsSet(B)
  BY <1>2, BitsComeBack, CellFacts DEF q
<1>10. ReadBitField(c, i, s, eof) = StoreBits(c, i, B, 4 + (1 + n))
  <2> DEFINE k == WordAt(s, 1)
             bits == BitsOf(Bytes(s, 6, 4 + k))
  <2>1. ReadBitField(c, i, s, eof) =
          IF k < 1 THEN {CloseConnection(c, i, 5)}
          ELSE IF ~Enough(s, 4 + k, eof) THEN {}
          ELSE IF k - 1 # bit_field_size(no_of_peices) \/ SpareBitsSet(bits)
          THEN {CloseConnection(c, i, 4 + k)}
          ELSE StoreBits(c, i, bits, 4 + k)
    BY DEF ReadBitField
  <2>2. bits = B
    BY <1>6, <1>8, <1>9
  <2>3. k = 1 + n /\ ~(k < 1) /\ k - 1 = n
    BY <1>5, <1>6
  <2> HIDE DEF k, bits
  <2>4. Enough(s, 4 + k, eof)
    BY <1>6, <2>3 DEF Enough
  <2> QED
    BY <1>9, <2>1, <2>2, <2>3, <2>4 DEF n
<1>11. /\ g.choking = f.choking /\ g.bits = B /\ g.wants = f.wants /\ f.choking
       /\ g.reqs - f.reqs = 0 /\ g.blks - f.blks = 0
  <2>1. f.choking
    BY DEF ReadsBits
  <2>2. f.reqs \in Nat /\ f.blks \in Nat
    BY DEF Views
  <2>3. /\ g.choking = f.choking /\ g.bits = B /\ g.wants = f.wants
        /\ g.reqs = f.reqs /\ g.blks = f.blks
    BY <1>1 DEF Views
  <2> QED
    BY <2>1, <2>2, <2>3
<1> DEFINE X == StoreBits(c, i, B, 4 + (1 + n))
<1>12. /\ X # {}
       /\ \A x \in X :
            /\ x.used = 4 + (1 + n)
            /\ x.client.proc = "up" =>
                 /\ x.client.conn[i].peer_chocking = c.conn[i].peer_chocking
                 /\ x.client.conn[i].bit_field = B
                 /\ x.client.conn[i].peer_intersted = c.conn[i].peer_intersted
                 /\ c.conn[i].peer_chocking => Speaks(c, x.client, i, x.out[i], 0, 0)
  <2>1. 4 + (1 + n) \in Nat
    BY <1>5
  <2> QED
    BY <1>2, <2>1, BitsStored
<1>13. Reactions(c, i, s, eof) = X
  BY <1>7, <1>10
<1> HIDE DEF X
<1>14. ASSUME NEW x \in X, x.client.proc = "up"
       PROVE  /\ x.used = Len(m)
              /\ First(g, x.client, i)
              /\ Speaks(c, x.client, i, x.out[i], g.blks - f.blks, g.reqs - f.reqs)
  BY <1>6, <1>11, <1>12, <1>14 DEF First
<1> QED
  BY <1>12, <1>13, <1>14 DEF Understood, s

LEMMA HaveUnderstood ==
    ASSUME NEW c, ClientOK(c), NEW i \in Slots, NEW m, NEW rest \in Seq(Int), NEW eof \in BOOLEAN,
           NEW f \in Views, NEW g \in Views, First(f, c, i), ReadsHave(m, f, g)
    PROVE  Understood(c, i, m, m \o rest, eof, f, g)
<1> DEFINE s == m \o rest
<1>1. PICK p \in Pieces : /\ m = Message(HAVE_PEICE, Word(p))
                          /\ g = [f EXCEPT !.bits = set_bit_field(@, p)]
  BY DEF ReadsHave
<1>2. p \in Int31 /\ p \in Int
  BY PieceFits, Sizes DEF Int31
<1>3. Shape(m, HAVE_PEICE, 5) /\ HasWord(m, 6, p)
  BY <1>1, <1>2, OneWord
<1> DEFINE n == 5
<1>4. Whole(m, HAVE_PEICE, n, s)
  BY <1>3 DEF Whole
<1> HIDE DEF s, n
<1>5. s \in Seq(Int) /\ Len(m) = 9 /\ Len(s) >= 9 /\ s[5] = HAVE_PEICE
  <2>1. s \in Seq(Int) /\ Len(m) = 4 + n /\ Len(s) >= 4 + n /\ s[5] = HAVE_PEICE
    BY <1>4, WholeHead
  <2> QED
    BY <2>1 DEF n
<1>6. WordAt(s, 6) = p
  <2>1. 6 \in Nat \ {0} /\ 6 + 3 <= 4 + n
    BY DEF n
  <2> QED
    BY <1>2, <1>3, <1>4, <2>1, WordThere
<1>7. Reactions(c, i, s, eof) = ReadHave(c, i, s, eof)
  <2>1. Reactions(c, i, s, eof) = Handle(c, i, s, eof)
    BY <1>4, WholeHandled
  <2>2. Handle(c, i, s, eof) = ReadHave(c, i, s, eof)
    BY <1>5, HandleIs
  <2> QED
    BY <2>1, <2>2
<1>8. /\ g.choking = f.choking /\ g.bits = set_bit_field(f.bits, p) /\ g.wants = f.wants
      /\ g.reqs - f.reqs = 0 /\ g.blks - f.blks = 0
  BY <1>1 DEF Views
<1> DEFINE X == ReadHave(c, i, s, eof)
<1>9. /\ X # {}
      /\ \A x \in X :
           /\ x.used = 9
           /\ x.client.proc = "up" =>
                /\ x.client.conn[i].peer_chocking = c.conn[i].peer_chocking
                /\ x.client.conn[i].bit_field = set_bit_field(c.conn[i].bit_field, p)
                /\ x.client.conn[i].peer_intersted = c.conn[i].peer_intersted
                /\ Speaks(c, x.client, i, x.out[i], 0, 0)
  BY <1>5, <1>6, HaveRead
<1>10. Reactions(c, i, s, eof) = X
  BY <1>7
<1> HIDE DEF X
<1>11. ASSUME NEW x \in X, x.client.proc = "up"
       PROVE  /\ x.used = Len(m)
              /\ First(g, x.client, i)
              /\ Speaks(c, x.client, i, x.out[i], g.blks - f.blks, g.reqs - f.reqs)
  BY <1>5, <1>8, <1>9, <1>11 DEF First
<1> QED
  BY <1>9, <1>10, <1>11 DEF Understood, s

LEMMA RequestUnderstood ==
    ASSUME NEW c, ClientOK(c), NEW i \in Slots, c.conn[i].in_use, NEW m,
           NEW rest \in Seq(Int), NEW eof \in BOOLEAN,
           NEW f \in Views, NEW g \in Views, First(f, c, i), ReadsRequest(m, f, g)
    PROVE  Understood(c, i, m, m \o rest, eof, f, g)
<1> DEFINE s == m \o rest
<1>1. PICK p \in Index : /\ m = RequestMessage(p, 0, RequestLength(p))
                         /\ g = [f EXCEPT !.reqs = IF p \in Pieces THEN @ + 1 ELSE @]
  BY DEF ReadsRequest
<1> DEFINE n == RequestLength(p)
<1>2. p \in Int /\ n \in Int31 /\ n \in Int
  <2>1. p \in Int /\ n \in 1 .. PieceSize
    BY RequestFits
  <2> HIDE DEF n
  <2> QED
    BY <2>1, Sizes DEF Int31
<1>3. 0 \in Int31 /\ 0 \in Int
  BY SmallInts
<1>4. p \in Int31 \cup {-1}
  <2>1. p = -1 \/ p \in Pieces
    BY Sizes DEF Index, Pieces
  <2> QED
    BY <2>1, PieceFits, Sizes DEF Int31
<1> HIDE DEF n
<1>5. Shape(m, REQUEST, 13) /\ HasWord(m, 6, p) /\ HasWord(m, 10, 0) /\ HasWord(m, 14, n)
  BY <1>1, <1>2, <1>3, Numbers, ThreeWords DEF RequestMessage, n
<1> DEFINE k == 13
<1>6. Whole(m, REQUEST, k, s)
  BY <1>5 DEF Whole
<1> HIDE DEF s, k
<1>7. s \in Seq(Int) /\ Len(m) = 17 /\ Len(s) >= 17 /\ s[5] = REQUEST
  <2>1. s \in Seq(Int) /\ Len(m) = 4 + k /\ Len(s) >= 4 + k /\ s[5] = REQUEST
    BY <1>6, WholeHead
  <2> QED
    BY <2>1 DEF k
<1>8. WordAt(s, 6) = p /\ WordAt(s, 10) = 0 /\ WordAt(s, 14) = n
  <2>1. /\ 6 \in Nat \ {0} /\ 6 + 3 <= 4 + k /\ 10 \in Nat \ {0} /\ 10 + 3 <= 4 + k
        /\ 14 \in Nat \ {0} /\ 14 + 3 <= 4 + k
    BY DEF k
  <2>2. n \in Int31 \cup {-1} /\ 0 \in Int31 \cup {-1}
    BY <1>2, <1>3
  <2>3. WordAt(s, 6) = p
    BY <1>4, <1>5, <1>6, <2>1, WordThere
  <2>4. WordAt(s, 10) = 0
    BY <1>5, <1>6, <2>1, <2>2, WordThere
  <2>5. WordAt(s, 14) = n
    BY <1>5, <1>6, <2>1, <2>2, WordThere
  <2> QED
    BY <2>3, <2>4, <2>5
<1>9. Reactions(c, i, s, eof) = ReadRequest(c, i, s, eof)
  <2>1. Reactions(c, i, s, eof) = Handle(c, i, s, eof)
    BY <1>6, WholeHandled
  <2>2. Handle(c, i, s, eof) = ReadRequest(c, i, s, eof)
    BY <1>7, HandleIs
  <2> QED
    BY <2>1, <2>2
<1> DEFINE x == Answer(c, i, p, 0, n)
<1>10. ReadRequest(c, i, s, eof) = {x}
  <2>1. c.conn[i].peer_intersted /\ ~c.conn[i].am_chocking
    <3>1. f.wants /\ f.wants = c.conn[i].peer_intersted
      BY DEF ReadsRequest, First
    <3> QED
      BY <3>1, ConnIs
  <2>2. Enough(s, 17, eof) /\ RequestWords(s) = { <<p, 0, n>> }
    BY <1>7, <1>8 DEF Enough, RequestWords
  <2>3. ReadRequest(c, i, s, eof) = { Answer(c, i, w[1], w[2], w[3]) : w \in RequestWords(s) }
    BY <2>1, <2>2 DEF ReadRequest
  <2> DEFINE z == <<p, 0, n>>
  <2>4. z[1] = p /\ z[2] = 0 /\ z[3] = n /\ RequestWords(s) = {z}
    BY <2>2
  <2> HIDE DEF z, x
  <2>5. ReadRequest(c, i, s, eof) = { Answer(c, i, z[1], z[2], z[3]) }
    BY <2>3, <2>4
  <2> QED
    BY <2>4, <2>5 DEF x
<1>11. /\ Steady(c, i, x) /\ x.used = 17
       /\ x.client.conn = c.conn /\ x.client.bits = c.bits /\ x.client.stat = c.stat
       /\ \/ x.out[i] = <<>>
          \/ p \in Pieces /\ x.out[i] = PeiceMessage(p, 0, Data(p, 0, n))
  BY <1>2, <1>3, AnswerRead
<1> HIDE DEF x
<1>12. /\ g.choking = f.choking /\ g.bits = f.bits /\ g.wants = f.wants
       /\ g.blks - f.blks = 0
       /\ g.reqs - f.reqs = IF p \in Pieces THEN 1 ELSE 0
  BY <1>1 DEF Views
<1>13. First(g, x.client, i)
  BY <1>11, <1>12 DEF First
<1>14. Speaks(c, x.client, i, x.out[i], g.blks - f.blks, g.reqs - f.reqs)
  <2>1. Done(x.client) = Done(c)
    BY <1>11 DEF Done
  <2>2. Speaks(c, x.client, i, <<>>, 0, 0)
    BY <1>11, <2>1, Quiet
  <2>3. p \in Pieces => Speaks(c, x.client, i, PeiceMessage(p, 0, Data(p, 0, n)), 0, 1)
    BY <1>11, <2>1, SaysBlock DEF n
  <2>4. Speaks(c, x.client, i, <<>>, 0, 1)
    BY <2>2, SpeaksLess
  <2> QED
    BY <1>11, <1>12, <2>2, <2>3, <2>4
<1> QED
  BY <1>7, <1>9, <1>10, <1>11, <1>13, <1>14 DEF Understood, s

LEMMA BlockUnderstood ==
    ASSUME NEW c, ClientOK(c), NEW i \in Slots, c.conn[i].in_use, NEW m,
           NEW rest \in Seq(Int), NEW eof \in BOOLEAN,
           NEW f \in Views, NEW g \in Views, First(f, c, i), ReadsBlock(m, f, g)
    PROVE  Understood(c, i, m, m \o rest, eof, f, g)
<1> DEFINE s == m \o rest
<1>1. PICK p \in Pieces : /\ m = PeiceMessage(p, 0, Data(p, 0, RequestLength(p)))
                          /\ g = [f EXCEPT !.blks = @ + 1]
  BY DEF ReadsBlock
<1> DEFINE l == RequestLength(p)
<1>2. p \in Int /\ p \in Int31 /\ l \in Nat /\ 9 + l \in Int31
  <2>1. p \in Int /\ p \in Int31
    BY PieceFits, Sizes DEF Int31
  <2>2. p \in Index
    BY Sizes DEF Pieces, Index
  <2>3. l \in 1 .. PieceSize
    BY <2>2, RequestFits
  <2> HIDE DEF l
  <2> QED
    BY <2>1, <2>3, Sizes DEF Int31
<1> HIDE DEF l
<1>3. Shape(m, PEICE, 9 + l) /\ HasWord(m, 6, p)
  <2>1. 0 \in Int
    OBVIOUS
  <2> QED
    BY <1>1, <1>2, <2>1, PeiceBytes DEF l
<1> DEFINE n == 9 + l
<1>4. Whole(m, PEICE, n, s)
  BY <1>3 DEF Whole
<1> HIDE DEF s
<1>5. n \in Nat /\ n >= 9 /\ n \in Int31
  BY <1>2
<1>6. HasWord(m, 6, p)
  BY <1>3
<1> HIDE DEF n
<1>7. /\ s \in Seq(Int) /\ Len(m) = 4 + n /\ Len(s) >= 4 + n /\ s[5] = PEICE
      /\ WordAt(s, 1) = n
  BY <1>4, WholeThere
<1>8. WordAt(s, 6) = p
  <2>1. 6 \in Nat \ {0} /\ 6 + 3 <= 4 + n /\ p \in Int31 \cup {-1}
    BY <1>2, <1>5
  <2> QED
    BY <1>4, <1>6, <2>1, WordThere
<1>9. Reactions(c, i, s, eof) = ReadPeice(c, i, s, eof)
  <2>1. Reactions(c, i, s, eof) = Handle(c, i, s, eof)
    BY <1>4, WholeHandled
  <2>2. Handle(c, i, s, eof) = ReadPeice(c, i, s, eof)
    BY <1>7, TwoHandlers
  <2> QED
    BY <2>1, <2>2
<1> DEFINE X == ReadPeice(c, i, s, eof)
           odd == Len(s) < 13 \/ p # c.conn[i].intersted_peice \/ n < 9
           other == Bytes(s, 14, 4 + n) # Data(p, 0, TrueLength(p))
<1>10. Enough(s, 13, eof) /\ Enough(s, 4 + n, eof)
  <2>1. Len(s) \in Nat
    BY <1>7
  <2> QED
    BY <1>5, <1>7, <2>1 DEF Enough
<1>11. X = IF odd THEN {CloseConnection(c, i, 13)}
           ELSE IF other THEN {CloseConnection(c, i, 4 + n)}
           ELSE IF c.seeder THEN {Ends(c, "exited", 4 + n)}
           ELSE AcceptPeice(c, i, p, 4 + n)
  BY <1>7, <1>8, <1>10 DEF ReadPeice
<1> HIDE DEF X, odd, other
<1>12. 4 + n \in Nat
  BY <1>5
<1>13. /\ ~CloseConnection(c, i, 13).client.conn[i].in_use
       /\ ~CloseConnection(c, i, 4 + n).client.conn[i].in_use
       /\ Ends(c, "exited", 4 + n).client.proc # "up"
  BY <1>12, CloseSteady, EndsSteady DEF Procs
<1>14. ~c.seeder =>
         /\ AcceptPeice(c, i, p, 4 + n) # {}
         /\ \A x \in AcceptPeice(c, i, p, 4 + n) :
              /\ x.used = 4 + n
              /\ x.client.conn[i].peer_chocking = c.conn[i].peer_chocking
              /\ x.client.conn[i].bit_field = c.conn[i].bit_field
              /\ x.client.conn[i].peer_intersted = c.conn[i].peer_intersted
              /\ Sane(x.client) => Speaks(c, x.client, i, x.out[i], 1, 0)
  BY <1>12, PeiceAccepted
<1>15. X # {}
  BY <1>11, <1>14
<1>16. ASSUME NEW x \in X, x.client.proc = "up", x.client.conn[i].in_use
       PROVE  ~c.seeder /\ x \in AcceptPeice(c, i, p, 4 + n)
  BY <1>11, <1>13, <1>16
<1>17. /\ g.choking = f.choking /\ g.bits = f.bits /\ g.wants = f.wants
       /\ g.reqs - f.reqs = 0 /\ g.blks - f.blks = 1
  BY <1>1 DEF Views
<1>18. ASSUME NEW x \in X, x.client.proc = "up", x.client.conn[i].in_use
       PROVE  /\ x.used = Len(m)
              /\ First(g, x.client, i)
              /\ Sane(x.client) =>
                   Speaks(c, x.client, i, x.out[i], g.blks - f.blks, g.reqs - f.reqs)
  <2>1. /\ x.used = 4 + n
        /\ x.client.conn[i].peer_chocking = c.conn[i].peer_chocking
        /\ x.client.conn[i].bit_field = c.conn[i].bit_field
        /\ x.client.conn[i].peer_intersted = c.conn[i].peer_intersted
        /\ Sane(x.client) => Speaks(c, x.client, i, x.out[i], 1, 0)
    BY <1>14, <1>16, <1>18
  <2> QED
    BY <1>7, <1>17, <2>1 DEF First
<1>19. Reactions(c, i, s, eof) = X
  BY <1>9 DEF X
<1> QED
  BY <1>15, <1>18, <1>19 DEF Understood, s

(* Whatever one client says, another one that runs this program understands.  *)
LEMMA MessageUnderstood ==
    ASSUME NEW c, ClientOK(c), NEW i \in Slots, c.conn[i].in_use, NEW m,
           NEW rest \in Seq(Int), NEW eof \in BOOLEAN,
           NEW f \in Views, NEW g \in Views, First(f, c, i), Reads(m, f, g)
    PROVE  Understood(c, i, m, m \o rest, eof, f, g)
BY UnchokeUnderstood, WishUnderstood, BitsUnderstood, HaveUnderstood, RequestUnderstood,
   BlockUnderstood DEF Reads

-----------------------------------------------------------------------------
(* The two ends of a connection                                             *)

(* s is on its way to slot i of a, which knows f of b and will know g; t is on *)
(* its way to slot j of b, which knows h of a and will know k.                *)
Joins(a, i, b, j, s, t, f, g, h, k) ==
    /\ Story(s, f, g) /\ First(f, a, i) /\ LastOf(g, b, j)
    /\ Story(t, h, k) /\ First(h, b, j) /\ LastOf(k, a, i)
    /\ Fit(a, i, k.wants, (k.reqs - h.reqs) + (g.blks - f.blks))
    /\ Fit(b, j, g.wants, (g.reqs - f.reqs) + (k.blks - h.blks))

Pair(a, i, b, j, s, t) ==
    Sane(a) /\ Sane(b) => \E f, g, h, k \in Views : Joins(a, i, b, j, s, t, f, g, h, k)

LEMMA PairTurns ==
    ASSUME NEW a, NEW i, NEW b, NEW j, NEW s, NEW t, Pair(a, i, b, j, s, t)
    PROVE  Pair(b, j, a, i, t, s)
<1> SUFFICES ASSUME Sane(a), Sane(b)
             PROVE  \E h, k, f, g \in Views : Joins(b, j, a, i, t, s, h, k, f, g)
  BY DEF Pair
<1>1. PICK f, g, h, k \in Views : Joins(a, i, b, j, s, t, f, g, h, k)
  BY DEF Pair
<1>2. Joins(b, j, a, i, t, s, h, k, f, g)
  BY <1>1 DEF Joins
<1> QED
  BY <1>2

LEMMA FitLess ==
    ASSUME NEW c, NEW s, NEW w, NEW t \in Int, NEW u \in Nat, u <= t, Fit(c, s, w, t)
    PROVE  Fit(c, s, w, u)
BY DEF Fit

(* a becomes a1, which has s1 before it, knows f1, and has said o.            *)
LEMMA JoinGoesOn ==
    ASSUME NEW a, NEW i, NEW b, NEW j, NEW s, NEW t,
           NEW f \in Views, NEW g \in Views, NEW h \in Views, NEW k \in Views,
           Joins(a, i, b, j, s, t, f, g, h, k),
           NEW s1, NEW f1 \in Views, Story(s1, f1, g),
           f.reqs <= f1.reqs, f.blks <= f1.blks,
           NEW a1, First(f1, a1, i),
           NEW o, Speaks(a, a1, i, o, f1.blks - f.blks, f1.reqs - f.reqs)
    PROVE  \E k1 \in Views : Joins(a1, i, b, j, s1, t \o o, f1, g, h, k1)
<1> DEFINE u == (k.reqs - h.reqs) + (g.blks - f.blks)
           got == f1.blks - f.blks
           asked == f1.reqs - f.reqs
<1>1. /\ f.reqs \in Nat /\ f1.reqs \in Nat /\ g.reqs \in Nat
      /\ h.reqs \in Nat /\ k.reqs \in Nat
      /\ f.blks \in Nat /\ f1.blks \in Nat /\ g.blks \in Nat
      /\ h.blks \in Nat /\ k.blks \in Nat
  BY DEF Views
<1>2. f1.reqs <= g.reqs /\ f1.blks <= g.blks /\ h.reqs <= k.reqs /\ h.blks <= k.blks
  <2>1. Story(t, h, k)
    BY DEF Joins
  <2> QED
    BY <2>1, StoryCounts
<1>3. u \in Int /\ got \in Nat /\ asked \in Nat /\ got <= u
  BY <1>1, <1>2
<1>4. LastOf(k, a, i) /\ Fit(a, i, k.wants, u)
  BY DEF Joins
<1>5. Speaks(a, a1, i, o, got, asked)
  OBVIOUS
<1> DEFINE fitted == u - got
<1>6. PICK k1 \in Views :
        /\ Story(o, k, k1) /\ LastOf(k1, a1, i) /\ k1.blks <= k.blks + asked
        /\ Fit(a1, i, k1.wants, u - got + k1.reqs - k.reqs)
  <2> HIDE DEF u, got, asked
  <2> QED
    BY <1>3, <1>4, <1>5 DEF Speaks
<1>7. k1.reqs \in Nat /\ k1.blks \in Nat /\ k.blks <= k1.blks
  BY <1>6, StoryCounts
<1>8. u - got + k1.reqs - k.reqs = (k1.reqs - h.reqs) + (g.blks - f1.blks)
  BY <1>1, <1>7
<1>9. Story(t \o o, h, k1)
  BY <1>6, StoriesJoin DEF Joins
<1>10. Fit(b, j, g.wants, (g.reqs - f1.reqs) + (k1.blks - h.blks))
  <2> DEFINE x == (g.reqs - f.reqs) + (k.blks - h.blks)
             y == (g.reqs - f1.reqs) + (k1.blks - h.blks)
  <2>1. x \in Int /\ y \in Nat /\ y <= x
    BY <1>1, <1>2, <1>6, <1>7
  <2>2. Fit(b, j, g.wants, x)
    BY DEF Joins
  <2> HIDE DEF x, y
  <2>3. Fit(b, j, g.wants, y)
    BY <2>1, <2>2, FitLess
  <2> QED
    BY <2>3 DEF y
<1>11. Fit(a1, i, k1.wants, (k1.reqs - h.reqs) + (g.blks - f1.blks))
  <2> HIDE DEF u, got
  <2> QED
    BY <1>6, <1>8
<1>12. LastOf(g, b, j) /\ First(h, b, j)
  BY DEF Joins
<1> QED
  BY <1>6, <1>9, <1>10, <1>11, <1>12 DEF Joins

LEMMA MessageIsLong ==
    ASSUME NEW m, NEW v \in Views, NEW w, Reads(m, v, w)
    PROVE  m \in Seq(Int) /\ m # <<>>
<1>0. \A x, id, n : Shape(x, id, n) => x \in Seq(Int) /\ x # <<>>
  <2> SUFFICES ASSUME NEW x, NEW id, NEW n, Shape(x, id, n) PROVE x \in Seq(Int) /\ x # <<>>
    OBVIOUS
  <2>1. x \in Seq(Int) /\ n \in Nat /\ Len(x) = 4 + n
    BY Sizes DEF Shape, Int31
  <2>2. Len(x) # 0
    BY <2>1
  <2> QED
    BY <2>1, <2>2
<1>1. CASE ReadsBits(m, v, w)
  BY <1>0, <1>1, CellFacts, BitFieldMessageBytes DEF ReadsBits
<1>2. CASE ReadsUnchoke(m, v, w) \/ ReadsWish(m, v, w)
  BY <1>0, <1>2, EmptyMessage, Numbers DEF ReadsUnchoke, ReadsWish
<1>3. CASE ReadsHave(m, v, w)
  <2>1. PICK p \in Pieces : m = Message(HAVE_PEICE, Word(p))
    BY <1>3 DEF ReadsHave
  <2>2. p \in Int
    BY Sizes DEF Pieces
  <2> QED
    BY <1>0, <2>1, <2>2, OneWord
<1>4. CASE ReadsRequest(m, v, w)
  <2>1. PICK p \in Index : m = RequestMessage(p, 0, RequestLength(p))
    BY <1>4 DEF ReadsRequest
  <2> DEFINE n == RequestLength(p)
  <2>2. p \in Int /\ n \in Int /\ 0 \in Int
    BY RequestFits
  <2> HIDE DEF n
  <2>3. Shape(m, REQUEST, 13)
    BY <2>1, <2>2, Numbers, ThreeWords DEF RequestMessage, n
  <2> QED
    BY <1>0, <2>3, Zenon
<1>5. CASE ReadsBlock(m, v, w)
  <2>1. PICK p \in Pieces : m = PeiceMessage(p, 0, Data(p, 0, RequestLength(p)))
    BY <1>5 DEF ReadsBlock
  <2> DEFINE n == RequestLength(p)
  <2>2. p \in Int /\ 0 \in Int /\ p \in Index
    BY Sizes DEF Pieces, Index
  <2>3. n \in 1 .. PieceSize
    BY <2>2, RequestFits
  <2> HIDE DEF n
  <2>4. n \in Nat /\ 9 + n \in Int31
    BY <2>3, Sizes DEF Int31
  <2>5. Shape(m, PEICE, 9 + n)
    BY <2>1, <2>2, <2>4, PeiceBytes DEF n
  <2> QED
    BY <1>0, <2>5
<1> QED
  BY <1>1, <1>2, <1>3, <1>4, <1>5 DEF Reads

(* A stream that is not empty begins with a message.                          *)
LEMMA StoryBegins ==
    ASSUME NEW s, NEW f, NEW g, Story(s, f, g)
    PROVE  /\ s = <<>> => f = g
           /\ s # <<>> => \E m, rest \in Seq(Int), f1 \in Views :
                s = m \o rest /\ Reads(m, f, f1) /\ Story(rest, f1, g)
<1>1. s \in Seq(Int) /\ f \in Views
  BY StoryTypes
<1>2. ASSUME NEW m \in Seq(Int), NEW rest \in Seq(Int), NEW f1 \in Views, Reads(m, f, f1),
             m \o rest = <<>>
      PROVE  FALSE
  <2>1. m # <<>>
    BY <1>1, <1>2, MessageIsLong
  <2>2. Len(m \o rest) = Len(m) + Len(rest) /\ Len(m) \in Nat /\ Len(rest) \in Nat
    OBVIOUS
  <2>3. Len(m \o rest) = 0
    BY <1>2
  <2>4. Len(m) = 0
    BY <2>2, <2>3
  <2> QED
    BY <2>1, <2>4
<1> QED
  BY <1>2, StoryFront

LEMMA RestOf ==
    ASSUME NEW m \in Seq(Int), NEW rest \in Seq(Int)
    PROVE  SubSeq(m \o rest, Len(m) + 1, Len(m \o rest)) = rest
OBVIOUS

(* a reads from the connection.                                              *)
LEMMA PairServed ==
    ASSUME NEW a, ClientOK(a), NEW i \in Slots, a.conn[i].in_use,
           NEW b, NEW j, NEW s \in Seq(Int), NEW t, Pair(a, i, b, j, s, t),
           s # <<>>, Sane(b), NEW eof \in BOOLEAN
    PROVE  /\ Sane(a) => Reactions(a, i, s, eof) # {}
           /\ \A x \in Reactions(a, i, s, eof) :
                x.client.proc = "up" /\ x.client.conn[i].in_use =>
                  Pair(x.client, i, b, j, SubSeq(s, x.used + 1, Len(s)), t \o x.out[i])
<1>1. ASSUME Sane(a)
      PROVE  \E f, g, h, k, f1 \in Views : \E m, rest \in Seq(Int) :
               /\ Joins(a, i, b, j, s, t, f, g, h, k)
               /\ s = m \o rest /\ Reads(m, f, f1) /\ Story(rest, f1, g)
               /\ Understood(a, i, m, s, eof, f, f1)
  <2>1. PICK f, g, h, k \in Views : Joins(a, i, b, j, s, t, f, g, h, k)
    BY <1>1 DEF Pair
  <2>2. Story(s, f, g) /\ First(f, a, i)
    BY <2>1 DEF Joins
  <2>3. PICK m, rest \in Seq(Int), f1 \in Views :
          s = m \o rest /\ Reads(m, f, f1) /\ Story(rest, f1, g)
    BY <2>2, StoryBegins
  <2>4. Understood(a, i, m, m \o rest, eof, f, f1)
    BY <2>2, <2>3, MessageUnderstood
  <2> QED
    BY <2>1, <2>3, <2>4
<1>2. Sane(a) => Reactions(a, i, s, eof) # {}
  BY <1>1 DEF Understood
<1>3. ASSUME NEW x \in Reactions(a, i, s, eof),
             x.client.proc = "up", x.client.conn[i].in_use, Sane(x.client)
      PROVE  \E f, g, h, k \in Views :
               Joins(x.client, i, b, j, SubSeq(s, x.used + 1, Len(s)), t \o x.out[i],
                     f, g, h, k)
  <2>1. Sane(a)
    <3>1. Steady(a, i, x)
      BY ReactionsSteady
    <3> QED
      BY <1>3, <3>1 DEF Steady, Prepared, Sane
  <2>2. PICK f, g, h, k, f1 \in Views : \E m, rest \in Seq(Int) :
               /\ Joins(a, i, b, j, s, t, f, g, h, k)
               /\ s = m \o rest /\ Reads(m, f, f1) /\ Story(rest, f1, g)
               /\ Understood(a, i, m, s, eof, f, f1)
    BY <1>1, <2>1
  <2>3. PICK m, rest \in Seq(Int) :
               /\ Joins(a, i, b, j, s, t, f, g, h, k)
               /\ s = m \o rest /\ Reads(m, f, f1) /\ Story(rest, f1, g)
               /\ Understood(a, i, m, s, eof, f, f1)
    BY <2>2
  <2>4. /\ x.used = Len(m)
        /\ First(f1, x.client, i)
        /\ Speaks(a, x.client, i, x.out[i], f1.blks - f.blks, f1.reqs - f.reqs)
    BY <1>3, <2>3 DEF Understood
  <2>5. SubSeq(s, x.used + 1, Len(s)) = rest
    BY <2>3, <2>4, RestOf
  <2>6. f.reqs <= f1.reqs /\ f.blks <= f1.blks
    BY <2>3, ReadsMore
  <2>7. \E k1 \in Views : Joins(x.client, i, b, j, rest, t \o x.out[i], f1, g, h, k1)
    BY <2>3, <2>4, <2>6, JoinGoesOn
  <2> QED
    BY <2>5, <2>7
<1> QED
  BY <1>2, <1>3 DEF Pair

(* a reads from another connection, and tells b of it.                        *)
LEMMA PairHears ==
    ASSUME NEW a, NEW i, NEW b, NEW j, NEW s, NEW t, Pair(a, i, b, j, s, t),
           NEW a1, a1.swaps = a.swaps, Done(a) \subseteq Done(a1), SameView(a, a1, i),
           NEW o, Sane(a1) => Speaks(a, a1, i, o, 0, 0)
    PROVE  Pair(a1, i, b, j, s, t \o o)
<1> SUFFICES ASSUME Sane(a1), Sane(b)
             PROVE  \E f, g, h, k \in Views : Joins(a1, i, b, j, s, t \o o, f, g, h, k)
  BY DEF Pair
<1>1. Sane(a)
  BY DEF Sane
<1>2. PICK f, g, h, k \in Views : Joins(a, i, b, j, s, t, f, g, h, k)
  BY <1>1 DEF Pair
<1>3. f.reqs \in Nat /\ f.blks \in Nat
  BY DEF Views
<1>4. /\ f.blks - f.blks = 0 /\ f.reqs - f.reqs = 0
      /\ f.blks <= f.blks /\ f.reqs <= f.reqs
  BY <1>3
<1>5. Speaks(a, a1, i, o, f.blks - f.blks, f.reqs - f.reqs)
  BY <1>4
<1>6. Story(s, f, g) /\ First(f, a1, i)
  BY <1>2 DEF Joins, First, SameView
<1>7. \E k1 \in Views : Joins(a1, i, b, j, s, t \o o, f, g, h, k1)
  BY <1>2, <1>4, <1>5, <1>6, JoinGoesOn
<1> QED
  BY <1>7

(* a changes where b is not concerned.                                       *)
LEMMA PairStays ==
    ASSUME NEW a, NEW i, NEW b, NEW j, NEW s, NEW t, Pair(a, i, b, j, s, t),
           NEW a1, a1.conn[i] = a.conn[i], a1.bits = a.bits, a1.stat = a.stat,
           a1.swaps = a.swaps
    PROVE  Pair(a1, i, b, j, s, t)
<1>1. Done(a1) = Done(a) /\ (Sane(a1) <=> Sane(a))
  BY DEF Done, Sane
<1> SUFFICES ASSUME Sane(a), Sane(b)
             PROVE  \E f, g, h, k \in Views : Joins(a1, i, b, j, s, t, f, g, h, k)
  BY <1>1 DEF Pair
<1>2. PICK f, g, h, k \in Views : Joins(a, i, b, j, s, t, f, g, h, k)
  BY DEF Pair
<1>3. First(f, a1, i) /\ LastOf(k, a1, i)
  BY <1>2 DEF Joins, First, LastOf
<1>4. Fit(a1, i, k.wants, (k.reqs - h.reqs) + (g.blks - f.blks))
  <2> DEFINE u == (k.reqs - h.reqs) + (g.blks - f.blks)
  <2>1. Fit(a, i, k.wants, u)
    BY <1>2 DEF Joins
  <2> HIDE DEF u
  <2>2. Fit(a1, i, k.wants, u)
    BY <1>1, <2>1 DEF Fit
  <2> QED
    BY <2>2 DEF u
<1>5. Joins(a1, i, b, j, s, t, f, g, h, k)
  BY <1>2, <1>3, <1>4 DEF Joins
<1> QED
  BY <1>5

-----------------------------------------------------------------------------
(* A connection is opened                                                   *)

(* The record of a connection that has just been opened.                     *)
Fresh(d) == d.in_use /\ d.am_chocking /\ d.peer_chocking /\ ~d.am_intersted /\ ~d.peer_intersted

(* c1 is c with a new connection in slot i.                                   *)
OpensIn(c, c1, i) ==
    /\ ClientOK(c1)
    /\ c1.bits = c.bits /\ c1.stat = c.stat /\ c1.swaps = c.swaps /\ c1.seeder = c.seeder
    /\ c1.proc = c.proc
    /\ Fresh(c1.conn[i])
    /\ \A s \in Slots \ {i} : c1.conn[s] = c.conn[s]

LEMMA FreshSlot ==
    ASSUME NEW c, ClientOK(c), NEW i \in Slots, NEW d \in ConnType, Fresh(d), NEW c1,
           c1 = WithSlot(c, i, d)
    PROVE  OpensIn(c, c1, i)
<1>1. c \in ClientType
  BY DEF ClientOK
<1>2. /\ c1 \in ClientType
      /\ c1.conn[i] = d
      /\ \A s \in Slots \ {i} : c1.conn[s] = c.conn[s]
      /\ c1.bits = c.bits /\ c1.swaps = c.swaps /\ c1.seeder = c.seeder
      /\ c1.proc = c.proc /\ c1.stat = c.stat
      /\ Done(c1) = Done(c)
  BY <1>1, WithSlotIs
<1>3. ~d.peer_intersted
  BY DEF Fresh
<1>4. ClientOK(c1)
  BY <1>2, <1>3 DEF ClientOK
<1> QED
  BY <1>2, <1>4 DEF OpensIn

LEMMA OpenedIs ==
    ASSUME NEW c, ClientOK(c), NEW i \in Slots
    PROVE  /\ OpensIn(c, Opened(c, i), i)
           /\ OpensIn(c, [Opened(c, i) EXCEPT !.conn[i].bit_field = NULL], i)
<1> DEFINE d == [NewConn(c.conn[i]) EXCEPT !.am_chocking = TRUE, !.peer_intersted = FALSE]
           e == [d EXCEPT !.bit_field = NULL]
<1>1. c.conn[i] \in ConnType /\ c \in ClientType
  BY ConnIs
<1>2. d \in ConnType /\ Fresh(d)
  BY <1>1 DEF ConnType, NewConn, Fresh
<1>3. Opened(c, i) = WithSlot(c, i, d)
  BY DEF Opened, WithSlot
<1>4. c.conn \in [Slots -> ConnType]
  BY <1>1 DEF ClientType
<1>5. [WithSlot(c, i, d) EXCEPT !.conn[i].bit_field = NULL] = WithSlot(c, i, e)
  <2> HIDE DEF d
  <2>1. WithSlot(c, i, d) = [c EXCEPT !.conn = [c.conn EXCEPT ![i] = d]]
    BY DEF WithSlot
  <2>2. [c.conn EXCEPT ![i] = d] \in [Slots -> ConnType]
    BY <1>2, <1>4
  <2>3. c.conn \in [Slots -> ConnType]
    BY <1>4
  <2> QED
    BY <1>1, <2>1, <2>2, <2>3 DEF WithSlot, ClientType
<1>6. e \in ConnType /\ Fresh(e)
  <2> HIDE DEF d
  <2> QED
    BY <1>2 DEF ConnType, Fresh
<1>7. [Opened(c, i) EXCEPT !.conn[i].bit_field = NULL] = WithSlot(c, i, e)
  BY <1>3, <1>5
<1> HIDE DEF d, e
<1>8. OpensIn(c, WithSlot(c, i, d), i)
  BY <1>2, FreshSlot
<1>9. OpensIn(c, WithSlot(c, i, e), i)
  BY <1>6, FreshSlot
<1> QED
  BY <1>3, <1>7, <1>8, <1>9

(* Each end has only the bit field of the other one before it.                *)
LEMMA PairOpens ==
    ASSUME NEW a, ClientOK(a), NEW i \in Slots, Fresh(a.conn[i]),
           NEW b, ClientOK(b), NEW j \in Slots, Fresh(b.conn[j])
    PROVE  Pair(a, i, b, j, BitFieldMessage(b.bits, no_of_peices),
                            BitFieldMessage(a.bits, no_of_peices))
<1>1. ASSUME NEW x, ClientOK(x), NEW s \in Slots, Fresh(x.conn[s]),
             NEW y, ClientOK(y), NEW r \in Slots, Fresh(y.conn[r])
      PROVE  \E v, w \in Views :
                /\ Story(BitFieldMessage(y.bits, no_of_peices), v, w)
                /\ First(v, x, s) /\ LastOf(w, y, r)
                /\ v.reqs = 0 /\ w.reqs = 0 /\ v.blks = 0 /\ w.blks = 0
  <2> DEFINE v == [choking |-> TRUE, bits |-> x.conn[s].bit_field, wants |-> FALSE,
                   reqs |-> 0, blks |-> 0]
             w == [v EXCEPT !.bits = y.bits]
             m == BitFieldMessage(y.bits, no_of_peices)
  <2>1. x.conn[s] \in ConnType /\ y.conn[r] \in ConnType
    BY <1>1, ConnIs
  <2>2. y.bits \in SUBSET Cells
    BY <1>1 DEF ClientOK
  <2>3. y.bits \in SUBSET Int
    BY <1>1 DEF ClientOK, ClientType
  <2>4. v \in Views /\ w \in Views
    BY <2>1, <2>3 DEF Views, ConnType
  <2>5. m \in Seq(Int)
    BY <2>2, MessagesAre
  <2>6. ReadsBits(m, v, w)
    BY <2>2 DEF ReadsBits
  <2>7. First(v, x, s) /\ LastOf(w, y, r)
    BY <1>1, <2>1 DEF First, LastOf, Fresh, ConnType
  <2>8. v.reqs = 0 /\ w.reqs = 0 /\ v.blks = 0 /\ w.blks = 0
    OBVIOUS
  <2> HIDE DEF v, w
  <2>9. Story(m, v, w)
    BY <2>4, <2>5, <2>6, OneMessage DEF Reads
  <2> QED
    BY <2>4, <2>7, <2>8, <2>9
<1>2. PICK f, g \in Views :
        /\ Story(BitFieldMessage(b.bits, no_of_peices), f, g)
        /\ First(f, a, i) /\ LastOf(g, b, j)
        /\ f.reqs = 0 /\ g.reqs = 0 /\ f.blks = 0 /\ g.blks = 0
  BY <1>1
<1>3. PICK h, k \in Views :
        /\ Story(BitFieldMessage(a.bits, no_of_peices), h, k)
        /\ First(h, b, j) /\ LastOf(k, a, i)
        /\ h.reqs = 0 /\ k.reqs = 0 /\ h.blks = 0 /\ k.blks = 0
  BY <1>1
<1>4. (k.reqs - h.reqs) + (g.blks - f.blks) = 0 /\ (g.reqs - f.reqs) + (k.blks - h.blks) = 0
  BY <1>2, <1>3
<1>5. Fit(a, i, k.wants, 0) /\ Fit(b, j, g.wants, 0)
  BY DEF Fit, Fresh
<1>6. /\ Fit(a, i, k.wants, (k.reqs - h.reqs) + (g.blks - f.blks))
      /\ Fit(b, j, g.wants, (g.reqs - f.reqs) + (k.blks - h.blks))
  BY <1>4, <1>5
<1> QED
  BY <1>2, <1>3, <1>6 DEF Pair, Joins

-----------------------------------------------------------------------------
(* The invariant                                                            *)

ConnEnds == Clients \X Slots

SwarmTypes ==
    /\ client \in [Clients -> ClientType]
    /\ \A c \in Clients : ClientOK(client[c])
    /\ serving \in [Clients -> Slots \cup {NULL}]
    /\ far \in [Clients -> [Slots -> ConnEnds \cup {NULL}]]
    /\ wire \in [Clients -> [Slots -> Seq(Int)]]

(* The other end of slot i of c is slot j of d.                               *)
Meets(c, i, d, j) == far[c][i] = <<d, j>>

(* The two ends of a connection name each other, and are in use.              *)
EndsMeet ==
    \A c, d \in Clients, i, j \in Slots :
        Meets(c, i, d, j) => c # d /\ Meets(d, j, c, i) /\ client[c].conn[i].in_use

PairsJoined ==
    \A c, d \in Clients, i, j \in Slots :
        Meets(c, i, d, j) =>
            Pair(client[c], i, client[d], j, wire[c][i], wire[d][j])

(* The first half of WhatIsSentIsRead; the other half follows from PairsJoined. *)
NobodyWaits ==
    \A c \in Clients, i \in Slots :
        Linked(c, i) /\ Sound(c) /\ Sound(far[c][i][1]) => serving[c] # i

SwarmInv == SwarmTypes /\ EndsMeet /\ PairsJoined /\ NobodyWaits

LEMMA SoundIsSane ==
    ASSUME NEW c
    PROVE  Sound(c) <=> Sane(client[c])
BY DEF Sound, Sane, Has, Done

LEMMA FarIs ==
    ASSUME SwarmTypes, NEW c \in Clients, NEW i \in Slots
    PROVE  /\ Linked(c, i) => \E d \in Clients, j \in Slots :
                 Meets(c, i, d, j) /\ far[c][i][1] = d /\ far[c][i][2] = j
           /\ \A d \in Clients, j \in Slots :
                 Meets(c, i, d, j) => Linked(c, i) /\ far[c][i][1] = d /\ far[c][i][2] = j
<1>1. far[c][i] \in ConnEnds \cup {NULL}
  BY DEF SwarmTypes
<1>2. \A e \in ConnEnds : NULL # e
  BY SwarmAssumption DEF ConnEnds
<1> QED
  BY <1>1, <1>2 DEF Linked, ConnEnds, Meets

LEMMA NewClientOK ==
    ASSUME NEW seeder \in BOOLEAN, NEW swaps \in BOOLEAN
    PROVE  ClientOK(NewClient(seeder, swaps, NOT_DOWNLOADED))
<1> DEFINE c == NewClient(seeder, swaps, NOT_DOWNLOADED)
<1>1. Cells \in SUBSET Int /\ {} \in SUBSET Cells
  <2>1. Pieces \subseteq Int
    BY Sizes DEF Pieces
  <2> QED
    BY <2>1, CellFacts
<1>2. c.bits = IF seeder THEN Cells ELSE {}
  BY DEF NewClient, Cells
<1>3. c.bits \in SUBSET Cells /\ c.bits \in SUBSET Int
  BY <1>1, <1>2
<1>4. c.stat \in [Index -> Status] /\ \A q \in Index : c.stat[q] = NOT_DOWNLOADED
  BY DEF NewClient, Status
<1>5. c.conn \in [Slots -> ConnType] /\ \A s \in Slots : ~c.conn[s].in_use
  BY DEF NewClient, ConnType
<1>6. c.rank \in [Pieces -> Nat] /\ c.proc = "up" /\ c.proc \in Procs
      /\ c.uploaded \in Int /\ c.seeder \in BOOLEAN /\ c.swaps \in BOOLEAN
  BY DEF NewClient, Procs
<1>7. c = [proc |-> c.proc, seeder |-> c.seeder, swaps |-> c.swaps, uploaded |-> c.uploaded,
           bits |-> c.bits, stat |-> c.stat, rank |-> c.rank, conn |-> c.conn]
  BY DEF NewClient
<1>8. Done(c) = {}
  <2>1. Pieces \subseteq Index
    BY Sizes DEF Pieces, Index
  <2>2. COMPLETED # NOT_DOWNLOADED
    BY DEF COMPLETED, NOT_DOWNLOADED
  <2> HIDE DEF c
  <2> QED
    BY <1>4, <2>1, <2>2 DEF Done
<1> HIDE DEF c
<1>9. c \in ClientType
  BY <1>3, <1>4, <1>5, <1>6, <1>7 DEF ClientType
<1>10. ClientOK(c)
  BY <1>3, <1>5, <1>8, <1>9 DEF ClientOK
<1> QED
  BY <1>10 DEF c

LEMMA SwarmInit == Init => SwarmInv
<1> SUFFICES ASSUME Init PROVE SwarmInv
  OBVIOUS
<1>1. PICK M \in Machines :
        client = [c \in Clients |-> NewClient(c \in Seeders, c \in M, NOT_DOWNLOADED)]
  BY DEF Init
<1>2. ASSUME NEW c \in Clients PROVE ClientOK(client[c])
  <2> DEFINE e == c \in Seeders
             m == c \in M
  <2>1. e \in BOOLEAN /\ m \in BOOLEAN
    OBVIOUS
  <2>2. client[c] = NewClient(e, m, NOT_DOWNLOADED)
    BY <1>1
  <2> HIDE DEF e, m
  <2> QED
    BY <2>1, <2>2, NewClientOK
<1>3. client \in [Clients -> ClientType]
  BY <1>1, <1>2 DEF ClientOK
<1>4. \A c \in Clients, i \in Slots : far[c][i] = NULL
  BY DEF Init
<1>5. SwarmTypes
  BY <1>2, <1>3 DEF SwarmTypes, Init
<1>6. \A c \in Clients, i \in Slots : ~Linked(c, i)
  BY <1>4 DEF Linked
<1>7. EndsMeet /\ PairsJoined
  BY <1>5, <1>6, FarIs DEF EndsMeet, PairsJoined
<1>8. NobodyWaits
  BY <1>6 DEF NobodyWaits
<1> QED
  BY <1>5, <1>7, <1>8 DEF SwarmInv

LEMMA SwarmWait ==
    ASSUME SwarmInv, NEW c \in Clients, NEW i \in Slots, Wait(c, i)
    PROVE  SwarmInv'
<1>0. SwarmTypes /\ EndsMeet /\ PairsJoined /\ NobodyWaits
  BY DEF SwarmInv
<1>1. /\ serving' = [serving EXCEPT ![c] = i]
      /\ client' = client /\ far' = far /\ wire' = wire
      /\ Readable(c, i) /\ MayLeave(c, i) = {}
  BY DEF Wait
<1>2. SwarmTypes'
  BY <1>0, <1>1 DEF SwarmTypes
<1>3. EndsMeet' /\ PairsJoined'
  <2>1. EndsMeet'
    <3> SUFFICES ASSUME NEW e \in Clients, NEW d \in Clients, NEW k \in Slots, NEW j \in Slots,
                        Meets(e, k, d, j)'
                 PROVE  e # d /\ Meets(d, j, e, k)' /\ client'[e].conn[k].in_use
      BY DEF EndsMeet
    <3>1. far' = far /\ client' = client
      BY <1>1
    <3>2. Meets(e, k, d, j)
      BY <3>1 DEF Meets
    <3>3. e # d /\ Meets(d, j, e, k) /\ client[e].conn[k].in_use
      BY <1>0, <3>2 DEF EndsMeet
    <3>4. Meets(d, j, e, k)'
      BY <3>1, <3>3 DEF Meets
    <3> QED
      BY <3>1, <3>3, <3>4
  <2>2. PairsJoined'
    <3> SUFFICES ASSUME NEW e \in Clients, NEW d \in Clients, NEW k \in Slots, NEW j \in Slots,
                        Meets(e, k, d, j)'
                 PROVE  Pair(client'[e], k, client'[d], j, wire'[e][k], wire'[d][j])
      BY DEF PairsJoined
    <3>1. far' = far /\ client' = client /\ wire' = wire
      BY <1>1
    <3>2. Meets(e, k, d, j)
      BY <3>1 DEF Meets
    <3>3. Pair(client[e], k, client[d], j, wire[e][k], wire[d][j])
      BY <1>0, <3>2 DEF PairsJoined
    <3> QED
      BY <3>1, <3>3
  <2> QED
    BY <2>1, <2>2
<1>4. Linked(c, i) => ~Sound(c) \/ ~Sound(far[c][i][1])
  <2> SUFFICES ASSUME Linked(c, i), Sound(c), Sound(far[c][i][1]) PROVE FALSE
    OBVIOUS
  <2>1. PICK d \in Clients, j \in Slots : Meets(c, i, d, j) /\ far[c][i][1] = d
    BY <1>0, FarIs
  <2>2. Pair(client[c], i, client[d], j, wire[c][i], wire[d][j])
    BY <1>0, <2>1 DEF PairsJoined
  <2>3. Sane(client[c]) /\ Sane(client[d])
    BY <2>1, SoundIsSane
  <2>4. wire[c][i] # <<>> /\ client[c].conn[i].in_use
    BY <1>1 DEF Readable
  <2>5. wire[c][i] \in Seq(Int) /\ ClientOK(client[c])
    BY <1>0 DEF SwarmTypes
  <2> DEFINE eof == ~Linked(c, i)
  <2>6. eof \in BOOLEAN
    OBVIOUS
  <2>7. Reactions(client[c], i, wire[c][i], eof) = {}
    BY <1>1 DEF MayLeave
  <2> HIDE DEF eof
  <2> QED
    BY <2>2, <2>3, <2>4, <2>5, <2>6, <2>7, PairServed
<1>5. NobodyWaits'
  <2> SUFFICES ASSUME NEW e \in Clients, NEW k \in Slots,
                      (Linked(e, k) /\ Sound(e) /\ Sound(far[e][k][1]))'
               PROVE  serving'[e] # k
    BY DEF NobodyWaits
  <2>1. Linked(e, k) /\ Sound(e) /\ Sound(far[e][k][1])
    BY <1>1 DEF Linked, Sound, Has
  <2>2. serving[e] # k
    BY <1>0, <2>1 DEF NobodyWaits
  <2>3. ~(e = c /\ k = i)
    BY <1>4, <2>1
  <2> QED
    BY <1>0, <1>1, <2>2, <2>3 DEF SwarmTypes
<1> QED
  BY <1>2, <1>3, <1>5 DEF SwarmInv

-----------------------------------------------------------------------------
(* Connect                                                                  *)

LEMMA PairStaysBoth ==
    ASSUME NEW a, NEW i, NEW b, NEW j, NEW s, NEW t, Pair(a, i, b, j, s, t),
           NEW a1, a1.conn[i] = a.conn[i], a1.bits = a.bits, a1.stat = a.stat,
           a1.swaps = a.swaps,
           NEW b1, b1.conn[j] = b.conn[j], b1.bits = b.bits, b1.stat = b.stat,
           b1.swaps = b.swaps
    PROVE  Pair(a1, i, b1, j, s, t)
<1>1. Pair(a1, i, b, j, s, t)
  BY PairStays
<1>2. Pair(b, j, a1, i, t, s)
  BY <1>1, PairTurns
<1>3. Pair(b1, j, a1, i, t, s)
  BY <1>2, PairStays
<1> QED
  BY <1>3, PairTurns

(* Two entries of a table of tables are replaced.                             *)
Replaced(C, S, E, f, g, c, i, y, d, j, z) ==
    /\ f \in [C -> [S -> E]] /\ c \in C /\ d \in C /\ c # d /\ i \in S /\ j \in S
    /\ y \in E /\ z \in E
    /\ g = [f EXCEPT ![c][i] = y, ![d][j] = z]

LEMMA TwoReplaced ==
    ASSUME NEW C, NEW S, NEW E, NEW f, NEW g, NEW c, NEW i, NEW y, NEW d, NEW j, NEW z,
           Replaced(C, S, E, f, g, c, i, y, d, j, z)
    PROVE  /\ g \in [C -> [S -> E]] /\ g[c][i] = y /\ g[d][j] = z
           /\ \A e \in C, k \in S :
                 ~(e = c /\ k = i) /\ ~(e = d /\ k = j) => g[e][k] = f[e][k]
<1>0. /\ f \in [C -> [S -> E]] /\ c \in C /\ d \in C /\ c # d /\ i \in S /\ j \in S
      /\ y \in E /\ z \in E
      /\ g = [f EXCEPT ![c][i] = y, ![d][j] = z]
  BY DEF Replaced
<1> DEFINE u == [f[c] EXCEPT ![i] = y]
           v == [f[d] EXCEPT ![j] = z]
<1>1. u \in [S -> E] /\ u[i] = y /\ \A k \in S \ {i} : u[k] = f[c][k]
  BY <1>0
<1>2. v \in [S -> E] /\ v[j] = z /\ \A k \in S \ {j} : v[k] = f[d][k]
  BY <1>0
<1>3. g = [f EXCEPT ![c] = u, ![d] = v]
  BY <1>0
<1> HIDE DEF u, v
<1>4. g[c] = u /\ g[d] = v /\ \A e \in C \ {c, d} : g[e] = f[e]
  BY <1>0, <1>3
<1>5. g \in [C -> [S -> E]]
  BY <1>0, <1>1, <1>2, <1>3
<1> QED
  BY <1>0, <1>1, <1>2, <1>4, <1>5

(* The free slots of c and of d are joined; nothing else changes.             *)
NewlyMet(c, i, d, j) ==
    /\ c # d
    /\ ~client[c].conn[i].in_use /\ ~client[d].conn[j].in_use
    /\ serving[c] = NULL /\ serving[d] = NULL /\ serving' = serving
    /\ OpensIn(client[c], client'[c], i) /\ OpensIn(client[d], client'[d], j)
    /\ \A e \in Clients \ {c, d} : client'[e] = client[e]
    /\ Meets(c, i, d, j)' /\ Meets(d, j, c, i)'
    /\ wire'[c][i] = BitFieldMessage(client'[d].bits, no_of_peices)
    /\ wire'[d][j] = BitFieldMessage(client'[c].bits, no_of_peices)
    /\ \A e \in Clients, k \in Slots :
          ~(e = c /\ k = i) /\ ~(e = d /\ k = j) =>
             far'[e][k] = far[e][k] /\ wire'[e][k] = wire[e][k]

LEMMA ConnectIs ==
    ASSUME SwarmInv, NEW c \in Clients, NEW d \in Clients, Connect(c, d)
    PROVE  SwarmTypes' /\ \E i, j \in Slots : NewlyMet(c, i, d, j)
<1>a. PICK i \in Slots, j \in Slots :
        i = FreeSlot(client[c]) /\ j = FreeSlot(client[d])
  BY DEF Connect
<1> DEFINE a == Opened(client[c], i)
           b == [Opened(client[d], j) EXCEPT !.conn[j].bit_field = NULL]
           m == BitFieldMessage(client[d].bits, no_of_peices)
           n == BitFieldMessage(client[c].bits, no_of_peices)
<1>0. SwarmTypes
  BY DEF SwarmInv
<1>1. /\ c # d /\ serving[c] = NULL /\ serving[d] = NULL /\ serving' = serving
      /\ far' = [far EXCEPT ![c][i] = <<d, j>>, ![d][j] = <<c, i>>]
      /\ wire' = [wire EXCEPT ![c][i] = m, ![d][j] = n]
  BY <1>a DEF Connect
<1>2. client' = [client EXCEPT ![c] = a, ![d] = b]
  <2>1. client' = [client EXCEPT
                ![c] = Opened(@, i),
                ![d] = [Opened(@, j) EXCEPT !.conn[j].bit_field = NULL]]
    BY <1>a DEF Connect
  <2> QED
    BY <1>0, <1>1, <2>1 DEF SwarmTypes
<1>3. ClientOK(client[c]) /\ ClientOK(client[d])
  BY <1>0 DEF SwarmTypes
<1>4. ~client[c].conn[i].in_use /\ ~client[d].conn[j].in_use
  <2>1. ASSUME NEW x, FreeSlot(x) \in Slots PROVE ~x.conn[FreeSlot(x)].in_use
    <3> DEFINE S == { s \in Slots : ~x.conn[s].in_use }
    <3>1. S \in SUBSET Slots /\ FreeSlot(x) = FirstOf(S)
      BY DEF FreeSlot
    <3>2. FreeSlot(x) \in S \/ FreeSlot(x) = MAX_CONN
      BY <3>1, FirstOfFacts
    <3>3. FreeSlot(x) # MAX_CONN
      BY <2>1, FirstOfFacts, ClientAssumption DEF Slots
    <3> QED
      BY <3>2, <3>3
  <2> QED
    BY <1>a, <2>1
<1>5. OpensIn(client[c], a, i) /\ OpensIn(client[d], b, j)
  BY <1>1, <1>3, OpenedIs
<1>6. /\ client[c].bits \in SUBSET Cells /\ client[d].bits \in SUBSET Cells
      /\ m \in Seq(Int) /\ n \in Seq(Int)
  BY <1>3, MessagesAre DEF ClientOK
<1> HIDE DEF a, b
<1>7. /\ client'[c] = a /\ client'[d] = b
      /\ \A e \in Clients \ {c, d} : client'[e] = client[e]
      /\ DOMAIN client' = Clients
      /\ client' \in [Clients -> {client'[e] : e \in Clients}]
  BY <1>0, <1>1, <1>2 DEF SwarmTypes
<1>8. /\ far'[c][i] = <<d, j>> /\ far'[d][j] = <<c, i>>
      /\ \A e \in Clients, k \in Slots :
          ~(e = c /\ k = i) /\ ~(e = d /\ k = j) => far'[e][k] = far[e][k]
      /\ far' \in [Clients -> [Slots -> ConnEnds \cup {NULL}]]
  <2>1. <<d, j>> \in ConnEnds /\ <<c, i>> \in ConnEnds
    BY <1>1 DEF ConnEnds
  <2> DEFINE y == <<d, j>>
             z == <<c, i>>
             E == ConnEnds \cup {NULL}
  <2>2. y \in E /\ z \in E /\ far \in [Clients -> [Slots -> E]]
    BY <1>0, <2>1 DEF SwarmTypes
  <2>3. far' = [far EXCEPT ![c][i] = y, ![d][j] = z]
    BY <1>1
  <2> HIDE DEF y, z, E
  <2>a. Replaced(Clients, Slots, E, far, far', c, i, y, d, j, z)
    BY <1>1, <2>2, <2>3, Zenon DEF Replaced
  <2>4. /\ far'[c][i] = y /\ far'[d][j] = z
        /\ \A e \in Clients, k \in Slots :
            ~(e = c /\ k = i) /\ ~(e = d /\ k = j) => far'[e][k] = far[e][k]
        /\ far' \in [Clients -> [Slots -> E]]
    BY <2>a, TwoReplaced
  <2> QED
    BY <2>4 DEF y, z, E
<1>9. /\ wire'[c][i] = m /\ wire'[d][j] = n
      /\ \A e \in Clients, k \in Slots :
          ~(e = c /\ k = i) /\ ~(e = d /\ k = j) => wire'[e][k] = wire[e][k]
      /\ wire' \in [Clients -> [Slots -> Seq(Int)]]
  <2>1. wire \in [Clients -> [Slots -> Seq(Int)]]
    BY <1>0 DEF SwarmTypes
  <2> DEFINE E == Seq(Int)
  <2>2. wire \in [Clients -> [Slots -> E]] /\ m \in E /\ n \in E
    BY <1>6, <2>1
  <2>3. wire' = [wire EXCEPT ![c][i] = m, ![d][j] = n]
    BY <1>1
  <2> HIDE DEF m, n, E
  <2>a. Replaced(Clients, Slots, E, wire, wire', c, i, m, d, j, n)
    BY <1>1, <2>2, <2>3, Zenon DEF Replaced
  <2>4. /\ wire'[c][i] = m /\ wire'[d][j] = n
        /\ \A e \in Clients, k \in Slots :
            ~(e = c /\ k = i) /\ ~(e = d /\ k = j) => wire'[e][k] = wire[e][k]
        /\ wire' \in [Clients -> [Slots -> E]]
    BY <2>a, TwoReplaced
  <2> QED
    BY <2>4 DEF E
<1>10. client'[d].bits = client[d].bits /\ client'[c].bits = client[c].bits
  BY <1>5, <1>7 DEF OpensIn
<1>11. \A e \in Clients : ClientOK(client'[e]) /\ client'[e] \in ClientType
  <2> SUFFICES ASSUME NEW e \in Clients PROVE ClientOK(client'[e]) /\ client'[e] \in ClientType
    OBVIOUS
  <2>1. ClientOK(a) /\ ClientOK(b)
    BY <1>5 DEF OpensIn
  <2>2. ClientOK(client[e])
    BY <1>0 DEF SwarmTypes
  <2>3. ClientOK(client'[e])
    BY <1>7, <2>1, <2>2
  <2> QED
    BY <2>3 DEF ClientOK
<1>12. SwarmTypes'
  <2>1. client' \in [Clients -> ClientType]
    BY <1>7, <1>11
  <2>2. serving' \in [Clients -> Slots \cup {NULL}]
    BY <1>0, <1>1 DEF SwarmTypes
  <2> QED
    BY <1>8, <1>9, <1>11, <2>1, <2>2 DEF SwarmTypes
<1>13. Meets(c, i, d, j)' /\ Meets(d, j, c, i)'
  <2>1. far'[c][i] = <<d, j>> /\ far'[d][j] = <<c, i>>
    BY <1>8
  <2> QED
    BY <2>1 DEF Meets
<1>14. /\ wire'[c][i] = BitFieldMessage(client'[d].bits, no_of_peices)
       /\ wire'[d][j] = BitFieldMessage(client'[c].bits, no_of_peices)
  BY <1>9, <1>10
<1>15. OpensIn(client[c], client'[c], i) /\ OpensIn(client[d], client'[d], j)
  BY <1>5, <1>7
<1>16. NewlyMet(c, i, d, j)
  <2>1. \A e \in Clients \ {c, d} : client'[e] = client[e]
    BY <1>7
  <2>2. \A e \in Clients, k \in Slots :
          ~(e = c /\ k = i) /\ ~(e = d /\ k = j) =>
             far'[e][k] = far[e][k] /\ wire'[e][k] = wire[e][k]
    BY <1>8, <1>9
  <2>3. c # d /\ serving[c] = NULL /\ serving[d] = NULL /\ serving' = serving
    BY <1>1
  <2> QED
    BY <1>4, <1>13, <1>14, <1>15, <2>1, <2>2, <2>3, Zenon DEF NewlyMet
<1> QED
  BY <1>1, <1>12, <1>16

LEMMA SwarmConnect ==
    ASSUME SwarmInv, NEW c \in Clients, NEW d \in Clients, Connect(c, d)
    PROVE  SwarmInv'
<1>0. SwarmTypes /\ EndsMeet /\ PairsJoined /\ NobodyWaits
  BY DEF SwarmInv
<1>1. SwarmTypes'
  BY ConnectIs
<1>2. PICK i \in Slots, j \in Slots : NewlyMet(c, i, d, j)
  BY ConnectIs
(* What all clients keep.                                                    *)
<1>3. \A e \in Clients : /\ client'[e].bits = client[e].bits
                         /\ client'[e].stat = client[e].stat
                         /\ client'[e].swaps = client[e].swaps
  BY <1>2 DEF NewlyMet, OpensIn
<1>4. \A e \in Clients, k \in Slots :
        ~(e = c /\ k = i) /\ ~(e = d /\ k = j) => client'[e].conn[k] = client[e].conn[k]
  BY <1>2 DEF NewlyMet, OpensIn
(* A connection that is there afterwards is the new one, or was there before.  *)
<1>5. ASSUME NEW e \in Clients, NEW x \in Clients, NEW k \in Slots, NEW l \in Slots,
             Meets(e, k, x, l)'
      PROVE  \/ e = c /\ k = i /\ x = d /\ l = j
             \/ e = d /\ k = j /\ x = c /\ l = i
             \/ /\ Meets(e, k, x, l)
                /\ ~(e = c /\ k = i) /\ ~(e = d /\ k = j)
                /\ ~(x = c /\ l = i) /\ ~(x = d /\ l = j)
  <2>1. CASE e = c /\ k = i
    <3>1. Meets(c, i, d, j)' /\ Meets(c, i, x, l)'
      BY <1>2, <1>5, <2>1 DEF NewlyMet
    <3> QED
      BY <2>1, <3>1 DEF Meets
  <2>2. CASE e = d /\ k = j
    <3>1. Meets(d, j, c, i)' /\ Meets(d, j, x, l)'
      BY <1>2, <1>5, <2>2 DEF NewlyMet
    <3> QED
      BY <2>2, <3>1 DEF Meets
  <2>3. CASE ~(e = c /\ k = i) /\ ~(e = d /\ k = j)
    <3>1. far'[e][k] = far[e][k]
      BY <1>2, <2>3 DEF NewlyMet
    <3>2. Meets(e, k, x, l)
      BY <1>5, <3>1 DEF Meets
    <3>3. Meets(x, l, e, k)
      BY <1>0, <3>2 DEF EndsMeet
    <3>4. client[x].conn[l].in_use
      BY <1>0, <3>3 DEF EndsMeet
    <3>5. ~client[c].conn[i].in_use /\ ~client[d].conn[j].in_use
      BY <1>2 DEF NewlyMet
    <3> QED
      BY <2>3, <3>2, <3>4, <3>5
  <2> QED
    BY <2>1, <2>2, <2>3
<1>6. EndsMeet'
  <2> SUFFICES ASSUME NEW e \in Clients, NEW x \in Clients, NEW k \in Slots, NEW l \in Slots,
                      Meets(e, k, x, l)'
               PROVE  e # x /\ Meets(x, l, e, k)' /\ client'[e].conn[k].in_use
    BY DEF EndsMeet
  <2>1. CASE e = c /\ k = i /\ x = d /\ l = j
    BY <1>2, <2>1 DEF NewlyMet, OpensIn, Fresh
  <2>2. CASE e = d /\ k = j /\ x = c /\ l = i
    BY <1>2, <2>2 DEF NewlyMet, OpensIn, Fresh
  <2>3. CASE /\ Meets(e, k, x, l)
             /\ ~(e = c /\ k = i) /\ ~(e = d /\ k = j)
             /\ ~(x = c /\ l = i) /\ ~(x = d /\ l = j)
    <3>1. e # x /\ Meets(x, l, e, k) /\ client[e].conn[k].in_use
      BY <1>0, <2>3 DEF EndsMeet
    <3>2. far'[x][l] = far[x][l] /\ client'[e].conn[k] = client[e].conn[k]
      BY <1>2, <1>4, <2>3 DEF NewlyMet
    <3>3. Meets(x, l, e, k)'
      BY <3>1, <3>2 DEF Meets
    <3> QED
      BY <3>1, <3>2, <3>3
  <2> QED
    BY <1>5, <2>1, <2>2, <2>3
<1>7. PairsJoined'
  <2> SUFFICES ASSUME NEW e \in Clients, NEW x \in Clients, NEW k \in Slots, NEW l \in Slots,
                      Meets(e, k, x, l)'
               PROVE  Pair(client'[e], k, client'[x], l, wire'[e][k], wire'[x][l])
    BY DEF PairsJoined
  <2>1. Pair(client'[c], i, client'[d], j, wire'[c][i], wire'[d][j])
    <3>1. /\ ClientOK(client'[c]) /\ Fresh(client'[c].conn[i])
          /\ ClientOK(client'[d]) /\ Fresh(client'[d].conn[j])
          /\ wire'[c][i] = BitFieldMessage(client'[d].bits, no_of_peices)
          /\ wire'[d][j] = BitFieldMessage(client'[c].bits, no_of_peices)
      BY <1>2 DEF NewlyMet, OpensIn
    <3> QED
      BY <3>1, PairOpens
  <2>2. CASE e = c /\ k = i /\ x = d /\ l = j
    BY <2>1, <2>2
  <2>3. CASE e = d /\ k = j /\ x = c /\ l = i
    BY <2>1, <2>3, PairTurns
  <2>4. CASE /\ Meets(e, k, x, l)
             /\ ~(e = c /\ k = i) /\ ~(e = d /\ k = j)
             /\ ~(x = c /\ l = i) /\ ~(x = d /\ l = j)
    <3>1. Pair(client[e], k, client[x], l, wire[e][k], wire[x][l])
      BY <1>0, <2>4 DEF PairsJoined
    <3>2. /\ wire'[e][k] = wire[e][k] /\ wire'[x][l] = wire[x][l]
          /\ client'[e].conn[k] = client[e].conn[k]
          /\ client'[x].conn[l] = client[x].conn[l]
      BY <1>2, <1>4, <2>4 DEF NewlyMet
    <3>3. Pair(client'[e], k, client'[x], l, wire[e][k], wire[x][l])
      BY <1>3, <3>1, <3>2, PairStaysBoth
    <3> QED
      BY <3>2, <3>3
  <2> QED
    BY <1>5, <2>2, <2>3, <2>4
<1>8. NobodyWaits'
  <2> SUFFICES ASSUME NEW e \in Clients, NEW k \in Slots,
                      (Linked(e, k) /\ Sound(e) /\ Sound(far[e][k][1]))'
               PROVE  serving'[e] # k
    BY DEF NobodyWaits
  <2>1. serving' = serving /\ serving[c] = NULL /\ serving[d] = NULL /\ \A s \in Slots : NULL # s
    BY <1>2, ClientAssumption DEF NewlyMet
  <2>2. CASE e \in {c, d}
    BY <2>1, <2>2
  <2>3. CASE e \notin {c, d}
    <3>1. far'[e][k] = far[e][k]
      BY <1>2, <2>3 DEF NewlyMet
    <3>2. Linked(e, k)
      BY <3>1 DEF Linked
    <3>3. PICK x \in Clients, l \in Slots : Meets(e, k, x, l) /\ far[e][k][1] = x
      BY <1>0, <3>2, FarIs
    <3>4. \A y \in Clients : Sound(y)' <=> Sound(y)
      BY <1>3 DEF Sound, Has
    <3>5. Sound(x)' /\ Sound(e)'
      BY <3>1, <3>3 DEF Sound, Has
    <3>6. Sound(e) /\ Sound(far[e][k][1])
      BY <3>3, <3>4, <3>5
    <3> QED
      BY <1>0, <2>1, <3>2, <3>6 DEF NobodyWaits
  <2> QED
    BY <2>2, <2>3
<1> QED
  BY <1>1, <1>6, <1>7, <1>8 DEF SwarmInv

-----------------------------------------------------------------------------
(* Serve                                                                    *)

(* c has read from slot i, with the result r, and its slots in shut are closed. *)
Served(c, i, r, shut) ==
    /\ client[c].conn[i].in_use
    /\ wire[c][i] # <<>> \/ ~Linked(c, i)
    /\ r \in Reactions(client[c], i, wire[c][i], ~Linked(c, i))
    /\ ClientOK(client'[c])
    /\ client'[c].conn = r.client.conn /\ client'[c].bits = r.client.bits
    /\ client'[c].stat = r.client.stat /\ client'[c].swaps = r.client.swaps
    /\ client'[c].seeder = r.client.seeder
    /\ \A e \in Clients \ {c} : client'[e] = client[e]
    /\ serving' = [serving EXCEPT ![c] = NULL]
    /\ \A s \in Slots \ shut :
          r.client.proc = "up" /\ (client[c].conn[s].in_use => r.client.conn[s].in_use)
    /\ \A e, x \in Clients, k, l \in Slots :
          Meets(e, k, x, l)' <=>
              Meets(e, k, x, l) /\ ~(e = c /\ k \in shut) /\ ~(x = c /\ l \in shut)
    /\ \A e, x \in Clients, k, l \in Slots : Meets(e, k, x, l)' =>
          wire'[e][k] = IF e = c
                        THEN IF k = i THEN SubSeq(wire[c][i], r.used + 1, Len(wire[c][i]))
                             ELSE wire[c][k]
                        ELSE IF x = c THEN wire[e][k] \o r.out[l]
                        ELSE wire[e][k]

(* What a program sends is bytes, and all of it unless it is killed.           *)
LEMMA SentIs ==
    ASSUME NEW o \in [Slots -> Seq(Int)], NEW how, NEW out \in Sent(o, how)
    PROVE  out \in [Slots -> Seq(Int)] /\ (how = "up" => out = o)
<1>1. CASE how \notin {"killed", "crashed"}
  BY <1>1 DEF Sent
<1>2. CASE how \in {"killed", "crashed"}
  <2>1. /\ out \in [Slots -> UNION { Parts(o[s]) : s \in Slots }]
        /\ \A s \in Slots : out[s] \in Parts(o[s])
    BY <1>2 DEF Sent
  <2>2. ASSUME NEW m \in Seq(Int) PROVE Parts(m) \subseteq Seq(Int)
    <3>1. \A n \in {9} \cap 1 .. Len(m) : SubSeq(m, 1, n) \in Seq(Int)
      OBVIOUS
    <3>2. <<>> \in Seq(Int)
      OBVIOUS
    <3> QED
      BY <3>1, <3>2, Zenon DEF Parts
  <2>3. \A s \in Slots : out[s] \in Seq(Int)
    BY <2>1, <2>2
  <2> QED
    BY <1>2, <2>1, <2>3
<1> QED
  BY <1>1, <1>2

LEMMA RestSeq ==
    ASSUME NEW s \in Seq(Int), NEW u \in Nat
    PROVE  SubSeq(s, u + 1, Len(s)) \in Seq(Int)
<1>1. Len(s) \in Nat /\ u + 1 \in Nat /\ u + 1 >= 1
  OBVIOUS
<1>2. CASE u + 1 > Len(s)
  BY <1>1, <1>2
<1>3. CASE u + 1 <= Len(s)
  BY <1>1, <1>3
<1> QED
  BY <1>1, <1>2, <1>3

LEMMA OtherProc ==
    ASSUME NEW a, ClientOK(a), NEW how \in Procs, NEW b, b = [a EXCEPT !.proc = how]
    PROVE  /\ ClientOK(b)
           /\ b.conn = a.conn /\ b.bits = a.bits /\ b.stat = a.stat /\ b.swaps = a.swaps
           /\ b.seeder = a.seeder
<1>1. a \in ClientType
  BY DEF ClientOK
<1>2. /\ b \in ClientType
      /\ b.conn = a.conn /\ b.bits = a.bits /\ b.stat = a.stat /\ b.swaps = a.swaps
      /\ b.seeder = a.seeder
  BY <1>1 DEF ClientType
<1>3. Done(b) = Done(a)
  BY <1>2 DEF Done
<1> QED
  BY <1>2, <1>3 DEF ClientOK

LEMMA ServeIs ==
    ASSUME SwarmInv, NEW c \in Clients, NEW i \in Slots, Serve(c, i)
    PROVE  SwarmTypes' /\ \E r, shut : Served(c, i, r, shut)
<1>0. SwarmTypes /\ EndsMeet
  BY DEF SwarmInv
<1>1. PICK r \in MayLeave(c, i) :
        \E how \in IF r.client.proc = "up" THEN AfterSends(c, r.out) ELSE {r.client.proc} :
        \E out \in Sent(r.out, how) :
          /\ client' = [client EXCEPT ![c] = [r.client EXCEPT !.proc = how]]
          /\ taken' = [taken EXCEPT ![c][i] = @ \o NewlyCompleted(client[c], r.client)]
          /\ sending' = [sending EXCEPT ![c] = IF how = "up" THEN Overfull(c, out) ELSE {}]
          /\ LET shut == IF how # "up" THEN Slots
                         ELSE { s \in Slots : client[c].conn[s].in_use /\ ~r.client.conn[s].in_use }
             IN /\ far' = Parted(c, shut)
                /\ wire' = [Delivered(c, out) EXCEPT ![c] =
                     [s \in Slots |-> IF s \in shut THEN <<>>
                                      ELSE IF s = i THEN SubSeq(@[s], r.used + 1, Len(@[s]))
                                      ELSE @[s]]]
  BY DEF Serve
<1>c. PICK how \in IF r.client.proc = "up" THEN AfterSends(c, r.out) ELSE {r.client.proc} :
        \E out \in Sent(r.out, how) :
          /\ client' = [client EXCEPT ![c] = [r.client EXCEPT !.proc = how]]
          /\ taken' = [taken EXCEPT ![c][i] = @ \o NewlyCompleted(client[c], r.client)]
          /\ sending' = [sending EXCEPT ![c] = IF how = "up" THEN Overfull(c, out) ELSE {}]
          /\ LET shut == IF how # "up" THEN Slots
                         ELSE { s \in Slots : client[c].conn[s].in_use /\ ~r.client.conn[s].in_use }
             IN /\ far' = Parted(c, shut)
                /\ wire' = [Delivered(c, out) EXCEPT ![c] =
                     [s \in Slots |-> IF s \in shut THEN <<>>
                                      ELSE IF s = i THEN SubSeq(@[s], r.used + 1, Len(@[s]))
                                      ELSE @[s]]]
  BY <1>1
<1>2. PICK out \in Sent(r.out, how) :
          /\ client' = [client EXCEPT ![c] = [r.client EXCEPT !.proc = how]]
          /\ LET shut == IF how # "up" THEN Slots
                         ELSE { s \in Slots : client[c].conn[s].in_use /\ ~r.client.conn[s].in_use }
             IN /\ far' = Parted(c, shut)
                /\ wire' = [Delivered(c, out) EXCEPT ![c] =
                     [s \in Slots |-> IF s \in shut THEN <<>>
                                      ELSE IF s = i THEN SubSeq(@[s], r.used + 1, Len(@[s]))
                                      ELSE @[s]]]
  BY <1>c
<1>3. PICK shut :
        /\ shut = IF how # "up" THEN Slots
                  ELSE { s \in Slots : client[c].conn[s].in_use /\ ~r.client.conn[s].in_use }
        /\ far' = Parted(c, shut)
        /\ wire' = [Delivered(c, out) EXCEPT ![c] =
                     [s \in Slots |-> IF s \in shut THEN <<>>
                                      ELSE IF s = i THEN SubSeq(@[s], r.used + 1, Len(@[s]))
                                      ELSE @[s]]]
  BY <1>2
<1>4. /\ client[c].conn[i].in_use /\ (wire[c][i] # <<>> \/ ~Linked(c, i))
      /\ client[c].proc = "up"
      /\ r \in Reactions(client[c], i, wire[c][i], ~Linked(c, i))
      /\ serving' = [serving EXCEPT ![c] = NULL]
  BY DEF Serve, Readable, Runs, MayLeave
<1>5. Steady(client[c], i, r)
  <2> DEFINE eof == ~Linked(c, i)
  <2>1. eof \in BOOLEAN
    OBVIOUS
  <2>2. ClientOK(client[c]) /\ wire[c][i] \in Seq(Int)
    BY <1>0 DEF SwarmTypes
  <2>3. r \in Reactions(client[c], i, wire[c][i], eof)
    BY <1>4
  <2> HIDE DEF eof
  <2> QED
    BY <1>4, <2>1, <2>2, <2>3, ReactionsSteady
<1>6. r.used \in Nat /\ r.out \in [Slots -> Seq(Int)] /\ ClientOK(r.client)
  BY <1>5 DEF Steady, Prepared, Outgoing
<1>a. out \in [Slots -> Seq(Int)] /\ (how = "up" => out = r.out)
  BY <1>2, <1>6, SentIs
<1>b. \/ out = r.out
      \/ shut = Slots
  BY <1>3, <1>a
<1>7. how \in Procs /\ (how = "up" => r.client.proc = "up")
  <2>1. r.client.proc \in Procs
    BY <1>6 DEF ClientOK, ClientType
  <2>2. AfterSends(c, r.out) \subseteq Procs
    BY DEF AfterSends, Procs
  <2> QED
    BY <2>1, <2>2
<1>8. /\ ClientOK(client'[c])
      /\ client'[c].conn = r.client.conn /\ client'[c].bits = r.client.bits
      /\ client'[c].stat = r.client.stat /\ client'[c].swaps = r.client.swaps
      /\ client'[c].seeder = r.client.seeder
      /\ \A e \in Clients \ {c} : client'[e] = client[e]
  <2> DEFINE b == [r.client EXCEPT !.proc = how]
  <2>1. /\ ClientOK(b)
        /\ b.conn = r.client.conn /\ b.bits = r.client.bits
        /\ b.stat = r.client.stat /\ b.swaps = r.client.swaps
        /\ b.seeder = r.client.seeder
    BY <1>6, <1>7, OtherProc
  <2>2. client' = [client EXCEPT ![c] = b]
    BY <1>2
  <2> HIDE DEF b
  <2>3. client'[c] = b /\ \A e \in Clients \ {c} : client'[e] = client[e]
    BY <1>0, <2>2 DEF SwarmTypes
  <2> QED
    BY <2>1, <2>3
<1>9. \A s \in Slots \ shut :
        r.client.proc = "up" /\ (client[c].conn[s].in_use => r.client.conn[s].in_use)
  BY <1>3, <1>7
<1>10. /\ \A e \in Clients : \A k \in Slots :
            far'[e][k] = IF (e = c /\ k \in shut)
                              \/ (far[e][k] # NULL /\ far[e][k][1] = c /\ far[e][k][2] \in shut)
                         THEN NULL ELSE far[e][k]
       /\ far' \in [Clients -> [Slots -> ConnEnds \cup {NULL}]]
  BY <1>0, <1>3 DEF Parted, SwarmTypes
<1>11. ASSUME NEW e \in Clients, NEW x \in Clients, NEW k \in Slots, NEW l \in Slots
       PROVE  Meets(e, k, x, l)' <=>
                Meets(e, k, x, l) /\ ~(e = c /\ k \in shut) /\ ~(x = c /\ l \in shut)
  <2>1. NULL # <<x, l>>
    BY SwarmAssumption
  <2> DEFINE u == far[e][k]
             v == far'[e][k]
  <2>2. v = IF (e = c /\ k \in shut) \/ (u # NULL /\ u[1] = c /\ u[2] \in shut)
            THEN NULL ELSE u
    BY <1>10
  <2>3. Meets(e, k, x, l)' <=> v = <<x, l>>
    BY DEF Meets
  <2>4. Meets(e, k, x, l) <=> u = <<x, l>>
    BY DEF Meets
  <2> HIDE DEF u, v
  <2> QED
    BY <2>1, <2>2, <2>3, <2>4
<1>12. ASSUME NEW e \in Clients, NEW k \in Slots
       PROVE  /\ wire'[e][k] \in Seq(Int)
              /\ \A x \in Clients, l \in Slots : Meets(e, k, x, l) =>
                   wire'[e][k] = IF e = c
                        THEN IF k \in shut THEN <<>>
                             ELSE IF k = i THEN SubSeq(wire[c][i], r.used + 1, Len(wire[c][i]))
                             ELSE wire[c][k]
                        ELSE IF x = c THEN wire[e][k] \o out[l]
                        ELSE wire[e][k]
  <2> DEFINE D == Delivered(c, out)
             v == D[e][k]
             w == wire[e][k]
             u == far[e][k]
  <2>1. v = IF u # NULL /\ u[1] = c THEN w \o out[u[2]] ELSE w
    BY DEF Delivered
  <2>2. w \in Seq(Int)
    BY <1>0 DEF SwarmTypes
  <2>3. v \in Seq(Int)
    <3>1. u \in ConnEnds \cup {NULL}
      BY <1>0 DEF SwarmTypes
    <3>2. u # NULL => u[2] \in Slots
      BY <3>1 DEF ConnEnds
    <3> HIDE DEF u, v, w
    <3>3. u # NULL => out[u[2]] \in Seq(Int)
      BY <1>a, <3>2
    <3> QED
      BY <2>1, <2>2, <3>3
  <2>4. wire'[e][k] = IF e = c
                      THEN IF k \in shut THEN <<>>
                           ELSE IF k = i THEN SubSeq(v, r.used + 1, Len(v))
                           ELSE v
                      ELSE v
    <3>1. D = [d \in Clients |-> D[d]]
      BY DEF Delivered
    <3>2. wire' = [D EXCEPT ![c] =
                     [s \in Slots |-> IF s \in shut THEN <<>>
                                      ELSE IF s = i THEN SubSeq(@[s], r.used + 1, Len(@[s]))
                                      ELSE @[s]]]
      BY <1>3
    <3> HIDE DEF D
    <3> QED
      BY <3>1, <3>2
  <2>5. wire'[e][k] \in Seq(Int)
    <3> HIDE DEF v
    <3>1. SubSeq(v, r.used + 1, Len(v)) \in Seq(Int)
      BY <1>6, <2>3, RestSeq
    <3> QED
      BY <2>3, <2>4, <3>1
  <2>6. ASSUME NEW x \in Clients, NEW l \in Slots, Meets(e, k, x, l)
        PROVE  v = IF x = c THEN w \o out[l] ELSE w
    <3>1. u = <<x, l>> /\ NULL # <<x, l>>
      BY <2>6, SwarmAssumption DEF Meets
    <3>2. u # NULL /\ u[1] = x /\ u[2] = l
      BY <3>1
    <3> HIDE DEF u, v, w
    <3> QED
      BY <2>1, <3>2
  <2>7. \A x \in Clients, l \in Slots : Meets(e, k, x, l) => e # x
    BY <1>0 DEF EndsMeet
  <2> HIDE DEF v
  <2> QED
    BY <2>4, <2>5, <2>6, <2>7
<1>13. SwarmTypes'
  <2>1. client' \in [Clients -> ClientType] /\ \A e \in Clients : ClientOK(client'[e])
    <3>1. \A e \in Clients : ClientOK(client[e])
      BY <1>0 DEF SwarmTypes
    <3>2. \A e \in Clients : ClientOK(client'[e])
      BY <1>8, <3>1
    <3>3. \A e \in Clients : client'[e] \in ClientType
      BY <3>2 DEF ClientOK
    <3>4. client' = [e \in Clients |-> client'[e]]
      BY <1>0, <1>2 DEF SwarmTypes
    <3> QED
      BY <3>2, <3>3, <3>4
  <2>2. serving' \in [Clients -> Slots \cup {NULL}]
    BY <1>0, <1>4 DEF SwarmTypes
  <2>3. wire' \in [Clients -> [Slots -> Seq(Int)]]
    <3>1. wire' = [e \in Clients |-> [k \in Slots |-> wire'[e][k]]]
      BY <1>3 DEF Delivered
    <3>2. \A e \in Clients, k \in Slots : wire'[e][k] \in Seq(Int)
      BY <1>12
    <3> QED
      BY <3>1, <3>2
  <2> QED
    BY <1>10, <2>1, <2>2, <2>3 DEF SwarmTypes
<1>14. Served(c, i, r, shut)
  <2>1. \A e, x \in Clients, k, l \in Slots :
          Meets(e, k, x, l)' <=>
              Meets(e, k, x, l) /\ ~(e = c /\ k \in shut) /\ ~(x = c /\ l \in shut)
    BY <1>11
  <2>2. \A e, x \in Clients, k, l \in Slots : Meets(e, k, x, l)' =>
          wire'[e][k] = IF e = c
                        THEN IF k = i THEN SubSeq(wire[c][i], r.used + 1, Len(wire[c][i]))
                             ELSE wire[c][k]
                        ELSE IF x = c THEN wire[e][k] \o r.out[l]
                        ELSE wire[e][k]
    <3> SUFFICES ASSUME NEW e \in Clients, NEW x \in Clients, NEW k \in Slots, NEW l \in Slots,
                        Meets(e, k, x, l)'
                 PROVE  wire'[e][k] = IF e = c
                        THEN IF k = i THEN SubSeq(wire[c][i], r.used + 1, Len(wire[c][i]))
                             ELSE wire[c][k]
                        ELSE IF x = c THEN wire[e][k] \o r.out[l]
                        ELSE wire[e][k]
      OBVIOUS
    <3>1. Meets(e, k, x, l) /\ ~(e = c /\ k \in shut) /\ ~(x = c /\ l \in shut)
      BY <1>11
    <3>2. x = c => out = r.out
      BY <1>b, <3>1
    <3> QED
      BY <1>12, <3>1, <3>2
  <2> QED
    BY <1>4, <1>8, <1>9, <2>1, <2>2, Zenon DEF Served
<1> QED
  BY <1>13, <1>14

-----------------------------------------------------------------------------
LEMMA SaneBefore ==
    ASSUME SwarmInv, NEW c \in Clients, NEW i \in Slots, NEW r, NEW shut,
           Served(c, i, r, shut)
    PROVE  /\ Steady(client[c], i, r)
           /\ \A e \in Clients : Sane(client'[e]) => Sane(client[e])
<1>0. SwarmTypes
  BY DEF SwarmInv
<1>1. Steady(client[c], i, r)
  <2> DEFINE eof == ~Linked(c, i)
  <2>1. eof \in BOOLEAN
    OBVIOUS
  <2>2. ClientOK(client[c]) /\ wire[c][i] \in Seq(Int)
    BY <1>0 DEF SwarmTypes
  <2>3. client[c].conn[i].in_use
    BY DEF Served
  <2>4. r \in Reactions(client[c], i, wire[c][i], ~Linked(c, i))
    BY DEF Served
  <2>5. r \in Reactions(client[c], i, wire[c][i], eof)
    BY <2>4
  <2> HIDE DEF eof
  <2> QED
    BY <2>1, <2>2, <2>3, <2>5, ReactionsSteady
<1>2. Sane(r.client) => Sane(client[c])
  BY <1>1 DEF Steady, Prepared, Sane
<1>3. Sane(client'[c]) <=> Sane(r.client)
  <2>1. client'[c].stat = r.client.stat /\ client'[c].swaps = r.client.swaps
    BY DEF Served
  <2> QED
    BY <2>1 DEF Sane, Done
<1>4. \A e \in Clients \ {c} : client'[e] = client[e]
  BY DEF Served
<1> QED
  BY <1>1, <1>2, <1>3, <1>4

(* The connections of the client that has read.                              *)
LEMMA ServedPair ==
    ASSUME SwarmInv, NEW c \in Clients, NEW i \in Slots, NEW r, NEW shut,
           Served(c, i, r, shut),
           NEW d \in Clients, NEW k \in Slots, NEW j \in Slots, Meets(c, k, d, j)'
    PROVE  Pair(client'[c], k, client'[d], j, wire'[c][k], wire'[d][j])
<1>0. SwarmTypes /\ EndsMeet /\ PairsJoined
  BY DEF SwarmInv
<1>1. Meets(c, k, d, j) /\ k \notin shut
  BY DEF Served
<1>2. c # d /\ Meets(d, j, c, k) /\ client[c].conn[k].in_use
  BY <1>0, <1>1 DEF EndsMeet
<1>3. Pair(client[c], k, client[d], j, wire[c][k], wire[d][j])
  BY <1>0, <1>1 DEF PairsJoined
<1>4. r.client.proc = "up" /\ r.client.conn[k].in_use
  BY <1>1, <1>2 DEF Served
<1>5. /\ client'[c].conn[k] = r.client.conn[k] /\ client'[c].bits = r.client.bits
      /\ client'[c].stat = r.client.stat /\ client'[c].swaps = r.client.swaps
      /\ client'[d] = client[d]
  BY <1>2 DEF Served
<1>a. Meets(d, j, c, k)'
  BY <1>1, <1>2 DEF Served
<1>6. wire'[d][j] = wire[d][j] \o r.out[k]
  BY <1>2, <1>a DEF Served
<1>7. wire'[c][k] = IF k = i THEN SubSeq(wire[c][i], r.used + 1, Len(wire[c][i]))
                             ELSE wire[c][k]
  BY <1>1 DEF Served
<1>8. Steady(client[c], i, r)
  BY SaneBefore
<1>9. Pair(r.client, k, client[d], j, wire'[c][k], wire'[d][j])
  <2>1. CASE k = i
    <3>1. CASE Sane(client[d])
      <4> DEFINE eof == ~Linked(c, i)
                 s == wire[c][i]
                 t == wire[d][j]
                 a == client[c]
                 b == client[d]
      <4>1. eof \in BOOLEAN /\ s \in Seq(Int) /\ ClientOK(a)
        BY <1>0 DEF SwarmTypes
      <4>2. Linked(c, i)
        BY <1>0, <1>1, <2>1, FarIs
      <4>3. s # <<>> /\ a.conn[i].in_use /\ r \in Reactions(a, i, s, eof)
        BY <4>2 DEF Served
      <4>4. Pair(a, i, b, j, s, t) /\ Sane(b)
        BY <1>3, <2>1, <3>1
      <4>5. r.client.conn[i].in_use
        BY <1>4, <2>1
      <4> HIDE DEF eof, s, t, a, b
      <4>6. Pair(r.client, i, b, j, SubSeq(s, r.used + 1, Len(s)), t \o r.out[i])
        BY <1>4, <4>1, <4>3, <4>4, <4>5, PairServed
      <4> QED
        BY <1>6, <1>7, <2>1, <4>6 DEF s, t, b
    <3>2. CASE ~Sane(client[d])
      BY <3>2 DEF Pair
    <3> QED
      BY <3>1, <3>2
  <2>2. CASE k # i
    <3> DEFINE a == client[c]
               b == client[d]
               s == wire[c][k]
               t == wire[d][j]
               o == r.out[k]
               e == r.client
    <3>1. k \in Slots \ {i}
      BY <2>2
    <3>2. /\ e.swaps = a.swaps /\ Done(a) \subseteq Done(e) /\ SameView(a, e, k)
          /\ Sane(e) => Speaks(a, e, k, o, 0, 0)
      BY <1>2, <1>8, <3>1 DEF Steady, Prepared
    <3>3. Pair(a, k, b, j, s, t)
      BY <1>3
    <3> HIDE DEF a, b, s, t, o, e
    <3>4. Pair(e, k, b, j, s, t \o o)
      BY <3>2, <3>3, PairHears
    <3> QED
      BY <1>6, <1>7, <2>2, <3>4 DEF b, s, t, o, e
  <2> QED
    BY <2>1, <2>2
<1>10. Pair(client'[c], k, client[d], j, wire'[c][k], wire'[d][j])
  BY <1>5, <1>9, PairStays
<1> QED
  BY <1>5, <1>10

LEMMA SwarmServe ==
    ASSUME SwarmInv, NEW c \in Clients, NEW i \in Slots, Serve(c, i)
    PROVE  SwarmInv'
<1>0. SwarmTypes /\ EndsMeet /\ PairsJoined /\ NobodyWaits
  BY DEF SwarmInv
<1>1. SwarmTypes'
  BY ServeIs
<1>2. PICK r, shut : Served(c, i, r, shut)
  BY ServeIs
<1>3. \A e, x \in Clients, k, l \in Slots :
        Meets(e, k, x, l)' <=>
            Meets(e, k, x, l) /\ ~(e = c /\ k \in shut) /\ ~(x = c /\ l \in shut)
  BY <1>2 DEF Served
<1>4. EndsMeet'
  <2> SUFFICES ASSUME NEW e \in Clients, NEW x \in Clients, NEW k \in Slots, NEW l \in Slots,
                      Meets(e, k, x, l)'
               PROVE  e # x /\ Meets(x, l, e, k)' /\ client'[e].conn[k].in_use
    BY DEF EndsMeet
  <2>1. Meets(e, k, x, l) /\ ~(e = c /\ k \in shut) /\ ~(x = c /\ l \in shut)
    BY <1>3
  <2>2. e # x /\ Meets(x, l, e, k) /\ client[e].conn[k].in_use
    BY <1>0, <2>1 DEF EndsMeet
  <2>3. Meets(x, l, e, k)'
    BY <1>3, <2>1, <2>2
  <2>4. client'[e].conn[k].in_use
    BY <1>2, <2>1, <2>2 DEF Served
  <2> QED
    BY <2>2, <2>3, <2>4
<1>5. PairsJoined'
  <2> SUFFICES ASSUME NEW e \in Clients, NEW x \in Clients, NEW k \in Slots, NEW l \in Slots,
                      Meets(e, k, x, l)'
               PROVE  Pair(client'[e], k, client'[x], l, wire'[e][k], wire'[x][l])
    BY DEF PairsJoined
  <2>1. CASE e = c
    BY <1>2, <2>1, ServedPair
  <2>2. CASE x = c
    <3>1. Meets(c, l, e, k)'
      BY <1>4, <2>2 DEF EndsMeet
    <3>2. Pair(client'[c], l, client'[e], k, wire'[c][l], wire'[e][k])
      BY <1>2, <3>1, ServedPair
    <3> QED
      BY <2>2, <3>2, PairTurns
  <2>3. CASE e # c /\ x # c
    <3>1. Meets(e, k, x, l)
      BY <1>3
    <3>2. Meets(x, l, e, k)
      BY <1>0, <3>1 DEF EndsMeet
    <3>3. Pair(client[e], k, client[x], l, wire[e][k], wire[x][l])
      BY <1>0, <3>1 DEF PairsJoined
    <3>4. /\ client'[e] = client[e] /\ client'[x] = client[x]
          /\ wire'[e][k] = wire[e][k] /\ wire'[x][l] = wire[x][l]
      <4>1. Meets(x, l, e, k)'
        BY <1>4 DEF EndsMeet
      <4> QED
        BY <1>2, <2>3, <4>1 DEF Served
    <3> QED
      BY <3>3, <3>4
  <2> QED
    BY <2>1, <2>2, <2>3
<1>6. NobodyWaits'
  <2> SUFFICES ASSUME NEW e \in Clients, NEW k \in Slots,
                      (Linked(e, k) /\ Sound(e) /\ Sound(far[e][k][1]))'
               PROVE  serving'[e] # k
    BY DEF NobodyWaits
  <2>1. serving' = [serving EXCEPT ![c] = NULL] /\ \A s \in Slots : NULL # s
    BY <1>2, ClientAssumption DEF Served
  <2>2. CASE e = c
    BY <1>0, <2>1, <2>2 DEF SwarmTypes
  <2>3. CASE e # c
    <3>1. PICK x \in Clients, l \in Slots : Meets(e, k, x, l)' /\ far'[e][k][1] = x
      <4>1. far'[e][k] \in ConnEnds \cup {NULL} /\ far'[e][k] # NULL
        BY <1>1 DEF SwarmTypes, Linked
      <4>2. PICK x \in Clients, l \in Slots : far'[e][k] = <<x, l>>
        BY <4>1 DEF ConnEnds
      <4>3. Meets(e, k, x, l)' /\ far'[e][k][1] = x
        BY <4>2 DEF Meets
      <4> QED
        BY <4>3
    <3>2. Meets(e, k, x, l)
      BY <1>3, <3>1
    <3>3. Linked(e, k) /\ far[e][k][1] = x
      BY <1>0, <3>2, FarIs
    <3>4. Sane(client'[e]) /\ Sane(client'[x])
      <4>1. Sound(e)' /\ Sound(x)'
        BY <3>1 DEF Sound, Has
      <4> QED
        BY <4>1 DEF Sound, Has, Sane, Done
    <3>5. Sound(e) /\ Sound(far[e][k][1])
      BY <1>2, <3>3, <3>4, SaneBefore, SoundIsSane
    <3>6. serving[e] # k /\ serving'[e] = serving[e]
      BY <1>0, <2>1, <2>3, <3>3, <3>5 DEF NobodyWaits, SwarmTypes
    <3> QED
      BY <3>6
  <2> QED
    BY <2>2, <2>3
<1> QED
  BY <1>1, <1>4, <1>5, <1>6 DEF SwarmInv

-----------------------------------------------------------------------------
(* The theorems                                                             *)

(* A send returns: nothing else changes.                                     *)
LEMMA SwarmStays ==
    ASSUME SwarmInv, UNCHANGED <<client, serving, far, wire>>
    PROVE  SwarmInv'
<1>0. SwarmTypes /\ EndsMeet /\ PairsJoined /\ NobodyWaits
  BY DEF SwarmInv
<1>1. client' = client /\ serving' = serving /\ far' = far /\ wire' = wire
  OBVIOUS
<1>2. SwarmTypes'
  BY <1>0, <1>1 DEF SwarmTypes
<1>3. \A e, x \in Clients, k, l \in Slots : Meets(e, k, x, l)' <=> Meets(e, k, x, l)
  BY <1>1 DEF Meets
<1>4. EndsMeet'
  BY <1>0, <1>1, <1>3 DEF EndsMeet
<1>5. PairsJoined'
  BY <1>0, <1>1, <1>3 DEF PairsJoined
<1>6. NobodyWaits'
  BY <1>0, <1>1 DEF NobodyWaits, Linked, Sound, Has
<1> QED
  BY <1>2, <1>4, <1>5, <1>6 DEF SwarmInv

(* A program is ended in a send: its connections go, the others stay.          *)
LEMMA BreaksIs ==
    ASSUME SwarmInv, NEW c \in Clients, NEW i \in Slots, Breaks(c, i)
    PROVE  /\ SwarmTypes'
           /\ \A e \in Clients : /\ client'[e].conn = client[e].conn
                                 /\ client'[e].bits = client[e].bits
                                 /\ client'[e].stat = client[e].stat
                                 /\ client'[e].swaps = client[e].swaps
                                 /\ client'[e].seeder = client[e].seeder
           /\ \A e \in Clients \ {c} : client'[e] = client[e] /\ wire'[e] = wire[e]
           /\ \A e, x \in Clients, k, l \in Slots :
                 Meets(e, k, x, l)' => Meets(e, k, x, l) /\ e # c /\ x # c
           /\ \A e, x \in Clients, k, l \in Slots :
                 Meets(e, k, x, l) /\ e # c /\ x # c => Meets(e, k, x, l)'
           /\ serving' = serving
<1>0. SwarmTypes
  BY DEF SwarmInv
<1>1. PICK how \in {"killed", "crashed"} : client' = [client EXCEPT ![c].proc = how]
  BY DEF Breaks
<1>2. far' = Parted(c, Slots) /\ wire' = [wire EXCEPT ![c] = Silence] /\ serving' = serving
  BY DEF Breaks
<1> DEFINE b == [client[c] EXCEPT !.proc = how]
<1>3. client' = [client EXCEPT ![c] = b]
  BY <1>0, <1>1 DEF SwarmTypes
<1>4. /\ ClientOK(b)
      /\ b.conn = client[c].conn /\ b.bits = client[c].bits /\ b.stat = client[c].stat
      /\ b.swaps = client[c].swaps /\ b.seeder = client[c].seeder
  <2>1. how \in Procs
    BY DEF Procs
  <2>2. ClientOK(client[c])
    BY <1>0 DEF SwarmTypes
  <2> QED
    BY <2>1, <2>2, OtherProc
<1> HIDE DEF b
<1>5. client'[c] = b /\ \A e \in Clients \ {c} : client'[e] = client[e]
  BY <1>0, <1>3 DEF SwarmTypes
<1>6. \A e \in Clients : ClientOK(client'[e])
  BY <1>0, <1>4, <1>5 DEF SwarmTypes
<1>7. client' \in [Clients -> ClientType]
  <2>1. \A e \in Clients : client'[e] \in ClientType
    BY <1>6 DEF ClientOK
  <2>2. client' = [e \in Clients |-> client'[e]]
    BY <1>0, <1>3 DEF SwarmTypes
  <2> QED
    BY <2>1, <2>2
<1>8. Silence \in [Slots -> Seq(Int)]
  BY DEF Silence
<1>9. /\ wire' \in [Clients -> [Slots -> Seq(Int)]]
      /\ \A e \in Clients \ {c} : wire'[e] = wire[e]
  BY <1>0, <1>2, <1>8 DEF SwarmTypes
<1>10. /\ \A e \in Clients : \A k \in Slots :
            far'[e][k] = IF (e = c /\ k \in Slots)
                              \/ (far[e][k] # NULL /\ far[e][k][1] = c /\ far[e][k][2] \in Slots)
                         THEN NULL ELSE far[e][k]
       /\ far' \in [Clients -> [Slots -> ConnEnds \cup {NULL}]]
  BY <1>0, <1>2 DEF Parted, SwarmTypes
<1>11. ASSUME NEW e \in Clients, NEW x \in Clients, NEW k \in Slots, NEW l \in Slots
       PROVE  Meets(e, k, x, l)' <=> Meets(e, k, x, l) /\ e # c /\ x # c
  <2>1. NULL # <<x, l>>
    BY SwarmAssumption
  <2> DEFINE u == far[e][k]
             v == far'[e][k]
  <2>2. v = IF e = c \/ (u # NULL /\ u[1] = c /\ u[2] \in Slots) THEN NULL ELSE u
    BY <1>10
  <2>3. Meets(e, k, x, l)' <=> v = <<x, l>>
    BY DEF Meets
  <2>4. Meets(e, k, x, l) <=> u = <<x, l>>
    BY DEF Meets
  <2> HIDE DEF u, v
  <2> QED
    BY <2>1, <2>2, <2>3, <2>4
<1>12. SwarmTypes'
  BY <1>0, <1>2, <1>6, <1>7, <1>9, <1>10 DEF SwarmTypes
<1> QED
  BY <1>2, <1>4, <1>5, <1>9, <1>11, <1>12

LEMMA SwarmBreaks ==
    ASSUME SwarmInv, NEW c \in Clients, NEW i \in Slots, Breaks(c, i)
    PROVE  SwarmInv'
<1>0. SwarmTypes /\ EndsMeet /\ PairsJoined /\ NobodyWaits
  BY DEF SwarmInv
<1>1. SwarmTypes' /\ serving' = serving
  BY BreaksIs
<1>2. \A e \in Clients : /\ client'[e].conn = client[e].conn
                         /\ client'[e].bits = client[e].bits
                         /\ client'[e].stat = client[e].stat
                         /\ client'[e].swaps = client[e].swaps
  BY BreaksIs
<1>3. \A e \in Clients \ {c} : client'[e] = client[e] /\ wire'[e] = wire[e]
  BY BreaksIs
<1>4. \A e, x \in Clients, k, l \in Slots :
        Meets(e, k, x, l)' <=> Meets(e, k, x, l) /\ e # c /\ x # c
  BY BreaksIs
<1>5. EndsMeet'
  <2> SUFFICES ASSUME NEW e \in Clients, NEW x \in Clients, NEW k \in Slots, NEW l \in Slots,
                      Meets(e, k, x, l)'
               PROVE  e # x /\ Meets(x, l, e, k)' /\ client'[e].conn[k].in_use
    BY DEF EndsMeet
  <2>1. Meets(e, k, x, l) /\ e # c /\ x # c
    BY <1>4
  <2>2. e # x /\ Meets(x, l, e, k) /\ client[e].conn[k].in_use
    BY <1>0, <2>1 DEF EndsMeet
  <2> QED
    BY <1>2, <1>4, <2>1, <2>2
<1>6. PairsJoined'
  <2> SUFFICES ASSUME NEW e \in Clients, NEW x \in Clients, NEW k \in Slots, NEW l \in Slots,
                      Meets(e, k, x, l)'
               PROVE  Pair(client'[e], k, client'[x], l, wire'[e][k], wire'[x][l])
    BY DEF PairsJoined
  <2>1. Meets(e, k, x, l) /\ e # c /\ x # c
    BY <1>4
  <2>2. Pair(client[e], k, client[x], l, wire[e][k], wire[x][l])
    BY <1>0, <2>1 DEF PairsJoined
  <2> QED
    BY <1>3, <2>1, <2>2
<1>7. NobodyWaits'
  <2> SUFFICES ASSUME NEW e \in Clients, NEW k \in Slots,
                      (Linked(e, k) /\ Sound(e) /\ Sound(far[e][k][1]))'
               PROVE  serving'[e] # k
    BY DEF NobodyWaits
  <2>1. PICK x \in Clients, l \in Slots : Meets(e, k, x, l)' /\ far'[e][k][1] = x
    <3>1. far'[e][k] \in ConnEnds \cup {NULL} /\ far'[e][k] # NULL
      BY <1>1 DEF SwarmTypes, Linked
    <3>2. PICK x \in Clients, l \in Slots : far'[e][k] = <<x, l>>
      BY <3>1 DEF ConnEnds
    <3>3. Meets(e, k, x, l)' /\ far'[e][k][1] = x
      BY <3>2 DEF Meets
    <3> QED
      BY <3>3
  <2>2. Meets(e, k, x, l)
    BY <1>4, <2>1
  <2>3. Linked(e, k) /\ far[e][k][1] = x
    BY <1>0, <2>2, FarIs
  <2>4. Sound(e)' /\ Sound(x)'
    BY <2>1 DEF Sound, Has
  <2>5. Sound(e) /\ Sound(x)
    BY <1>2, <2>4 DEF Sound, Has
  <2> QED
    BY <1>0, <1>1, <2>3, <2>5 DEF NobodyWaits
<1> QED
  BY <1>1, <1>5, <1>6, <1>7 DEF SwarmInv

LEMMA SwarmStep ==
    ASSUME SwarmInv, [Next]_vars
    PROVE  SwarmInv'
<1>1. CASE Next
  <2>1. PICK c \in Clients : \/ \E d \in Clients : Connect(c, d)
                             \/ \E i \in Slots : \/ Wait(c, i) \/ Serve(c, i)
                                                 \/ Returns(c, i) \/ Breaks(c, i)
    BY <1>1 DEF Next
  <2>2. CASE \E d \in Clients : Connect(c, d)
    BY <2>2, SwarmConnect
  <2>3. CASE \E i \in Slots : Wait(c, i) \/ Serve(c, i)
    BY <2>3, SwarmWait, SwarmServe
  <2>4. CASE \E i \in Slots : Returns(c, i)
    BY <2>4, SwarmStays DEF Returns
  <2>5. CASE \E i \in Slots : Breaks(c, i)
    BY <2>5, SwarmBreaks
  <2> QED
    BY <2>1, <2>2, <2>3, <2>4, <2>5
<1>2. CASE UNCHANGED vars
  BY <1>2, SwarmStays DEF vars
<1> QED
  BY <1>1, <1>2

(* On both streams of every connection there are whole messages, and they     *)
(* bring what one end knows of the other (read_from_client_connection and its  *)
(* handlers) to what is so, as long as neither end has sent a have message    *)
(* that is none.                                                            *)
THEOREM StreamsTellTheTruth == Spec => []SwarmInv
<1>1. Init => SwarmInv
  BY SwarmInit
<1>2. SwarmInv /\ [Next]_vars => SwarmInv'
  BY SwarmStep
<1> QED
  BY <1>1, <1>2, PTL DEF Spec

(* The two ends of a connection agree on who chokes, on the pieces and on      *)
(* interest once nothing is on its way (download.c, the handlers of choke,    *)
(* unchoke, intersted, bit field and have messages).                         *)
THEOREM EndsComeToAgree == Spec => []EndsAgree
<1>1. SwarmInv => EndsAgree
  <2> SUFFICES ASSUME SwarmInv, NEW c \in Clients, NEW i \in Slots, Linked(c, i),
                      NEW d, d = far[c][i][1], NEW j, j = far[c][i][2],
                      wire[c][i] = <<>>, wire[d][j] = <<>>, Sound(c), Sound(d)
               PROVE  /\ client[c].conn[i].peer_chocking = client[d].conn[j].am_chocking
                      /\ client[c].conn[i].bit_field = client[d].bits
                      /\ client[c].conn[i].am_intersted /\ Has(c) # Pieces =>
                            client[d].conn[j].peer_intersted
    BY DEF EndsAgree
  <2>1. Meets(c, i, d, j) /\ d \in Clients /\ j \in Slots
    BY FarIs DEF SwarmInv
  <2>2. Pair(client[c], i, client[d], j, <<>>, <<>>)
    BY <2>1 DEF SwarmInv, PairsJoined
  <2>3. Sane(client[c]) /\ Sane(client[d])
    BY SoundIsSane
  <2> DEFINE a == client[c]
             b == client[d]
  <2>4. Pair(a, i, b, j, <<>>, <<>>) /\ Sane(a) /\ Sane(b)
    BY <2>2, <2>3
  <2>5. Has(c) = Done(a)
    BY DEF Has, Done
  <2> HIDE DEF a, b
  <2>6. PICK f, g, h, k \in Views : Joins(a, i, b, j, <<>>, <<>>, f, g, h, k)
    BY <2>4 DEF Pair
  <2>7. f = g /\ h = k
    BY <2>6, StoryBegins DEF Joins
  <2>8. First(f, a, i) /\ LastOf(f, b, j) /\ First(k, b, j)
    BY <2>6, <2>7 DEF Joins
  <2>9. a.conn[i].am_intersted /\ Done(a) # Pieces => k.wants
    BY <2>6 DEF Joins, Fit
  <2>10. /\ a.conn[i].peer_chocking = b.conn[j].am_chocking
         /\ a.conn[i].bit_field = b.bits
         /\ a.conn[i].am_intersted /\ Done(a) # Pieces => b.conn[j].peer_intersted
    BY <2>8, <2>9 DEF First, LastOf
  <2> QED
    BY <2>5, <2>10 DEF a, b
<1> QED
  BY <1>1, StreamsTellTheTruth, PTL

(* No client waits in readn for a peer whose messages it understands, and what  *)
(* that peer sends is read at the next turn, also what a send still waits with  *)
(* (readn in the handlers of download.c; send at download.c 661).             *)
THEOREM NoneIsHeldUp == Spec => []WhatIsSentIsRead
<1>1. SwarmInv => WhatIsSentIsRead
  <2> SUFFICES ASSUME SwarmInv, NEW c \in Clients, NEW i \in Slots,
                      Linked(c, i), Sound(c), Sound(far[c][i][1])
               PROVE  /\ serving[c] # i
                      /\ wire[c][i] # <<>> => MayLeave(c, i) # {}
    BY DEF WhatIsSentIsRead
  <2>0. SwarmTypes /\ EndsMeet /\ PairsJoined /\ NobodyWaits
    BY DEF SwarmInv
  <2>1. PICK d \in Clients, j \in Slots : Meets(c, i, d, j) /\ far[c][i][1] = d
    BY <2>0, FarIs
  <2>2. Pair(client[c], i, client[d], j, wire[c][i], wire[d][j])
    BY <2>0, <2>1 DEF PairsJoined
  <2>3. Sane(client[c]) /\ Sane(client[d])
    BY <2>1, SoundIsSane
  <2>4. client[c].conn[i].in_use /\ wire[c][i] \in Seq(Int) /\ ClientOK(client[c])
    BY <2>0, <2>1 DEF EndsMeet, SwarmTypes
  <2>5. wire[c][i] # <<>> => MayLeave(c, i) # {}
    <3> DEFINE eof == ~Linked(c, i)
    <3>1. eof \in BOOLEAN
      OBVIOUS
    <3>2. MayLeave(c, i) = Reactions(client[c], i, wire[c][i], eof)
      BY DEF MayLeave
    <3> HIDE DEF eof
    <3> QED
      BY <2>2, <2>3, <2>4, <3>1, <3>2, PairServed
  <2> QED
    BY <2>0, <2>5 DEF NobodyWaits
<1> QED
  BY <1>1, StreamsTellTheTruth, PTL

(* StreamsInSync between two clients neither of which has sent a have message  *)
(* that is none: what one is about to read begins with a message.            *)
StreamsOfTheSound ==
    \A c \in Clients, i \in Slots :
        Linked(c, i) /\ Sound(c) /\ Sound(far[c][i][1]) => InSync(c, i)

LEMMA AllAreSayings ==
    ASSUME NEW m, NEW v \in Views, NEW w, Reads(m, v, w)
    PROVE  m \in Sayings
<1>1. CASE ReadsBits(m, v, w)
  BY <1>1, CellFacts DEF ReadsBits, Sayings
<1>2. CASE ReadsUnchoke(m, v, w) \/ ReadsWish(m, v, w)
  BY <1>2 DEF ReadsUnchoke, ReadsWish, Sayings
<1>3. CASE ReadsHave(m, v, w)
  BY <1>3 DEF ReadsHave, Sayings
<1>4. CASE ReadsRequest(m, v, w)
  BY <1>4 DEF ReadsRequest, Sayings
<1>5. CASE ReadsBlock(m, v, w)
  <2>1. PICK p \in Pieces : m = PeiceMessage(p, 0, Data(p, 0, RequestLength(p)))
    BY <1>5 DEF ReadsBlock
  <2> DEFINE begin == 0
             n == RequestLength(p)
  <2>2. p \in Index
    BY Sizes DEF Pieces, Index
  <2>3. n \in 1 .. PieceSize /\ n <= FileSize
    BY <2>2, RequestFits
  <2>4. begin \in 0 .. PieceSize
    BY Sizes
  <2> HIDE DEF n, begin
  <2>5. n \in 0 .. PieceSize
    BY <2>3, Sizes
  <2>6. m = PeiceMessage(p, begin, Data(p, begin, n))
    BY <2>1 DEF begin, n
  <2>7. m \in { PeiceMessage(q, b, Data(q, b, x)) :
                  q \in Pieces, b \in 0 .. PieceSize, x \in 0 .. PieceSize }
    BY <2>4, <2>5, <2>6
  <2> QED
    BY <2>7 DEF Sayings
<1> QED
  BY <1>1, <1>2, <1>3, <1>4, <1>5 DEF Reads

(* Whenever a client comes back to a stream, a message begins there, whatever  *)
(* the handlers have left of those before it.                                *)
THEOREM TheSoundStayInSync == Spec => []StreamsOfTheSound
<1>1. SwarmInv => StreamsOfTheSound
  <2> SUFFICES ASSUME SwarmInv, NEW c \in Clients, NEW i \in Slots, Linked(c, i),
                      Sound(c), Sound(far[c][i][1]), wire[c][i] # <<>>
               PROVE  \E n \in 1 .. Len(wire[c][i]) : SubSeq(wire[c][i], 1, n) \in Sayings
    BY DEF StreamsOfTheSound, InSync
  <2>1. PICK d \in Clients, j \in Slots : Meets(c, i, d, j) /\ far[c][i][1] = d
    BY FarIs DEF SwarmInv
  <2>2. Pair(client[c], i, client[d], j, wire[c][i], wire[d][j])
    BY <2>1 DEF SwarmInv, PairsJoined
  <2>3. Sane(client[c]) /\ Sane(client[d])
    BY <2>1, SoundIsSane
  <2> DEFINE s == wire[c][i]
  <2>4. PICK f, g \in Views : Story(s, f, g)
    BY <2>2, <2>3 DEF Pair, Joins
  <2>a. s # <<>>
    OBVIOUS
  <2> HIDE DEF s
  <2>5. PICK m \in Seq(Int), rest \in Seq(Int), f1 \in Views :
          s = m \o rest /\ Reads(m, f, f1)
    BY <2>4, <2>a, StoryBegins
  <2>6. Len(m) \in 1 .. Len(s) /\ SubSeq(s, 1, Len(m)) = m
    <3>1. Len(m) \in Nat \ {0}
      BY <2>5, MessageIsLong
    <3>2. Len(m) <= Len(s) /\ \A k \in 1 .. Len(m) : s[k] = m[k]
      BY <2>5
    <3> QED
      BY <2>5, <3>1, <3>2
  <2> QED
    BY <2>5, <2>6, AllAreSayings DEF s
<1> QED
  BY <1>1, StreamsTellTheTruth, PTL

(* Clients stay what they were started as, on the machine they were started on. *)
LEMMA KindsStay ==
    ASSUME SwarmInv, [Next]_vars, NEW e \in Clients
    PROVE  client'[e].seeder = client[e].seeder /\ client'[e].swaps = client[e].swaps
<1>1. CASE \E c, d \in Clients : Connect(c, d)
  <2>1. PICK c \in Clients, d \in Clients : Connect(c, d)
    BY <1>1
  <2>2. PICK i \in Slots, j \in Slots : NewlyMet(c, i, d, j)
    BY <2>1, ConnectIs
  <2> QED
    BY <2>2 DEF NewlyMet, OpensIn
<1>2. CASE \E c \in Clients, i \in Slots : Serve(c, i)
  <2>1. PICK c \in Clients, i \in Slots : Serve(c, i)
    BY <1>2
  <2>2. PICK r, shut : Served(c, i, r, shut)
    BY <2>1, ServeIs
  <2>3. Steady(client[c], i, r)
    BY <2>2, SaneBefore
  <2>4. r.client.seeder = client[c].seeder /\ r.client.swaps = client[c].swaps
    BY <2>3 DEF Steady, Prepared
  <2> QED
    BY <2>2, <2>4 DEF Served
<1>3. CASE \E c \in Clients, i \in Slots : Breaks(c, i)
  BY <1>3, BreaksIs
<1>4. CASE UNCHANGED client
  BY <1>4
<1>5. \/ \E c, d \in Clients : Connect(c, d)
      \/ \E c \in Clients, i \in Slots : Serve(c, i) \/ Breaks(c, i)
      \/ UNCHANGED client
  BY DEF Next, vars, Wait, Returns
<1> QED
  BY <1>1, <1>2, <1>3, <1>4, <1>5

(* Seeders are those that were started with the file, and no other client is   *)
(* on a machine that swaps bytes.                                           *)
Kinds ==
    \A c \in Clients :
        /\ client[c].seeder <=> c \in Seeders
        /\ client[c].swaps => c \in Seeders

(* Where no client that downloads is on a machine that swaps bytes, every      *)
(* stream begins with a message whenever its reader comes back to it, from    *)
(* the first piece to the last (send_have_message, download.c 340-360).       *)
THEOREM StreamsStayInSync ==
    ASSUME \A M \in Machines : M \subseteq Seeders
    PROVE  Spec => []StreamsInSync
<1>1. Init => Kinds
  <2> SUFFICES ASSUME Init, NEW c \in Clients
               PROVE  /\ client[c].seeder <=> c \in Seeders
                      /\ client[c].swaps => c \in Seeders
    BY DEF Kinds
  <2>1. PICK M \in Machines :
          client = [e \in Clients |-> NewClient(e \in Seeders, e \in M, NOT_DOWNLOADED)]
    BY DEF Init
  <2>2. client[c] = NewClient(c \in Seeders, c \in M, NOT_DOWNLOADED)
    BY <2>1
  <2>3. client[c].seeder = (c \in Seeders) /\ client[c].swaps = (c \in M)
    <3> DEFINE e == c \in Seeders
               m == c \in M
    <3>1. client[c] = NewClient(e, m, NOT_DOWNLOADED)
      BY <2>2
    <3> HIDE DEF e, m
    <3>2. client[c].seeder = e /\ client[c].swaps = m
      BY <3>1 DEF NewClient
    <3> QED
      BY <3>2 DEF e, m
  <2> QED
    BY <2>3
<1>2. Kinds /\ SwarmInv /\ [Next]_vars => Kinds'
  BY KindsStay DEF Kinds
<1>3. Kinds /\ SwarmInv /\ StreamsOfTheSound => StreamsInSync
  <2> SUFFICES ASSUME Kinds, SwarmInv, StreamsOfTheSound,
                      NEW c \in Clients, NEW i \in Slots, Linked(c, i), Sound(far[c][i][1])
               PROVE  InSync(c, i)
    BY DEF StreamsInSync
  <2>1. ClientOK(client[c]) /\ client[c] \in ClientType
    BY DEF SwarmInv, SwarmTypes
  <2>2. client[c].swaps => Done(client[c]) = {}
    BY <2>1 DEF ClientOK, Kinds
  <2>3. Sound(c)
    BY <2>2, SoundIsSane DEF Sane
  <2> QED
    BY <2>3 DEF StreamsOfTheSound
<1> QED
  BY <1>1, <1>2, <1>3, StreamsTellTheTruth, TheSoundStayInSync, PTL DEF Spec
=============================================================================
