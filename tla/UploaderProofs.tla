--------------------------- MODULE UploaderProofs ---------------------------
(***************************************************************************)
(* What a seeder and its guests do to each other over streams of bytes, for   *)
(* every torrent and table size, however messages are cut and whatever rude   *)
(* guests leave in the streams of others.                                   *)
(***************************************************************************)
EXTENDS Uploader, ClientProofs

(* A seeder and what its handlers leave                                     *)

(* A client that has the file, and has not asked for anything.               *)
IsSeeder(c) ==
    /\ c \in ClientType
    /\ c.seeder
    /\ c.bits = { Cell(p) : p \in Pieces } \ {NoCell}
    /\ \A k \in Slots : ~c.conn[k].am_intersted

(* No more is sent than a block of a whole piece.                            *)
Brief(m) == Len(m) \in 0 .. 13 + PieceSize

(* What a handler for slot i may leave: the other slots as they were, and     *)
(* everything sent to slot i.                                               *)
StaysInSlot(c, i, r) ==
    /\ r = Result(r.client, r.used, r.out)
    /\ IsSeeder(r.client)
    /\ \A k \in Slots \ {i} : r.client.conn[k] = c.conn[k]
    /\ r.used \in Nat
    /\ \A k \in Slots \ {i} : r.out[k] = <<>>
    /\ Brief(r.out[i])

(* No block is sent.                                                         *)
NoBlock(r) == \A k \in Slots : r.out[k] = <<>> \/ r.out[k][5] # PEICE

LEMMA WithConn ==
    ASSUME NEW c, IsSeeder(c), NEW i \in Slots, NEW d \in ConnType, ~d.am_intersted
    PROVE  /\ IsSeeder(WithSlot(c, i, d))
           /\ WithSlot(c, i, d).conn[i] = d
           /\ \A k \in Slots \ {i} : WithSlot(c, i, d).conn[k] = c.conn[k]
           /\ WithSlot(c, i, d).proc = c.proc
BY DEF IsSeeder, ClientType, WithSlot

LEMMA WithProc ==
    ASSUME NEW c, IsSeeder(c), NEW how \in Procs
    PROVE  LET e == [c EXCEPT !.proc = how]
           IN IsSeeder(e) /\ e.conn = c.conn /\ e.proc = how
BY DEF IsSeeder, ClientType

LEMMA ConnOf ==
    ASSUME NEW c, IsSeeder(c), NEW i \in Slots
    PROVE  c.conn[i] \in ConnType /\ ~c.conn[i].am_intersted
BY DEF IsSeeder, ClientType

LEMMA EmptyIsBrief ==
    /\ \A i \in Slots : Brief(Silence[i])
    /\ \A id \in Int : Brief(Message(id, <<>>))
<1>1. ASSUME NEW i \in Slots PROVE Brief(Silence[i])
  <2>1. Silence[i] = <<>> /\ Len(<<>>) = 0
    BY Outs
  <2> QED
    BY <2>1, Sizes DEF Brief
<1>2. ASSUME NEW id \in Int PROVE Brief(Message(id, <<>>))
  <2> DEFINE n == Len(Message(id, <<>>))
  <2>1. n = 4 + 1
    BY EmptyMessage DEF Shape
  <2> HIDE DEF n
  <2>2. n \in 0 .. 13 + PieceSize
    BY <2>1, Sizes
  <2> QED
    BY <2>2 DEF Brief, n
<1> QED
  BY <1>1, <1>2

LEMMA ResultStays ==
    ASSUME NEW c, IsSeeder(c), NEW i \in Slots, NEW used \in Nat
    PROVE  StaysInSlot(c, i, Result(c, used, Silence))
BY Outs, EmptyIsBrief DEF StaysInSlot, Result

LEMMA EndsStays ==
    ASSUME NEW c, IsSeeder(c), NEW i \in Slots, NEW used \in Nat, NEW how \in Procs
    PROVE  StaysInSlot(c, i, Ends(c, how, used))
<1> DEFINE e == [c EXCEPT !.proc = how]
<1>1. IsSeeder(e) /\ e.conn = c.conn
  BY WithProc
<1> HIDE DEF e
<1>2. Ends(c, how, used) = Result(e, used, Silence)
  BY DEF Ends, e
<1> QED
  BY <1>1, <1>2, Outs, EmptyIsBrief DEF StaysInSlot, Result

(* The handlers that write to the record of their slot and answer m or nothing. *)
LEMMA ConnStays ==
    ASSUME NEW c, IsSeeder(c), NEW i \in Slots, NEW d \in ConnType, ~d.am_intersted,
           NEW used \in Nat, NEW m, Brief(m)
    PROVE  /\ StaysInSlot(c, i, Result(WithSlot(c, i, d), used, Silence))
           /\ StaysInSlot(c, i, Result(WithSlot(c, i, d), used, To(i, m)))
<1> DEFINE e == WithSlot(c, i, d)
<1>1. IsSeeder(e) /\ \A k \in Slots \ {i} : e.conn[k] = c.conn[k]
  BY WithConn
<1> HIDE DEF e
<1>2. /\ StaysInSlot(c, i, Result(e, used, Silence))
      /\ StaysInSlot(c, i, Result(e, used, To(i, m)))
  BY <1>1, Outs, EmptyIsBrief DEF StaysInSlot, Result
<1> QED
  BY <1>2 DEF e

LEMMA CloseStays ==
    ASSUME NEW c, IsSeeder(c), NEW i \in Slots, NEW used \in Nat
    PROVE  LET r == CloseConnection(c, i, used)
           IN StaysInSlot(c, i, r) /\ ~r.client.conn[i].in_use
<1> DEFINE d == [c.conn[i] EXCEPT !.in_use = FALSE]
           e == WithSlot(c, i, d)
<1>1. d \in ConnType /\ ~d.am_intersted /\ ~d.in_use
  BY ConnOf DEF ConnType
<1>2. CloseConnection(c, i, used) = Result(e, used, Silence)
  BY DEF CloseConnection, Closed, WithSlot
<1> HIDE DEF d
<1>3. StaysInSlot(c, i, Result(e, used, Silence))
  BY <1>1, ConnStays, EmptyIsBrief
<1>4. e.conn[i] = d
  BY <1>1, WithConn
<1> HIDE DEF e
<1>5. Result(e, used, Silence).client = e
  BY DEF Result
<1> QED
  BY <1>1, <1>2, <1>3, <1>4, <1>5

(* What a seeder makes of an interested message, which it answers, and of one  *)
(* that takes it back.                                                      *)
LEMMA InterstedStays ==
    ASSUME NEW c, IsSeeder(c), NEW i \in Slots, NEW r \in ReadIntersted(c, i)
    PROVE  /\ StaysInSlot(c, i, r)
           /\ r.used = 5 /\ r.out = To(i, Message(UNCHOKE, <<>>))
           /\ r.client.proc = c.proc
           /\ r.client.conn[i].peer_intersted /\ ~r.client.conn[i].am_chocking
<1> DEFINE d == [c.conn[i] EXCEPT !.peer_intersted = TRUE, !.am_chocking = FALSE]
           e == WithSlot(c, i, d)
<1>1. d \in ConnType /\ ~d.am_intersted /\ d.peer_intersted /\ ~d.am_chocking
  BY ConnOf DEF ConnType
<1>2. [c EXCEPT !.conn[i].peer_intersted = TRUE, !.conn[i].am_chocking = FALSE] = e
  BY DEF IsSeeder, ClientType, WithSlot
<1>3. r = Result(e, 5, To(i, Message(UNCHOKE, <<>>)))
  BY <1>2 DEF ReadIntersted, Tell
<1> HIDE DEF d
<1>4. StaysInSlot(c, i, Result(e, 5, To(i, Message(UNCHOKE, <<>>))))
  BY <1>1, ConnStays, EmptyIsBrief DEF UNCHOKE
<1>5. e.conn[i] = d /\ e.proc = c.proc
  BY <1>1, WithConn
<1> HIDE DEF e
<1>6. /\ r.client = e /\ r.used = 5
      /\ r.out = To(i, Message(UNCHOKE, <<>>))
  BY <1>3 DEF Result
<1> QED
  BY <1>1, <1>3, <1>4, <1>5, <1>6

LEMMA NotInterstedStays ==
    ASSUME NEW c, IsSeeder(c), NEW i \in Slots, NEW r \in ReadNotIntersted(c, i)
    PROVE  /\ StaysInSlot(c, i, r)
           /\ r.used = 5 /\ r.out = Silence /\ r.client.proc = c.proc
<1> DEFINE d == [c.conn[i] EXCEPT !.peer_intersted = FALSE]
           e == WithSlot(c, i, d)
<1>1. d \in ConnType /\ ~d.am_intersted
  BY ConnOf DEF ConnType
<1>2. r = Result(e, 5, Silence)
  BY DEF ReadNotIntersted, WithSlot
<1> HIDE DEF d
<1>3. StaysInSlot(c, i, Result(e, 5, Silence)) /\ e.proc = c.proc
  BY <1>1, ConnStays, WithConn, EmptyIsBrief
<1> QED
  BY <1>2, <1>3 DEF Result

(* Chokes, and unchokes, after which a seeder never searches.                 *)
LEMMA ChokesStay ==
    ASSUME NEW c, IsSeeder(c), NEW i \in Slots,
           NEW r \in {Result([c EXCEPT !.conn[i].peer_chocking = TRUE], 5, Silence)}
                        \cup ReadUnchoke(c, i)
    PROVE  StaysInSlot(c, i, r)
<1> DEFINE d(b) == [c.conn[i] EXCEPT !.peer_chocking = b]
           e(b) == WithSlot(c, i, d(b))
<1>1. \A b \in BOOLEAN : d(b) \in ConnType /\ ~d(b).am_intersted
  BY ConnOf DEF ConnType
<1>2. \E b \in BOOLEAN : r = Result(e(b), 5, Silence)
  BY ConnOf DEF ReadUnchoke, WithSlot
<1> HIDE DEF d
<1> QED
  BY <1>1, <1>2, ConnStays, EmptyIsBrief

(* A bit field whose bits name no piece makes a seeder uninterested; any other *)
(* ends it.                                                                *)
LEMMA BitsStay ==
    ASSUME NEW c, IsSeeder(c), NEW i \in Slots, NEW bits \in SUBSET Int, NEW used \in Nat,
           NEW r \in StoreBits(c, i, bits, used)
    PROVE  /\ StaysInSlot(c, i, r)
           /\ r.used = used
           /\ r.client.conn[i].peer_intersted = c.conn[i].peer_intersted
           /\ r.client.conn[i].am_chocking = c.conn[i].am_chocking
           /\ NoBlock(r)
           /\ (\A p \in Pieces : ~get_bit_field(bits, p)) => r.client.proc = c.proc
<1> DEFINE c1 == [c EXCEPT !.conn = StoreBitField(@, i, bits), !.rank = AddHolder(@, bits)]
           want == check_intersted(c1.conn, i, c.bits, c.stat)
<1>1. CASE \E p \in Pieces : get_bit_field(bits, p)
  <2>1. r = Ends(c, "crashed", used)
    BY <1>1 DEF StoreBits, IsSeeder
  <2>2. r.client = [c EXCEPT !.proc = "crashed"] /\ r.used = used /\ r.out = Silence
    BY <2>1 DEF Ends, Result
  <2>3. r.client.conn = c.conn
    BY <2>2, WithProc DEF Procs
  <2> QED
    BY <1>1, <2>1, <2>2, <2>3, EndsStays, Outs DEF Procs, NoBlock
<1>2. CASE \A p \in Pieces : ~get_bit_field(bits, p)
  <2> DEFINE d == [c.conn[i] EXCEPT !.bit_field = bits, !.am_intersted = FALSE]
             e == WithSlot(c, i, d)
  <2>1. d \in ConnType /\ ~d.am_intersted
        /\ d.peer_intersted = c.conn[i].peer_intersted
        /\ d.am_chocking = c.conn[i].am_chocking
    BY ConnOf DEF ConnType
  <2>2. c1.conn[i].bit_field = bits
    BY ConnOf DEF StoreBitField, IsSeeder, ClientType, ConnType
  <2>3. want = -1
    BY <1>2, <2>2 DEF check_intersted
  <2>4. AddHolder(c.rank, bits) = c.rank
    BY <1>2 DEF AddHolder, IsSeeder, ClientType
  <2>5. [c1 EXCEPT !.conn[i].am_intersted = FALSE] = e
    BY <2>4, ConnOf DEF StoreBitField, IsSeeder, ClientType, ConnType, WithSlot
  <2>6. r = Result(e, used, Tell(i, NOT_INTERSTED))
    BY <1>2, <2>3, <2>5 DEF StoreBits
  <2>7. r = Result(e, used, To(i, Message(NOT_INTERSTED, <<>>)))
    BY <2>6 DEF Tell
  <2> HIDE DEF d, c1, want
  <2>8. /\ StaysInSlot(c, i, Result(e, used, To(i, Message(NOT_INTERSTED, <<>>))))
        /\ e.conn[i] = d /\ e.proc = c.proc
    BY <2>1, ConnStays, WithConn, EmptyIsBrief DEF NOT_INTERSTED
  <2>9. /\ r.client = e /\ r.used = used
        /\ r.out = To(i, Message(NOT_INTERSTED, <<>>))
    BY <2>7 DEF Result
  <2>10. NoBlock(r)
    <3> DEFINE x == Message(NOT_INTERSTED, <<>>)
    <3>1. x[5] = NOT_INTERSTED
      BY EmptyMessage DEF Shape, NOT_INTERSTED
    <3>2. r.out = To(i, x)
      BY <2>9
    <3> HIDE DEF x
    <3> QED
      BY <3>1, <3>2, Outs DEF NoBlock, NOT_INTERSTED, PEICE
  <2> QED
    BY <1>2, <2>1, <2>7, <2>8, <2>9, <2>10
<1> QED
  BY <1>1, <1>2

LEMMA BitFieldStays ==
    ASSUME NEW c, IsSeeder(c), NEW i \in Slots, NEW s \in Seq(Int), NEW eof \in BOOLEAN,
           NEW r \in ReadBitField(c, i, s, eof)
    PROVE  StaysInSlot(c, i, r)
<1> DEFINE n    == WordAt(s, 1)
           bits == BitsOf(Bytes(s, 6, 4 + n))
<1>1. n \in Int
  BY WordIsInt
<1>2. bits \in SUBSET Int
  BY DEF BitsOf
<1> HIDE DEF n, bits
<1>3. CASE n < 1
  BY <1>3, CloseStays DEF ReadBitField, n, bits
<1>4. CASE ~(n < 1)
  <2>1. 4 + n \in Nat
    BY <1>1, <1>4
  <2>2. r = CloseConnection(c, i, 4 + n) \/ r \in StoreBits(c, i, bits, 4 + n)
    BY <1>4 DEF ReadBitField, n, bits
  <2>3. ASSUME r \in StoreBits(c, i, bits, 4 + n)
        PROVE  StaysInSlot(c, i, r)
    <3> DEFINE used == 4 + n
    <3>1. used \in Nat /\ r \in StoreBits(c, i, bits, used)
      BY <2>1, <2>3
    <3> HIDE DEF used
    <3> QED
      BY <1>2, <3>1, BitsStay
  <2> QED
    BY <2>1, <2>2, <2>3, CloseStays
<1> QED
  BY <1>3, <1>4

LEMMA HaveStays ==
    ASSUME NEW c, IsSeeder(c), NEW i \in Slots, NEW s, NEW eof \in BOOLEAN,
           NEW r \in ReadHave(c, i, s, eof)
    PROVE  /\ StaysInSlot(c, i, r)
           /\ r = Ends(c, "crashed", 9)
<1>1. r = Ends(c, "crashed", 9)
  BY DEF ReadHave, IsSeeder
<1> QED
  BY <1>1, EndsStays DEF Procs

LEMMA PeiceStays ==
    ASSUME NEW c, IsSeeder(c), NEW i \in Slots, NEW s \in Seq(Int), NEW eof \in BOOLEAN,
           NEW r \in ReadPeice(c, i, s, eof)
    PROVE  StaysInSlot(c, i, r)
<1> DEFINE n == WordAt(s, 1)
           p == WordAt(s, 6)
<1>1. n \in Int
  BY WordIsInt
<1> HIDE DEF n, p
<1>2. CASE Len(s) < 13 \/ p # c.conn[i].intersted_peice \/ n < 9
  <2>1. r = CloseConnection(c, i, 13)
    BY <1>2 DEF ReadPeice, n, p
  <2> QED
    BY <2>1, CloseStays
<1>3. CASE ~(Len(s) < 13 \/ p # c.conn[i].intersted_peice \/ n < 9)
  <2>1. \/ r = CloseConnection(c, i, 4 + n)
        \/ \E how \in {"overrun", "exited"} : r = Ends(c, how, 4 + n)
    BY <1>3 DEF ReadPeice, n, p, IsSeeder
  <2>2. 4 + n \in Nat
    BY <1>1, <1>3
  <2> QED
    BY <2>1, <2>2, CloseStays, EndsStays DEF Procs
<1> QED
  BY <1>2, <1>3

(* A request changes nothing but what was uploaded.                          *)
LEMMA AnswerStays ==
    ASSUME NEW c, IsSeeder(c), NEW i \in Slots, NEW p \in Int, NEW b \in Int, NEW n \in Int,
           NEW r, r = Answer(c, i, p, b, n)
    PROVE  /\ StaysInSlot(c, i, r)
           /\ r.used = 17
           /\ r.client.conn = c.conn /\ r.client.proc = c.proc
<1> DEFINE e == [c EXCEPT !.uploaded = @ + n]
<1>1. IsSeeder(e) /\ e.conn = c.conn /\ e.proc = c.proc
  BY DEF IsSeeder, ClientType
<1> HIDE DEF e
<1>2. \/ Answer(c, i, p, b, n) = Result(c, 17, Silence)
      \/ Answer(c, i, p, b, n) = Result(e, 17, To(i, PeiceMessage(p, b, Data(p, b, n))))
  BY DEF Answer, SendBlock, e
<1>3. ASSUME Answer(c, i, p, b, n) # Result(c, 17, Silence)
      PROVE  Brief(PeiceMessage(p, b, Data(p, b, n)))
  <2>1. b + n \in 0 .. PieceSize /\ (n = 0 \/ (n > 0 /\ b >= 0))
    BY <1>3 DEF Answer, InPiece, CanRead
  <2>2. n \in 0 .. PieceSize
    BY <2>1, Sizes
  <2>3. n \in Nat /\ 9 + n \in Int31
    BY <2>2, Sizes DEF Int31
  <2>4. Shape(PeiceMessage(p, b, Data(p, b, n)), PEICE, 9 + n)
    BY <2>3, PeiceBytes
  <2>5. Len(PeiceMessage(p, b, Data(p, b, n))) = 4 + (9 + n)
    BY <2>4, Zenon DEF Shape
  <2> QED
    BY <2>2, <2>5, Sizes DEF Brief
<1>4. CASE Answer(c, i, p, b, n) = Result(c, 17, Silence)
  BY <1>4, ResultStays DEF Result
<1>5. CASE Answer(c, i, p, b, n) # Result(c, 17, Silence)
  BY <1>1, <1>2, <1>3, <1>5, Outs DEF StaysInSlot, Result
<1> QED
  BY <1>4, <1>5

LEMMA RequestStays ==
    ASSUME NEW c, IsSeeder(c), NEW i \in Slots, NEW s \in Seq(Int), NEW eof \in BOOLEAN,
           NEW r \in ReadRequest(c, i, s, eof)
    PROVE  /\ StaysInSlot(c, i, r)
           /\ r.client.conn = c.conn /\ r.client.proc = c.proc
<1>1. CASE r = Result(c, 5, Silence)
  BY <1>1, ResultStays DEF Result
<1>2. CASE \E w \in RequestWords(s) : r = Answer(c, i, w[1], w[2], w[3])
  <2>1. PICK w \in RequestWords(s) : r = Answer(c, i, w[1], w[2], w[3])
    BY <1>2
  <2>2. w[1] \in Int /\ w[2] \in Int /\ w[3] \in Int
    <3>1. WordAt(s, 6) \in Int /\ WordAt(s, 10) \in Int /\ WordAt(s, 14) \in Int
      BY WordIsInt
    <3> QED
      BY <3>1, Sizes DEF RequestWords, Index
  <2> QED
    BY <2>1, <2>2, AnswerStays
<1> QED
  BY <1>1, <1>2 DEF ReadRequest

(* Whatever stands in the stream of one slot, a handler does not touch the     *)
(* others, and the seeder asks for nothing.                                 *)
LEMMA SeederReacts ==
    ASSUME NEW c, IsSeeder(c), NEW i \in Slots, NEW s \in Seq(Int), NEW eof \in BOOLEAN,
           NEW r \in Reactions(c, i, s, eof)
    PROVE  StaysInSlot(c, i, r)
<1>1. CASE r \in Handle(c, i, s, eof)
  <2> DEFINE id == s[5]
  <2>1. \/ r \in {Result([c EXCEPT !.conn[i].peer_chocking = TRUE], 5, Silence)}
                    \cup ReadUnchoke(c, i)
        \/ r \in ReadIntersted(c, i)
        \/ r \in ReadNotIntersted(c, i)
        \/ r \in ReadBitField(c, i, s, eof)
        \/ r \in ReadHave(c, i, s, eof)
        \/ r \in ReadRequest(c, i, s, eof)
        \/ r \in ReadPeice(c, i, s, eof)
        \/ r = Result(c, 5, Silence)
        \/ r = CloseConnection(c, i, 5)
    BY <1>1 DEF Handle
  <2>2. CASE \/ r \in {Result([c EXCEPT !.conn[i].peer_chocking = TRUE], 5, Silence)}
                       \cup ReadUnchoke(c, i)
             \/ r = Result(c, 5, Silence)
             \/ r = CloseConnection(c, i, 5)
    BY <2>2, ChokesStay, ResultStays, CloseStays
  <2>3. CASE r \in ReadIntersted(c, i) \/ r \in ReadNotIntersted(c, i)
    BY <2>3, InterstedStays, NotInterstedStays
  <2>4. CASE \/ r \in ReadBitField(c, i, s, eof) \/ r \in ReadHave(c, i, s, eof)
             \/ r \in ReadRequest(c, i, s, eof) \/ r \in ReadPeice(c, i, s, eof)
    BY <2>4, BitFieldStays, HaveStays, RequestStays, PeiceStays
  <2> QED
    BY <2>1, <2>2, <2>3, <2>4
<1>2. CASE r \notin Handle(c, i, s, eof)
  <2>1. Len(s) \in Nat
    OBVIOUS
  <2>2. \E used \in Nat : r = CloseConnection(c, i, used) \/ r = Result(c, used, Silence)
    BY <1>2, <2>1 DEF Reactions
  <2> QED
    BY <2>2, ResultStays, CloseStays
<1> QED
  BY <1>1, <1>2

LEMMA HaveBytes ==
    ASSUME NEW p \in Int
    PROVE  Shape(Have(p), HAVE_PEICE, 5)
BY OneWord DEF Have

-----------------------------------------------------------------------------
(* What guests say                                                          *)

Triples == Int \X Int \X Int

(* A block that a guest asks for is in the file.                             *)
LEMMA BlockFits ==
    ASSUME NEW b \in Blocks
    PROVE  /\ b \in Triples /\ b[1] \in Pieces
           /\ b[1] \in Int31 /\ b[2] \in Int31 /\ b[3] \in Int31
           /\ b[2] + b[3] \in 0 .. PieceSize
           /\ b[1] * PieceSize + b[2] \in 0 .. FileSize - b[3]
<1>1. CASE \E p \in Pieces : b = <<p, 0, TrueLength(p)>>
  <2>1. PICK p \in Pieces : b = <<p, 0, TrueLength(p)>>
    BY <1>1
  <2> QED
    BY <2>1, PieceFits, Sizes DEF Triples, Int31
<1>2. CASE b = <<0, 1, TrueLength(0) - 1>>
  <2>1. 0 \in Pieces
    BY Sizes DEF Pieces
  <2>2. /\ TrueLength(0) \in 1 .. PieceSize
        /\ 0 * PieceSize + TrueLength(0) <= FileSize
    BY <2>1, PieceFits
  <2>3. 0 * PieceSize + 1 = 1 /\ 0 * PieceSize = 0
    BY Sizes
  <2> QED
    BY <1>2, <2>1, <2>2, <2>3, Sizes DEF Triples, Int31
<1> QED
  BY <1>1, <1>2 DEF Blocks

LEMMA FitsIsRead ==
    ASSUME NEW c, c.seeder, NEW p \in Pieces, NEW begin \in Int31, NEW n \in Int31,
           p * PieceSize + begin \in 0 .. FileSize - n
    PROVE  CanRead(c, p, begin, n)
<1> DEFINE start == p * PieceSize
<1>1. p \in Nat
  BY PieceFits
<1>2. start \in Nat
  BY <1>1, Sizes
<1>3. start + begin \in 0 .. FileSize - n
  OBVIOUS
<1> HIDE DEF start
<1>4. n \in Nat /\ begin \in Nat
  BY Sizes DEF Int31
<1>5. start + begin + n <= FileSize
  BY <1>2, <1>3, <1>4, Sizes
<1> QED
  BY <1>4, <1>5 DEF CanRead, start

(* One that is not is not answered.                                          *)
LEMMA TooLongFails ==
    ASSUME NEW b \in TooLong
    PROVE  /\ b \in Triples
           /\ b[1] \in Int31 /\ b[2] \in Int31 /\ b[3] \in Int31
           /\ \A c : ~(InPiece(b[1], b[2], b[3]) /\ CanRead(c, b[1], b[2], b[3]))
<1>1. CASE b = <<0, 1, PieceSize>>
  BY <1>1, Sizes DEF Triples, Int31, InPiece
<1>2. CASE b = <<no_of_peices - 1, 0, TrueLength(no_of_peices - 1) + 1>>
  <2> DEFINE p == no_of_peices - 1
             n == TrueLength(p)
             start == p * PieceSize
  <2>1. p \in Pieces
    BY Sizes DEF Pieces
  <2>2. p \in Nat /\ p < MaxInt /\ n \in 1 .. PieceSize
    BY <2>1, PieceFits
  <2>3. start \in Nat /\ (p + 1) * PieceSize = start + PieceSize
    BY <2>2, Sizes
  <2>4. n = IF start + PieceSize <= FileSize THEN PieceSize ELSE FileSize - start
    BY <2>3 DEF TrueLength
  <2>5. b[1] = p /\ b[2] = 0 /\ b[3] = n + 1 /\ b = <<p, 0, n + 1>>
    BY <1>2
  <2>6. b[1] * PieceSize + b[2] = start
    BY <2>3, <2>5
  <2> HIDE DEF p, n, start
  <2>7. \A c : ~(InPiece(b[1], b[2], b[3]) /\ CanRead(c, b[1], b[2], b[3]))
    <3> SUFFICES ASSUME NEW c, InPiece(b[1], b[2], b[3]), CanRead(c, b[1], b[2], b[3])
                 PROVE  FALSE
      OBVIOUS
    <3>1. n + 1 <= PieceSize
      BY <2>2, <2>5, Sizes DEF InPiece
    <3>2. n = FileSize - start
      BY <2>2, <2>4, <3>1, Sizes
    <3>3. start + (n + 1) <= FileSize
      BY <2>2, <2>5, <2>6 DEF CanRead
    <3> QED
      BY <2>2, <2>3, <3>2, <3>3, Sizes
  <2> QED
    BY <2>2, <2>5, <2>7, Sizes DEF Triples, Int31
<1> QED
  BY <1>1, <1>2 DEF TooLong

LEMMA RequestBytes ==
    ASSUME NEW b \in Blocks \cup TooLong
    PROVE  /\ Shape(Request(b), REQUEST, 13)
           /\ HasWord(Request(b), 6, b[1])
           /\ HasWord(Request(b), 10, b[2])
           /\ HasWord(Request(b), 14, b[3])
<1>1. b[1] \in Int /\ b[2] \in Int /\ b[3] \in Int
  BY BlockFits, TooLongFails DEF Triples
<1> QED
  BY <1>1, ThreeWords DEF Request, RequestMessage, REQUEST

(* The length of what a guest says is in its first four bytes.                *)
LEMMA SayingBytes ==
    ASSUME NEW m \in Sayings
    PROVE  /\ m \in Seq(Int)
           /\ Len(m) >= 4 /\ Len(m) - 4 \in Int31
           /\ HasWord(m, 1, Len(m) - 4)
<1>1. CASE m = KeepAlive
  BY <1>1, KeepAliveBytes, SmallInts
<1>2. CASE \E id, n : Shape(m, id, n)
  <2>1. PICK id, n : Shape(m, id, n)
    BY <1>2
  <2>2. n \in Int31 /\ Len(m) = 4 + n /\ n >= 0 /\ n \in Int
    BY <2>1, Sizes DEF Shape, Int31
  <2> QED
    BY <2>1, <2>2 DEF Shape
<1>3. CASE m # KeepAlive
  <2>1. CASE m \in {Message(INTERSTED, <<>>), Message(NOT_INTERSTED, <<>>)}
    BY <1>2, <2>1, EmptyMessage DEF INTERSTED, NOT_INTERSTED
  <2>2. CASE \E b \in Blocks \cup TooLong : m = Request(b)
    BY <1>2, <2>2, RequestBytes
  <2>3. CASE \E p \in Pieces : m = Have(p)
    BY <1>2, <2>3, HaveBytes, PieceFits
  <2>4. CASE \E has \in Holdings : m = BitFieldMessage(has, no_of_peices)
    BY <1>2, <2>4, BitFieldMessageBytes, UploaderAssumption, ClientAssumption
  <2> QED
    BY <1>3, <2>1, <2>2, <2>3, <2>4 DEF Sayings
<1> QED
  BY <1>1, <1>3

(* One place has messages of one length.                                     *)
LEMMA SameLength ==
    ASSUME NEW s \in Seq(Int), NEW m \in Sayings, NEW l \in Sayings,
           Here(m, s, 1), Here(l, s, 1)
    PROVE  Len(m) = Len(l)
<1>1. \A x \in Sayings : Here(x, s, 1) => WordAt(s, 1) = Len(x) - 4 /\ Len(x) \in Nat
  <2> SUFFICES ASSUME NEW x \in Sayings, Here(x, s, 1)
               PROVE  WordAt(s, 1) = Len(x) - 4 /\ Len(x) \in Nat
    OBVIOUS
  <2>1. /\ x \in Seq(Int) /\ Len(x) >= 4 /\ Len(x) - 4 \in Int31
        /\ HasWord(x, 1, Len(x) - 4)
    BY SayingBytes
  <2>2. /\ Len(x) \in Nat /\ Len(x) <= Len(s) /\ \A k \in 1 .. Len(x) : s[k] = x[k]
        /\ FrontOf(s, x)
    BY <2>1, HereAtOne DEF FrontOf
  <2>3. 1 + 3 <= Len(x) /\ 1 + 3 <= Len(s) /\ 1 \in Nat \ {0}
    BY <2>1, <2>2
  <2> QED
    BY <2>1, <2>2, <2>3, WordArrived
<1> QED
  BY <1>1

(* A peer's requests are answered.                                           *)
Granted(c, i) == c.conn[i].peer_intersted /\ ~c.conn[i].am_chocking

KeepsGrant(c, i, r) == Granted(c, i) => Granted(r.client, i)

(* The handler r of the message m at the front has read it to its end, or has  *)
(* closed the connection.                                                   *)
ReadsWhole(i, m, w, r) ==
    r.client.conn[i].in_use => r.used = Len(m) /\ Len(m) <= Len(w)

(* r is what a handler may leave that finds w of a stream that begins with m.  *)
Reading(c, i, m, w, t, r) ==
    /\ IsSeeder(c) /\ i \in Slots
    /\ w \in Seq(Int) /\ t \in Seq(Int) /\ Begins(m, w, t)
    /\ r \in Reactions(c, i, w, FALSE)

LEMMA KeepAliveFront ==
    ASSUME NEW c, NEW i, NEW w \in Seq(Int), NEW t \in Seq(Int), Begins(KeepAlive, w, t)
    PROVE  /\ Reactions(c, i, w, FALSE) # {} => Len(w) >= 4
           /\ Len(w) >= 4 => Reactions(c, i, w, FALSE) = {Result(c, 4, Silence)}
<1> DEFINE len == Len(w)
<1>1. FrontOf(w, KeepAlive)
  BY KeepAliveBytes, Arrived
<1>2. len >= 4 => WordAt(w, 1) = 0
  <2> SUFFICES ASSUME len >= 4 PROVE WordAt(w, 1) = 0
    OBVIOUS
  <2>1. /\ 1 + 3 <= Len(KeepAlive) /\ 1 + 3 <= Len(w) /\ 1 \in Nat \ {0}
        /\ 0 \in Int31
    BY KeepAliveBytes, SmallInts
  <2> QED
    BY <1>1, <2>1, KeepAliveBytes, WordArrived
<1>3. len \in Nat
  OBVIOUS
<1>4. len < 4 => Reactions(c, i, w, FALSE) = {}
  BY DEF Reactions
<1>5. len >= 4 => Reactions(c, i, w, FALSE) = {Result(c, 4, Silence)}
  <2> SUFFICES ASSUME len >= 4
               PROVE  Reactions(c, i, w, FALSE) = {Result(c, 4, Silence)}
    OBVIOUS
  <2>1. ~(len < 4) /\ WordAt(w, 1) = 0
    BY <1>2, <1>3
  <2> QED
    BY <2>1 DEF Reactions
<1> HIDE DEF len
<1>6. len < 4 \/ len >= 4
  BY <1>3
<1> QED
  BY <1>4, <1>5, <1>6 DEF len

LEMMA InterstedFront ==
    ASSUME NEW c, IsSeeder(c), NEW i \in Slots, NEW w \in Seq(Int), NEW t \in Seq(Int),
           NEW id \in {INTERSTED, NOT_INTERSTED}, Begins(Message(id, <<>>), w, t),
           NEW r \in Reactions(c, i, w, FALSE)
    PROVE  /\ ReadsWhole(i, Message(id, <<>>), w, r)
           /\ NoBlock(r)
           /\ r.client.proc = c.proc
           /\ id = INTERSTED => Granted(r.client, i)
<1> DEFINE m == Message(id, <<>>)
<1>1. Shape(m, id, 1)
  BY EmptyMessage DEF INTERSTED, NOT_INTERSTED
<1> HIDE DEF m
<1>2. Len(m) = 5
  BY <1>1 DEF Shape
<1>3. HeaderThere(w) /\ w[5] = id /\ r \in Handle(c, i, w, FALSE)
  <2>1. Coming(m, id, 1, w, t)
    BY <1>1 DEF m, Coming
  <2> QED
    BY <2>1, HandlerOf
<1>4. CASE id = INTERSTED
  <2>1. r \in ReadIntersted(c, i)
    BY <1>3, <1>4, HandleIs
  <2>2. /\ r.used = 5 /\ r.out = To(i, Message(UNCHOKE, <<>>))
        /\ r.client.proc = c.proc
        /\ r.client.conn[i].peer_intersted /\ ~r.client.conn[i].am_chocking
    BY <2>1, InterstedStays
  <2>3. NoBlock(r)
    <3>1. Message(UNCHOKE, <<>>)[5] = UNCHOKE
      BY EmptyMessage DEF Shape, UNCHOKE
    <3> DEFINE x == Message(UNCHOKE, <<>>)
    <3> HIDE DEF x
    <3>2. \A k \in Slots : r.out[k] = <<>> \/ r.out[k] = x
      BY <2>2, Outs DEF x
    <3> QED
      BY <3>1, <3>2 DEF NoBlock, UNCHOKE, PEICE, x
  <2>4. ReadsWhole(i, m, w, r)
    BY <1>2, <1>3, <2>2 DEF ReadsWhole, HeaderThere
  <2> QED
    BY <2>2, <2>3, <2>4 DEF Granted, m
<1>5. CASE id = NOT_INTERSTED
  <2>1. r \in ReadNotIntersted(c, i)
    BY <1>3, <1>5, HandleIs
  <2>2. r.used = 5 /\ r.out = Silence /\ r.client.proc = c.proc
    BY <2>1, NotInterstedStays
  <2>3. NoBlock(r)
    BY <2>2, Outs DEF NoBlock
  <2>4. ReadsWhole(i, m, w, r)
    BY <1>2, <1>3, <2>2 DEF ReadsWhole, HeaderThere
  <2> QED
    BY <1>5, <2>2, <2>3, <2>4 DEF INTERSTED, NOT_INTERSTED, m
<1> QED
  BY <1>4, <1>5

LEMMA HaveFront ==
    ASSUME NEW c, IsSeeder(c), NEW i \in Slots, NEW w \in Seq(Int), NEW t \in Seq(Int),
           NEW p \in Pieces, Begins(Have(p), w, t),
           NEW r \in Reactions(c, i, w, FALSE)
    PROVE  ReadsWhole(i, Have(p), w, r) /\ NoBlock(r) /\ KeepsGrant(c, i, r)
<1>1. Shape(Have(p), HAVE_PEICE, 5) /\ Len(Have(p)) = 9
  BY HaveBytes, PieceFits DEF Shape
<1>2. w[5] = HAVE_PEICE /\ r \in Handle(c, i, w, FALSE)
  <2> DEFINE m == Have(p)
             id == HAVE_PEICE
             n == 5
  <2>1. Coming(m, id, n, w, t)
    BY <1>1 DEF Coming
  <2> HIDE DEF m, id, n
  <2>2. w[5] = id /\ r \in Handle(c, i, w, FALSE)
    BY <2>1, HandlerOf
  <2> QED
    BY <2>2 DEF id
<1>3. r \in ReadHave(c, i, w, FALSE)
  BY <1>2, HandleIs
<1>4. Len(w) >= 9
  BY <1>3 DEF ReadHave, Enough
<1>5. r = Ends(c, "crashed", 9)
  BY <1>3, HaveStays
<1>6. r.used = 9 /\ r.out = Silence /\ r.client = [c EXCEPT !.proc = "crashed"]
  BY <1>5 DEF Ends, Result
<1>7. r.client.conn = c.conn
  BY <1>6, WithProc DEF Procs
<1> QED
  BY <1>1, <1>4, <1>6, <1>7, Outs DEF ReadsWhole, NoBlock, KeepsGrant, Granted

(* A request of a guest whose requests are answered.                         *)
LEMMA RequestFront ==
    ASSUME NEW c, IsSeeder(c), NEW i \in Slots, NEW w \in Seq(Int), NEW t \in Seq(Int),
           NEW b \in Blocks \cup TooLong, Begins(Request(b), w, t), Granted(c, i),
           NEW r \in Reactions(c, i, w, FALSE)
    PROVE  Len(w) >= 17 /\ r = Answer(c, i, b[1], b[2], b[3])
<1>1. /\ Shape(Request(b), REQUEST, 13)
      /\ HasWord(Request(b), 6, b[1])
      /\ HasWord(Request(b), 10, b[2])
      /\ HasWord(Request(b), 14, b[3])
  BY RequestBytes
<1>2. /\ w[5] = REQUEST /\ r \in Handle(c, i, w, FALSE)
      /\ FrontOf(w, Request(b))
  <2> DEFINE m == Request(b)
             id == REQUEST
             n == 13
  <2>1. Coming(m, id, n, w, t)
    BY <1>1 DEF Coming
  <2> HIDE DEF m, id, n
  <2>2. w[5] = id /\ r \in Handle(c, i, w, FALSE) /\ FrontOf(w, m)
    BY <2>1, HandlerOf
  <2> QED
    BY <2>2 DEF m, id
<1>3. r \in ReadRequest(c, i, w, FALSE)
  BY <1>2, HandleIs
<1>4. /\ Len(w) >= 17
      /\ \E x \in RequestWords(w) : r = Answer(c, i, x[1], x[2], x[3])
  BY <1>3 DEF ReadRequest, Enough, Granted
<1>5. Request(b) \in Seq(Int) /\ Len(Request(b)) = 17
  BY <1>1 DEF Shape
<1>6. b[1] \in Int31 /\ b[2] \in Int31 /\ b[3] \in Int31
  BY BlockFits, TooLongFails
<1>7. /\ 6 + 3 <= Len(Request(b)) /\ 10 + 3 <= Len(Request(b)) /\ 14 + 3 <= Len(Request(b))
      /\ 6 + 3 <= Len(w) /\ 10 + 3 <= Len(w) /\ 14 + 3 <= Len(w)
      /\ 6 \in Nat \ {0} /\ 10 \in Nat \ {0} /\ 14 \in Nat \ {0}
  BY <1>4, <1>5
<1>8. WordAt(w, 6) = b[1] /\ WordAt(w, 10) = b[2] /\ WordAt(w, 14) = b[3]
  BY <1>1, <1>2, <1>5, <1>6, <1>7, WordArrived
<1> QED
  BY <1>4, <1>8 DEF RequestWords

LEMMA TooLongFront ==
    ASSUME NEW c, IsSeeder(c), NEW i \in Slots, NEW b \in TooLong,
           NEW r, r = Answer(c, i, b[1], b[2], b[3])
    PROVE  NoBlock(r)
<1>1. r = Result(c, 17, Silence)
  BY TooLongFails DEF Answer
<1> QED
  BY <1>1, Outs DEF NoBlock, Result

(* In a torrent of at most eight pieces, whose bits have their numbers, the    *)
(* block is sent.                                                           *)
LEMMA BlockFront ==
    ASSUME no_of_peices <= 8, NEW c, IsSeeder(c), NEW i \in Slots, NEW b \in Blocks,
           NEW r, r = Answer(c, i, b[1], b[2], b[3])
    PROVE  r.out = To(i, Block(b))
<1>1. /\ b[1] \in Pieces /\ b[2] \in Int31 /\ b[3] \in Int31
      /\ b[2] + b[3] \in 0 .. PieceSize
      /\ b[1] * PieceSize + b[2] \in 0 .. FileSize - b[3]
  BY BlockFits
<1>2. Cell(b[1]) = b[1] /\ b[1] # NoCell
  BY <1>1, Sizes DEF Pieces, Cell, NoCell
<1>3. get_bit_field(c.bits, b[1])
  BY <1>1, <1>2 DEF get_bit_field, IsSeeder
<1>4. InPiece(b[1], b[2], b[3])
  BY <1>1 DEF InPiece
<1>5. CanRead(c, b[1], b[2], b[3])
  BY <1>1, FitsIsRead DEF IsSeeder
<1>6. r = SendBlock(c, i, b[1], b[2], b[3])
  BY <1>3, <1>4, <1>5 DEF Answer
<1> QED
  BY <1>6 DEF SendBlock, Result, Block

LEMMA BlockIsPeice ==
    ASSUME NEW b \in Blocks
    PROVE  Block(b)[5] = PEICE /\ Block(b) # <<>>
<1> DEFINE n == b[3]
<1>1. b[1] \in Int /\ b[2] \in Int /\ n \in Nat /\ 9 + n \in Int31
  <2>1. b[1] \in Int31 /\ b[2] \in Int31 /\ n \in Int31 /\ b[2] + n \in 0 .. PieceSize
    BY BlockFits
  <2> HIDE DEF n
  <2> QED
    BY <2>1, Sizes DEF Int31
<1>2. Shape(Block(b), PEICE, 9 + n)
  BY <1>1, PeiceBytes DEF Block
<1> QED
  BY <1>1, <1>2 DEF Shape

(* The bit field is read to its end.  One without bits is harmless.           *)
Nothing(has) == has = {}

LEMMA BitFieldFront ==
    ASSUME NEW c, NEW i, NEW m, NEW w, NEW t, NEW r, Reading(c, i, m, w, t, r),
           NEW has \in SUBSET Pieces, m = BitFieldMessage(has, no_of_peices)
    PROVE  /\ ReadsWhole(i, m, w, r)
           /\ NoBlock(r)
           /\ r.client.conn[i].in_use => KeepsGrant(c, i, r)
           /\ Nothing(has) => r.client.proc = c.proc
<1>0. /\ IsSeeder(c) /\ i \in Slots
      /\ w \in Seq(Int) /\ t \in Seq(Int) /\ Begins(m, w, t)
      /\ r \in Reactions(c, i, w, FALSE)
  BY DEF Reading
<1> USE <1>0
<1> DEFINE n == 1 + bit_field_size(no_of_peices)
           bytes == Bytes(w, 6, 4 + n)
           bits == BitsOf(bytes)
<1>1. Shape(m, BIT_FIELD, n)
  BY BitFieldMessageBytes
<1>2. n \in Nat \ {0} /\ Len(m) = 4 + n
  BY <1>1, FieldSize DEF Shape
<1>3. has = {} => \A k \in 1 .. n - 1 : m[5 + k] = 0
  <2>1. n - 1 = bit_field_size(no_of_peices)
    BY FieldSize
  <2>2. has = {} => \A k \in 1 .. bit_field_size(no_of_peices) : m[5 + k] = 0
    BY BitFieldMessageBytes
  <2> QED
    BY <2>1, <2>2
<1>4. /\ w[5] = BIT_FIELD /\ WordAt(w, 1) = n /\ r \in Handle(c, i, w, FALSE)
      /\ FrontOf(w, m)
  <2>1. Coming(m, BIT_FIELD, n, w, t)
    BY <1>1 DEF Coming
  <2> QED
    BY <2>1, HandlerOf
<1>5. n - 1 = bit_field_size(no_of_peices)
  BY FieldSize
<1> HIDE DEF n
<1>6. r \in ReadBitField(c, i, w, FALSE)
  BY <1>4, HandleIs
<1>7. Len(w) >= 4 + n
  BY <1>2, <1>4, <1>6 DEF ReadBitField, Enough
<1>8. IF SpareBitsSet(bits) THEN r = CloseConnection(c, i, 4 + n)
                            ELSE r \in StoreBits(c, i, bits, 4 + n)
  BY <1>2, <1>4, <1>5, <1>6, <1>7 DEF ReadBitField, Enough
<1>9. has = {} => bits = {}
  <2> SUFFICES ASSUME has = {}, NEW x \in bits PROVE FALSE
    OBVIOUS
  <2> DEFINE lw == Len(w)
             lm == Len(m)
  <2>1. bytes = [k \in 1 .. n - 1 |-> IF 6 + k - 1 <= lw THEN w[6 + k - 1] ELSE 0]
    BY <1>2 DEF Bytes
  <2>2. /\ lw \in Nat /\ lw >= 4 + n /\ lm = 4 + n
        /\ \A k \in 1 .. lm : k <= lw => w[k] = m[k]
    BY <1>2, <1>4, <1>7 DEF FrontOf
  <2> HIDE DEF lw, lm
  <2>3. Len(bytes) = n - 1
    BY <1>2, <2>1
  <2> HIDE DEF bytes
  <2>4. \A k \in 1 .. n - 1 : bytes[k] = 0
    <3> TAKE k \in 1 .. n - 1
    <3>1. 6 + k - 1 = 5 + k /\ 5 + k <= lw /\ 5 + k \in 1 .. lm
      BY <1>2, <2>2
    <3>2. m[5 + k] = 0
      BY <1>3
    <3>3. w[5 + k] = m[5 + k]
      BY <2>2, <3>1
    <3>4. bytes[k] = IF 6 + k - 1 <= lw THEN w[6 + k - 1] ELSE 0
      BY <2>1
    <3> QED
      BY <3>1, <3>2, <3>3, <3>4
  <2> DEFINE y == Weight[(x % 8) + 1]
             z == (x \div 8) + 1
  <2>5. x \in 0 .. 8 * (n - 1) - 1 /\ (bytes[z] \div y) % 2 = 1
    BY <2>3 DEF BitsOf
  <2>6. z \in 1 .. n - 1 /\ (x % 8) + 1 \in 1 .. 8
    BY <1>2, <2>5
  <2>7. y \in Nat \ {0}
    <3>1. \A k \in 1 .. 8 : Weight[k] \in Nat \ {0}
      BY DEF Weight
    <3> DEFINE k == (x % 8) + 1
    <3>2. k \in 1 .. 8
      BY <2>6
    <3> HIDE DEF k
    <3>3. Weight[k] \in Nat \ {0}
      BY <3>1, <3>2
    <3> QED
      BY <3>3 DEF k
  <2> HIDE DEF y, z
  <2>8. (0 \div y) % 2 = 0
    BY <2>7
  <2>9. bytes[z] = 0
    BY <2>4, <2>6
  <2> QED
    BY <2>5, <2>8, <2>9
<1>10. bits \in SUBSET Int
  BY DEF BitsOf
<1>11. 4 + n \in Nat
  BY <1>2
<1> HIDE DEF bits
<1>12. CASE SpareBitsSet(bits)
  <2>1. r = CloseConnection(c, i, 4 + n)
    BY <1>8, <1>12
  <2>2. ~r.client.conn[i].in_use
    BY <1>11, <2>1, CloseStays
  <2>3. has # {}
    BY <1>9, <1>12 DEF SpareBitsSet, get_bit_field
  <2>4. NoBlock(r)
    BY <2>1, Outs DEF NoBlock, CloseConnection, Result
  <2> QED
    BY <2>2, <2>3, <2>4 DEF ReadsWhole, Nothing
<1>13. CASE ~SpareBitsSet(bits)
  <2>1. /\ r.used = 4 + n
        /\ r.client.conn[i].peer_intersted = c.conn[i].peer_intersted
        /\ r.client.conn[i].am_chocking = c.conn[i].am_chocking
        /\ NoBlock(r)
        /\ (\A p \in Pieces : ~get_bit_field(bits, p)) => r.client.proc = c.proc
    BY <1>8, <1>10, <1>11, <1>13, BitsStay
  <2>4. has = {} => \A p \in Pieces : ~get_bit_field(bits, p)
    BY <1>9 DEF get_bit_field
  <2> QED
    BY <1>2, <1>7, <2>1, <2>4 DEF ReadsWhole, KeepsGrant, Granted, Nothing
<1> QED
  BY <1>12, <1>13

Intersted    == Message(INTERSTED, <<>>)
NotIntersted == Message(NOT_INTERSTED, <<>>)
Requests     == { Request(b) : b \in Blocks \cup TooLong }

LEMMA InterstBytes ==
    /\ Shape(Intersted, INTERSTED, 1) /\ Len(Intersted) = 5
    /\ Intersted[5] = INTERSTED
    /\ Shape(NotIntersted, NOT_INTERSTED, 1) /\ Len(NotIntersted) = 5
    /\ NotIntersted[5] = NOT_INTERSTED
BY EmptyMessage DEF Intersted, NotIntersted, Shape, INTERSTED, NOT_INTERSTED

(* What is said while all is calm.                                           *)
CalmSayings ==
    {KeepAlive, Intersted, NotIntersted} \cup Requests \cup {BitFieldMessage({}, no_of_peices)}

(* What a handler makes of the message at the front of what it finds, when     *)
(* requests come only from guests whose requests are answered.               *)
LEMMA FrontMessage ==
    ASSUME NEW c, NEW i, NEW m \in Sayings \cup CalmSayings, NEW w, NEW t, NEW r,
           Reading(c, i, m, w, t, r), m \in Requests => Granted(c, i)
    PROVE  /\ ReadsWhole(i, m, w, r)
           /\ (\A b \in Blocks : m # Request(b)) => NoBlock(r)
           /\ r.client.conn[i].in_use /\ m # NotIntersted => KeepsGrant(c, i, r)
           /\ m = Intersted => Granted(r.client, i)
           /\ m \in CalmSayings => r.client.proc = c.proc
<1>0. /\ IsSeeder(c) /\ i \in Slots
      /\ w \in Seq(Int) /\ t \in Seq(Int) /\ Begins(m, w, t)
      /\ r \in Reactions(c, i, w, FALSE)
  BY DEF Reading
<1> USE <1>0
<1>1. CASE m = KeepAlive
  <2>1. r = Result(c, 4, Silence) /\ Len(w) >= 4 /\ Len(m) = 4
    BY <1>1, KeepAliveFront, KeepAliveBytes
  <2>2. m # Intersted
    <3>1. Len(m) # Len(Intersted)
      BY <1>1, KeepAliveBytes, InterstBytes
    <3> QED
      BY <3>1, Zenon
  <2> QED
    BY <2>1, <2>2, Outs DEF Result, ReadsWhole, NoBlock, KeepsGrant
<1>2. CASE m \in {Intersted, NotIntersted}
  <2>1. PICK id \in {INTERSTED, NOT_INTERSTED} : m = Message(id, <<>>)
    BY <1>2 DEF Intersted, NotIntersted
  <2>2. /\ ReadsWhole(i, m, w, r) /\ NoBlock(r) /\ r.client.proc = c.proc
        /\ id = INTERSTED => Granted(r.client, i)
    BY <2>1, InterstedFront
  <2>3. Intersted # NotIntersted
    BY InterstBytes DEF INTERSTED, NOT_INTERSTED
  <2> QED
    BY <1>2, <2>1, <2>2, <2>3 DEF KeepsGrant, Intersted, NotIntersted
<1>3. CASE \E b \in Blocks \cup TooLong : m = Request(b)
  <2>1. PICK b \in Blocks \cup TooLong : m = Request(b)
    BY <1>3
  <2>2. Granted(c, i)
    BY <2>1 DEF Requests
  <2>3. Len(w) >= 17 /\ r = Answer(c, i, b[1], b[2], b[3])
    BY <2>1, <2>2, RequestFront
  <2>4. /\ b[1] \in Int /\ b[2] \in Int /\ b[3] \in Int
        /\ Len(m) = 17 /\ m[5] = REQUEST
    BY <2>1, BlockFits, TooLongFails, RequestBytes DEF Triples, Shape
  <2>5. r.used = 17 /\ r.client.conn = c.conn /\ r.client.proc = c.proc
    <3> DEFINE p == b[1]
               begin == b[2]
               n == b[3]
    <3>1. p \in Int /\ begin \in Int /\ n \in Int /\ r = Answer(c, i, p, begin, n)
      BY <2>3, <2>4
    <3> HIDE DEF p, begin, n
    <3> QED
      BY <3>1, AnswerStays
  <2>6. (\A x \in Blocks : m # Request(x)) => NoBlock(r)
    BY <2>1, <2>3, TooLongFront
  <2>7. m # Intersted
    BY <2>4, InterstBytes DEF INTERSTED, REQUEST
  <2> QED
    BY <2>3, <2>4, <2>5, <2>6, <2>7 DEF ReadsWhole, KeepsGrant, Granted
<1>4. CASE \E p \in Pieces : m = Have(p)
  <2>1. PICK p \in Pieces : m = Have(p)
    BY <1>4
  <2>2. m[5] = HAVE_PEICE
    BY <2>1, HaveBytes, PieceFits DEF Shape
  <2>3. m \notin CalmSayings /\ m # Intersted
    <3>1. m # KeepAlive
      <4>1. Shape(m, HAVE_PEICE, 5)
        BY <2>1, HaveBytes, PieceFits
      <4>2. Len(m) # Len(KeepAlive)
        BY <4>1, KeepAliveBytes DEF Shape
      <4> QED
        BY <4>2, Zenon
    <3>2. m # Intersted /\ m # NotIntersted
      BY <2>2, InterstBytes DEF INTERSTED, NOT_INTERSTED, HAVE_PEICE
    <3>3. m \notin Requests
      BY <2>2, RequestBytes DEF Requests, Shape, REQUEST, HAVE_PEICE
    <3>4. m # BitFieldMessage({}, no_of_peices)
      BY <2>2, BitFieldMessageBytes DEF Shape, BIT_FIELD, HAVE_PEICE
    <3> QED
      BY <3>1, <3>2, <3>3, <3>4 DEF CalmSayings
  <2> QED
    BY <2>1, <2>3, HaveFront
<1>5. CASE \E has \in SUBSET Pieces : m = BitFieldMessage(has, no_of_peices)
  <2>1. PICK has \in SUBSET Pieces :
          /\ m = BitFieldMessage(has, no_of_peices)
          /\ m = BitFieldMessage({}, no_of_peices) => Nothing(has)
    BY <1>5 DEF Nothing
  <2>2. /\ ReadsWhole(i, m, w, r) /\ NoBlock(r)
        /\ r.client.conn[i].in_use => KeepsGrant(c, i, r)
        /\ Nothing(has) => r.client.proc = c.proc
    BY <2>1, BitFieldFront
  <2>3. m[5] = BIT_FIELD
    BY <2>1, BitFieldMessageBytes DEF Shape
  <2>4. m # Intersted /\ m # NotIntersted
    BY <2>3, InterstBytes DEF INTERSTED, NOT_INTERSTED, BIT_FIELD
  <2>5. CASE m = KeepAlive
    BY <1>1, <2>5
  <2>6. CASE m # KeepAlive
    <3>1. m \notin Requests
      BY <2>3, RequestBytes DEF Requests, Shape, REQUEST, BIT_FIELD
    <3>2. m \in CalmSayings => Nothing(has)
      BY <2>1, <2>4, <2>6, <3>1 DEF CalmSayings
    <3> QED
      BY <2>2, <2>4, <3>2
  <2> QED
    BY <2>5, <2>6
<1>6. \/ m \in {KeepAlive, Intersted, NotIntersted}
      \/ \E b \in Blocks \cup TooLong : m = Request(b)
      \/ \E p \in Pieces : m = Have(p)
      \/ \E has \in SUBSET Pieces : m = BitFieldMessage(has, no_of_peices)
  <2>1. \A has \in Holdings : has \in SUBSET Pieces
    BY UploaderAssumption, ClientAssumption
  <2> QED
    BY <2>1 DEF Sayings, CalmSayings, Requests, Intersted, NotIntersted
<1> QED
  BY <1>1, <1>2, <1>3, <1>4, <1>5, <1>6

(* A bit field that has arrived is stored, or ends the program.               *)
LEMMA BitsAreStored ==
    ASSUME NEW c, IsSeeder(c), NEW i \in Slots, NEW bits \in SUBSET Int, NEW used
    PROVE  StoreBits(c, i, bits, used) # {}
<1> DEFINE c1 == [c EXCEPT !.conn = StoreBitField(@, i, bits), !.rank = AddHolder(@, bits)]
           want == check_intersted(c1.conn, i, c.bits, c.stat)
<1>1. CASE \E p \in Pieces : get_bit_field(bits, p)
  BY <1>1 DEF StoreBits, IsSeeder
<1>2. CASE \A p \in Pieces : ~get_bit_field(bits, p)
  <2>1. c1.conn[i].bit_field = bits
    BY ConnOf DEF StoreBitField, IsSeeder, ClientType, ConnType
  <2>2. want = -1
    BY <1>2, <2>1 DEF check_intersted
  <2> QED
    BY <1>2, <2>2 DEF StoreBits
<1> QED
  BY <1>1, <1>2

(* A handler that finds a whole message at the front does not wait.           *)
LEMMA WholeIsRead ==
    ASSUME NEW c, IsSeeder(c), NEW i \in Slots, NEW w \in Seq(Int),
           NEW m \in Sayings, Here(m, w, 1)
    PROVE  Reactions(c, i, w, FALSE) # {}
<1> DEFINE t == <<>>
           lw == Len(w)
           lm == Len(m)
<1>1. t \in Seq(Int) /\ Begins(m, w, t)
  <2>1. t \in Seq(Int) /\ w \o t = w
    OBVIOUS
  <2> QED
    BY <2>1 DEF Begins
<1>2. lm <= lw /\ lm \in Nat /\ lw \in Nat
  BY SayingBytes, HereAtOne
<1> HIDE DEF t
<1>3. ASSUME NEW id, NEW n, Shape(m, id, n)
      PROVE  /\ Reactions(c, i, w, FALSE) = Handle(c, i, w, FALSE)
             /\ w[5] = id /\ WordAt(w, 1) = n
  <2>1. lm = 4 + n /\ n \in Nat \ {0}
    BY <1>3, Sizes DEF Shape, Int31
  <2>2. HeaderThere(w)
    <3> HIDE DEF lm, lw
    <3>1. lw >= 5
      BY <1>2, <2>1
    <3> QED
      BY <3>1 DEF HeaderThere, lw
  <2> QED
    BY <1>1, <1>3, <2>2, HeaderIsRead
<1>4. CASE m = KeepAlive
  <2>1. lw >= 4
    <3>1. lm = 4
      BY <1>4, KeepAliveBytes
    <3> HIDE DEF lm, lw
    <3> QED
      BY <1>2, <3>1
  <2> QED
    BY <1>1, <1>4, <2>1, KeepAliveFront
<1>5. CASE m \in {Intersted, NotIntersted}
  <2>1. PICK id \in {INTERSTED, NOT_INTERSTED} : m = Message(id, <<>>)
    BY <1>5 DEF Intersted, NotIntersted
  <2>2. Shape(m, id, 1)
    BY <2>1, EmptyMessage DEF INTERSTED, NOT_INTERSTED
  <2>3. Reactions(c, i, w, FALSE) = Handle(c, i, w, FALSE) /\ w[5] = id
    BY <1>3, <2>2
  <2>4. ReadIntersted(c, i) # {} /\ ReadNotIntersted(c, i) # {}
    BY DEF ReadIntersted, ReadNotIntersted
  <2> QED
    BY <2>3, <2>4, HandleIs
<1>6. CASE \E b \in Blocks \cup TooLong : m = Request(b)
  <2>1. Shape(m, REQUEST, 13)
    BY <1>6, RequestBytes
  <2>2. Reactions(c, i, w, FALSE) = Handle(c, i, w, FALSE) /\ w[5] = REQUEST
    BY <1>3, <2>1
  <2>3. lw >= 17
    <3>1. lm = 17
      BY <2>1 DEF Shape
    <3> HIDE DEF lm, lw
    <3> QED
      BY <1>2, <3>1
  <2>4. RequestWords(w) # {} /\ Enough(w, 17, FALSE)
    BY <2>3 DEF RequestWords, Enough
  <2>5. ReadRequest(c, i, w, FALSE) # {}
    BY <2>4 DEF ReadRequest
  <2> QED
    BY <2>2, <2>5, HandleIs
<1>7. CASE \E p \in Pieces : m = Have(p)
  <2>1. Shape(m, HAVE_PEICE, 5)
    BY <1>7, HaveBytes, PieceFits
  <2>2. Reactions(c, i, w, FALSE) = Handle(c, i, w, FALSE) /\ w[5] = HAVE_PEICE
    BY <1>3, <2>1
  <2>3. lw >= 9
    <3>1. lm = 9
      BY <2>1 DEF Shape
    <3> HIDE DEF lm, lw
    <3> QED
      BY <1>2, <3>1
  <2>4. ReadHave(c, i, w, FALSE) # {}
    BY <2>3 DEF ReadHave, Enough, IsSeeder
  <2> QED
    BY <2>2, <2>4, HandleIs
<1>8. CASE \E has \in SUBSET Pieces : m = BitFieldMessage(has, no_of_peices)
  <2> DEFINE n == 1 + bit_field_size(no_of_peices)
             bits == BitsOf(Bytes(w, 6, 4 + n))
  <2>1. Shape(m, BIT_FIELD, n)
    BY <1>8, BitFieldMessageBytes
  <2>2. n \in Nat \ {0} /\ lm = 4 + n
    BY <2>1, Sizes DEF Shape, Int31
  <2>3. bits \in SUBSET Int
    BY DEF BitsOf
  <2> HIDE DEF bits, n
  <2>4. /\ Reactions(c, i, w, FALSE) = Handle(c, i, w, FALSE)
        /\ w[5] = BIT_FIELD /\ WordAt(w, 1) = n
    BY <1>3, <2>1
  <2>5. lw >= 4 + n
    BY <1>2, <2>2
  <2>6. ReadBitField(c, i, w, FALSE)
          \in { {CloseConnection(c, i, 4 + n)}, StoreBits(c, i, bits, 4 + n) }
    BY <2>2, <2>4, <2>5 DEF ReadBitField, Enough, bits
  <2>7. StoreBits(c, i, bits, 4 + n) # {}
    BY <2>3, BitsAreStored
  <2>8. ReadBitField(c, i, w, FALSE) # {}
    BY <2>6, <2>7
  <2>9. Handle(c, i, w, FALSE) = ReadBitField(c, i, w, FALSE)
    BY <2>4, HandleIs
  <2> QED
    BY <2>4, <2>8, <2>9
<1>9. \/ m \in {KeepAlive, Intersted, NotIntersted}
      \/ \E b \in Blocks \cup TooLong : m = Request(b)
      \/ \E p \in Pieces : m = Have(p)
      \/ \E has \in SUBSET Pieces : m = BitFieldMessage(has, no_of_peices)
  <2>1. \A has \in Holdings : has \in SUBSET Pieces
    BY UploaderAssumption, ClientAssumption
  <2> QED
    BY <2>1 DEF Sayings, Intersted, NotIntersted
<1> QED
  BY <1>4, <1>5, <1>6, <1>7, <1>8, <1>9

(* A seeder that finds the end of a stream does not wait.                     *)
LEMMA EofReacts ==
    ASSUME NEW c, IsSeeder(c), NEW i \in Slots, NEW w \in Seq(Int)
    PROVE  Reactions(c, i, w, TRUE) # {}
<1> DEFINE lw == Len(w)
<1>1. CASE lw < 4
  BY <1>1 DEF Reactions
<1>2. CASE ~(lw < 4) /\ (WordAt(w, 1) = 0 \/ lw = 4)
  BY <1>2 DEF Reactions
<1>3. CASE ~(lw < 4) /\ ~(WordAt(w, 1) = 0) /\ ~(lw = 4)
  <2>1. Reactions(c, i, w, TRUE) = Handle(c, i, w, TRUE)
    BY <1>3 DEF Reactions
  <2>2. ReadUnchoke(c, i) # {}
    BY ConnOf DEF ReadUnchoke
  <2>3. ReadIntersted(c, i) # {} /\ ReadNotIntersted(c, i) # {}
    BY DEF ReadIntersted, ReadNotIntersted
  <2>4. ReadBitField(c, i, w, TRUE) # {}
    <3> DEFINE n == WordAt(w, 1)
               bits == BitsOf(Bytes(w, 6, 4 + n))
    <3>1. StoreBits(c, i, bits, 4 + n) # {}
      <4>1. bits \in SUBSET Int
        BY DEF BitsOf
      <4> HIDE DEF bits
      <4> QED
        BY <4>1, BitsAreStored
    <3> HIDE DEF n
    <3>2. Enough(w, 4 + n, TRUE)
      BY DEF Enough
    <3> QED
      BY <3>1, <3>2 DEF ReadBitField, n
  <2>5. ReadHave(c, i, w, TRUE) # {}
    BY DEF ReadHave, Enough, IsSeeder
  <2>6. ReadRequest(c, i, w, TRUE) # {}
    <3>1. RequestWords(w) # {}
      <4>1. 0 \in Index /\ 0 \in 0 .. PieceSize
        BY Sizes DEF Index
      <4>2. CASE lw >= 17
        BY <4>2 DEF RequestWords
      <4>3. CASE ~(lw >= 17)
        <5>1. <<0, 0, 0>> \in Index \X (0 .. PieceSize) \X (0 .. PieceSize)
          BY <4>1
        <5> QED
          BY <4>3, <5>1 DEF RequestWords
      <4> QED
        BY <4>2, <4>3
    <3> QED
      BY <3>1 DEF ReadRequest, Enough
  <2>7. ReadPeice(c, i, w, TRUE) # {}
    BY DEF ReadPeice, Enough, IsSeeder
  <2> QED
    BY <2>1, <2>2, <2>3, <2>4, <2>5, <2>6, <2>7 DEF Handle
<1> QED
  BY <1>1, <1>2, <1>3

-----------------------------------------------------------------------------
(* What a guest has said and the seeder has not read                          *)

BlockRequests == { Request(b) : b \in Blocks }

(* A mark between two messages: where it is in the stream, which block is due  *)
(* next, and whether the requests that follow it are answered.               *)
Marks == [at : Nat \ {0}, due : Nat \ {0}, grant : BOOLEAN]

(* The message m is between the marks a and z of stream s.                    *)
Follows(m, a, z, s, asked) ==
    /\ Here(m, s, a.at)
    /\ z.at = a.at + Len(m)
    /\ m \in Requests => a.grant
    /\ z.grant => m = Intersted \/ (a.grant /\ m # NotIntersted)
    /\ IF m \in BlockRequests
       THEN /\ a.due \in 1 .. Len(asked) /\ m = Request(asked[a.due])
            /\ z.due = a.due + 1
       ELSE z.due = a.due

(* The stream s is the messages ms, with the marks of log, and asked are the   *)
(* blocks that they ask for.                                                *)
Script(ms, log, s, asked) ==
    /\ ms \in Seq(Sayings) /\ s \in Seq(Int) /\ asked \in Seq(Blocks)
    /\ log \in [1 .. Len(ms) + 1 -> Marks]
    /\ log[1].at = 1 /\ log[1].due = 1
    /\ log[Len(ms) + 1].at = Len(s) + 1
    /\ log[Len(ms) + 1].due = Len(asked) + 1
    /\ \A j, k \in 1 .. Len(ms) + 1 :
        j <= k => log[j].at <= log[k].at /\ log[j].due <= log[k].due
    /\ \A k \in 1 .. Len(ms) : Follows(ms[k], log[k], log[k + 1], s, asked)

(* The stream s is messages that ask for the blocks asked.  Requests among     *)
(* them come where they are answered if those that come first are answered   *)
(* only when first, and one that follows all of them is answered when last.   *)
Story(s, asked, first, last, quiet) ==
    \E ms, log :
        /\ Script(ms, log, s, asked)
        /\ log[1].grant => first
        /\ last => log[Len(ms) + 1].grant
        /\ quiet => \A k \in 1 .. Len(ms) : ms[k] \in CalmSayings

(* Nothing has been said.                                                   *)
LEMMA NothingSaid ==
    ASSUME NEW first \in BOOLEAN, NEW quiet \in BOOLEAN
    PROVE  Story(<<>>, <<>>, first, FALSE, quiet)
<1> DEFINE ms == <<>>
           log == [k \in 1 .. 1 |-> [at |-> 1, due |-> 1, grant |-> FALSE]]
<1>1. Script(ms, log, <<>>, <<>>)
  BY DEF Script, Marks
<1>2. ~log[1].grant
  OBVIOUS
<1>3. \A k \in 1 .. Len(ms) : ms[k] \in CalmSayings
  OBVIOUS
<1> QED
  BY <1>1, <1>2, <1>3 DEF Story

(* A stream that is read to its end asks for nothing more.                    *)
LEMMA AllIsRead ==
    ASSUME NEW asked, NEW first, NEW last, NEW quiet, Story(<<>>, asked, first, last, quiet)
    PROVE  asked = <<>>
<1>1. PICK ms, log : Script(ms, log, <<>>, asked)
  BY DEF Story
<1> DEFINE n == Len(ms)
<1>2. /\ n \in Nat /\ asked \in Seq(Blocks)
      /\ log \in [1 .. n + 1 -> Marks]
      /\ log[1].at = 1 /\ log[1].due = 1
      /\ log[n + 1].at = 0 + 1 /\ log[n + 1].due = Len(asked) + 1
      /\ \A k \in 1 .. n : Follows(ms[k], log[k], log[k + 1], <<>>, asked)
      /\ \A k \in 1 .. n : ms[k] \in Sayings
      /\ \A j, k \in 1 .. n + 1 : j <= k => log[j].at <= log[k].at
  BY <1>1 DEF Script
<1> HIDE DEF n
<1>3. n = 0
  <2> SUFFICES ASSUME n # 0
               PROVE  FALSE
    OBVIOUS
  <2>1. 1 \in 1 .. n /\ 2 \in 1 .. n + 1 /\ n + 1 \in 1 .. n + 1 /\ 2 <= n + 1
    BY <1>2
  <2>2. log[2].at = 1 + Len(ms[1])
    BY <1>2, <2>1 DEF Follows
  <2>3. Len(ms[1]) >= 4 /\ Len(ms[1]) \in Int
    <3>1. ms[1] \in Sayings
      BY <1>2, <2>1
    <3> QED
      BY <3>1, SayingBytes
  <2>4. log[2].at <= log[n + 1].at
    BY <1>2, <2>1
  <2> QED
    BY <1>2, <2>2, <2>3, <2>4
<1>4. Len(asked) = 0
  BY <1>2, <1>3
<1> QED
  BY <1>2, <1>4

(* A guest says one message more: m, which may ask for a block.               *)
Adds(m, asked, more) ==
    /\ more \in Seq(Blocks)
    /\ \A k \in 1 .. Len(asked) : more[k] = asked[k]
    /\ IF m \in BlockRequests
       THEN Len(more) = Len(asked) + 1 /\ m = Request(more[Len(asked) + 1])
       ELSE Len(more) = Len(asked)

LEMMA ScriptGrows ==
    ASSUME NEW ms, NEW log, NEW s, NEW asked, Script(ms, log, s, asked),
           NEW m \in Sayings, NEW more, Adds(m, asked, more),
           m \in Requests => log[Len(ms) + 1].grant,
           NEW last \in BOOLEAN,
           last => m = Intersted \/ (log[Len(ms) + 1].grant /\ m # NotIntersted)
    PROVE  \E new : /\ Script(Append(ms, m), new, s \o m, more)
                    /\ new[1].grant = log[1].grant
                    /\ new[Len(ms) + 2].grant = last
<1> DEFINE n == Len(ms)
           l == Len(s)
           lm == Len(m)
           d == IF m \in BlockRequests THEN 1 ELSE 0
           a == Len(asked)
           z == [at |-> l + lm + 1, due |-> a + d + 1, grant |-> last]
           new == [k \in 1 .. n + 2 |-> IF k = n + 2 THEN z ELSE log[k]]
           u == s \o m
           ns == Append(ms, m)
<1>1. /\ ms \in Seq(Sayings) /\ s \in Seq(Int) /\ asked \in Seq(Blocks)
      /\ log \in [1 .. n + 1 -> Marks]
      /\ log[1].at = 1 /\ log[1].due = 1
      /\ log[n + 1].at = l + 1 /\ log[n + 1].due = a + 1
      /\ \A j, k \in 1 .. n + 1 :
            j <= k => log[j].at <= log[k].at /\ log[j].due <= log[k].due
      /\ \A k \in 1 .. n : Follows(ms[k], log[k], log[k + 1], s, asked)
  BY DEF Script
<1>2. m \in Seq(Int) /\ lm \in Nat /\ l \in Nat /\ n \in Nat /\ a \in Nat /\ d \in {0, 1}
  BY <1>1, SayingBytes
<1>3. u \in Seq(Int) /\ Len(u) = l + lm
  BY <1>1, <1>2, Joined
<1>4. /\ ns \in Seq(Sayings) /\ Len(ns) = n + 1 /\ ns[n + 1] = m
      /\ \A k \in 1 .. n : ns[k] = ms[k]
  BY <1>1
<1>5. /\ more \in Seq(Blocks) /\ Len(more) = a + d
      /\ \A k \in 1 .. a : more[k] = asked[k]
      /\ m \in BlockRequests => m = Request(more[a + 1])
  BY DEF Adds
<1>6. z \in Marks /\ z.at = l + lm + 1 /\ z.due = a + d + 1 /\ z.grant = last
  BY <1>2 DEF Marks
<1> HIDE DEF z
<1>7. new \in [1 .. n + 2 -> Marks] /\ new[n + 2] = z /\ \A k \in 1 .. n + 1 : new[k] = log[k]
  BY <1>1, <1>2, <1>6
<1> HIDE DEF n, l, lm, a, new, u, ns
<1>8. \A k \in 1 .. n + 1 : log[k].at <= z.at /\ log[k].due <= z.due
  <2> SUFFICES ASSUME NEW k \in 1 .. n + 1
               PROVE  log[k].at <= z.at /\ log[k].due <= z.due
    OBVIOUS
  <2>1. n + 1 \in 1 .. n + 1 /\ k <= n + 1
    BY <1>2
  <2>2. log[k].at <= l + 1 /\ log[k].due <= a + 1
    BY <1>1, <2>1
  <2>3. log[k] \in Marks
    BY <1>1
  <2>4. log[k].at \in Int /\ log[k].due \in Int
    BY <2>3 DEF Marks
  <2> QED
    BY <1>2, <1>6, <2>2, <2>4
<1>9. \A j, k \in 1 .. n + 2 :
        j <= k => new[j].at <= new[k].at /\ new[j].due <= new[k].due
  <2> SUFFICES ASSUME NEW j \in 1 .. n + 2, NEW k \in 1 .. n + 2, j <= k
               PROVE  new[j].at <= new[k].at /\ new[j].due <= new[k].due
    OBVIOUS
  <2>1. CASE k = n + 2 /\ j # n + 2
    <3>1. j \in 1 .. n + 1
      BY <1>2, <2>1
    <3> QED
      BY <1>7, <1>8, <2>1, <3>1
  <2>2. CASE k = n + 2 /\ j = n + 2
    <3>1. z.at \in Int /\ z.due \in Int
      BY <1>6 DEF Marks
    <3> QED
      BY <1>7, <2>2, <3>1
  <2>3. CASE k # n + 2
    <3>1. j \in 1 .. n + 1 /\ k \in 1 .. n + 1
      BY <1>2, <2>3
    <3> QED
      BY <1>1, <1>7, <3>1
  <2> QED
    BY <2>1, <2>2, <2>3
<1>10. ASSUME NEW k \in 1 .. n
       PROVE  Follows(ns[k], new[k], new[k + 1], u, more)
  <2>1. Follows(ms[k], log[k], log[k + 1], s, asked)
    BY <1>1
  <2>2. /\ k \in 1 .. n + 1 /\ k + 1 \in 1 .. n + 1
    BY <1>2
  <2>3. ns[k] = ms[k] /\ new[k] = log[k] /\ new[k + 1] = log[k + 1]
    BY <1>4, <1>7, <2>2
  <2>4. log[k] \in Marks /\ log[k].at \in Nat \ {0} /\ ms[k] \in Sayings
    BY <1>1, <2>2 DEF Marks, n
  <2>5. Here(ms[k], u, log[k].at)
    <3>1. Here(ms[k], s, log[k].at)
      BY <2>1 DEF Follows
    <3>2. ms[k] \in Seq(Int)
      BY <2>4, SayingBytes
    <3> QED
      BY <1>1, <1>2, <2>4, <3>1, <3>2, HereLasts DEF u
  <2>6. ms[k] \in BlockRequests =>
          log[k].due \in 1 .. Len(more) /\ ms[k] = Request(more[log[k].due])
    <3> SUFFICES ASSUME ms[k] \in BlockRequests
                 PROVE  log[k].due \in 1 .. Len(more) /\ ms[k] = Request(more[log[k].due])
      OBVIOUS
    <3>1. log[k].due \in 1 .. a /\ ms[k] = Request(asked[log[k].due])
      BY <2>1 DEF Follows, a
    <3>2. \A x \in 1 .. a : x \in 1 .. Len(more)
      BY <1>2, <1>5
    <3> QED
      BY <1>5, <3>1, <3>2
  <2>7. Follows(ms[k], log[k], log[k + 1], u, more)
    BY <2>1, <2>5, <2>6 DEF Follows
  <2> QED
    BY <2>3, <2>7
<1>11. Follows(ns[n + 1], new[n + 1], new[(n + 1) + 1], u, more)
  <2>1. n + 1 \in 1 .. n + 1 /\ (n + 1) + 1 = n + 2
    BY <1>2
  <2>2. ns[n + 1] = m /\ new[n + 1] = log[n + 1] /\ new[(n + 1) + 1] = z
    BY <1>4, <1>7, <2>1
  <2>3. Here(m, u, log[n + 1].at)
    <3>1. Here(m, s \o m, Len(s) + 1)
      BY <1>1, <1>2, HereAtEnd
    <3> QED
      BY <1>1, <3>1 DEF u, l
  <2>4. z.at = log[n + 1].at + Len(m)
    BY <1>1, <1>2, <1>6 DEF lm
  <2>5. /\ m \in Requests => log[n + 1].grant
        /\ z.grant => m = Intersted \/ (log[n + 1].grant /\ m # NotIntersted)
    BY <1>6 DEF n
  <2>6. IF m \in BlockRequests
        THEN /\ log[n + 1].due \in 1 .. Len(more) /\ m = Request(more[log[n + 1].due])
             /\ z.due = log[n + 1].due + 1
        ELSE z.due = log[n + 1].due
    <3>1. CASE m \in BlockRequests
      <4>1. a + 1 \in 1 .. Len(more) /\ z.due = a + 2
        BY <1>2, <1>5, <1>6, <3>1
      <4> QED
        BY <1>1, <1>2, <1>5, <3>1, <4>1
    <3>2. CASE m \notin BlockRequests
      BY <1>1, <1>2, <1>6, <3>2
    <3> QED
      BY <3>1, <3>2
  <2>7. Follows(m, log[n + 1], z, u, more)
    BY <2>3, <2>4, <2>5, <2>6 DEF Follows
  <2> QED
    BY <2>2, <2>7
<1>12. \A k \in 1 .. n + 1 : Follows(ns[k], new[k], new[k + 1], u, more)
  <2> SUFFICES ASSUME NEW k \in 1 .. n + 1
               PROVE  Follows(ns[k], new[k], new[k + 1], u, more)
    OBVIOUS
  <2>1. k \in 1 .. n \/ k = n + 1
    BY <1>2
  <2> QED
    BY <1>10, <1>11, <2>1
<1>13. new[1] = log[1]
  <2>1. 1 \in 1 .. n + 1
    BY <1>2
  <2> QED
    BY <1>7, <2>1
<1>14. Script(ns, new, u, more)
  <2>1. Len(ns) + 1 = n + 2
    BY <1>2, <1>4
  <2>2. z.at = Len(u) + 1 /\ z.due = Len(more) + 1
    BY <1>2, <1>3, <1>5, <1>6
  <2> QED
    BY <1>1, <1>3, <1>4, <1>5, <1>7, <1>9, <1>12, <1>13, <2>1, <2>2 DEF Script
<1> QED
  BY <1>6, <1>7, <1>13, <1>14 DEF ns, u, n

(* The block that m asks for is due first, and then no longer.                *)
Without(m, asked) == IF m \in BlockRequests THEN Tail(asked) ELSE asked

(* The first message is read.                                                *)
LEMMA ScriptIsRead ==
    ASSUME NEW ms, NEW log, NEW s, NEW asked, Script(ms, log, s, asked), Len(ms) # 0,
           NEW m, m = ms[1]
    PROVE  /\ m \in Sayings /\ Here(m, s, 1)
           /\ m \in Requests => log[1].grant
           /\ log[2].grant => m = Intersted \/ (log[1].grant /\ m # NotIntersted)
           /\ m \in BlockRequests => asked # <<>> /\ m = Request(asked[1])
           /\ Len(ms) > 0
           /\ \E new : /\ Script(Tail(ms), new, SubSeq(s, Len(m) + 1, Len(s)), Without(m, asked))
                       /\ new[1].grant = log[2].grant
                       /\ new[Len(Tail(ms)) + 1].grant = log[Len(ms) + 1].grant
<1> DEFINE n == Len(ms)
           lm == Len(m)
           l == Len(s)
           a == Len(asked)
           d == IF m \in BlockRequests THEN 1 ELSE 0
           back(z) == [at |-> z.at - lm, due |-> z.due - d, grant |-> z.grant]
           new == [k \in 1 .. n |-> back(log[k + 1])]
           u == SubSeq(s, lm + 1, Len(s))
           as == Without(m, asked)
           ns == Tail(ms)
<1>1. /\ ms \in Seq(Sayings) /\ s \in Seq(Int) /\ asked \in Seq(Blocks)
      /\ log \in [1 .. n + 1 -> Marks]
      /\ log[1].at = 1 /\ log[1].due = 1
      /\ log[n + 1].at = l + 1 /\ log[n + 1].due = a + 1
      /\ \A j, k \in 1 .. n + 1 :
            j <= k => log[j].at <= log[k].at /\ log[j].due <= log[k].due
      /\ \A k \in 1 .. n : Follows(ms[k], log[k], log[k + 1], s, asked)
  BY DEF Script
<1>2. /\ n \in Nat \ {0} /\ 1 \in 1 .. n /\ 1 \in 1 .. n + 1 /\ 2 \in 1 .. n + 1
      /\ n + 1 \in 1 .. n + 1
      /\ 1 + 1 = 2 /\ l \in Nat /\ a \in Nat /\ d \in {0, 1}
  BY <1>1
<1>3. m \in Sayings
  BY <1>1, <1>2
<1>4. Follows(m, log[1], log[2], s, asked)
  BY <1>1, <1>2
<1>5. m \in Seq(Int) /\ lm \in Nat
  BY <1>3, SayingBytes
<1>6. Here(m, s, 1) /\ log[2].at = 1 + lm
  BY <1>1, <1>4 DEF Follows
<1>7. lm <= l
  BY <1>1, <1>5, <1>6, HereAtOne
<1>8. /\ u \in Seq(Int) /\ Len(u) = l - lm
      /\ \A k \in 1 .. l - lm : u[k] = s[lm + k]
  <2>1. lm \in 0 .. l
    BY <1>2, <1>5, <1>7
  <2> QED
    BY <1>1, <2>1, Dropped
<1>9. m \in BlockRequests => 1 \in 1 .. a /\ m = Request(asked[1]) /\ log[2].due = 2
  BY <1>1, <1>4 DEF Follows
<1>10. log[2].due = 1 + d
  BY <1>1, <1>4, <1>9 DEF Follows
<1>11. /\ as \in Seq(Blocks) /\ Len(as) = a - d
       /\ \A k \in 1 .. a - d : as[k] = asked[k + d]
  <2>1. CASE m \in BlockRequests
    <3>1. asked # <<>>
      BY <1>1, <1>9, <2>1
    <3>2. /\ Tail(asked) \in Seq(Blocks) /\ Len(Tail(asked)) = a - 1
          /\ \A k \in 1 .. Len(Tail(asked)) : Tail(asked)[k] = asked[k + 1]
      BY <1>1, <3>1, HeadTailProperties
    <3> QED
      BY <2>1, <3>2 DEF Without
  <2>2. CASE m \notin BlockRequests
    <3>1. \A k \in 1 .. a - 0 : k + 0 = k
      BY <1>2
    <3> QED
      BY <1>1, <1>2, <2>2, <3>1 DEF Without
  <2> QED
    BY <2>1, <2>2
<1>12. /\ ns \in Seq(Sayings) /\ Len(ns) = n - 1
       /\ \A k \in 1 .. n - 1 : ns[k] = ms[k + 1]
  <2>1. ms # <<>>
    BY <1>1, <1>2
  <2> QED
    BY <1>1, <2>1, HeadTailProperties
<1>13. \A k \in 1 .. n : k + 1 \in 1 .. n + 1 /\ 2 <= k + 1
  BY <1>2
<1> HIDE DEF n, lm, l, a, d, u, as, ns
<1>14. ASSUME NEW k \in 1 .. n
       PROVE  /\ log[k + 1] \in Marks /\ log[k + 1].at \in Nat /\ log[k + 1].due \in Nat
              /\ log[k + 1].at > lm /\ log[k + 1].due > d
              /\ back(log[k + 1]) \in Marks
  <2>1. log[k + 1] \in Marks
    BY <1>1, <1>13
  <2>2. log[k + 1].at \in Nat /\ log[k + 1].due \in Nat /\ log[k + 1].grant \in BOOLEAN
    BY <2>1 DEF Marks
  <2>3. log[2].at <= log[k + 1].at /\ log[2].due <= log[k + 1].due
    BY <1>1, <1>2, <1>13
  <2>4. log[k + 1].at > lm /\ log[k + 1].due > d
    BY <1>2, <1>5, <1>6, <1>10, <2>2, <2>3
  <2> QED
    BY <1>2, <1>5, <2>1, <2>2, <2>4 DEF Marks
<1>15. /\ new \in [1 .. n -> Marks]
       /\ \A k \in 1 .. n : /\ new[k].at = log[k + 1].at - lm
                            /\ new[k].due = log[k + 1].due - d
                            /\ new[k].grant = log[k + 1].grant
  BY <1>14
<1> HIDE DEF new, back
<1>16. \A j, k \in 1 .. n :
         j <= k => new[j].at <= new[k].at /\ new[j].due <= new[k].due
  <2> SUFFICES ASSUME NEW j \in 1 .. n, NEW k \in 1 .. n, j <= k
               PROVE  new[j].at <= new[k].at /\ new[j].due <= new[k].due
    OBVIOUS
  <2>1. j + 1 <= k + 1
    BY <1>2
  <2>2. log[j + 1].at <= log[k + 1].at /\ log[j + 1].due <= log[k + 1].due
    BY <1>1, <1>13, <2>1
  <2>3. /\ log[j + 1].at \in Nat /\ log[j + 1].due \in Nat
        /\ log[k + 1].at \in Nat /\ log[k + 1].due \in Nat
    BY <1>14
  <2>4. /\ new[j].at = log[j + 1].at - lm /\ new[j].due = log[j + 1].due - d
        /\ new[k].at = log[k + 1].at - lm /\ new[k].due = log[k + 1].due - d
    BY <1>15
  <2> DEFINE x == log[j + 1].at
             y == log[k + 1].at
             v == log[j + 1].due
             w == log[k + 1].due
  <2>5. x \in Nat /\ y \in Nat /\ x <= y /\ v \in Nat /\ w \in Nat /\ v <= w
    BY <2>2, <2>3
  <2> HIDE DEF x, y, v, w
  <2>6. x - lm <= y - lm /\ v - d <= w - d
    BY <1>2, <1>5, <2>5
  <2> QED
    BY <2>4, <2>6 DEF x, y, v, w
<1>17. ASSUME NEW k \in 1 .. n - 1
       PROVE  Follows(ns[k], new[k], new[k + 1], u, as)
  <2> DEFINE x == ms[k + 1]
             p == log[k + 1]
             q == log[(k + 1) + 1]
  <2>1. /\ k \in 1 .. n /\ k + 1 \in 1 .. n
    BY <1>2
  <2>2. Follows(x, p, q, s, asked) /\ x \in Sayings
    BY <1>1, <2>1 DEF n
  <2>3. /\ new[k].at = p.at - lm /\ new[k].due = p.due - d /\ new[k].grant = p.grant
        /\ new[k + 1].at = q.at - lm /\ new[k + 1].due = q.due - d
        /\ new[k + 1].grant = q.grant
    BY <1>15, <2>1
  <2>4. /\ p.at \in Nat /\ p.due \in Nat /\ p.at > lm /\ p.due > d
        /\ q.at \in Nat /\ q.due \in Nat
    BY <1>14, <2>1
  <2>5. ns[k] = x
    BY <1>12
  <2>6. x \in Seq(Int) /\ Len(x) \in Nat
    BY <2>2, SayingBytes
  <2>7. /\ Here(x, s, p.at) /\ q.at = p.at + Len(x)
        /\ x \in Requests => p.grant
        /\ q.grant => x = Intersted \/ (p.grant /\ x # NotIntersted)
        /\ x \in BlockRequests =>
            p.due \in 1 .. a /\ x = Request(asked[p.due]) /\ q.due = p.due + 1
        /\ x \notin BlockRequests => q.due = p.due
    BY <2>2 DEF Follows, a
  <2> HIDE DEF x, p, q
  <2>8. Here(x, u, new[k].at)
    <3>1. lm < p.at /\ lm <= Len(s)
      BY <1>2, <1>5, <1>7, <2>4 DEF l
    <3>2. Here(x, SubSeq(s, lm + 1, Len(s)), p.at - lm)
      BY <1>1, <1>5, <2>4, <2>6, <2>7, <3>1, HereShifts
    <3> QED
      BY <2>3, <3>2 DEF u
  <2>9. new[k + 1].at = new[k].at + Len(x)
    BY <1>5, <2>3, <2>4, <2>6, <2>7
  <2>10. CASE x \in BlockRequests
    <3>1. p.due - d \in 1 .. a - d /\ (p.due - d) + d = p.due
      BY <1>2, <2>4, <2>7, <2>10
    <3>2. as[p.due - d] = asked[p.due]
      BY <1>11, <3>1
    <3>3. q.due - d = (p.due - d) + 1
      BY <1>2, <2>4, <2>7, <2>10
    <3>4. new[k].due \in 1 .. Len(as) /\ x = Request(as[new[k].due])
      BY <1>11, <2>3, <2>7, <2>10, <3>1, <3>2
    <3> QED
      BY <2>3, <2>5, <2>7, <2>8, <2>9, <2>10, <3>3, <3>4 DEF Follows
  <2>11. CASE x \notin BlockRequests
    BY <2>3, <2>5, <2>7, <2>8, <2>9, <2>11 DEF Follows
  <2> QED
    BY <2>10, <2>11
<1>18. Script(ns, new, u, as)
  <2>1. /\ Len(ns) + 1 = n /\ n \in 1 .. n
    BY <1>2, <1>12
  <2>2. new[1].at = 1 /\ new[1].due = 1
    BY <1>2, <1>5, <1>6, <1>10, <1>15
  <2>3. new[n].at = Len(u) + 1 /\ new[n].due = Len(as) + 1
    BY <1>1, <1>2, <1>5, <1>8, <1>11, <1>15, <2>1
  <2>4. \A k \in 1 .. Len(ns) : Follows(ns[k], new[k], new[k + 1], u, as)
    BY <1>12, <1>17
  <2> QED
    BY <1>8, <1>11, <1>12, <1>15, <1>16, <2>1, <2>2, <2>3, <2>4 DEF Script
<1>19. new[1].grant = log[2].grant /\ new[Len(ns) + 1].grant = log[n + 1].grant
  <2>1. Len(ns) + 1 = n /\ n \in 1 .. n
    BY <1>2, <1>12
  <2> QED
    BY <1>2, <1>15, <2>1
<1>20. /\ m \in Requests => log[1].grant
       /\ log[2].grant => m = Intersted \/ (log[1].grant /\ m # NotIntersted)
  BY <1>4 DEF Follows
<1>21. m \in BlockRequests => asked # <<>> /\ m = Request(asked[1])
  BY <1>1, <1>9 DEF a
<1>22. Len(ms) > 0
  BY <1>2 DEF n
<1> QED
  BY <1>3, <1>6, <1>18, <1>19, <1>20, <1>21, <1>22 DEF ns, u, as, n, lm

(* A guest says m.                                                           *)
LEMMA StoryGrows ==
    ASSUME NEW s, NEW asked, NEW first \in BOOLEAN, NEW last \in BOOLEAN, NEW quiet \in BOOLEAN,
           Story(s, asked, first, last, quiet),
           NEW m \in Sayings, NEW more, Adds(m, asked, more), m \in Requests => last,
           NEW lastNow \in BOOLEAN, lastNow => m = Intersted \/ (last /\ m # NotIntersted),
           NEW quietNow \in BOOLEAN, quietNow => quiet /\ m \in CalmSayings
    PROVE  Story(s \o m, more, first, lastNow, quietNow)
<1>1. PICK ms, log :
        /\ Script(ms, log, s, asked)
        /\ log[1].grant => first
        /\ last => log[Len(ms) + 1].grant
        /\ quiet => \A k \in 1 .. Len(ms) : ms[k] \in CalmSayings
  BY DEF Story
<1>2. /\ m \in Requests => log[Len(ms) + 1].grant
      /\ lastNow => m = Intersted \/ (log[Len(ms) + 1].grant /\ m # NotIntersted)
  BY <1>1
<1>3. PICK new : /\ Script(Append(ms, m), new, s \o m, more)
                 /\ new[1].grant = log[1].grant
                 /\ new[Len(ms) + 2].grant = lastNow
  BY <1>1, <1>2, ScriptGrows
<1> DEFINE ns == Append(ms, m)
           n == Len(ms)
<1>4. ms \in Seq(Sayings)
  BY <1>1 DEF Script
<1>5. /\ n \in Nat /\ Len(ns) = n + 1 /\ ns[n + 1] = m
      /\ \A k \in 1 .. n : ns[k] = ms[k]
  BY <1>4
<1> HIDE DEF ns, n
<1>6. quietNow => \A k \in 1 .. Len(ns) : ns[k] \in CalmSayings
  <2> SUFFICES ASSUME quietNow, NEW k \in 1 .. n + 1
               PROVE  ns[k] \in CalmSayings
    BY <1>5
  <2>1. k \in 1 .. n \/ k = n + 1
    BY <1>5
  <2> QED
    BY <1>1, <1>5, <2>1 DEF n
<1>7. new[Len(ns) + 1].grant = lastNow
  <2>1. Len(ns) + 1 = n + 2
    BY <1>5
  <2> QED
    BY <1>3, <2>1 DEF n
<1>8. Script(ns, new, s \o m, more)
  BY <1>3 DEF ns
<1> QED
  BY <1>1, <1>3, <1>6, <1>7, <1>8 DEF Story

(* m is the first message of the stream, and is answered when first.          *)
Leads(m, s, asked, first, quiet) ==
    /\ m \in Sayings /\ Here(m, s, 1)
    /\ m \in Requests => first
    /\ m \in BlockRequests => asked # <<>> /\ m = Request(asked[1])
    /\ quiet => m \in CalmSayings

LEMMA StoryIsRead ==
    ASSUME NEW s, s # <<>>, NEW asked, NEW first \in BOOLEAN, NEW last \in BOOLEAN,
           NEW quiet \in BOOLEAN, Story(s, asked, first, last, quiet)
    PROVE  \E m : /\ Leads(m, s, asked, first, quiet)
                  /\ \A now \in BOOLEAN :
                       (m = Intersted \/ (first /\ m # NotIntersted) => now) =>
                         Story(SubSeq(s, Len(m) + 1, Len(s)), Without(m, asked), now, last, quiet)
<1>1. PICK ms, log :
        /\ Script(ms, log, s, asked)
        /\ log[1].grant => first
        /\ last => log[Len(ms) + 1].grant
        /\ quiet => \A k \in 1 .. Len(ms) : ms[k] \in CalmSayings
  BY DEF Story
<1> DEFINE n == Len(ms)
           m == ms[1]
           u == SubSeq(s, Len(m) + 1, Len(s))
           ns == Tail(ms)
<1>2. n # 0
  <2> SUFFICES ASSUME n = 0
               PROVE  FALSE
    OBVIOUS
  <2>1. log[1].at = 1 /\ log[0 + 1].at = Len(s) + 1 /\ s \in Seq(Int)
    BY <1>1 DEF Script
  <2>2. Len(s) = 0
    BY <2>1
  <2> QED
    BY <2>1, <2>2
<1>3. /\ m \in Sayings /\ Here(m, s, 1)
      /\ m \in Requests => log[1].grant
      /\ log[2].grant => m = Intersted \/ (log[1].grant /\ m # NotIntersted)
      /\ m \in BlockRequests => asked # <<>> /\ m = Request(asked[1])
      /\ n > 0
      /\ \E new : /\ Script(ns, new, u, Without(m, asked))
                  /\ new[1].grant = log[2].grant
                  /\ new[Len(ns) + 1].grant = log[n + 1].grant
  BY <1>1, <1>2, ScriptIsRead
<1>4. ms \in Seq(Sayings) /\ ms # <<>> /\ 1 \in 1 .. n
  BY <1>1, <1>2 DEF Script
<1>5. Leads(m, s, asked, first, quiet)
  BY <1>1, <1>3, <1>4 DEF Leads
<1>6. quiet => \A k \in 1 .. Len(ns) : ns[k] \in CalmSayings
  <2> SUFFICES ASSUME quiet, NEW k \in 1 .. Len(ns)
               PROVE  ns[k] \in CalmSayings
    OBVIOUS
  <2>1. Len(ns) = n - 1 /\ ns[k] = ms[k + 1]
    BY <1>4, HeadTailProperties
  <2>2. n \in Nat
    BY <1>4
  <2> HIDE DEF ns, n
  <2>3. k + 1 \in 1 .. n
    BY <2>1, <2>2
  <2> QED
    BY <1>1, <2>1, <2>3 DEF n
<1>7. ASSUME NEW now \in BOOLEAN, m = Intersted \/ (first /\ m # NotIntersted) => now
      PROVE  Story(u, Without(m, asked), now, last, quiet)
  <2>1. PICK new : /\ Script(ns, new, u, Without(m, asked))
                   /\ new[1].grant = log[2].grant
                   /\ new[Len(ns) + 1].grant = log[n + 1].grant
    BY <1>3
  <2>2. new[1].grant => now
    BY <1>1, <1>3, <1>7, <2>1
  <2>3. last => new[Len(ns) + 1].grant
    BY <1>1, <2>1
  <2> HIDE DEF ns, u, m
  <2> QED
    BY <1>6, <2>1, <2>2, <2>3 DEF Story
<1> QED
  BY <1>5, <1>7

-----------------------------------------------------------------------------
(* What guests say                                                           *)

(* The longer request is none of those for a block.                           *)
LEMMA TooLongIsNone ==
    ASSUME NEW c, IsSeeder(c), NEW b \in TooLong, NEW x \in Blocks
    PROVE  Request(b) # Request(x)
<1> SUFFICES ASSUME Request(b) = Request(x)
             PROVE  FALSE
  OBVIOUS
<1> DEFINE m == Request(b)
<1>1. /\ Shape(m, REQUEST, 13)
      /\ HasWord(m, 6, b[1]) /\ HasWord(m, 10, b[2]) /\ HasWord(m, 14, b[3])
  BY RequestBytes
<1>2. /\ HasWord(m, 6, x[1]) /\ HasWord(m, 10, x[2]) /\ HasWord(m, 14, x[3])
  <2>1. /\ HasWord(Request(x), 6, x[1]) /\ HasWord(Request(x), 10, x[2])
        /\ HasWord(Request(x), 14, x[3])
    BY RequestBytes
  <2> QED
    BY <2>1
<1>3. /\ b[1] \in Int31 /\ b[2] \in Int31 /\ b[3] \in Int31
      /\ x[1] \in Int31 /\ x[2] \in Int31 /\ x[3] \in Int31
  BY BlockFits, TooLongFails
<1> HIDE DEF m
<1>4. m \in Seq(Int) /\ Len(m) = 17
  BY <1>1 DEF Shape
<1>5. ASSUME NEW k \in {6, 10, 14}, NEW p \in Int31, NEW q \in Int31,
             HasWord(m, k, p), HasWord(m, k, q)
      PROVE  p = q
  <2>1. k \in Nat \ {0} /\ k + 3 <= Len(m)
    BY <1>4
  <2> QED
    BY <1>4, <1>5, <2>1, WordIsRead
<1>6. b[1] = x[1] /\ b[2] = x[2] /\ b[3] = x[3]
  BY <1>1, <1>2, <1>3, <1>5
<1>7. InPiece(x[1], x[2], x[3]) /\ CanRead(c, x[1], x[2], x[3])
  <2>1. /\ x[1] \in Pieces /\ x[2] \in Int31 /\ x[3] \in Int31
        /\ x[2] + x[3] \in 0 .. PieceSize
        /\ x[1] * PieceSize + x[2] \in 0 .. FileSize - x[3]
    BY BlockFits
  <2>2. InPiece(x[1], x[2], x[3])
    BY <2>1 DEF InPiece
  <2> QED
    BY <2>1, <2>2, FitsIsRead DEF IsSeeder
<1> QED
  BY <1>6, <1>7, TooLongFails

LEMMA RequestsAreNone ==
    /\ KeepAlive \notin Requests /\ Intersted \notin Requests /\ NotIntersted \notin Requests
    /\ \A p \in Pieces : Have(p) \notin Requests
    /\ \A has \in SUBSET Pieces : BitFieldMessage(has, no_of_peices) \notin Requests
    /\ BlockRequests \subseteq Requests
    /\ Intersted # NotIntersted
<1>1. \A m \in Requests : Len(m) = 17 /\ m[5] = REQUEST
  BY RequestBytes DEF Requests, Shape
<1>2. KeepAlive \notin Requests
  <2> SUFFICES ASSUME KeepAlive \in Requests
               PROVE  FALSE
    OBVIOUS
  <2>1. Len(KeepAlive) = 17
    BY <1>1
  <2>2. Len(KeepAlive) = 4
    BY KeepAliveBytes
  <2> QED
    BY <2>1, <2>2
<1>3. Intersted \notin Requests /\ NotIntersted \notin Requests /\ Intersted # NotIntersted
  BY <1>1, InterstBytes DEF INTERSTED, NOT_INTERSTED, REQUEST
<1>4. \A p \in Pieces : Have(p) \notin Requests
  <2> SUFFICES ASSUME NEW p \in Pieces
               PROVE  Have(p) \notin Requests
    OBVIOUS
  <2>1. Have(p)[5] = HAVE_PEICE
    BY HaveBytes, PieceFits DEF Shape
  <2> QED
    BY <1>1, <2>1 DEF HAVE_PEICE, REQUEST
<1>5. \A has \in SUBSET Pieces : BitFieldMessage(has, no_of_peices) \notin Requests
  <2> SUFFICES ASSUME NEW has \in SUBSET Pieces
               PROVE  BitFieldMessage(has, no_of_peices) \notin Requests
    OBVIOUS
  <2>1. BitFieldMessage(has, no_of_peices)[5] = BIT_FIELD
    BY BitFieldMessageBytes DEF Shape
  <2> QED
    BY <1>1, <2>1 DEF BIT_FIELD, REQUEST
<1>6. BlockRequests \subseteq Requests
  BY DEF BlockRequests, Requests
<1> QED
  BY <1>2, <1>3, <1>4, <1>5, <1>6

(* m asks for one block, or for none.                                        *)
Asking(m, asked, more) ==
    \/ m \notin BlockRequests /\ more = asked
    \/ \E b \in Blocks : m = Request(b) /\ more = Append(asked, b)

LEMMA AskingAdds ==
    ASSUME NEW m, NEW asked, NEW more, Asking(m, asked, more), NEW seq \in Seq(Blocks)
    PROVE  \E new : Adds(m, seq, new) /\ (seq = asked => new = more)
<1>1. CASE m \notin BlockRequests /\ more = asked
  <2>1. Adds(m, seq, seq)
    BY <1>1 DEF Adds
  <2> QED
    BY <1>1, <2>1
<1>2. CASE \E b \in Blocks : m = Request(b) /\ more = Append(asked, b)
  <2>1. PICK b \in Blocks : m = Request(b) /\ more = Append(asked, b)
    BY <1>2
  <2> DEFINE new == Append(seq, b)
  <2>2. /\ new \in Seq(Blocks) /\ Len(new) = Len(seq) + 1 /\ new[Len(seq) + 1] = b
        /\ \A k \in 1 .. Len(seq) : new[k] = seq[k]
    OBVIOUS
  <2>3. m \in BlockRequests
    BY <2>1 DEF BlockRequests
  <2> HIDE DEF new
  <2>4. Adds(m, seq, new)
    BY <2>1, <2>2, <2>3 DEF Adds
  <2> QED
    BY <2>1, <2>4 DEF new
<1> QED
  BY <1>1, <1>2 DEF Asking

(* Fewer streams are quiet.                                                  *)
LEMMA StoryFades ==
    ASSUME NEW s, NEW asked, NEW first, NEW last, NEW quiet, NEW less, less => quiet,
           Story(s, asked, first, last, quiet)
    PROVE  Story(s, asked, first, last, less)
BY DEF Story

(* Parts of a stream.                                                        *)
LEMMA SameElements ==
    ASSUME NEW a \in Seq(Int), NEW b \in Seq(Int), Len(a) = Len(b),
           \A k \in 1 .. Len(b) : a[k] = b[k]
    PROVE  a = b
<1>1. \A k \in 1 .. Len(a) : a[k] = b[k]
  OBVIOUS
<1> QED
  BY <1>1

LEMMA PartsJoin ==
    ASSUME NEW w \in Seq(Int), NEW m \in Seq(Int), NEW k \in 1 .. Len(m)
    PROVE  /\ w \o SubSeq(m, 1, k) \in Seq(Int)
           /\ SubSeq(m, k + 1, Len(m)) \in Seq(Int)
           /\ (w \o SubSeq(m, 1, k)) \o SubSeq(m, k + 1, Len(m)) = w \o m
           /\ w \o SubSeq(m, 1, k) # <<>>
<1> DEFINE a == SubSeq(m, 1, k)
           b == SubSeq(m, k + 1, Len(m))
           l == Len(m)
           lw == Len(w)
           wa == w \o a
           s == wa \o b
           t == w \o m
<1>0. l \in Nat /\ k \in Nat /\ k <= l /\ k >= 1 /\ lw \in Nat
  OBVIOUS
<1>1. a \in Seq(Int) /\ Len(a) = k /\ \A j \in 1 .. k : a[j] = m[j]
  OBVIOUS
<1>2. b \in Seq(Int) /\ Len(b) = l - k /\ \A j \in 1 .. l - k : b[j] = m[k + j]
  BY Dropped
<1> HIDE DEF a, b
<1>3. /\ wa \in Seq(Int) /\ Len(wa) = lw + k
      /\ \A j \in 1 .. lw : wa[j] = w[j]
      /\ \A j \in 1 .. k : wa[lw + j] = a[j]
  BY <1>1, Joined
<1> HIDE DEF wa
<1>4. /\ s \in Seq(Int) /\ Len(s) = (lw + k) + (l - k)
      /\ \A j \in 1 .. lw + k : s[j] = wa[j]
      /\ \A j \in 1 .. l - k : s[(lw + k) + j] = b[j]
  <2>1. /\ s \in Seq(Int) /\ Len(s) = Len(wa) + Len(b)
        /\ \A j \in 1 .. Len(wa) : s[j] = wa[j]
        /\ \A j \in 1 .. Len(b) : s[Len(wa) + j] = b[j]
    BY <1>2, <1>3, Joined
  <2> HIDE DEF s, l, lw
  <2>2. Len(wa) = lw + k /\ Len(b) = l - k
    BY <1>2, <1>3
  <2> QED
    BY <2>1, <2>2, Zenon
<1>5. /\ t \in Seq(Int) /\ Len(t) = lw + l
      /\ \A j \in 1 .. lw : t[j] = w[j]
      /\ \A j \in 1 .. l : t[lw + j] = m[j]
  BY Joined
<1> HIDE DEF s, t, l, lw
<1>6. Len(s) = Len(t)
  BY <1>0, <1>4, <1>5
<1>7. ASSUME NEW j \in 1 .. Len(t)
      PROVE  s[j] = t[j]
  <2>0. j \in Nat /\ j >= 1 /\ j <= lw + l
    BY <1>0, <1>5
  <2>1. CASE j <= lw
    <3>1. j \in 1 .. lw /\ j \in 1 .. lw + k
      BY <1>0, <2>0, <2>1
    <3> QED
      BY <1>3, <1>4, <1>5, <3>1
  <2>2. CASE lw < j /\ j <= lw + k
    <3> DEFINE h == j - lw
    <3>1. h \in 1 .. k /\ h \in 1 .. l /\ lw + h = j /\ j \in 1 .. lw + k
      BY <1>0, <2>0, <2>2
    <3> HIDE DEF h
    <3>2. s[j] = wa[lw + h] /\ t[j] = m[h]
      BY <1>4, <1>5, <3>1
    <3> QED
      BY <1>1, <1>3, <3>1, <3>2
  <2>3. CASE lw + k < j
    <3> DEFINE h == j - (lw + k)
    <3>1. /\ h \in 1 .. l - k /\ k + h \in 1 .. l
          /\ (lw + k) + h = j /\ lw + (k + h) = j
      BY <1>0, <2>0, <2>3
    <3> HIDE DEF h
    <3>2. s[j] = b[h] /\ t[j] = m[k + h]
      BY <1>4, <1>5, <3>1
    <3> QED
      BY <1>2, <3>1, <3>2
  <2> QED
    BY <1>0, <2>0, <2>1, <2>2, <2>3
<1>8. s = t
  BY <1>4, <1>5, <1>6, <1>7, SameElements
<1>9. wa # <<>>
  <2>1. Len(wa) # 0
    BY <1>0, <1>3
  <2> QED
    BY <2>1
<1> QED
  BY <1>2, <1>3, <1>8, <1>9 DEF s, t, wa, a, b

(* What is read from the front of w is read from the stream w begins.         *)
LEMMA FrontDropped ==
    ASSUME NEW w \in Seq(Int), NEW t \in Seq(Int), NEW n \in 0 .. Len(w)
    PROVE  /\ SubSeq(w, n + 1, Len(w)) \in Seq(Int)
           /\ SubSeq(w, n + 1, Len(w)) \o t = SubSeq(w \o t, n + 1, Len(w \o t))
<1> DEFINE v == SubSeq(w, n + 1, Len(w))
           s == w \o t
           u == SubSeq(s, n + 1, Len(s))
           x == v \o t
           lw == Len(w)
           lt == Len(t)
           ls == Len(s)
<1>0. lw \in Nat /\ lt \in Nat /\ n \in Nat /\ n <= lw
  OBVIOUS
<1>1. v \in Seq(Int) /\ Len(v) = lw - n /\ \A k \in 1 .. lw - n : v[k] = w[n + k]
  BY Dropped
<1>2. /\ s \in Seq(Int) /\ ls = lw + lt
      /\ \A k \in 1 .. lw : s[k] = w[k]
      /\ \A k \in 1 .. lt : s[lw + k] = t[k]
  BY Joined
<1>3. n \in 0 .. ls
  <2> HIDE DEF ls, lw, lt
  <2> QED
    BY <1>0, <1>2
<1> HIDE DEF s, v
<1>4. u \in Seq(Int) /\ Len(u) = ls - n /\ \A k \in 1 .. ls - n : u[k] = s[n + k]
  BY <1>2, <1>3, Dropped
<1>5. /\ x \in Seq(Int) /\ Len(x) = (lw - n) + lt
      /\ \A k \in 1 .. lw - n : x[k] = v[k]
      /\ \A k \in 1 .. lt : x[(lw - n) + k] = t[k]
  <2>1. /\ x \in Seq(Int) /\ Len(x) = Len(v) + lt
        /\ \A k \in 1 .. Len(v) : x[k] = v[k]
        /\ \A k \in 1 .. lt : x[Len(v) + k] = t[k]
    BY <1>1, Joined
  <2> HIDE DEF x, lw, lt
  <2>2. Len(v) = lw - n
    BY <1>1
  <2> QED
    BY <2>1, <2>2, Zenon
<1> HIDE DEF u, x, lw, lt, ls
<1>6. Len(x) = Len(u)
  BY <1>0, <1>2, <1>4, <1>5
<1>7. ASSUME NEW k \in 1 .. Len(u)
      PROVE  x[k] = u[k]
  <2>0. k \in Nat /\ k >= 1 /\ k <= lw + lt - n /\ k \in 1 .. ls - n
    BY <1>0, <1>2, <1>4
  <2>1. CASE k <= lw - n
    <3>1. k \in 1 .. lw - n /\ n + k \in 1 .. lw
      BY <1>0, <2>0, <2>1
    <3> QED
      BY <1>1, <1>2, <1>4, <1>5, <2>0, <3>1
  <2>2. CASE ~(k <= lw - n)
    <3> DEFINE h == k - (lw - n)
    <3>1. h \in 1 .. lt /\ (lw - n) + h = k /\ lw + h = n + k
      BY <1>0, <2>0, <2>2
    <3> HIDE DEF h
    <3>2. x[k] = t[h] /\ u[k] = s[lw + h]
      BY <1>4, <1>5, <2>0, <3>1
    <3> QED
      BY <1>2, <3>1, <3>2
  <2> QED
    BY <2>1, <2>2
<1>8. x = u
  BY <1>4, <1>5, <1>6, <1>7, SameElements
<1> QED
  BY <1>1, <1>8 DEF x, u, v, s, ls

-----------------------------------------------------------------------------
(* The invariant                                                             *)

GuestType ==
    [open : BOOLEAN, wants : BOOLEAN, wanted : BOOLEAN, polite : BOOLEAN,
     rest : Seq(Int), asked : Seq(Blocks), served : BOOLEAN, misled : BOOLEAN]

(* The values of the variables.  The client is a seeder, and serves a guest    *)
(* of which there is something to read.                                     *)
TypesHold ==
    /\ IsSeeder(client)
    /\ serving \in Slots \cup {NULL}
    /\ wire \in [Slots -> Seq(Int)]
    /\ guest \in [Slots -> GuestType]
    /\ calm \in BOOLEAN
    /\ \A i \in Slots : serving = i => wire[i] # <<>> \/ ~guest[i].open

(* While all is calm, all guests are polite, and those connected are there.    *)
CalmHolds ==
    calm => /\ client.proc = "up"
            /\ \A i \in Slots :
                guest[i].polite /\ (client.conn[i].in_use => guest[i].open)

(* Behind the blocks that a guest may expect there is the story of what is     *)
(* still unread, which begins with what the client has granted and ends with  *)
(* what the guest said last.  In a torrent of more than eight pieces, where    *)
(* the bits do not have their numbers, the guest may expect others than those *)
(* that the story asks for.                                                 *)
HasStory(i) ==
    \E asked :
        /\ Story(wire[i] \o guest[i].rest, asked, Granted(client, i), guest[i].wants, calm)
        /\ no_of_peices <= 8 => asked = guest[i].asked /\ ~guest[i].misled

StoriesHold == \A i \in Slots : guest[i].open /\ guest[i].polite => HasStory(i)

Inv == TypesHold /\ CalmHolds /\ StoriesHold

(* The slot of one guest is as it was.                                       *)
SameGuest(j) ==
    /\ wire'[j] = wire[j] /\ guest'[j] = guest[j]
    /\ client'.conn[j] = client.conn[j]

LEMMA GrantType ==
    ASSUME NEW c, IsSeeder(c), NEW i \in Slots
    PROVE  Granted(c, i) \in BOOLEAN
BY ConnOf DEF Granted, ConnType

LEMMA SameStory ==
    ASSUME NEW j \in Slots, SameGuest(j), calm' => calm, HasStory(j)
    PROVE  HasStory(j)'
<1> DEFINE s == wire[j] \o guest[j].rest
           g == Granted(client, j)
           w == guest[j].wants
<1>1. PICK asked :
        /\ Story(s, asked, g, w, calm)
        /\ no_of_peices <= 8 => asked = guest[j].asked /\ ~guest[j].misled
  BY DEF HasStory
<1>2. Story(s, asked, g, w, calm')
  BY <1>1, StoryFades
<1>3. /\ (wire[j] \o guest[j].rest)' = s /\ Granted(client, j)' = g
      /\ (guest[j].wants)' = w /\ (guest[j].asked)' = guest[j].asked
      /\ (guest[j].misled)' = guest[j].misled
  BY DEF SameGuest, Granted
<1>4. Story(wire'[j] \o guest'[j].rest, asked, Granted(client', j), guest'[j].wants, calm')
  BY <1>2, <1>3 DEF Granted
<1>5. no_of_peices <= 8 => asked = guest'[j].asked /\ ~guest'[j].misled
  BY <1>1, <1>3
<1> QED
  BY <1>4, <1>5 DEF HasStory

LEMMA InitHolds == Init => Inv
<1> SUFFICES ASSUME Init
             PROVE  Inv
  OBVIOUS
<1>1. IsSeeder(client)
  <2> DEFINE b == { Cell(p) : p \in Pieces } \ {NoCell}
             st == [q \in Index |-> IF q = -1 THEN NOT_DOWNLOADED ELSE NOT_DOWNLOADED]
             rk == [p \in Pieces |-> 0]
             cn == [in_use |-> FALSE, am_chocking |-> FALSE, am_intersted |-> FALSE,
                    peer_chocking |-> FALSE, peer_intersted |-> FALSE,
                    request_sent |-> FALSE, intersted_peice |-> 0, bit_field |-> NULL]
             cs == [s \in Slots |-> cn]
  <2>1. b \in SUBSET Int
    <3> SUFFICES ASSUME NEW p \in Pieces
                 PROVE  Cell(p) \in Int
      OBVIOUS
    <3>1. p \in Nat
      BY PieceFits
    <3>2. p \in 0 .. 7 \/ p = 8 \/ p > 8
      BY <3>1
    <3> QED
      BY <3>1, <3>2 DEF Cell, NoCell
  <2>2. st \in [Index -> Status] /\ rk \in [Pieces -> Nat]
    BY DEF Status
  <2>3. cn \in ConnType /\ ~cn.am_intersted
    <3> DEFINE fields == (SUBSET Int) \cup {NULL}
    <3>1. NULL \in fields
      OBVIOUS
    <3> HIDE DEF fields
    <3>2. cn \in [in_use : BOOLEAN, am_chocking : BOOLEAN, am_intersted : BOOLEAN,
                  peer_chocking : BOOLEAN, peer_intersted : BOOLEAN, request_sent : BOOLEAN,
                  intersted_peice : Int, bit_field : fields]
      BY <3>1
    <3> QED
      BY <3>2 DEF ConnType, fields
  <2> HIDE DEF cn
  <2>4. cs \in [Slots -> ConnType] /\ \A k \in Slots : ~cs[k].am_intersted
    BY <2>3
  <2>5. client = [proc |-> "up", seeder |-> TRUE, swaps |-> TRUE, uploaded |-> 0,
                  bits |-> b, stat |-> st, rank |-> rk, conn |-> cs]
    BY DEF Init, NewClient, cn
  <2> HIDE DEF b, st, rk, cs
  <2>6. client \in ClientType
    BY <2>1, <2>2, <2>4, <2>5 DEF ClientType, Procs
  <2>7. client.seeder /\ client.bits = b /\ client.conn = cs
    BY <2>5
  <2> QED
    BY <2>4, <2>6, <2>7 DEF IsSeeder, b
<1>2. NoGuest \in GuestType /\ ~NoGuest.open
  BY DEF NoGuest, GuestType
<1>3. TypesHold
  <2>1. wire \in [Slots -> Seq(Int)] /\ guest \in [Slots -> GuestType]
    BY <1>2 DEF Init
  <2>2. \A i \in Slots : ~guest[i].open
    BY <1>2 DEF Init
  <2>3. serving \in Slots \cup {NULL} /\ calm \in BOOLEAN
    BY DEF Init
  <2> QED
    BY <1>1, <2>1, <2>2, <2>3 DEF TypesHold
<1>4. CalmHolds
  BY DEF Init, NewClient, CalmHolds, NoGuest
<1>5. StoriesHold
  BY <1>2 DEF Init, StoriesHold
<1> QED
  BY <1>3, <1>4, <1>5 DEF Inv

(* What the guest in slot i may say: m, and be g afterwards.                   *)
Speaks(i, m, g) ==
    /\ m \in Seq(Int)
    /\ g \in GuestType /\ g.open
    /\ calm' \in BOOLEAN
    /\ calm' => calm /\ g.polite
    /\ g.polite =>
        /\ guest[i].polite
        /\ m \in Sayings
        /\ m \in Requests => guest[i].wants
        /\ g.wants => m = Intersted \/ (guest[i].wants /\ m # NotIntersted)
        /\ calm' => m \in CalmSayings
        /\ Asking(m, guest[i].asked, g.asked)
        /\ g.misled = guest[i].misled

LEMMA SayHolds ==
    ASSUME Inv, NEW i \in Slots, NEW m, NEW g, Speaks(i, m, g), Say(i, m, g)
    PROVE  Inv'
<1>1. /\ client.proc = "up" /\ guest[i].open /\ guest[i].rest = <<>>
      /\ client' = client /\ serving' = serving
  BY DEF Say
<1>2. PICK k \in 1 .. Len(m) :
        /\ wire' = [wire EXCEPT ![i] = @ \o SubSeq(m, 1, k)]
        /\ guest' = [guest EXCEPT ![i] = [g EXCEPT !.rest = SubSeq(m, k + 1, Len(m))]]
  BY DEF Say
<1> DEFINE w == wire[i]
           v == w \o SubSeq(m, 1, k)
           t == SubSeq(m, k + 1, Len(m))
           h == [g EXCEPT !.rest = t]
<1>3. /\ m \in Seq(Int) /\ g \in GuestType /\ g.open /\ calm' \in BOOLEAN
      /\ calm' => calm /\ g.polite
  BY DEF Speaks
<1>4. /\ IsSeeder(client) /\ wire \in [Slots -> Seq(Int)] /\ guest \in [Slots -> GuestType]
      /\ w \in Seq(Int) /\ guest[i] \in GuestType /\ calm \in BOOLEAN
      /\ serving \in Slots \cup {NULL}
  BY DEF Inv, TypesHold
<1>5. v \in Seq(Int) /\ t \in Seq(Int) /\ v \o t = w \o m /\ v # <<>>
  BY <1>3, <1>4, PartsJoin
<1> HIDE DEF v, t, w
<1>6. wire'[i] = v /\ guest'[i] = h
  BY <1>2, <1>4 DEF v, t, w
<1>7. /\ h \in GuestType /\ h.open /\ h.polite = g.polite /\ h.rest = t /\ h.wants = g.wants
      /\ h.asked = g.asked /\ h.misled = g.misled
  BY <1>3, <1>5 DEF GuestType
<1>8. \A j \in Slots \ {i} : SameGuest(j)
  BY <1>1, <1>2, <1>4 DEF SameGuest
<1>9. wire' \in [Slots -> Seq(Int)] /\ guest' \in [Slots -> GuestType]
  <2>1. wire' = [wire EXCEPT ![i] = v] /\ guest' = [guest EXCEPT ![i] = h]
    BY <1>2 DEF v, t, w
  <2> HIDE DEF h
  <2> QED
    BY <1>4, <1>5, <1>7, <2>1
<1> HIDE DEF h
<1>10. TypesHold'
  <2>1. \A j \in Slots : serving = j => wire'[j] # <<>> \/ ~guest'[j].open
    <3> SUFFICES ASSUME NEW j \in Slots, serving = j
                 PROVE  wire'[j] # <<>> \/ ~guest'[j].open
      OBVIOUS
    <3>1. CASE j = i
      BY <1>5, <1>6, <3>1
    <3>2. CASE j # i
      BY <1>8, <3>2 DEF SameGuest, Inv, TypesHold
    <3> QED
      BY <3>1, <3>2
  <2> QED
    BY <1>1, <1>3, <1>4, <1>9, <2>1 DEF TypesHold
<1>11. CalmHolds'
  <2> SUFFICES ASSUME calm'
               PROVE  /\ client'.proc = "up"
                      /\ \A j \in Slots :
                          guest'[j].polite /\ (client'.conn[j].in_use => guest'[j].open)
    BY DEF CalmHolds
  <2>1. ASSUME NEW j \in Slots
        PROVE  guest'[j].polite /\ (client'.conn[j].in_use => guest'[j].open)
    <3>1. CASE j = i
      BY <1>3, <1>6, <1>7, <3>1
    <3>2. CASE j # i
      BY <1>1, <1>3, <1>8, <2>1, <3>2 DEF SameGuest, Inv, CalmHolds
    <3> QED
      BY <3>1, <3>2
  <2> QED
    BY <1>1, <2>1
<1>12. StoriesHold'
  <2>1. ASSUME NEW j \in Slots \ {i}, guest'[j].open, guest'[j].polite
        PROVE  HasStory(j)'
    <3>1. SameGuest(j)
      BY <1>8
    <3>2. HasStory(j)
      BY <2>1, <3>1 DEF SameGuest, Inv, StoriesHold
    <3> QED
      BY <1>3, <3>1, <3>2, SameStory
  <2>2. ASSUME guest'[i].open, guest'[i].polite
        PROVE  HasStory(i)'
    <3>1. g.polite
      BY <1>6, <1>7, <2>2
    <3>2. /\ guest[i].polite /\ m \in Sayings
          /\ m \in Requests => guest[i].wants
          /\ g.wants => m = Intersted \/ (guest[i].wants /\ m # NotIntersted)
          /\ calm' => m \in CalmSayings
          /\ Asking(m, guest[i].asked, g.asked)
          /\ g.misled = guest[i].misled
      BY <3>1 DEF Speaks
    <3> DEFINE first == Granted(client, i)
               last == guest[i].wants
    <3>3. PICK asked :
            /\ Story(w \o guest[i].rest, asked, first, last, calm)
            /\ no_of_peices <= 8 => asked = guest[i].asked /\ ~guest[i].misled
      BY <1>1, <3>2 DEF Inv, StoriesHold, HasStory, w
    <3>4. w \o guest[i].rest = w
      BY <1>1, <1>4
    <3>5. Story(w, asked, first, last, calm)
      BY <3>3, <3>4
    <3>6. asked \in Seq(Blocks)
      BY <3>5 DEF Story, Script
    <3>7. PICK more : Adds(m, asked, more) /\ (asked = guest[i].asked => more = g.asked)
      BY <3>2, <3>6, AskingAdds
    <3>8. first \in BOOLEAN /\ last \in BOOLEAN /\ g.wants \in BOOLEAN
      BY <1>3, <1>4, GrantType DEF GuestType
    <3>9. calm' => calm /\ m \in CalmSayings
      BY <1>3, <3>2
    <3> HIDE DEF first, last
    <3>10. /\ m \in Requests => last
           /\ g.wants => m = Intersted \/ (last /\ m # NotIntersted)
      BY <3>2 DEF last
    <3>11. Story(w \o m, more, first, g.wants, calm')
      BY <1>3, <1>4, <3>2, <3>5, <3>7, <3>8, <3>9, <3>10, StoryGrows
    <3>12. /\ wire'[i] \o guest'[i].rest = w \o m
           /\ guest'[i].wants = g.wants /\ guest'[i].asked = g.asked
           /\ guest'[i].misled = guest[i].misled
           /\ Granted(client', i) = first
      BY <1>1, <1>5, <1>6, <1>7, <3>2 DEF first
    <3>13. Story(wire'[i] \o guest'[i].rest, more, Granted(client', i), guest'[i].wants, calm')
      BY <3>11, <3>12
    <3>14. no_of_peices <= 8 => more = guest'[i].asked /\ ~guest'[i].misled
      BY <3>3, <3>7, <3>12
    <3> QED
      BY <3>13, <3>14 DEF HasStory
  <2> QED
    BY <2>1, <2>2 DEF StoriesHold
<1> QED
  BY <1>10, <1>11, <1>12 DEF Inv

(* What guests say besides their bit field.                                   *)
LEMMA SayingsHold ==
    ASSUME Inv, NEW i \in Slots,
           \/ SaysIntersted(i) \/ SaysNotIntersted(i) \/ AsksTooMuch(i) \/ KeepsAlive(i)
           \/ \E b \in Blocks : Asks(i, b) \/ IsRude(i, b)
           \/ \E p \in Pieces : SaysHave(i, p)
    PROVE  Inv'
<1> DEFINE a == guest[i]
<1>1. /\ a \in GuestType /\ calm \in BOOLEAN /\ IsSeeder(client)
      /\ calm => a.polite
  BY DEF Inv, TypesHold, CalmHolds
<1>2. a.open
  BY DEF SaysIntersted, SaysNotIntersted, AsksTooMuch, KeepsAlive, Asks, IsRude, SaysHave, Say
<1> HIDE DEF a
<1>3. ASSUME NEW m, NEW g, m \in Sayings, m \notin BlockRequests,
             g \in GuestType, g.open, g.polite = a.polite,
             m \in Requests => a.wants,
             g.wants => m = Intersted \/ (a.wants /\ m # NotIntersted),
             calm' \in BOOLEAN, calm' => calm /\ m \in CalmSayings,
             g.asked = a.asked, g.misled = a.misled, Say(i, m, g)
      PROVE  Inv'
  <2>1. Asking(m, a.asked, g.asked)
    BY <1>3 DEF Asking
  <2>2. m \in Seq(Int)
    BY <1>3, SayingBytes
  <2>3. Speaks(i, m, g)
    BY <1>1, <1>3, <2>1, <2>2 DEF Speaks, a
  <2> QED
    BY <1>3, <2>3, SayHolds
<1>4. CASE SaysIntersted(i)
  <2> DEFINE g == [a EXCEPT !.wants = TRUE, !.wanted = TRUE]
  <2>1. /\ g \in GuestType /\ g.open = a.open /\ g.polite = a.polite
        /\ g.asked = a.asked /\ g.misled = a.misled
    BY <1>1 DEF GuestType
  <2>2. Intersted \in Sayings /\ Intersted \in CalmSayings
    BY DEF Sayings, CalmSayings, Intersted
  <2>3. Say(i, Intersted, g) /\ calm' = calm
    BY <1>4 DEF SaysIntersted, Intersted, a
  <2> HIDE DEF g
  <2> QED
    BY <1>1, <1>2, <1>3, <2>1, <2>2, <2>3, RequestsAreNone
<1>5. CASE SaysNotIntersted(i)
  <2> DEFINE g == [a EXCEPT !.wants = FALSE]
  <2>1. /\ g \in GuestType /\ g.open = a.open /\ g.polite = a.polite /\ ~g.wants
        /\ g.asked = a.asked /\ g.misled = a.misled
    BY <1>1 DEF GuestType
  <2>2. NotIntersted \in Sayings /\ NotIntersted \in CalmSayings
    BY DEF Sayings, CalmSayings, NotIntersted
  <2>3. Say(i, NotIntersted, g) /\ calm' = calm
    BY <1>5 DEF SaysNotIntersted, NotIntersted, a
  <2> HIDE DEF g
  <2> QED
    BY <1>1, <1>2, <1>3, <2>1, <2>2, <2>3, RequestsAreNone
<1>6. CASE AsksTooMuch(i)
  <2>1. PICK b \in TooLong : Say(i, Request(b), a)
    BY <1>6 DEF AsksTooMuch, a
  <2> DEFINE m == Request(b)
  <2>2. a.wants /\ calm' = calm
    BY <1>6 DEF AsksTooMuch, a
  <2>3. m \in Requests /\ m \in Sayings /\ m \in CalmSayings
    BY DEF Requests, Sayings, CalmSayings
  <2>4. m \notin BlockRequests
    BY <1>1, TooLongIsNone DEF BlockRequests
  <2>5. m # NotIntersted
    BY <2>3, RequestsAreNone
  <2>6. Say(i, m, a)
    BY <2>1
  <2> HIDE DEF m
  <2> QED
    BY <1>1, <1>2, <1>3, <2>2, <2>3, <2>4, <2>5, <2>6
<1>7. CASE KeepsAlive(i)
  <2>1. Say(i, KeepAlive, a) /\ calm' = calm
    BY <1>7 DEF KeepsAlive, a
  <2>2. KeepAlive \in Sayings /\ KeepAlive \in CalmSayings
    BY DEF Sayings, CalmSayings
  <2>3. KeepAlive # NotIntersted
    <3>1. Len(KeepAlive) # Len(NotIntersted)
      BY KeepAliveBytes, InterstBytes
    <3> QED
      BY <3>1, Zenon
  <2>4. KeepAlive \notin Requests /\ KeepAlive \notin BlockRequests
    BY RequestsAreNone
  <2> QED
    BY <1>1, <1>2, <1>3, <2>1, <2>2, <2>3, <2>4
<1>8. CASE \E b \in Blocks : Asks(i, b)
  <2>1. PICK b \in Blocks : Asks(i, b)
    BY <1>8
  <2> DEFINE m == Request(b)
             g == [a EXCEPT !.asked = Append(@, b)]
  <2>2. /\ g \in GuestType /\ g.open = a.open /\ g.polite = a.polite /\ g.wants = a.wants
        /\ g.asked = Append(a.asked, b) /\ g.misled = a.misled
    BY <1>1 DEF GuestType
  <2>3. a.wants /\ Say(i, m, g) /\ calm' = calm
    BY <2>1 DEF Asks, a
  <2>4. m \in Requests /\ m \in Sayings /\ m \in CalmSayings /\ m \in BlockRequests
    BY DEF Requests, Sayings, CalmSayings, BlockRequests
  <2>5. m # NotIntersted
    BY <2>4, RequestsAreNone
  <2>6. Asking(m, a.asked, g.asked)
    BY <2>2 DEF Asking
  <2>7. m \in Seq(Int)
    BY <2>4, SayingBytes
  <2> HIDE DEF m, g
  <2>8. Speaks(i, m, g)
    BY <1>1, <1>2, <2>2, <2>3, <2>4, <2>5, <2>6, <2>7 DEF Speaks, a
  <2> QED
    BY <2>3, <2>8, SayHolds
<1>9. CASE \E b \in Blocks : IsRude(i, b)
  <2>1. PICK b \in Blocks : IsRude(i, b)
    BY <1>9
  <2> DEFINE g == [a EXCEPT !.polite = FALSE]
  <2>2. g \in GuestType /\ g.open = a.open /\ ~g.polite
    BY <1>1 DEF GuestType
  <2>3. PICK m \in {Request(b), Cancel(b)} : Say(i, m, g) /\ calm' = FALSE
    BY <2>1 DEF IsRude, a
  <2>4. Request(b) \in Seq(Int)
    BY RequestBytes DEF Shape
  <2>5. Cancel(b) \in Seq(Int)
    <3>1. CANCLE \in Int /\ b[1] \in Int /\ b[2] \in Int /\ b[3] \in Int
      BY BlockFits DEF Triples, CANCLE
    <3> QED
      BY <3>1, ThreeWords DEF Cancel, Shape
  <2> HIDE DEF g
  <2>6. Speaks(i, m, g)
    BY <1>2, <2>2, <2>3, <2>4, <2>5 DEF Speaks
  <2> QED
    BY <2>3, <2>6, SayHolds
<1>10. CASE \E p \in Pieces : SaysHave(i, p)
  <2>1. PICK p \in Pieces : SaysHave(i, p)
    BY <1>10
  <2> DEFINE m == Have(p)
  <2>2. Say(i, m, a) /\ calm' = FALSE
    BY <2>1 DEF SaysHave, a
  <2>3. m \in Sayings
    BY DEF Sayings
  <2>4. m \notin Requests /\ m \notin BlockRequests
    BY RequestsAreNone
  <2>5. m # NotIntersted
    <3>1. m[5] = HAVE_PEICE
      BY HaveBytes, PieceFits DEF Shape
    <3> QED
      BY <3>1, InterstBytes DEF HAVE_PEICE, NOT_INTERSTED
  <2> HIDE DEF m
  <2> QED
    BY <1>1, <1>2, <1>3, <2>2, <2>3, <2>4, <2>5
<1> QED
  BY <1>4, <1>5, <1>6, <1>7, <1>8, <1>9, <1>10

(* The rest of a message comes.                                              *)
LEMMA RestHolds ==
    ASSUME Inv, NEW i \in Slots, SendsRest(i)
    PROVE  Inv'
<1> DEFINE a == guest[i]
           v == wire[i] \o a.rest
           h == [a EXCEPT !.rest = <<>>]
<1>1. /\ IsSeeder(client) /\ wire \in [Slots -> Seq(Int)] /\ guest \in [Slots -> GuestType]
      /\ a \in GuestType /\ calm \in BOOLEAN /\ wire[i] \in Seq(Int) /\ a.rest \in Seq(Int)
      /\ serving \in Slots \cup {NULL}
      /\ \A j \in Slots : serving = j => wire[j] # <<>> \/ ~guest[j].open
  <2>1. /\ IsSeeder(client) /\ wire \in [Slots -> Seq(Int)] /\ guest \in [Slots -> GuestType]
        /\ calm \in BOOLEAN /\ serving \in Slots \cup {NULL}
        /\ \A j \in Slots : serving = j => wire[j] # <<>> \/ ~guest[j].open
    BY DEF Inv, TypesHold
  <2>2. a \in GuestType /\ wire[i] \in Seq(Int)
    BY <2>1
  <2>3. a.rest \in Seq(Int)
    BY <2>2 DEF GuestType
  <2> QED
    BY <2>1, <2>2, <2>3
<1>2. /\ client' = client /\ serving' = serving /\ calm' = calm /\ a.rest # <<>>
      /\ wire' = [wire EXCEPT ![i] = v]
      /\ guest' = [guest EXCEPT ![i] = h]
  BY <1>1 DEF SendsRest
<1>3. v \in Seq(Int) /\ v # <<>> /\ v \o <<>> = v
  <2>1. v \in Seq(Int) /\ Len(v) = Len(wire[i]) + Len(a.rest)
    BY <1>1, Joined
  <2>2. Len(a.rest) # 0 /\ Len(a.rest) \in Nat /\ Len(wire[i]) \in Nat
    BY <1>1, <1>2
  <2>3. v # <<>>
    <3> DEFINE x == Len(wire[i])
               y == Len(a.rest)
    <3>1. Len(v) = x + y /\ y # 0 /\ y \in Nat /\ x \in Nat
      BY <2>1, <2>2
    <3> HIDE DEF v, x, y
    <3>2. Len(v) # 0
      BY <3>1
    <3> QED
      BY <3>2
  <2> QED
    BY <2>1, <2>3
<1>4. /\ h \in GuestType /\ h.open = a.open /\ h.polite = a.polite /\ h.rest = <<>>
      /\ h.wants = a.wants /\ h.asked = a.asked /\ h.misled = a.misled
  <2>1. <<>> \in Seq(Int)
    OBVIOUS
  <2> HIDE DEF a
  <2> QED
    BY <1>1, <2>1 DEF GuestType
<1> HIDE DEF v, h
<1>5. wire'[i] = v /\ guest'[i] = h /\ \A j \in Slots \ {i} : SameGuest(j)
  BY <1>1, <1>2 DEF SameGuest
<1>6. TypesHold'
  <2>1. wire' \in [Slots -> Seq(Int)] /\ guest' \in [Slots -> GuestType]
    BY <1>1, <1>2, <1>3, <1>4
  <2>2. \A j \in Slots : serving = j => wire'[j] # <<>> \/ ~guest'[j].open
    BY <1>1, <1>3, <1>5 DEF SameGuest
  <2> QED
    BY <1>1, <1>2, <2>1, <2>2 DEF TypesHold
<1>7. CalmHolds'
  <2>1. ASSUME calm, NEW j \in Slots
        PROVE  guest'[j].polite /\ (client'.conn[j].in_use => guest'[j].open)
    BY <1>2, <1>4, <1>5, <2>1 DEF SameGuest, Inv, CalmHolds
  <2> QED
    BY <1>2, <2>1 DEF Inv, CalmHolds
<1>8. StoriesHold'
  <2>1. ASSUME NEW j \in Slots \ {i}, guest'[j].open, guest'[j].polite
        PROVE  HasStory(j)'
    <3>1. SameGuest(j)
      BY <1>5
    <3>2. HasStory(j)
      BY <2>1, <3>1 DEF SameGuest, Inv, StoriesHold
    <3> QED
      BY <1>2, <3>1, <3>2, SameStory
  <2>2. ASSUME guest'[i].open, guest'[i].polite
        PROVE  HasStory(i)'
    <3>1. PICK asked :
            /\ Story(v, asked, Granted(client, i), a.wants, calm)
            /\ no_of_peices <= 8 => asked = a.asked /\ ~a.misled
      BY <1>4, <1>5, <2>2 DEF Inv, StoriesHold, HasStory, v
    <3>2. /\ wire'[i] \o guest'[i].rest = v /\ guest'[i].wants = a.wants
          /\ guest'[i].asked = a.asked /\ guest'[i].misled = a.misled
      BY <1>3, <1>4, <1>5
    <3>3. Story(wire'[i] \o guest'[i].rest, asked, Granted(client', i), guest'[i].wants, calm')
      BY <1>2, <3>1, <3>2
    <3>4. no_of_peices <= 8 => asked = guest'[i].asked /\ ~guest'[i].misled
      BY <3>1, <3>2
    <3> QED
      BY <3>3, <3>4 DEF HasStory
  <2> QED
    BY <2>1, <2>2 DEF StoriesHold
<1> QED
  BY <1>6, <1>7, <1>8 DEF Inv

(* A guest closes its end.                                                   *)
LEMMA LeavesHolds ==
    ASSUME Inv, NEW i \in Slots, Leaves(i)
    PROVE  Inv'
<1> DEFINE a == guest[i]
           h == [a EXCEPT !.open = FALSE, !.rest = <<>>]
<1>1. /\ IsSeeder(client) /\ wire \in [Slots -> Seq(Int)] /\ guest \in [Slots -> GuestType]
      /\ a \in GuestType /\ serving \in Slots \cup {NULL}
      /\ \A j \in Slots : serving = j => wire[j] # <<>> \/ ~guest[j].open
  BY DEF Inv, TypesHold
<1>2. /\ client' = client /\ serving' = serving /\ calm' = FALSE
      /\ guest' = [guest EXCEPT ![i] = h]
  BY <1>1 DEF Leaves
<1>3. PICK s \in {wire[i], <<>>} : wire' = [wire EXCEPT ![i] = s]
  BY DEF Leaves
<1>4. s \in Seq(Int)
  <2>1. wire[i] \in Seq(Int) /\ <<>> \in Seq(Int)
    BY <1>1
  <2> QED
    BY <2>1
<1>5. h \in GuestType /\ ~h.open
  <2>1. <<>> \in Seq(Int)
    OBVIOUS
  <2> QED
    BY <1>1, <2>1 DEF GuestType
<1> HIDE DEF h
<1>6. guest'[i] = h /\ \A j \in Slots \ {i} : SameGuest(j)
  BY <1>1, <1>2, <1>3 DEF SameGuest
<1>7. TypesHold'
  <2>1. wire' \in [Slots -> Seq(Int)] /\ guest' \in [Slots -> GuestType]
    BY <1>1, <1>2, <1>3, <1>4, <1>5
  <2>2. \A j \in Slots : serving = j => wire'[j] # <<>> \/ ~guest'[j].open
    BY <1>1, <1>5, <1>6 DEF SameGuest
  <2> QED
    BY <1>1, <1>2, <2>1, <2>2 DEF TypesHold
<1>8. CalmHolds'
  BY <1>2 DEF CalmHolds
<1>9. StoriesHold'
  <2> SUFFICES ASSUME NEW j \in Slots, guest'[j].open, guest'[j].polite
               PROVE  HasStory(j)'
    BY DEF StoriesHold
  <2>1. j # i
    BY <1>5, <1>6
  <2>2. SameGuest(j)
    BY <1>6, <2>1
  <2>3. HasStory(j)
    BY <2>2 DEF SameGuest, Inv, StoriesHold
  <2> QED
    BY <1>2, <2>2, <2>3, SameStory
<1> QED
  BY <1>7, <1>8, <1>9 DEF Inv

(* A guest stops reading, or starts again.                                   *)
LEMMA DeafHolds ==
    ASSUME Inv, NEW i \in Slots, StopsReading(i) \/ ReadsAgain(i)
    PROVE  Inv'
<1>1. /\ client' = client /\ wire' = wire /\ guest' = guest /\ calm' = calm
      /\ serving' = serving
  BY DEF StopsReading, ReadsAgain
<1>2. TypesHold' /\ CalmHolds'
  BY <1>1 DEF Inv, TypesHold, CalmHolds
<1>3. ASSUME NEW j \in Slots, guest'[j].open, guest'[j].polite
      PROVE  HasStory(j)'
  <2>1. SameGuest(j) /\ HasStory(j)
    BY <1>1, <1>3 DEF SameGuest, Inv, StoriesHold
  <2> QED
    BY <1>1, <2>1, SameStory
<1> QED
  BY <1>2, <1>3 DEF Inv, StoriesHold

(* A handler waits.                                                          *)
LEMMA WaitHolds ==
    ASSUME Inv, NEW i \in Slots, Wait(i)
    PROVE  Inv'
<1>1. /\ client' = client /\ wire' = wire /\ guest' = guest /\ calm' = calm
      /\ serving' = i /\ (wire[i] # <<>> \/ ~guest[i].open)
  BY DEF Wait, Readable
<1>2. TypesHold'
  BY <1>1 DEF Inv, TypesHold
<1>3. CalmHolds'
  BY <1>1 DEF Inv, CalmHolds
<1>4. StoriesHold'
  <2> SUFFICES ASSUME NEW j \in Slots, guest'[j].open, guest'[j].polite
               PROVE  HasStory(j)'
    BY DEF StoriesHold
  <2>1. SameGuest(j) /\ HasStory(j)
    BY <1>1 DEF SameGuest, Inv, StoriesHold
  <2> QED
    BY <1>1, <2>1, SameStory
<1> QED
  BY <1>2, <1>3, <1>4 DEF Inv

(* A connection is accepted: the guest's bit field is all that it has said.    *)
LEMMA AcceptHolds ==
    ASSUME Inv, Accept
    PROVE  Inv'
<1>0. PICK i \in Slots : i = FreeSlot(client)
  BY DEF Accept
<1> DEFINE d == [client.conn[i] EXCEPT !.in_use = TRUE, !.am_intersted = FALSE,
                    !.peer_chocking = TRUE, !.am_chocking = TRUE,
                    !.peer_intersted = FALSE, !.bit_field = NULL]
           h == [NoGuest EXCEPT !.open = TRUE]
<1>1. /\ IsSeeder(client) /\ wire \in [Slots -> Seq(Int)] /\ guest \in [Slots -> GuestType]
      /\ calm \in BOOLEAN
      /\ \A j \in Slots : serving = j => wire[j] # <<>> \/ ~guest[j].open
  BY DEF Inv, TypesHold
<1>2. /\ i \in Slots /\ client.proc = "up" /\ serving = NULL /\ serving' = NULL
      /\ client' = [Opened(client, i) EXCEPT !.conn[i].bit_field = NULL]
      /\ guest' = [guest EXCEPT ![i] = h]
  BY <1>0 DEF Accept
<1>3. PICK has \in Holdings :
        /\ wire' = [wire EXCEPT ![i] = BitFieldMessage(has, no_of_peices)]
        /\ calm' = (calm /\ has = {})
  BY <1>0 DEF Accept
<1>4. d \in ConnType /\ ~d.am_intersted
  <2>1. client.conn[i] \in ConnType
    BY <1>1, <1>2, ConnOf
  <2> DEFINE fields == (SUBSET Int) \cup {NULL}
  <2>2. NULL \in fields
    OBVIOUS
  <2> HIDE DEF fields
  <2>3. d \in [in_use : BOOLEAN, am_chocking : BOOLEAN, am_intersted : BOOLEAN,
               peer_chocking : BOOLEAN, peer_intersted : BOOLEAN, request_sent : BOOLEAN,
               intersted_peice : Int, bit_field : fields]
    BY <2>1, <2>2 DEF ConnType, fields
  <2>4. ~d.am_intersted
    BY <2>1 DEF ConnType
  <2> QED
    BY <2>3, <2>4 DEF ConnType, fields
<1>5. client' = WithSlot(client, i, d)
  BY <1>1, <1>2 DEF Opened, NewConn, WithSlot, IsSeeder, ClientType, ConnType
<1> HIDE DEF d
<1>6. /\ IsSeeder(client') /\ client'.proc = "up"
      /\ \A j \in Slots \ {i} : client'.conn[j] = client.conn[j]
  <2> DEFINE e == WithSlot(client, i, d)
  <2>1. /\ IsSeeder(e) /\ e.proc = client.proc
        /\ \A j \in Slots \ {i} : e.conn[j] = client.conn[j]
    BY <1>1, <1>4, WithConn
  <2>2. client' = e
    BY <1>5
  <2> HIDE DEF e
  <2> QED
    BY <1>2, <2>1, <2>2
<1> DEFINE m == BitFieldMessage(has, no_of_peices)
<1>7. /\ m \in Sayings /\ has \in SUBSET Pieces
      /\ has = {} => m \in CalmSayings
  BY UploaderAssumption, ClientAssumption DEF Sayings, CalmSayings
<1>8. m \in Seq(Int) /\ m \notin Requests /\ m \notin BlockRequests
  BY <1>7, SayingBytes, RequestsAreNone
<1>9. /\ h \in GuestType /\ h.open /\ h.polite /\ h.rest = <<>> /\ ~h.wants
      /\ h.asked = <<>> /\ ~h.misled /\ h.wants = FALSE
  <2>1. <<>> \in Seq(Int) /\ <<>> \in Seq(Blocks)
    OBVIOUS
  <2> QED
    BY <2>1 DEF NoGuest, GuestType
<1> HIDE DEF m, h
<1>10. wire'[i] = m /\ guest'[i] = h /\ \A j \in Slots \ {i} : SameGuest(j)
  BY <1>1, <1>2, <1>3, <1>6 DEF SameGuest, m
<1>11. calm' \in BOOLEAN /\ (calm' => m \in CalmSayings)
  BY <1>1, <1>3, <1>7 DEF m
<1>12. TypesHold'
  <2>1. guest' \in [Slots -> GuestType]
    BY <1>1, <1>2, <1>9
  <2>2. wire' \in [Slots -> Seq(Int)]
    BY <1>1, <1>3, <1>8 DEF m
  <2>3. \A j \in Slots : serving' # j
    BY <1>2, UploaderAssumption, ClientAssumption
  <2> QED
    BY <1>1, <1>2, <1>6, <1>11, <2>1, <2>2, <2>3 DEF TypesHold
<1>13. CalmHolds'
  <2>1. ASSUME calm', NEW j \in Slots
        PROVE  guest'[j].polite /\ (client'.conn[j].in_use => guest'[j].open)
    <3>1. CASE j = i
      BY <1>9, <1>10, <3>1
    <3>2. CASE j # i
      BY <1>3, <1>10, <2>1, <3>2 DEF SameGuest, Inv, CalmHolds
    <3> QED
      BY <3>1, <3>2
  <2> QED
    BY <1>6, <2>1 DEF CalmHolds
<1>14. StoriesHold'
  <2>1. ASSUME NEW j \in Slots \ {i}, guest'[j].open, guest'[j].polite
        PROVE  HasStory(j)'
    <3>1. SameGuest(j)
      BY <1>10
    <3>2. HasStory(j)
      BY <2>1, <3>1 DEF SameGuest, Inv, StoriesHold
    <3> QED
      BY <1>3, <3>1, <3>2, SameStory
  <2>2. HasStory(i)'
    <3> DEFINE first == Granted(client', i)
               none == <<>>
               no == FALSE
               yes == TRUE
    <3>1. first \in BOOLEAN
      BY <1>2, <1>6, GrantType
    <3>2. Story(none, none, first, no, yes)
      BY <3>1, NothingSaid
    <3>3. Adds(m, none, none)
      BY <1>8 DEF Adds
    <3>4. none \o m = m /\ m \o none = m
      BY <1>8
    <3>5. calm' => yes /\ m \in CalmSayings
      BY <1>11
    <3>6. no \in BOOLEAN /\ yes \in BOOLEAN
      OBVIOUS
    <3>7. ~no
      OBVIOUS
    <3> HIDE DEF first, none, no, yes
    <3>8. Story(none \o m, none, first, no, calm')
      BY <1>7, <1>8, <1>11, <3>1, <3>2, <3>3, <3>5, <3>6, <3>7, StoryGrows
    <3>9. wire'[i] \o guest'[i].rest = none \o m
      BY <1>9, <1>10, <3>4 DEF none
    <3>10. guest'[i].wants = no
      BY <1>9, <1>10 DEF no
    <3>11. Story(wire'[i] \o guest'[i].rest, none, Granted(client', i), guest'[i].wants, calm')
      BY <3>8, <3>9, <3>10 DEF first
    <3>12. none = guest'[i].asked /\ ~guest'[i].misled
      BY <1>9, <1>10 DEF none
    <3> QED
      BY <3>11, <3>12 DEF HasStory
  <2> QED
    BY <2>1, <2>2 DEF StoriesHold
<1> QED
  BY <1>12, <1>13, <1>14 DEF Inv

(* What a guest makes of what it is sent.                                     *)
LEMMA HeardType ==
    ASSUME NEW g \in GuestType, NEW x
    PROVE  LET h == HeardAll(g, x)
           IN /\ h \in GuestType /\ h.open = g.open /\ h.polite = g.polite
              /\ h.wants = g.wants /\ h.rest = g.rest
<1>1. ASSUME NEW m
      PROVE  LET h == Heard(g, m)
             IN /\ h \in GuestType /\ h.open = g.open /\ h.polite = g.polite
                /\ h.wants = g.wants /\ h.rest = g.rest
  <2> DEFINE mis == g.misled \/ g.asked = <<>> \/ Block(Head(g.asked)) # m
             more == IF g.asked = <<>> THEN g.asked ELSE Tail(g.asked)
  <2>1. g.asked \in Seq(Blocks)
    BY DEF GuestType
  <2>2. more \in Seq(Blocks)
    BY <2>1
  <2>3. mis \in BOOLEAN
    OBVIOUS
  <2>4. Heard(g, m) = [g EXCEPT !.served = TRUE, !.misled = mis, !.asked = more]
    BY DEF Heard, GuestType
  <2> HIDE DEF mis, more
  <2> QED
    BY <2>2, <2>3, <2>4 DEF GuestType
<1>2. HeardAll(g, x) \in {g, Heard(g, x)}
  BY DEF HeardAll
<1> QED
  BY <1>1, <1>2

LEMMA NothingHeard ==
    ASSUME NEW g, NEW i \in Slots, NEW r, NoBlock(r)
    PROVE  HeardAll(g, r.out[i]) = g
BY DEF HeardAll, NoBlock

LEMMA BlockHeard ==
    ASSUME NEW g \in GuestType, g.asked # <<>>, ~g.misled
    PROVE  LET h == HeardAll(g, Block(g.asked[1]))
           IN ~h.misled /\ h.asked = Tail(g.asked)
<1> DEFINE b == g.asked[1]
           m == Block(b)
<1>1. g.asked \in Seq(Blocks) /\ b \in Blocks /\ Head(g.asked) = b
  BY DEF GuestType
<1>2. m[5] = PEICE /\ m # <<>>
  BY <1>1, BlockIsPeice
<1> HIDE DEF m
<1>5. HeardAll(g, m) = Heard(g, m)
  BY <1>2 DEF HeardAll
<1>6. Heard(g, m) = [g EXCEPT !.served = TRUE, !.misled = FALSE, !.asked = Tail(g.asked)]
  BY <1>1 DEF Heard, m, GuestType
<1> QED
  BY <1>5, <1>6 DEF GuestType, m

(* The handler of a slot leaves the story of its guest: what it has read is no *)
(* longer part of it, and neither is the block that was sent.                *)
LEMMA StoryGoesOn ==
    ASSUME NEW i, NEW c, NEW w, NEW t, NEW r, NEW m, NEW asked, NEW a \in GuestType,
           NEW quiet \in BOOLEAN,
           Reading(c, i, m, w, t, r), Leads(m, w \o t, asked, Granted(c, i), quiet),
           asked \in Seq(Blocks),
           no_of_peices <= 8 => asked = a.asked /\ ~a.misled
    PROVE  /\ quiet => r.client.proc = c.proc
           /\ r.client.conn[i].in_use =>
               /\ r.used = Len(m) /\ r.used \in 0 .. Len(w)
               /\ m = Intersted \/ (Granted(c, i) /\ m # NotIntersted) => Granted(r.client, i)
               /\ no_of_peices <= 8 =>
                    /\ Without(m, asked) = HeardAll(a, r.out[i]).asked
                    /\ ~HeardAll(a, r.out[i]).misled
<1>2. /\ m \in Sayings
      /\ m \in Requests => Granted(c, i)
      /\ m \in BlockRequests => asked # <<>> /\ m = Request(asked[1])
      /\ quiet => m \in CalmSayings
  BY DEF Leads
<1>3. /\ ReadsWhole(i, m, w, r)
      /\ (\A b \in Blocks : m # Request(b)) => NoBlock(r)
      /\ r.client.conn[i].in_use /\ m # NotIntersted => KeepsGrant(c, i, r)
      /\ m = Intersted => Granted(r.client, i)
      /\ m \in CalmSayings => r.client.proc = c.proc
  BY <1>2, FrontMessage
<1>4. quiet => r.client.proc = c.proc
  BY <1>2, <1>3
<1>5. ASSUME r.client.conn[i].in_use
      PROVE  /\ r.used = Len(m) /\ r.used \in 0 .. Len(w)
             /\ m = Intersted \/ (Granted(c, i) /\ m # NotIntersted) => Granted(r.client, i)
  <2>1. r.used = Len(m) /\ Len(m) <= Len(w)
    BY <1>3, <1>5 DEF ReadsWhole
  <2>2. Len(m) \in Nat /\ Len(w) \in Nat
    <3>1. w \in Seq(Int) /\ m \in Seq(Int)
      BY <1>2, SayingBytes DEF Reading
    <3> QED
      BY <3>1
  <2>3. m = Intersted \/ (Granted(c, i) /\ m # NotIntersted) => Granted(r.client, i)
    BY <1>3, <1>5 DEF KeepsGrant
  <2> QED
    BY <2>1, <2>2, <2>3
<1>6. ASSUME no_of_peices <= 8
      PROVE  /\ Without(m, asked) = HeardAll(a, r.out[i]).asked
             /\ ~HeardAll(a, r.out[i]).misled
  <2>1. asked = a.asked /\ ~a.misled
    BY <1>6
  <2>2. CASE m \in BlockRequests
    <3> DEFINE b == a.asked[1]
    <3>1. a.asked # <<>> /\ m = Request(b) /\ b \in Blocks
      <4>1. asked # <<>> /\ m = Request(asked[1])
        BY <1>2, <2>2
      <4>2. asked[1] \in Blocks
        BY <4>1
      <4> QED
        BY <2>1, <4>1, <4>2
    <3> HIDE DEF b
    <3>2. /\ IsSeeder(c) /\ i \in Slots /\ w \in Seq(Int) /\ t \in Seq(Int)
          /\ Begins(m, w, t) /\ r \in Reactions(c, i, w, FALSE)
      BY DEF Reading
    <3>3. Granted(c, i)
      BY <1>2, <2>2, RequestsAreNone
    <3>4. Begins(Request(b), w, t)
      BY <3>1, <3>2
    <3>5. r = Answer(c, i, b[1], b[2], b[3])
      BY <3>1, <3>2, <3>3, <3>4, RequestFront
    <3>6. r.out = To(i, Block(b))
      BY <1>6, <3>1, <3>2, <3>5, BlockFront
    <3>7. ~HeardAll(a, r.out[i]).misled /\ HeardAll(a, r.out[i]).asked = Tail(a.asked)
      <4>1. r.out[i] = Block(a.asked[1])
        BY <3>2, <3>6, Outs DEF b
      <4> QED
        BY <2>1, <3>1, <4>1, BlockHeard
    <3> QED
      BY <2>1, <2>2, <3>7 DEF Without
  <2>3. CASE m \notin BlockRequests
    <3>1. \A b \in Blocks : m # Request(b)
      BY <2>3 DEF BlockRequests
    <3>2. NoBlock(r)
      BY <1>3, <3>1
    <3>3. HeardAll(a, r.out[i]) = a
      BY <3>2, NothingHeard DEF Reading
    <3> QED
      BY <2>1, <2>3, <3>3 DEF Without
  <2> QED
    BY <2>2, <2>3
<1> QED
  BY <1>4, <1>5, <1>6

(* A handler that finds what a polite guest has said, all of which is not read *)
(* yet, goes on with its story.                                             *)
LEMMA TellsOn ==
    ASSUME Inv, NEW i \in Slots, guest[i].open, guest[i].polite, wire[i] # <<>>,
           NEW r \in Reactions(client, i, wire[i], FALSE)
    PROVE  /\ calm => r.client.proc = client.proc
           /\ r.client.conn[i].in_use =>
                LET v == SubSeq(wire[i], r.used + 1, Len(wire[i]))
                    h == HeardAll(guest[i], r.out[i])
                IN /\ v \in Seq(Int)
                   /\ \E asked :
                        /\ Story(v \o guest[i].rest, asked, Granted(r.client, i), guest[i].wants, calm)
                        /\ no_of_peices <= 8 => asked = h.asked /\ ~h.misled
<1> DEFINE c == client
           w == wire[i]
           a == guest[i]
           t == a.rest
           s == w \o t
           first == Granted(c, i)
           last == a.wants
<1>1. /\ IsSeeder(c) /\ w \in Seq(Int) /\ a \in GuestType /\ calm \in BOOLEAN
      /\ w # <<>> /\ r \in Reactions(c, i, w, FALSE)
  BY DEF Inv, TypesHold
<1>2. t \in Seq(Int) /\ last \in BOOLEAN
  BY <1>1 DEF GuestType
<1>3. first \in BOOLEAN
  BY <1>1, GrantType
<1>4. s \in Seq(Int) /\ s # <<>>
  <2>1. s \in Seq(Int) /\ Len(s) = Len(w) + Len(t)
    BY <1>1, <1>2, Joined
  <2> DEFINE x == Len(w)
             y == Len(t)
  <2>2. Len(s) = x + y /\ x # 0 /\ x \in Nat /\ y \in Nat
    BY <1>1, <1>2, <2>1
  <2> HIDE DEF x, y, s
  <2>3. Len(s) # 0
    BY <2>2
  <2>4. s # <<>>
    BY <2>3
  <2> QED
    BY <2>1, <2>4
<1>5. PICK asked :
        /\ Story(s, asked, first, last, calm)
        /\ no_of_peices <= 8 => asked = a.asked /\ ~a.misled
  BY DEF Inv, StoriesHold, HasStory
<1> HIDE DEF first, last, s
<1>6. PICK m :
        /\ Leads(m, s, asked, first, calm)
        /\ \A now \in BOOLEAN :
             (m = Intersted \/ (first /\ m # NotIntersted) => now) =>
               Story(SubSeq(s, Len(m) + 1, Len(s)), Without(m, asked), now, last, calm)
  BY <1>1, <1>2, <1>3, <1>4, <1>5, StoryIsRead
<1>7. asked \in Seq(Blocks)
  BY <1>5 DEF Story, Script
<1>8. Reading(c, i, m, w, t, r)
  <2>1. Begins(m, w, t)
    BY <1>6 DEF Leads, Begins, s
  <2> QED
    BY <1>1, <1>2, <2>1 DEF Reading
<1>9. Leads(m, w \o t, asked, Granted(c, i), calm)
  BY <1>6 DEF s, first
<1> HIDE DEF c, w, a, t
<1>10. /\ calm => r.client.proc = c.proc
       /\ r.client.conn[i].in_use =>
            /\ r.used = Len(m) /\ r.used \in 0 .. Len(w)
            /\ m = Intersted \/ (Granted(c, i) /\ m # NotIntersted) => Granted(r.client, i)
            /\ no_of_peices <= 8 =>
                 /\ Without(m, asked) = HeardAll(a, r.out[i]).asked
                 /\ ~HeardAll(a, r.out[i]).misled
  BY <1>1, <1>5, <1>7, <1>8, <1>9, StoryGoesOn
<1>11. ASSUME r.client.conn[i].in_use
       PROVE  LET v == SubSeq(w, r.used + 1, Len(w))
                  h == HeardAll(a, r.out[i])
              IN /\ v \in Seq(Int)
                 /\ \E x :
                      /\ Story(v \o t, x, Granted(r.client, i), last, calm)
                      /\ no_of_peices <= 8 => x = h.asked /\ ~h.misled
  <2> DEFINE v == SubSeq(w, r.used + 1, Len(w))
             now == Granted(r.client, i)
             x == Without(m, asked)
  <2>1. v \in Seq(Int) /\ v \o t = SubSeq(w \o t, r.used + 1, Len(w \o t))
    BY <1>1, <1>2, <1>10, <1>11, FrontDropped
  <2>2. now \in BOOLEAN
    <3>1. StaysInSlot(c, i, r)
      BY <1>1, SeederReacts
    <3>2. IsSeeder(r.client)
      BY <3>1 DEF StaysInSlot
    <3> QED
      BY <3>2, GrantType
  <2>3. m = Intersted \/ (first /\ m # NotIntersted) => now
    BY <1>10, <1>11 DEF first
  <2> HIDE DEF now
  <2>4. Story(SubSeq(s, Len(m) + 1, Len(s)), x, now, last, calm)
    BY <1>6, <2>2, <2>3
  <2>5. v \o t = SubSeq(s, Len(m) + 1, Len(s))
    BY <1>10, <1>11, <2>1 DEF s
  <2>6. Story(v \o t, x, now, last, calm)
    BY <2>4, <2>5
  <2>7. no_of_peices <= 8 => x = HeardAll(a, r.out[i]).asked /\ ~HeardAll(a, r.out[i]).misled
    BY <1>10, <1>11
  <2> HIDE DEF v, x
  <2>8. \E y : /\ Story(v \o t, y, now, last, calm)
               /\ no_of_peices <= 8 =>
                    y = HeardAll(a, r.out[i]).asked /\ ~HeardAll(a, r.out[i]).misled
    BY <2>6, <2>7
  <2> QED
    BY <2>1, <2>8 DEF now, v
<1> QED
  BY <1>10, <1>11 DEF c, w, a, t, last

(* read_from_client_connection.                                              *)
LEMMA ServeHolds ==
    ASSUME Inv, NEW i \in Slots, Serve(i)
    PROVE  Inv'
<1> DEFINE a == guest[i]
<1>1. /\ IsSeeder(client) /\ wire \in [Slots -> Seq(Int)] /\ guest \in [Slots -> GuestType]
      /\ a \in GuestType /\ calm \in BOOLEAN /\ wire[i] \in Seq(Int) /\ a.open \in BOOLEAN
      /\ a.rest \in Seq(Int)
  <2>1. /\ IsSeeder(client) /\ wire \in [Slots -> Seq(Int)] /\ guest \in [Slots -> GuestType]
        /\ calm \in BOOLEAN
    BY DEF Inv, TypesHold
  <2>2. a \in GuestType /\ wire[i] \in Seq(Int)
    BY <2>1
  <2> QED
    BY <2>1, <2>2 DEF GuestType
<1>2. /\ client.proc = "up" /\ client.conn[i].in_use
      /\ wire[i] # <<>> \/ ~a.open
      /\ serving' = NULL /\ calm' = calm
  BY DEF Serve, Readable
<1>3. PICK r \in MayLeave(i) :
        /\ \E how \in IF r.client.proc = "up" THEN AfterSends(r.out) ELSE {r.client.proc} :
              client' = [r.client EXCEPT !.proc = how]
        /\ IF r.client.conn[i].in_use
           THEN /\ wire' = [wire EXCEPT ![i] = SubSeq(@, r.used + 1, Len(@))]
                /\ guest' = [guest EXCEPT ![i] = HeardAll(@, r.out[i])]
           ELSE /\ wire' = [wire EXCEPT ![i] = <<>>]
                /\ guest' = [guest EXCEPT ![i] = NoGuest]
  BY DEF Serve
<1>4. PICK how \in IF r.client.proc = "up" THEN AfterSends(r.out) ELSE {r.client.proc} :
        client' = [r.client EXCEPT !.proc = how]
  BY <1>3
<1> DEFINE v == IF r.client.conn[i].in_use THEN SubSeq(wire[i], r.used + 1, Len(wire[i]))
                                           ELSE <<>>
           h == IF r.client.conn[i].in_use THEN HeardAll(a, r.out[i]) ELSE NoGuest
<1>5. /\ wire' = [wire EXCEPT ![i] = v] /\ guest' = [guest EXCEPT ![i] = h]
  BY <1>3
<1>6. StaysInSlot(client, i, r)
  <2>1. r \in Reactions(client, i, wire[i], ~a.open) /\ (~a.open) \in BOOLEAN
    BY <1>1, <1>3 DEF MayLeave
  <2> QED
    BY <1>1, <2>1, SeederReacts
<1>7. /\ IsSeeder(r.client)
      /\ \A j \in Slots \ {i} : r.client.conn[j] = client.conn[j]
      /\ r.used \in Nat
      /\ \A k \in Slots \ {i} : r.out[k] = <<>>
  BY <1>6 DEF StaysInSlot
<1>8. how \in Procs
  <2>1. r.client.proc \in Procs
    BY <1>7 DEF IsSeeder, ClientType
  <2> QED
    BY <2>1 DEF AfterSends, Procs
<1>9. IsSeeder(client') /\ client'.conn = r.client.conn /\ client'.proc = how
  BY <1>4, <1>7, <1>8, WithProc
<1>10. v \in Seq(Int)
  <2>1. CASE r.client.conn[i].in_use
    <3>1. \A k \in r.used + 1 .. Len(wire[i]) : wire[i][k] \in Int
      <4>1. \A k \in r.used + 1 .. Len(wire[i]) : k \in 1 .. Len(wire[i])
        BY <1>1, <1>7
      <4> QED
        BY <1>1, <4>1
    <3>2. r.used + 1 \in Int /\ Len(wire[i]) \in Int
      BY <1>1, <1>7
    <3>3. SubSeq(wire[i], r.used + 1, Len(wire[i])) \in Seq(Int)
      BY <3>1, <3>2, SubSeqProperties
    <3> QED
      BY <2>1, <3>3
  <2>2. CASE ~r.client.conn[i].in_use
    BY <2>2
  <2> QED
    BY <2>1, <2>2
<1>11. /\ h \in GuestType
       /\ h.open => r.client.conn[i].in_use
       /\ r.client.conn[i].in_use =>
            h.open = a.open /\ h.polite = a.polite /\ h.wants = a.wants /\ h.rest = a.rest
       /\ ~r.client.conn[i].in_use => h.polite
  <2>1. NoGuest \in GuestType /\ ~NoGuest.open /\ NoGuest.polite
    <3>1. <<>> \in Seq(Int) /\ <<>> \in Seq(Blocks)
      OBVIOUS
    <3> QED
      BY <3>1 DEF NoGuest, GuestType
  <2>2. LET x == HeardAll(a, r.out[i])
        IN /\ x \in GuestType /\ x.open = a.open /\ x.polite = a.polite
           /\ x.wants = a.wants /\ x.rest = a.rest
    BY <1>1, HeardType
  <2> HIDE DEF a
  <2> QED
    BY <2>1, <2>2
<1> HIDE DEF h, v
<1>12. /\ wire'[i] = v /\ guest'[i] = h
       /\ \A j \in Slots \ {i} : SameGuest(j)
  BY <1>1, <1>5, <1>7, <1>9 DEF SameGuest
<1>13. TypesHold'
  <2>1. wire' \in [Slots -> Seq(Int)] /\ guest' \in [Slots -> GuestType]
    BY <1>1, <1>5, <1>10, <1>11
  <2>2. \A j \in Slots : serving' # j
    BY <1>2, UploaderAssumption, ClientAssumption
  <2> QED
    BY <1>1, <1>2, <1>9, <2>1, <2>2 DEF TypesHold
<1>14. ASSUME a.open, a.polite
       PROVE  /\ calm => r.client.proc = "up"
              /\ r.client.conn[i].in_use =>
                  \E asked :
                    /\ Story(v \o a.rest, asked, Granted(r.client, i), a.wants, calm)
                    /\ no_of_peices <= 8 => asked = h.asked /\ ~h.misled
  <2>1. wire[i] # <<>> /\ r \in Reactions(client, i, wire[i], FALSE)
    <3>1. (~a.open) = FALSE
      BY <1>14
    <3> QED
      BY <1>2, <1>3, <3>1 DEF MayLeave
  <2> QED
    BY <1>2, <1>14, <2>1, TellsOn DEF v, h
<1>15. CalmHolds'
  <2>1. ASSUME calm, NEW j \in Slots
        PROVE  guest'[j].polite /\ (client'.conn[j].in_use => guest'[j].open)
    <3>1. CASE j = i
      <4>1. a.polite /\ a.open
        BY <1>2, <2>1 DEF Inv, CalmHolds
      <4> QED
        BY <1>9, <1>11, <1>12, <3>1, <4>1
    <3>2. CASE j # i
      BY <1>12, <2>1, <3>2 DEF SameGuest, Inv, CalmHolds
    <3> QED
      BY <3>1, <3>2
  <2>2. ASSUME calm
        PROVE  how = "up"
    <3>1. a.polite /\ a.open
      BY <1>2, <2>2 DEF Inv, CalmHolds
    <3>2. r.client.proc = "up"
      BY <1>14, <2>2, <3>1
    <3>3. how \in AfterSends(r.out)
      BY <1>4, <3>2
    <3>4. { k \in Slots : r.out[k] # <<>> /\ ~guest[k].open } = {}
      BY <1>7, <3>1
    <3> QED
      BY <3>3, <3>4 DEF AfterSends
  <2> QED
    BY <1>2, <1>9, <2>1, <2>2 DEF CalmHolds
<1>16. StoriesHold'
  <2>1. ASSUME NEW j \in Slots \ {i}, guest'[j].open, guest'[j].polite
        PROVE  HasStory(j)'
    <3>1. SameGuest(j)
      BY <1>12
    <3>2. HasStory(j)
      BY <2>1, <3>1 DEF SameGuest, Inv, StoriesHold
    <3> QED
      BY <1>2, <3>1, <3>2, SameStory
  <2>2. ASSUME guest'[i].open, guest'[i].polite
        PROVE  HasStory(i)'
    <3>1. /\ r.client.conn[i].in_use /\ a.open /\ a.polite
          /\ h.wants = a.wants /\ h.rest = a.rest
      BY <1>11, <1>12, <2>2
    <3>2. PICK asked :
            /\ Story(v \o a.rest, asked, Granted(r.client, i), a.wants, calm)
            /\ no_of_peices <= 8 => asked = h.asked /\ ~h.misled
      BY <1>14, <3>1
    <3>3. /\ wire'[i] \o guest'[i].rest = v \o a.rest /\ guest'[i].wants = a.wants
          /\ guest'[i].asked = h.asked /\ guest'[i].misled = h.misled
          /\ Granted(client', i) = Granted(r.client, i)
      BY <1>9, <1>12, <3>1 DEF Granted
    <3>4. Story(wire'[i] \o guest'[i].rest, asked, Granted(client', i), guest'[i].wants, calm')
      BY <1>2, <3>2, <3>3
    <3>5. no_of_peices <= 8 => asked = guest'[i].asked /\ ~guest'[i].misled
      BY <3>2, <3>3
    <3> QED
      BY <3>4, <3>5 DEF HasStory
  <2> QED
    BY <2>1, <2>2 DEF StoriesHold
<1> QED
  BY <1>13, <1>15, <1>16 DEF Inv

-----------------------------------------------------------------------------
(* Theorems                                                                  *)

LEMMA NextHolds == Inv /\ [Next]_vars => Inv'
<1> SUFFICES ASSUME Inv, [Next]_vars
             PROVE  Inv'
  OBVIOUS
<1>1. CASE Accept
  BY <1>1, AcceptHolds
<1>2. ASSUME NEW i \in Slots, Wait(i)
      PROVE  Inv'
  BY <1>2, WaitHolds
<1>3. ASSUME NEW i \in Slots, Serve(i)
      PROVE  Inv'
  BY <1>3, ServeHolds
<1>4. ASSUME NEW i \in Slots, GuestSteps(i)
      PROVE  Inv'
  <2>1. CASE SendsRest(i)
    BY <2>1, RestHolds
  <2>2. CASE Leaves(i)
    BY <2>2, LeavesHolds
  <2>3. CASE \/ SaysIntersted(i) \/ SaysNotIntersted(i) \/ AsksTooMuch(i) \/ KeepsAlive(i)
             \/ \E b \in Blocks : Asks(i, b) \/ IsRude(i, b)
             \/ \E p \in Pieces : SaysHave(i, p)
    BY <2>3, SayingsHold
  <2>4. CASE StopsReading(i) \/ ReadsAgain(i)
    BY <2>4, DeafHolds
  <2> QED
    BY <1>4, <2>1, <2>2, <2>3, <2>4 DEF GuestSteps
<1>5. CASE UNCHANGED vars
  <2>1. /\ client' = client /\ serving' = serving /\ wire' = wire /\ guest' = guest
        /\ calm' = calm
    BY <1>5 DEF vars
  <2>2. TypesHold'
    BY <2>1 DEF Inv, TypesHold
  <2>3. CalmHolds'
    BY <2>1 DEF Inv, CalmHolds
  <2>4. StoriesHold'
    <3> SUFFICES ASSUME NEW j \in Slots, guest'[j].open, guest'[j].polite
                 PROVE  HasStory(j)'
      BY DEF StoriesHold
    <3>1. SameGuest(j) /\ HasStory(j)
      BY <2>1 DEF SameGuest, Inv, StoriesHold
    <3> QED
      BY <2>1, <3>1, SameStory
  <2> QED
    BY <2>2, <2>3, <2>4 DEF Inv
<1> QED
  BY <1>1, <1>2, <1>3, <1>4, <1>5 DEF Next

(* Each guest's unread bytes are whole messages, which ask for the blocks that *)
(* it may expect; while all is calm, the program is up.                      *)
THEOREM StoriesAreKept == Spec => []Inv
<1>1. Init => Inv
  BY InitHolds
<1>2. Inv /\ [Next]_vars => Inv'
  BY NextHolds
<1> QED
  BY <1>1, <1>2, PTL DEF Spec

LEMMA FirstOfStory ==
    ASSUME Inv, NEW i \in Slots, guest[i].open, guest[i].polite,
           NEW s, s = wire[i] \o guest[i].rest, s # <<>>
    PROVE  s \in Seq(Int) /\ \E m \in Sayings : Here(m, s, 1)
<1> DEFINE first == Granted(client, i)
           last == guest[i].wants
<1>1. guest[i] \in GuestType /\ IsSeeder(client) /\ calm \in BOOLEAN
  BY DEF Inv, TypesHold
<1>2. first \in BOOLEAN /\ last \in BOOLEAN
  BY <1>1, GrantType DEF GuestType
<1>3. PICK asked : Story(s, asked, first, last, calm)
  BY DEF Inv, StoriesHold, HasStory
<1>4. s \in Seq(Int)
  BY <1>3 DEF Story, Script
<1> HIDE DEF first, last
<1>5. \E m : Leads(m, s, asked, first, calm)
  BY <1>1, <1>2, <1>3, StoryIsRead
<1> QED
  BY <1>4, <1>5 DEF Leads

(* Whatever the guests do, the unread bytes of a polite one begin with a       *)
(* message of the guest at every select, for every number of pieces and every *)
(* size: no handler of a seeder leaves a part of such a message unread.       *)
THEOREM GuestsStayInSync == Spec => []PoliteStaysInSync
<1>1. Inv => PoliteStaysInSync
  <2> SUFFICES ASSUME Inv, NEW i \in Slots, guest[i].open, guest[i].polite,
                      NEW s, s = wire[i] \o guest[i].rest, s # <<>>
               PROVE  \E m \in Sayings : IsPrefix(m, s)
    BY DEF PoliteStaysInSync
  <2>1. s \in Seq(Int)
    BY FirstOfStory
  <2>2. PICK m \in Sayings : Here(m, s, 1)
    BY FirstOfStory
  <2>3. m \in Seq(Int)
    BY SayingBytes
  <2> QED
    BY <2>1, <2>2, <2>3, HereIsPrefix
<1> QED
  BY <1>1, StoriesAreKept, PTL

LEMMA SeederLeaves ==
    ASSUME Inv, NEW i \in Slots, NEW r \in MayLeave(i)
    PROVE  StaysInSlot(client, i, r)
<1>1. IsSeeder(client) /\ wire[i] \in Seq(Int) /\ guest[i] \in GuestType
  BY DEF Inv, TypesHold
<1>2. (~guest[i].open) \in BOOLEAN /\ r \in Reactions(client, i, wire[i], ~guest[i].open)
  BY <1>1 DEF MayLeave, GuestType
<1> QED
  BY <1>1, <1>2, SeederReacts

(* What lies unread in the buffers of guests that do not read.               *)
Buffers == deaf \subseteq Slots /\ unread \in [Slots -> Nat]

LEMMA BuffersStep == Inv /\ Buffers /\ [Next]_vars => Buffers'
<1> SUFFICES ASSUME Inv, Buffers, [Next]_vars
             PROVE  Buffers'
  OBVIOUS
<1>1. ASSUME UNCHANGED <<deaf, unread>>
      PROVE  Buffers'
  BY <1>1 DEF Buffers
<1>2. CASE UNCHANGED vars
  BY <1>1, <1>2 DEF vars
<1>3. CASE Accept
  BY <1>1, <1>3 DEF Accept
<1>4. ASSUME NEW i \in Slots, Wait(i)
      PROVE  Buffers'
  BY <1>1, <1>4 DEF Wait
<1>5. ASSUME NEW i \in Slots, GuestSteps(i)
      PROVE  Buffers'
  <2>1. CASE StopsReading(i) \/ ReadsAgain(i) \/ Leaves(i)
    BY <2>1 DEF Buffers, StopsReading, ReadsAgain, Leaves
  <2>2. CASE ~(StopsReading(i) \/ ReadsAgain(i) \/ Leaves(i))
    <3>1. UNCHANGED <<deaf, unread>>
      BY <1>5, <2>2 DEF GuestSteps, SaysIntersted, SaysNotIntersted, Asks, IsRude, AsksTooMuch,
         KeepsAlive, SaysHave, Say, SendsRest
    <3> QED
      BY <1>1, <3>1
  <2> QED
    BY <2>1, <2>2
<1>6. ASSUME NEW i \in Slots, Serve(i)
      PROVE  Buffers'
  <2>1. PICK r \in MayLeave(i) :
          IF r.client.conn[i].in_use
          THEN /\ unread' = [s \in Slots |-> IF s \in deaf THEN unread[s] + Len(r.out[s]) ELSE 0]
               /\ UNCHANGED deaf
          ELSE /\ unread' = [unread EXCEPT ![i] = 0]
               /\ deaf' = deaf \ {i}
    BY <1>6 DEF Serve
  <2>2. \A k \in Slots : Len(r.out[k]) \in Nat
    <3>1. StaysInSlot(client, i, r)
      BY SeederLeaves
    <3>2. ASSUME NEW k \in Slots PROVE r.out[k] = <<>> \/ Len(r.out[k]) \in 0 .. 13 + PieceSize
      BY <3>1 DEF StaysInSlot, Brief
    <3>3. Len(<<>>) \in Nat
      OBVIOUS
    <3> QED
      BY <3>2, <3>3, Sizes
  <2>3. \A k \in Slots : unread[k] + Len(r.out[k]) \in Nat
    BY <2>2 DEF Buffers
  <2> QED
    BY <2>1, <2>3 DEF Buffers
<1> QED
  BY <1>2, <1>3, <1>4, <1>5, <1>6 DEF Next

LEMMA BuffersHold == Spec => []Buffers
<1>1. Init => Buffers
  BY DEF Init, Buffers
<1> QED
  BY <1>1, BuffersStep, StoriesAreKept, PTL DEF Spec

(* The program waits in a handler for nobody but a rude guest, one that has not *)
(* sent a message to its end, and one that does not read and has left no room  *)
(* for a block.                                                             *)
THEOREM OnlyArrearsHoldItUp == Spec => []OnlyGuestsInArrearsBlock
<1>1. Inv /\ Buffers => OnlyGuestsInArrearsBlock
  <2> SUFFICES ASSUME Inv, Buffers,
                      NEW i \in Slots, serving = i, guest[i].polite, guest[i].rest = <<>>,
                      MayLeave(i) = {}
               PROVE  i \in deaf /\ unread[i] + 13 + PieceSize > Capacity
    BY DEF OnlyGuestsInArrearsBlock
  <2>1. /\ IsSeeder(client) /\ wire[i] \in Seq(Int) /\ guest[i] \in GuestType
        /\ wire[i] # <<>> \/ ~guest[i].open
    BY DEF Inv, TypesHold
  <2>2. guest[i].open \in BOOLEAN
    BY <2>1 DEF GuestType
  <2>3. Reactions(client, i, wire[i], ~guest[i].open) # {}
    <3>1. CASE guest[i].open
      <4> DEFINE s == wire[i] \o guest[i].rest
      <4>1. s = wire[i]
        BY <2>1
      <4>2. s # <<>>
        BY <2>1, <3>1, <4>1
      <4> HIDE DEF s
      <4>3. PICK m \in Sayings : Here(m, s, 1)
        BY <3>1, <4>2, FirstOfStory DEF s
      <4>4. Reactions(client, i, wire[i], FALSE) # {}
        BY <2>1, <4>1, <4>3, WholeIsRead
      <4>5. (~guest[i].open) = FALSE
        BY <3>1
      <4> QED
        BY <4>4, <4>5
    <3>2. CASE ~guest[i].open
      <4>1. (~guest[i].open) = TRUE
        BY <3>2
      <4>2. Reactions(client, i, wire[i], TRUE) # {}
        BY <2>1, EofReacts
      <4> QED
        BY <4>1, <4>2
    <3> QED
      BY <3>1, <3>2
  <2>4. PICK r \in Reactions(client, i, wire[i], ~guest[i].open) : ~Taken(r.out)
    BY <2>3 DEF MayLeave
  <2>5. StaysInSlot(client, i, r)
    BY <2>1, <2>2, <2>4, SeederReacts
  <2>6. PICK k \in deaf : r.out[k] # <<>> /\ ~(unread[k] + Len(r.out[k]) <= Capacity)
    BY <2>4 DEF Taken
  <2>7. k = i
    BY <2>5, <2>6 DEF StaysInSlot, Buffers
  <2>8. Len(r.out[i]) \in 0 .. 13 + PieceSize /\ unread[i] \in Nat /\ Capacity \in Nat
    BY <2>5, UploaderAssumption DEF StaysInSlot, Brief, Buffers
  <2> QED
    BY <2>6, <2>7, <2>8, Sizes
<1> QED
  BY <1>1, StoriesAreKept, BuffersHold, PTL

(* The program ends for nothing else than a guest that left, was rude or held  *)
(* a piece.                                                                 *)
THEOREM CalmIsSafe == Spec => []CalmGuestsAreSafe
<1>1. Inv => CalmGuestsAreSafe
  BY DEF Inv, CalmHolds, CalmGuestsAreSafe
<1> QED
  BY <1>1, StoriesAreKept, PTL

(* In a torrent of at most eight pieces polite guests get the blocks that they *)
(* ask for, in order, and all of them once what they said is read; from the    *)
(* ninth piece on the bits of the seeder do not have their numbers.           *)
THEOREM AnswersInOrder == ASSUME no_of_peices <= 8 PROVE Spec => []AnsweredInOrder
<1>1. Inv => AnsweredInOrder
  <2> SUFFICES ASSUME Inv, NEW i \in Slots, guest[i].open, guest[i].polite
               PROVE  /\ ~guest[i].misled
                      /\ wire[i] = <<>> /\ guest[i].rest = <<>> => guest[i].asked = <<>>
    BY DEF AnsweredInOrder
  <2>1. PICK asked :
          /\ Story(wire[i] \o guest[i].rest, asked, Granted(client, i), guest[i].wants, calm)
          /\ asked = guest[i].asked /\ ~guest[i].misled
    BY DEF Inv, StoriesHold, HasStory
  <2>2. ASSUME wire[i] = <<>>, guest[i].rest = <<>>
        PROVE  guest[i].asked = <<>>
    <3>1. wire[i] \o guest[i].rest = <<>>
      BY <2>2
    <3>2. Story(<<>>, asked, Granted(client, i), guest[i].wants, calm)
      BY <2>1, <3>1
    <3>3. asked = <<>>
      BY <3>2, AllIsRead
    <3> QED
      BY <2>1, <3>3
  <2> QED
    BY <2>1, <2>2
<1> QED
  BY <1>1, StoriesAreKept, PTL

=============================================================================
