------------------------------- MODULE Client -------------------------------
(***************************************************************************)
(* One client as a value and its handlers as functions of it: what            *)
(* read_from_client_connection does with the bytes that are at the front of   *)
(* a stream.  A module that has clients, streams and peers as variables      *)
(* gives the bytes to Reactions and delivers what was sent.                  *)
(***************************************************************************)
EXTENDS Connections, Framing, SequencesExt

(* The size of the file, and the length of a message with a piece, are ints.  *)
ASSUME ClientAssumption ==
    /\ MAX_CONN \in Nat \ {0}
    /\ FileSize \in Nat \ {0} /\ FileSize < MaxInt
    /\ PieceSize \in Nat \ {0} /\ PieceSize + 9 <= MaxInt
    /\ \A B \in SUBSET Pieces : NULL # B
    /\ \A s \in Slots : NULL # s

(* The state of a client: how the process is, whether it was started with the *)
(* file, whether htonl swaps bytes on its machine, and its tables.           *)
NewClient(seeder, swaps, word) ==
    [proc |-> "up", seeder |-> seeder, swaps |-> swaps, uploaded |-> 0,
     bits |-> IF seeder THEN { Cell(p) : p \in Pieces } \ {NoCell} ELSE {},
     stat |-> [q \in Index |-> IF q = -1 THEN word ELSE NOT_DOWNLOADED],
     rank |-> [p \in Pieces |-> 0],
     conn |-> [s \in Slots |->
                [in_use |-> FALSE, am_chocking |-> FALSE, am_intersted |-> FALSE,
                 peer_chocking |-> FALSE, peer_intersted |-> FALSE,
                 request_sent |-> FALSE, intersted_peice |-> 0, bit_field |-> NULL]]]

(* Mutant: the new peer keeps what the last one in the slot was granted.      *)
OpenedStillUnchoked(c, i) == [c EXCEPT !.conn[i] = NewConn(@)]

(* The record of a connection that is opened.  bit_field is reset only where  *)
(* the connection is accepted.                                              *)
Opened(c, i) ==
    [c EXCEPT !.conn[i] =
        [NewConn(@) EXCEPT !.am_chocking = TRUE, !.peer_intersted = FALSE]]

FreeSlot(c) == FirstOf({ s \in Slots : ~c.conn[s].in_use })

(* What a handler leaves: the client, the number of bytes it has read, and    *)
(* out[s], the bytes it has sent to slot s.                                 *)
Result(c, used, out) == [client |-> c, used |-> used, out |-> out]

Silence   == [s \in Slots |-> <<>>]
To(i, m)  == [s \in Slots |-> IF s = i THEN m ELSE <<>>]
Tell(i, id) == To(i, Message(id, <<>>))

(* What was sent first, and then.                                            *)
Then(out, more) == [s \in Slots |-> out[s] \o more[s]]

Ends(c, how, used) == Result([c EXCEPT !.proc = how], used, Silence)

CloseConnection(c, i, used) == Result([c EXCEPT !.conn = Closed(@, i)], used, Silence)

(* n bytes can be read without waiting.                                      *)
Enough(s, n, eof) == Len(s) >= n \/ eof

-----------------------------------------------------------------------------
(* The download half                                                        *)

SendsTo(s, told, r, a, b) ==
    (IF s \in told THEN Message(INTERSTED, <<>>) ELSE <<>>)
    \o (IF s = a THEN RequestMessage(r, 0, RequestLength(r)) ELSE <<>>)
    \o (IF s = b THEN RequestMessage(-1, 0, RequestLength(-1)) ELSE <<>>)

SearchFor(c, used, out, r) ==
    LET a == Chosen(c.conn, c.stat, r, -1)
        b == Chosen(c.conn, c.stat, -1, a)
        told == Told(c.conn, c.stat, r, a, b)
    IN Result([c EXCEPT !.conn = ConnAfter(@, r, a, b, told),
                        !.stat = StatAfter(@, r, a, b),
                        !.rank = RankAfter(@, r, a)],
              used,
              Then(out, [s \in Slots |-> SendsTo(s, told, r, a, b)]))

(* find_rarest_peice_and_send_request, after the sends of out.               *)
FindRarest(c, used, out) ==
    IF \E p \in Rarest(c.rank) : c.rank[p] = ALL_DONE_RANKING
    THEN {Result(c, used, out)}
    ELSE { SearchFor(c, used, out, r) : r \in Rarest(c.rank) }

ReadUnchoke(c, i) ==
    LET c1 == [c EXCEPT !.conn[i].peer_chocking = FALSE]
    IN IF c.conn[i].am_intersted THEN FindRarest(c1, 5, Silence) ELSE {Result(c1, 5, Silence)}

(* A seeder has no array of rankings: it dereferences a null pointer for the  *)
(* first piece that a peer has.                                             *)
StoreBits(c, i, bits, used) ==
    LET c1   == [c EXCEPT !.conn = StoreBitField(@, i, bits), !.rank = AddHolder(@, bits)]
        want == check_intersted(c1.conn, i, c.bits, c.stat)
    IN IF c.seeder /\ \E p \in Pieces : get_bit_field(bits, p)
       THEN {Ends(c, "crashed", used)}
       ELSE IF want >= 0
       THEN FindRarest([c1 EXCEPT !.conn[i].am_intersted = TRUE,
                                  !.conn[i].intersted_peice = want],
                       used, Tell(i, INTERSTED))
       ELSE {Result([c1 EXCEPT !.conn[i].am_intersted = FALSE], used, Tell(i, NOT_INTERSTED))}

(* A length below 1 asks malloc for more than there is.                      *)
ReadBitField(c, i, s, eof) ==
    LET n    == WordAt(s, 1)
        bits == BitsOf(Bytes(s, 6, 4 + n))
    IN IF n < 1 THEN {CloseConnection(c, i, 5)}
       ELSE IF ~Enough(s, 4 + n, eof) THEN {}
       ELSE IF n - 1 # bit_field_size(no_of_peices) \/ SpareBitsSet(bits)
       THEN {CloseConnection(c, i, 4 + n)}
       ELSE StoreBits(c, i, bits, 4 + n)

(* What lies behind the arrays is written for a number that is no piece's.    *)
ReadHave(c, i, s, eof) ==
    LET p  == WordAt(s, 6)
        c1 == [c EXCEPT !.conn[i].bit_field = set_bit_field(@, p), !.rank[p] = @ + 1]
    IN IF ~Enough(s, 9, eof) THEN {}
       ELSE IF c.conn[i].bit_field = NULL \/ c.seeder THEN {Ends(c, "crashed", 9)}
       ELSE IF p \notin Pieces THEN {Ends(c, "overrun", 9)}
       ELSE IF ~get_bit_field(c.bits, p) /\ c.stat[p] = NOT_DOWNLOADED
       THEN FindRarest(c1, 9, Tell(i, INTERSTED))
       ELSE {Result(c1, 9, Silence)}

(* The bytes of the file: those of different pieces differ.                  *)
Data(p, begin, n) == [k \in 1 .. n |-> 100 + p]

(* htonl is applied to an int and its result cut to 8 bits: 4, or 0 where     *)
(* htonl swaps bytes.                                                       *)
HaveMessage(c, p) == Message(IF c.swaps THEN 0 ELSE HAVE_PEICE, Word(p))

(* Mutant: those who have the piece are not told.                            *)
SendHaveToLacking(c, p) ==
    [s \in Slots |->
        IF /\ c.conn[s].in_use
           /\ c.conn[s].bit_field # NULL => ~get_bit_field(c.conn[s].bit_field, p)
        THEN HaveMessage(c, p) ELSE <<>>]

(* send_have_message, to every connection in use.                            *)
SendHave(c, p) ==
    [s \in Slots |-> IF c.conn[s].in_use THEN HaveMessage(c, p) ELSE <<>>]

AcceptPeice(c, i, p, used) ==
    LET c1 == [c EXCEPT !.conn[i].request_sent = FALSE, !.stat[p] = COMPLETED,
                        !.bits = set_bit_field(@, p)]
    IN IF \A q \in Pieces : c1.stat[q] = COMPLETED
       THEN {Result(c1, used, Then(SendHave(c1, p), Tell(i, NOT_INTERSTED)))}
       ELSE IF check_intersted(c1.conn, i, c1.bits, c1.stat) >= 0
       THEN FindRarest([c1 EXCEPT !.conn[i].am_intersted = TRUE], used, SendHave(c1, p))
       ELSE {Result([c1 EXCEPT !.conn[i].am_intersted = FALSE], used,
                    Then(SendHave(c1, p), Tell(i, NOT_INTERSTED)))}

(* Another piece than the one asked for last closes the connection before     *)
(* its bytes are read; so do bytes with another hash, and a piece cut off.    *)
(* What lies behind the hashes is read for -1, if -1 was asked for last.      *)
ReadPeice(c, i, s, eof) ==
    LET n == WordAt(s, 1)
        p == WordAt(s, 6)
    IN IF ~Enough(s, 13, eof) THEN {}
       ELSE IF Len(s) < 13 \/ p # c.conn[i].intersted_peice \/ n < 9
       THEN {CloseConnection(c, i, 13)}
       ELSE IF ~Enough(s, 4 + n, eof) THEN {}
       ELSE IF p \notin Pieces THEN {Ends(c, "overrun", 4 + n)}
       ELSE IF Bytes(s, 14, 4 + n) # Data(p, 0, TrueLength(p))
       THEN {CloseConnection(c, i, 4 + n)}
       ELSE IF c.seeder THEN {Ends(c, "exited", 4 + n)}
       ELSE AcceptPeice(c, i, p, 4 + n)

-----------------------------------------------------------------------------
(* The upload half                                                          *)

(* Mutant: the interest of a peer is taken without unchoking it.              *)
ReadInterstedOnly(c, i) == {Result([c EXCEPT !.conn[i].peer_intersted = TRUE], 5, Silence)}

(* Mutant: the peer is unchoked without a note of it.                        *)
ReadInterstedUnmarked(c, i) ==
    {Result([c EXCEPT !.conn[i].peer_intersted = TRUE], 5, Tell(i, UNCHOKE))}

ReadIntersted(c, i) ==
    {Result([c EXCEPT !.conn[i].peer_intersted = TRUE, !.conn[i].am_chocking = FALSE],
            5, Tell(i, UNCHOKE))}

ReadNotIntersted(c, i) ==
    {Result([c EXCEPT !.conn[i].peer_intersted = FALSE], 5, Silence)}

(* Mutant: the last byte of the file is not read.                            *)
CanReadButLast(c, p, begin, n) ==
    c.seeder /\ n > 0 /\ begin >= 0 /\ p * PieceSize + begin + n < FileSize

(* fread gets n bytes: the file of a client that downloads is open for        *)
(* writing only.  begin and n are unsigned in the code and the offset has 64   *)
(* bits: one that is negative here lies behind the end of any file.          *)
CanRead(c, p, begin, n) ==
    \/ n = 0
    \/ /\ c.seeder
       /\ n > 0 /\ begin >= 0
       /\ p * PieceSize + begin + n <= FileSize

(* The block is within the piece, by the sum modulo 2^32.                    *)
InPiece(p, begin, n) == p \in Pieces /\ begin + n \in 0 .. PieceSize

SendBlock(c, i, p, begin, n) ==
    Result([c EXCEPT !.uploaded = @ + n], 17,
           To(i, PeiceMessage(p, begin, Data(p, begin, n))))

(* Mutants: the block is sent as the piece's first; what fread has not filled *)
(* is freed twice.                                                          *)
AnswerFromStart(c, i, p, begin, n) ==
    IF InPiece(p, begin, n) /\ get_bit_field(c.bits, p) /\ CanRead(c, p, begin, n)
    THEN SendBlock(c, i, p, 0, n)
    ELSE Result(c, 17, Silence)

AnswerFreesTwice(c, i, p, begin, n) ==
    IF InPiece(p, begin, n) /\ get_bit_field(c.bits, p)
    THEN IF CanRead(c, p, begin, n) THEN SendBlock(c, i, p, begin, n)
                                    ELSE Ends(c, "crashed", 17)
    ELSE Result(c, 17, Silence)

Answer(c, i, p, begin, n) ==
    IF InPiece(p, begin, n) /\ get_bit_field(c.bits, p) /\ CanRead(c, p, begin, n)
    THEN SendBlock(c, i, p, begin, n)
    ELSE Result(c, 17, Silence)

(* Of a request that the stream ends in, index, begin and length are          *)
(* whatever the variables held.                                             *)
RequestWords(s) ==
    IF Len(s) >= 17 THEN { <<WordAt(s, 6), WordAt(s, 10), WordAt(s, 14)>> }
                    ELSE Index \X (0 .. PieceSize) \X (0 .. PieceSize)

(* The payload is read only if the request may be answered.                  *)
ReadRequest(c, i, s, eof) ==
    IF ~c.conn[i].peer_intersted \/ c.conn[i].am_chocking THEN {Result(c, 5, Silence)}
    ELSE IF ~Enough(s, 17, eof) THEN {}
    ELSE { Answer(c, i, w[1], w[2], w[3]) : w \in RequestWords(s) }

-----------------------------------------------------------------------------
(* read_from_client_connection: the header, then the handler of the number.   *)
(* The payloads of choke, unchoke, intersted, not intersted and cancel        *)
(* messages, if they have any, stay in the stream.                           *)

Handle(c, i, s, eof) ==
    LET id == s[5]
    IN CASE id = CHOKE         -> {Result([c EXCEPT !.conn[i].peer_chocking = TRUE], 5, Silence)}
         [] id = UNCHOKE       -> ReadUnchoke(c, i)
         [] id = INTERSTED     -> ReadIntersted(c, i)
         [] id = NOT_INTERSTED -> ReadNotIntersted(c, i)
         [] id = BIT_FIELD     -> ReadBitField(c, i, s, eof)
         [] id = HAVE_PEICE    -> ReadHave(c, i, s, eof)
         [] id = REQUEST       -> ReadRequest(c, i, s, eof)
         [] id = PEICE         -> ReadPeice(c, i, s, eof)
         [] id = CANCLE        -> {Result(c, 5, Silence)}
         [] OTHER              -> {CloseConnection(c, i, 5)}

(* What may come of reading from slot i when s is in the stream, and nothing  *)
(* will follow if eof; {} when readn waits for more.                         *)
Reactions(c, i, s, eof) ==
    IF Len(s) < 4
    THEN IF ~eof THEN {}
         ELSE IF s = <<>> THEN {CloseConnection(c, i, 0)}
         ELSE {Result(c, Len(s), Silence)}
    ELSE IF WordAt(s, 1) = 0 THEN {Result(c, 4, Silence)}
    ELSE IF Len(s) = 4
    THEN IF eof THEN {CloseConnection(c, i, 4)} ELSE {}
    ELSE Handle(c, i, s, eof)
=============================================================================
