---------------------------- MODULE Connections ----------------------------
(***************************************************************************)
(* The pieces of a torrent and the connection table of a client, as far as    *)
(* they are plain functions of the tables: the search for the rarest piece,   *)
(* what a bit field does to the rankings, what opening a connection resets.   *)
(* Leecher and Client are built from them.                                  *)
(***************************************************************************)
EXTENDS BitField

CONSTANTS
    MAX_CONN,       \* size of the connection table
    FileSize,       \* "length" of the torrent
    PieceSize,      \* "piece length" of the torrent
    NULL            \* the pointer of a bit field that was never received

NOT_DOWNLOADED == 0
DOWNLOADING    == 1
COMPLETED      == 2

Status == {NOT_DOWNLOADED, DOWNLOADING, COMPLETED}

ALL_DONE_RANKING    == 120      \* tested by the search for the rarest piece
DOWNLOADING_RANKING == 9999     \* given to a piece that has been requested

no_of_peices ==
    IF FileSize % PieceSize # 0 THEN FileSize \div PieceSize + 1
                                ELSE FileSize \div PieceSize

Pieces == 0 .. no_of_peices - 1
Index  == -1 .. no_of_peices - 1        \* -1 is the word before an array
Slots  == 0 .. MAX_CONN - 1

(* The bytes of piece p in the file; a piece of another length cannot have   *)
(* the hash of piece p.                                                     *)
TrueLength(p) ==
    IF (p + 1) * PieceSize <= FileSize THEN PieceSize
                                       ELSE FileSize - p * PieceSize

(* What send_request asks for.                                              *)
RequestLength(p) ==
    IF p = no_of_peices - 1 /\ FileSize % PieceSize # 0
    THEN FileSize % PieceSize
    ELSE PieceSize

-----------------------------------------------------------------------------
(* Slots and the records in them                                            *)

(* The smallest member, or MAX_CONN for none.                                *)
FirstOf(S) == IF S = {} THEN MAX_CONN
              ELSE CHOOSE s \in S : \A t \in S : s <= t

(* Mutant: peer_chocking is not reset.                                       *)
NewConnKeepsChocking(c) == [c EXCEPT !.in_use = TRUE, !.am_intersted = FALSE]

(* What both ways of opening a connection assign; request_sent,              *)
(* intersted_peice and bit_field keep the values of the slot's last use.     *)
NewConn(c) == [c EXCEPT !.in_use = TRUE, !.am_intersted = FALSE,
                        !.peer_chocking = TRUE]

Closed(c, s) == [c EXCEPT ![s].in_use = FALSE]

-----------------------------------------------------------------------------
(* The search for the rarest piece                                          *)

Rarest(rank) == { p \in Pieces : \A q \in Pieces : rank[p] <= rank[q] }

(* Mutant: the status of the piece is not tested.                            *)
HoldersAnyStatus(c, stat, r, lo) ==
    { s \in Slots : /\ s > lo
                    /\ c[s].in_use
                    /\ c[s].bit_field # NULL
                    /\ get_bit_field(c[s].bit_field, r) }

(* The slots after lo that pass the tests on bit field and status of r.       *)
Holders(c, stat, r, lo) ==
    { s \in Slots : /\ s > lo
                    /\ c[s].in_use
                    /\ c[s].bit_field # NULL
                    /\ get_bit_field(c[s].bit_field, r)
                    /\ stat[r] = NOT_DOWNLOADED }

(* Mutants: request_sent is not tested; the pass starts at slot 1.           *)
ChosenBusy(c, stat, r, lo) ==
    FirstOf({ s \in Holders(c, stat, r, lo) : ~c[s].peer_chocking })

ChosenFromOne(c, stat, r, lo) ==
    FirstOf({ s \in Holders(c, stat, r, lo) :
                s > 0 /\ ~c[s].peer_chocking /\ ~c[s].request_sent })

(* The slot the pass over the table sends the request for r to.              *)
Chosen(c, stat, r, lo) ==
    FirstOf({ s \in Holders(c, stat, r, lo) :
                ~c[s].peer_chocking /\ ~c[s].request_sent })

(* The choking holders before it, which are sent an interested message.      *)
Nudged(c, stat, r, lo) ==
    { s \in Holders(c, stat, r, lo) :
        /\ s < Chosen(c, stat, r, lo)
        /\ c[s].peer_chocking
        /\ ~c[s].am_intersted }

(* The choking holders, and the two slots a and b that are sent a request, as  *)
(* far as they have not been sent an interested message.                     *)
Told(c, stat, r, a, b) ==
    Nudged(c, stat, r, -1) \cup Nudged(c, stat, -1, a)
        \cup { s \in {a, b} \cap Slots : ~c[s].am_intersted }

(* The tables after slot a was asked for r and slot b for piece -1, where     *)
(* MAX_CONN stands for no slot.                                             *)
ConnAfter(c, r, a, b, told) ==
    [s \in Slots |->
        [c[s] EXCEPT
          !.am_intersted = @ \/ s \in told,
          !.request_sent = @ \/ s \in {a, b},
          !.intersted_peice = IF s = a THEN r ELSE IF s = b THEN -1 ELSE @]]

StatAfter(stat, r, a, b) ==
    [q \in Index |-> IF (q = r /\ a \in Slots) \/ (q = -1 /\ b \in Slots)
                     THEN DOWNLOADING ELSE stat[q]]

RankAfter(rank, r, a) ==
    [q \in Pieces |-> IF q = r /\ a \in Slots THEN DOWNLOADING_RANKING ELSE rank[q]]

-----------------------------------------------------------------------------
(* Bit fields of peers                                                      *)

(* The first piece that the client lacks, peer s has and nobody was asked    *)
(* for; -1 for none.                                                        *)
check_intersted(c, s, own, stat) ==
    LET wanted == { p \in Pieces : /\ ~get_bit_field(own, p)
                                   /\ get_bit_field(c[s].bit_field, p)
                                   /\ stat[p] = NOT_DOWNLOADED }
    IN IF wanted = {} THEN -1
       ELSE CHOOSE p \in wanted : \A q \in wanted : p <= q

(* A bit field whose spare bits appear to be set closes the connection.      *)
SpareBitsSet(bits) ==
    \E q \in SparePositions(no_of_peices) : get_bit_field(bits, q)

(* Mutant: piece 0 is not counted.                                           *)
AddHolderFromOne(rank, bits) ==
    [p \in Pieces |-> IF p > 0 /\ get_bit_field(bits, p) THEN rank[p] + 1 ELSE rank[p]]

AddHolder(rank, bits) ==
    [p \in Pieces |-> IF get_bit_field(bits, p) THEN rank[p] + 1 ELSE rank[p]]

(* Mutant: a bit field is stored only in a slot that has none.                *)
StoreOnce(c, i, bits) ==
    [c EXCEPT ![i].bit_field = IF @ = NULL THEN bits ELSE @]

StoreBitField(c, i, bits) == [c EXCEPT ![i].bit_field = bits]
=============================================================================
