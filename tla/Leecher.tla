------------------------------- MODULE Leecher -------------------------------
(***************************************************************************)
(* The download half of one client that was started without the file:       *)
(* download.c and the part of the event loop that drives it.  One process   *)
(* runs every handler to its end, so a handler is one action; what           *)
(* interleaves is the order in which messages of the peers become readable.  *)
(*                                                                         *)
(* The remote peers are external.  peer[i] is what the far end of connection *)
(* i knows and wire[i] the messages it has sent and the client has not read; *)
(* a message of the client is in peer[i] at once, which loses no order: the  *)
(* answers queue in wire[i].  Peers are honest BitTorrent clients that may    *)
(* do what Behaviours names.                                               *)
(***************************************************************************)
EXTENDS Connections, Sequences, FiniteSets, FiniteSetsExt

CONSTANTS
    Holdings,       \* the sets of pieces a peer may hold when it connects
    Behaviours,     \* what peers, user and disk may do besides serving
    LittleEndian,   \* whether htonl swaps bytes on the build's machine
    WordBefore,     \* values of the word before the array peice_status
    MaxOpened,      \* bound: connections opened in one run of the program
    MaxWire         \* bound: unread messages of a connection

AllBehaviours == {"choke", "have", "corrupt", "close", "reset", "reject",
                  "skip", "show", "quit", "disk", "crowd"}

ASSUME ConstantsAssumption ==
    /\ MAX_CONN \in Nat \ {0}
    /\ FileSize \in Nat \ {0}
    /\ PieceSize \in Nat \ {0}
    /\ \A B \in SUBSET Pieces : NULL # B
    /\ Holdings \subseteq SUBSET Pieces
    /\ Behaviours \subseteq AllBehaviours
    /\ LittleEndian \in BOOLEAN
    /\ WordBefore \subseteq {NOT_DOWNLOADED, DOWNLOADING}
    /\ MaxOpened \in Nat
    /\ MaxWire \in Nat \ {0}

VARIABLES
    proc,           \* "up", or how the process ended
    announced,      \* a tracker response has been read
    todo,           \* peers download_from_peers has still to connect to
    opened,         \* connections opened so far
    conn,           \* the connection table, download half of peer_status
    peice_status,
    peice_ranking,
    bit_field,      \* the client's own bit field
    downloaded,
    left,
    wire,           \* wire[i]: sent by the peer of slot i, not yet read
    peer            \* peer[i]: the peer of slot i

vars == <<proc, announced, todo, opened, conn, peice_status, peice_ranking,
          bit_field, downloaded, left, wire, peer>>

userVars == <<announced, todo, opened>>
fileVars == <<bit_field, downloaded, left>>

-----------------------------------------------------------------------------
(* Messages and peers (external)                                            *)

Choke       == [type |-> "CHOKE"]
Unchoke     == [type |-> "UNCHOKE"]
EndOfStream == [type |-> "EOF"]         \* the peer has closed its end
Have(p)     == [type |-> "HAVE", index |-> p]
BitField(b) == [type |-> "BIT_FIELD", bits |-> b]
Peice(p, good) == [type |-> "PEICE", index |-> p, good |-> good]

Message ==
    {Choke, Unchoke, EndOfStream}
    \cup { Have(p) : p \in Pieces }
    \cup { BitField(b) : b \in SUBSET Pieces }
    \cup { Peice(p, good) : p \in Pieces, good \in BOOLEAN }

NoPeer ==
    [open |-> FALSE,        \* it has not closed its end
     has |-> {},            \* the pieces it holds
     choking |-> TRUE,      \* it chokes the client
     interested |-> FALSE,  \* the last it heard: the client is interested
     pending |-> {},        \* requests it will answer
     told |-> {},           \* the pieces the client has announced to it
     asked |-> FALSE]       \* it has received a request

PeerType ==
    [open: BOOLEAN, has: SUBSET Pieces, choking: BOOLEAN, interested: BOOLEAN,
     pending: SUBSET Pieces, told: SUBSET Pieces, asked: BOOLEAN]

(* Mutant: the client's bit field is not sent after the handshake.           *)
NewPeerUntold(has) == [NoPeer EXCEPT !.open = TRUE, !.has = has]

(* A new peer reads the client's bit field, as bits on the wire.             *)
NewPeer(has) ==
    [NoPeer EXCEPT !.open = TRUE, !.has = has, !.told = bit_field]

(* The peers whose state s is open and who read an interested message.       *)
TellInterested(pr, S) ==
    [s \in Slots |-> [pr[s] EXCEPT !.interested = @ \/ (s \in S /\ pr[s].open)]]

TellNotInterested(pr, s) == [pr EXCEPT ![s].interested = FALSE]

-----------------------------------------------------------------------------
(* The connection table                                                     *)

ConnType ==
    [in_use: BOOLEAN, am_intersted: BOOLEAN, peer_chocking: BOOLEAN,
     request_sent: BOOLEAN, intersted_peice: Index,
     bit_field: (SUBSET Pieces) \cup {NULL}]

FreeSlots == { s \in Slots : ~conn[s].in_use }

get_free_sock == FirstOf(FreeSlots)

(* A send to a peer that has closed its end succeeds, or raises SIGPIPE,      *)
(* for which no handler is installed.                                       *)
AfterSends(pr, sent) ==
    IF \E s \in sent : ~pr[s].open THEN {"up", "killed"} ELSE {"up"}

-----------------------------------------------------------------------------
(* find_rarest_peice_and_send_request                                       *)

(* What a handler leaves in the tables it shares with the search.            *)
Commit(c, stat, rank, pr, sent) ==
    /\ conn' = c
    /\ peice_status' = stat
    /\ peice_ranking' = rank
    /\ peer' = pr
    /\ proc' \in AfterSends(pr, sent)

(* A choking peer drops a request, and every peer one for what it lacks.      *)
SendRequest(pr, s, p) ==
    IF s \notin Slots THEN pr
    ELSE [pr EXCEPT ![s].asked = TRUE,
                    ![s].pending = IF pr[s].open /\ ~pr[s].choking /\ p \in pr[s].has
                                   THEN @ \cup {p} ELSE @]

(* The pass over the slots requests r from the first idle holder, slot a,    *)
(* and goes on with r = -1: the word before peice_status is tested, bit 0 of *)
(* the remaining bit fields, and a slot b that passes is sent a request for  *)
(* piece -1.                                                                *)
SearchFor(c, stat, rank, pr, sent, r) ==
    LET a == Chosen(c, stat, r, -1)
        b == Chosen(c, stat, -1, a)
        told == Told(c, stat, r, a, b)
        pr1 == SendRequest(SendRequest(TellInterested(pr, told), a, r), b, -1)
    IN Commit(ConnAfter(c, r, a, b, told), StatAfter(stat, r, a, b), RankAfter(rank, r, a),
              pr1, sent \cup told \cup ({a, b} \cap Slots))

(* One of the rarest pieces is drawn.                                       *)
FindRarest(c, stat, rank, pr, sent) ==
    \/ /\ \E p \in Rarest(rank) : rank[p] = ALL_DONE_RANKING
       /\ Commit(c, stat, rank, pr, sent)
    \/ /\ \A p \in Rarest(rank) : rank[p] # ALL_DONE_RANKING
       /\ \E r \in Rarest(rank) : SearchFor(c, stat, rank, pr, sent, r)

-----------------------------------------------------------------------------
(* The messages a connection may bring, each handler run to its end          *)

Up == proc = "up"

(* The event loop is at select: no announce command is connecting.           *)
Ready == Up /\ todo = 0

Receives(i, type) ==
    /\ Ready
    /\ conn[i].in_use
    /\ wire[i] # <<>>
    /\ Head(wire[i]).type = type

Consume(i) == wire' = [wire EXCEPT ![i] = Tail(@)]

CloseSlot(i) ==
    /\ conn' = Closed(conn, i)
    /\ wire' = [wire EXCEPT ![i] = <<>>]
    /\ peer' = [peer EXCEPT ![i] = NoPeer]

HandleEndOfStream(i) ==
    /\ Receives(i, "EOF")
    /\ CloseSlot(i)
    /\ UNCHANGED <<proc, userVars, peice_status, peice_ranking, fileVars>>

HandleChoke(i) ==
    /\ Receives(i, "CHOKE")
    /\ Consume(i)
    /\ conn' = [conn EXCEPT ![i].peer_chocking = TRUE]
    /\ UNCHANGED <<proc, userVars, peice_status, peice_ranking, fileVars, peer>>

HandleUnchoke(i) ==
    /\ Receives(i, "UNCHOKE")
    /\ Consume(i)
    /\ LET c == [conn EXCEPT ![i].peer_chocking = FALSE]
       IN IF conn[i].am_intersted
          THEN FindRarest(c, peice_status, peice_ranking, peer, {})
          ELSE Commit(c, peice_status, peice_ranking, peer, {})
    /\ UNCHANGED <<userVars, fileVars>>

RejectBitField(i) ==
    /\ Receives(i, "BIT_FIELD")
    /\ SpareBitsSet(Head(wire[i]).bits)
    /\ CloseSlot(i)
    /\ UNCHANGED <<proc, userVars, peice_status, peice_ranking, fileVars>>

AcceptBitField(i) ==
    /\ Receives(i, "BIT_FIELD")
    /\ ~SpareBitsSet(Head(wire[i]).bits)
    /\ Consume(i)
    /\ LET bits == Head(wire[i]).bits
           rank == AddHolder(peice_ranking, bits)
           c    == StoreBitField(conn, i, bits)
           want == check_intersted(c, i, bit_field, peice_status)
       IN IF want >= 0
          THEN FindRarest([c EXCEPT ![i].am_intersted = TRUE,
                                    ![i].intersted_peice = want],
                          peice_status, rank, TellInterested(peer, {i}), {i})
          ELSE Commit([c EXCEPT ![i].am_intersted = FALSE],
                      peice_status, rank, TellNotInterested(peer, i), {i})
    /\ UNCHANGED <<userVars, fileVars>>

(* No bit field was received on the connection: a null pointer is written.   *)
HaveWithoutBitField(i) ==
    /\ Receives(i, "HAVE")
    /\ conn[i].bit_field = NULL
    /\ proc' = "crashed"
    /\ UNCHANGED <<userVars, conn, peice_status, peice_ranking, fileVars, wire, peer>>

(* The interested message sent here is not recorded in am_intersted.         *)
HandleHave(i) ==
    /\ Receives(i, "HAVE")
    /\ conn[i].bit_field # NULL
    /\ Consume(i)
    /\ LET p    == Head(wire[i]).index
           c    == [conn EXCEPT ![i].bit_field = set_bit_field(@, p)]
           rank == [peice_ranking EXCEPT ![p] = @ + 1]
       IN IF ~get_bit_field(bit_field, p) /\ peice_status[p] = NOT_DOWNLOADED
          THEN FindRarest(c, peice_status, rank, TellInterested(peer, {i}), {i})
          ELSE Commit(c, peice_status, rank, peer, {})
    /\ UNCHANGED <<userVars, fileVars>>

(* Mutant: a whole piece is counted, also for the short last one.            *)
CountWholePeice(p) == PieceSize

(* peice_length of the answer: the bytes that were asked for.                *)
PeiceLength(p) == RequestLength(p)

(* Not the piece asked for last, or not its contents.  request_sent stays    *)
(* TRUE and the piece stays DOWNLOADING.                                    *)
RejectPeice(i) ==
    /\ Receives(i, "PEICE")
    /\ \/ Head(wire[i]).index # conn[i].intersted_peice
       \/ ~Head(wire[i]).good
    /\ CloseSlot(i)
    /\ UNCHANGED <<proc, userVars, peice_status, peice_ranking, fileVars>>

(* message_id is htonl(4) cut to 8 bits: 4, or 0 where htonl swaps bytes,    *)
(* so that the peer reads a choke message and learns of no piece.           *)
send_have_message(pr, p) ==
    IF LittleEndian THEN pr
    ELSE [s \in Slots |-> [pr[s] EXCEPT !.told = IF pr[s].open THEN @ \cup {p}
                                                            ELSE @]]

AcceptPeice(i) ==
    /\ Receives(i, "PEICE")
    /\ Head(wire[i]).index = conn[i].intersted_peice
    /\ Head(wire[i]).good
    /\ Consume(i)
    /\ LET p    == Head(wire[i]).index
           stat == [peice_status EXCEPT ![p] = COMPLETED]
           own  == set_bit_field(bit_field, p)
           c    == [conn EXCEPT ![i].request_sent = FALSE]
           pr   == send_have_message(peer, p)
           all  == { s \in Slots : conn[s].in_use }
       IN /\ bit_field' = own
          /\ downloaded' = downloaded + PeiceLength(p)
          /\ left' = left - PeiceLength(p)
          /\ IF \A q \in Pieces : stat[q] = COMPLETED
             THEN Commit(c, stat, peice_ranking, TellNotInterested(pr, i), all)
             ELSE IF check_intersted(c, i, own, stat) >= 0
             THEN FindRarest([c EXCEPT ![i].am_intersted = TRUE],
                             stat, peice_ranking, pr, all)
             ELSE Commit([c EXCEPT ![i].am_intersted = FALSE],
                         stat, peice_ranking, TellNotInterested(pr, i), all)
    /\ UNCHANGED userVars

(* The write of a verified piece fails: the program exits.                   *)
PeiceWriteFails(i) ==
    /\ "disk" \in Behaviours
    /\ Receives(i, "PEICE")
    /\ Head(wire[i]).index = conn[i].intersted_peice
    /\ Head(wire[i]).good
    /\ proc' = "exited"
    /\ UNCHANGED <<userVars, conn, peice_status, peice_ranking, fileVars, wire, peer>>

-----------------------------------------------------------------------------
(* Opening connections                                                      *)

(* The bit field is the first message of a peer that sends one at all.       *)
Greetings(has) ==
    { <<BitField(has)>> }
        \cup (IF has = {} /\ "skip" \in Behaviours THEN { <<>> } ELSE {})

(* The three ends of a handshake on slot i: it succeeds and leaves bits in    *)
(* the slot; the answer is refused and the slot is freed; the connection is   *)
(* lost and the slot stays in use until the end of stream is read.          *)
HandshakeDone(i, bits) ==
    /\ opened < MaxOpened
    /\ \E has \in Holdings :
        /\ peer' = [peer EXCEPT ![i] = NewPeer(has)]
        /\ \E g \in Greetings(has) : wire' = [wire EXCEPT ![i] = g]
    /\ conn' = [conn EXCEPT ![i] = [NewConn(@) EXCEPT !.bit_field = bits]]
    /\ opened' = opened + 1

HandshakeRefused(i) ==
    /\ "reject" \in Behaviours
    /\ conn' = [conn EXCEPT ![i] = [NewConn(@) EXCEPT !.in_use = FALSE]]
    /\ UNCHANGED <<opened, wire, peer>>

HandshakeLost(i) ==
    /\ "reset" \in Behaviours
    /\ opened < MaxOpened
    /\ conn' = [conn EXCEPT ![i] = NewConn(@)]
    /\ wire' = [wire EXCEPT ![i] = <<EndOfStream>>]
    /\ opened' = opened + 1
    /\ UNCHANGED peer

(* establish_tcp_connection; with a full table it returns without accepting.  *)
Accept ==
    /\ Ready
    /\ LET i == get_free_sock
       IN /\ i \in Slots
          /\ HandshakeDone(i, NULL) \/ HandshakeRefused(i) \/ HandshakeLost(i)
    /\ UNCHANGED <<proc, announced, todo, peice_status, peice_ranking, fileVars>>

(* The announce command, when the tracker has answered with peers to which   *)
(* download_from_peers will connect, those it is connected to included.     *)
(* Bound: one more peer than there are free slots.                          *)
Announce ==
    /\ Ready
    /\ announced' = TRUE
    /\ todo' \in 0 .. Cardinality(FreeSlots) + (IF "crowd" \in Behaviours THEN 1 ELSE 0)
    /\ UNCHANGED <<proc, opened, conn, peice_status, peice_ranking, fileVars, wire, peer>>

(* One iteration of download_from_peers: establish_conn_with_client, where    *)
(* connect may fail before the slot is touched.  bit_field is not reset.     *)
ConnectNext ==
    /\ Up
    /\ todo > 0
    /\ FreeSlots # {}
    /\ todo' = todo - 1
    /\ LET i == get_free_sock
       IN \/ HandshakeDone(i, conn[i].bit_field)
          \/ HandshakeRefused(i)
          \/ HandshakeLost(i)
          \/ /\ "reject" \in Behaviours \/ opened = MaxOpened
             /\ UNCHANGED <<conn, opened, wire, peer>>
    /\ UNCHANGED <<proc, announced, peice_status, peice_ranking, fileVars>>

(* With a full table the slot is -1, and what lies before conn is written.   *)
ConnectOverrun ==
    /\ Up
    /\ todo > 0
    /\ FreeSlots = {}
    /\ proc' = "overrun"
    /\ UNCHANGED <<userVars, conn, peice_status, peice_ranking, fileVars, wire, peer>>

(* The show command reads the bit field of every connection in use, unless   *)
(* no tracker response has been read.                                       *)
Show ==
    /\ "show" \in Behaviours
    /\ Ready
    /\ announced
    /\ \E i \in Slots : conn[i].in_use /\ conn[i].bit_field = NULL
    /\ proc' = "crashed"
    /\ UNCHANGED <<userVars, conn, peice_status, peice_ranking, fileVars, wire, peer>>

Quit ==
    /\ "quit" \in Behaviours
    /\ Ready
    /\ proc' = "exited"
    /\ UNCHANGED <<userVars, conn, peice_status, peice_ranking, fileVars, wire, peer>>

-----------------------------------------------------------------------------
(* The peers (external)                                                     *)

PeerSends(i, m) ==
    /\ Up
    /\ peer[i].open
    /\ Len(wire[i]) < MaxWire
    /\ wire' = [wire EXCEPT ![i] = Append(@, m)]
    /\ UNCHANGED <<proc, userVars, conn, peice_status, peice_ranking, fileVars>>

PeerUnchokes(i) ==
    /\ peer[i].choking
    /\ PeerSends(i, Unchoke)
    /\ peer' = [peer EXCEPT ![i].choking = FALSE]

(* Choking discards the requests that wait for an answer.                    *)
PeerChokes(i) ==
    /\ "choke" \in Behaviours
    /\ ~peer[i].choking
    /\ PeerSends(i, Choke)
    /\ peer' = [peer EXCEPT ![i].choking = TRUE, ![i].pending = {}]

PeerGains(i, p) ==
    /\ "have" \in Behaviours
    /\ p \notin peer[i].has
    /\ PeerSends(i, Have(p))
    /\ peer' = [peer EXCEPT ![i].has = @ \cup {p}]

(* The peer answers with the bytes asked for, or with damaged ones.          *)
PeerServes(i, p) ==
    /\ p \in peer[i].pending
    /\ \E good \in BOOLEAN :
        /\ IF good THEN RequestLength(p) = TrueLength(p)
           ELSE "corrupt" \in Behaviours \/ RequestLength(p) # TrueLength(p)
        /\ PeerSends(i, Peice(p, good))
    /\ peer' = [peer EXCEPT ![i].pending = @ \ {p}]

PeerCloses(i) ==
    /\ "close" \in Behaviours
    /\ PeerSends(i, EndOfStream)
    /\ peer' = [peer EXCEPT ![i].open = FALSE, ![i].pending = {}]

-----------------------------------------------------------------------------
Init ==
    /\ proc = "up"
    /\ announced = FALSE
    /\ todo = 0
    /\ opened = 0
    /\ conn = [s \in Slots |->
                [in_use |-> FALSE, am_intersted |-> FALSE, peer_chocking |-> FALSE,
                 request_sent |-> FALSE, intersted_peice |-> 0, bit_field |-> NULL]]
    /\ \E w \in WordBefore :
        peice_status = [q \in Index |-> IF q = -1 THEN w ELSE NOT_DOWNLOADED]
    /\ peice_ranking = [p \in Pieces |-> 0]
    /\ bit_field = {}
    /\ downloaded = 0
    /\ left = FileSize
    /\ wire = [s \in Slots |-> <<>>]
    /\ peer = [s \in Slots |-> NoPeer]

(* read_from_client_connection(i)                                           *)
ReadFromConnection(i) ==
    \/ HandleEndOfStream(i)
    \/ HandleChoke(i)
    \/ HandleUnchoke(i)
    \/ RejectBitField(i)
    \/ AcceptBitField(i)
    \/ HaveWithoutBitField(i)
    \/ HandleHave(i)
    \/ RejectPeice(i)
    \/ AcceptPeice(i)
    \/ PeiceWriteFails(i)

PeerSteps(i) ==
    \/ PeerUnchokes(i)
    \/ PeerChokes(i)
    \/ \E p \in Pieces : PeerGains(i, p) \/ PeerServes(i, p)
    \/ PeerCloses(i)

Next ==
    \/ \E i \in Slots : ReadFromConnection(i) \/ PeerSteps(i)
    \/ Accept
    \/ Announce
    \/ ConnectNext
    \/ ConnectOverrun
    \/ Show
    \/ Quit

Spec == Init /\ [][Next]_vars

(* select reports every readable connection and the loop serves each in turn, *)
(* so no connection is passed over for ever; download_from_peers is a plain   *)
(* loop.  Of the peers it is assumed that they unchoke and serve; of the user  *)
(* and of new connections nothing.                                          *)
Fairness ==
    /\ WF_vars(ConnectNext)
    /\ \A i \in Slots :
        /\ WF_vars(ReadFromConnection(i))
        /\ WF_vars(PeerUnchokes(i))
        /\ WF_vars(\E p \in Pieces : PeerServes(i, p))

FairSpec == Spec /\ Fairness

-----------------------------------------------------------------------------
(* What holds                                                               *)

TypeOK ==
    /\ proc \in {"up", "killed", "crashed", "overrun", "exited"}
    /\ announced \in BOOLEAN
    /\ todo \in 0 .. MAX_CONN + 1
    /\ opened \in 0 .. MaxOpened
    /\ conn \in [Slots -> ConnType]
    /\ peice_status \in [Index -> Status]
    /\ peice_ranking \in [Pieces -> Nat]
    /\ bit_field \in SUBSET Pieces
    /\ downloaded \in Int
    /\ left \in Int
    /\ wire \in [Slots -> Seq(Message)]
    /\ peer \in [Slots -> PeerType]

(* Piece p travels on connection i: its peer will answer a request for it, or *)
(* the answer is on the wire.                                               *)
Answer(i, p, k) ==
    /\ wire[i][k].type = "PEICE"
    /\ wire[i][k].index = p

InFlight(i, p) ==
    \/ p \in peer[i].pending
    \/ \E k \in 1 .. Len(wire[i]) : Answer(i, p, k)

AllCompleted == \A p \in Pieces : peice_status[p] = COMPLETED

(* An answer that an honest peer sends is the one the client waits for: the   *)
(* connection is marked busy with that piece and the piece is DOWNLOADING.    *)
(* So the test of intersted_peice in read_peice never closes the connection   *)
(* of a peer that answers what it was asked, whatever order bit fields,      *)
(* chokes, losses and reuse of slots come in.                              *)
AnswerIsExpected ==
    \A i \in Slots, p \in Pieces :
        InFlight(i, p) =>
            /\ conn[i].in_use
            /\ conn[i].request_sent
            /\ conn[i].intersted_peice = p
            /\ peice_status[p] = DOWNLOADING

(* No piece travels on two connections at once, or twice on one: the search   *)
(* for the rarest piece, started from the handlers of every connection, never *)
(* asks two peers for the same piece.                                       *)
RequestedOnce ==
    /\ \A i, j \in Slots, p \in Pieces :
        InFlight(i, p) /\ InFlight(j, p) => i = j
    /\ \A i \in Slots, p, q \in Pieces : \A k, l \in 1 .. Len(wire[i]) :
        Answer(i, p, k) =>
            /\ q \notin peer[i].pending
            /\ Answer(i, q, l) => k = l

(* A bit field is the first thing a peer sends, and until it is read the      *)
(* connection counts as choked and nothing has been asked of the peer: no    *)
(* request goes out on the bit field that the last use of the slot has left   *)
(* there.                                                                   *)
GreetingFirst ==
    \A i \in Slots : \A k \in 1 .. Len(wire[i]) :
        wire[i][k].type = "BIT_FIELD" =>
            /\ k = 1
            /\ conn[i].peer_chocking
            /\ \A p \in Pieces : ~InFlight(i, p)

SumOfLengths(S) == MapThenSumSet(TrueLength, S)

(* The counters sent to the tracker: downloaded is the size of the pieces     *)
(* that are COMPLETED, the rest is left, and a finished download leaves 0.    *)
(* A piece counted twice, or a last piece of the wrong size, breaks it.      *)
CountersMatchPieces ==
    LET done == { p \in Pieces : peice_status[p] = COMPLETED }
    IN /\ downloaded = SumOfLengths(done)
       /\ left = FileSize - downloaded
       /\ AllCompleted => left = 0

Connected(i) == conn[i].in_use /\ peer[i].open

(* Every peer still connected has been told exactly the pieces that are       *)
(* COMPLETED, by the bit field of the handshake and the have messages sent   *)
(* since, whenever it connected.                                            *)
PeersKnowOurPieces ==
    \A i \in Slots :
        Connected(i) => peer[i].told = { p \in Pieces : peice_status[p] = COMPLETED }

(* What the client will believe of peer i once it has read what is on the     *)
(* wire.                                                                    *)
Unread(i, types) == { k \in 1 .. Len(wire[i]) : wire[i][k].type \in types }

WillBelieveChoking(i) ==
    LET ks == Unread(i, {"CHOKE", "UNCHOKE"})
    IN IF ks = {} THEN conn[i].peer_chocking ELSE wire[i][Max(ks)] = Choke

WillBelieveHas(i) ==
    (IF Unread(i, {"BIT_FIELD"}) = {} THEN conn[i].bit_field
     ELSE wire[i][Max(Unread(i, {"BIT_FIELD"}))].bits)
        \cup { wire[i][k].index : k \in Unread(i, {"HAVE"}) }

ChokingAgrees == \A i \in Slots : Connected(i) => WillBelieveChoking(i) = peer[i].choking

HoldingsAgree == \A i \in Slots : Connected(i) => WillBelieveHas(i) = peer[i].has

InterestAgrees ==
    \A i \in Slots :
        Connected(i) /\ conn[i].am_intersted /\ ~AllCompleted => peer[i].interested

(* The client's view of an open peer, brought up to date by the messages it   *)
(* has not read yet, is the state of that peer: no choke, unchoke, bit field  *)
(* or have message is lost in a handler or survives the reuse of a slot.  And *)
(* until the download is complete, a peer recorded as interesting was told so *)
(* last: the client does not wait for a peer that takes it for uninterested.  *)
ViewsAgree == ChokingAgrees /\ HoldingsAgree /\ InterestAgrees

(* A piece whose request was lost: nobody will send it, and it is marked.     *)
Abandoned(p) ==
    /\ peice_status[p] = DOWNLOADING
    /\ \A i \in Slots : ~InFlight(i, p)

(* What the loss of a request means: when the connection is closed or choked   *)
(* before the answer is read, or the answer is damaged, the piece stays       *)
(* DOWNLOADING for the rest of the run, whoever else holds it.               *)
LostRequestIsNeverRepeated ==
    [][\A p \in Pieces : Abandoned(p) => Abandoned(p)']_vars

(* A connection that counts as busy although nothing was asked of its peer.   *)
Stale(i) ==
    /\ conn[i].request_sent
    /\ \A p \in Pieces : ~InFlight(i, p)

(* What a lost request or one for piece -1 leaves behind: its slot is never   *)
(* used for a request again, neither while the connection lasts nor for any   *)
(* later peer in the slot, although nothing was asked of that peer.          *)
LostSlotStaysBusy ==
    [][\A i \in Slots : Stale(i) => Stale(i)']_vars

(* The bit field has no bit for piece 8, so that a peer's bit field never     *)
(* raises its ranking: it is the rarest piece, and no piece at all is asked   *)
(* for, until a have message for it is read.  Piece 8 itself never is.       *)
PieceEightBlocks ==
    no_of_peices > 8 =>
        /\ peice_status[8] = NOT_DOWNLOADED
        /\ peice_ranking[8] = 0 => \A p \in Pieces : peice_status[p] = NOT_DOWNLOADED

(* A piece that nobody is known to hold is the rarest: as long as there is    *)
(* one, whatever the other pieces' holders do, no handler asks for anything.  *)
UnheldPieceBlocks ==
    [][(\E q \in Pieces : peice_status'[q] = NOT_DOWNLOADED /\ peice_ranking'[q] = 0)
        => \A p \in Pieces : peice_status[p] = NOT_DOWNLOADED
                                => peice_status'[p] = NOT_DOWNLOADED]_vars

Abstract == INSTANCE Download WITH
    wanted <- { p \in Pieces : peice_status[p] = NOT_DOWNLOADED },
    asked  <- { p \in Pieces : \E i \in Slots : InFlight(i, p) },
    got    <- { p \in Pieces : peice_status[p] = COMPLETED }

(* The client, with its peers, keeps the promise of Download: what its        *)
(* records, the requests its peers hold and the answers on the wire say of a  *)
(* piece changes as one request, one receipt or one loss at a time.           *)
ImplementsDownload == Abstract!Spec

(* With peers that hold the whole file and neither choke nor fail, one        *)
(* connection is enough for the download to complete.                       *)
SeedersDeliver == (\E i \in Slots : conn[i].in_use) ~> AllCompleted
=============================================================================
