---------------------------- MODULE LeecherProofs ----------------------------
(***************************************************************************)
(* The download half, for every size of the connection table and every        *)
(* torrent: its types, what the search for the rarest piece does, requests,   *)
(* that it implements Download, and what the client and its peers know of     *)
(* each other.                                                              *)
(***************************************************************************)
EXTENDS Leecher, FiniteSetTheorems, WellFoundedInduction, TLAPS

-----------------------------------------------------------------------------
(* Constants and helpers                                                    *)

(* A set of naturals that is not empty has a least member.                   *)
LEMMA LeastMember ==
    ASSUME NEW S, S \subseteq Nat, S # {}
    PROVE  \E s \in S : \A t \in S : s <= t
<1> DEFINE R == OpToRel(<, Nat)
<1>1. IsWellFoundedOn(R, Nat)
  BY NatLessThanWellFounded
<1>2. PICK x \in S : \A y \in S : <<y, x>> \notin R
  <2> HIDE DEF R
  <2> QED
    BY <1>1, WFMin, Zenon
<1>3. \A y \in S : ~ (y < x)
  <2> TAKE y \in S
  <2>1. <<y, x>> \notin R
    BY <1>2
  <2>2. <<y, x>> \in Nat \X Nat
    OBVIOUS
  <2> QED
    BY <2>1, <2>2 DEF OpToRel
<1> HIDE DEF R
<1> QED
  BY <1>3

(* The pieces are naturals, -1 is an index and no piece, MAX_CONN is no slot. *)
LEMMA Sizes ==
    /\ no_of_peices \in Nat
    /\ Pieces \subseteq Nat /\ Pieces \subseteq Index
    /\ -1 \in Index /\ -1 \notin Pieces
    /\ Slots \subseteq Nat /\ MAX_CONN \notin Slots
    /\ \A q \in Index : q = -1 \/ q \in Pieces
<1>1. no_of_peices \in Nat
  BY ConstantsAssumption DEF no_of_peices
<1> QED
  BY <1>1, ConstantsAssumption DEF Pieces, Index, Slots

(* FirstOf picks a member of a set of slots, or MAX_CONN from the empty set. *)
LEMMA FirstOfFacts ==
    ASSUME NEW S \in SUBSET Slots
    PROVE  \/ S = {} /\ FirstOf(S) = MAX_CONN
           \/ FirstOf(S) \in S /\ FirstOf(S) \in Slots
<1>1. CASE S = {}
  BY <1>1 DEF FirstOf
<1>2. CASE S # {}
  <2>1. \E s \in S : \A t \in S : s <= t
    BY <1>2, LeastMember, Sizes
  <2>2. FirstOf(S) = CHOOSE s \in S : \A t \in S : s <= t
    BY <1>2 DEF FirstOf
  <2> QED
    BY <2>1, <2>2
<1> QED
  BY <1>1, <1>2

(* set_bit_field adds no bit that is not the number of a piece.              *)
LEMMA SetBitType ==
    ASSUME NEW bits \in SUBSET Pieces, NEW p \in Pieces
    PROVE  set_bit_field(bits, p) \in SUBSET Pieces
<1>1. Cell(p) = NoCell \/ Cell(p) \in Pieces
  BY Sizes DEF Cell, NoCell, Pieces
<1> QED
  BY <1>1 DEF set_bit_field

(* check_intersted returns the number of a piece or -1.                      *)
LEMMA CheckInterstedType ==
    ASSUME NEW c, NEW s, NEW own, NEW stat
    PROVE  check_intersted(c, s, own, stat) \in Index
<1> DEFINE wanted == { p \in Pieces : /\ ~get_bit_field(own, p)
                                      /\ get_bit_field(c[s].bit_field, p)
                                      /\ stat[p] = NOT_DOWNLOADED }
<1>1. CASE wanted = {}
  BY <1>1, Sizes DEF check_intersted
<1>2. CASE wanted # {}
  <2>1. wanted \subseteq Pieces /\ wanted \subseteq Nat
    BY Sizes
  <2>2. check_intersted(c, s, own, stat)
            = CHOOSE p \in wanted : \A q \in wanted : p <= q
    BY <1>2 DEF check_intersted
  <2> HIDE DEF wanted
  <2>3. \E p \in wanted : \A q \in wanted : p <= q
    BY <1>2, <2>1, LeastMember
  <2> QED
    BY <2>1, <2>2, <2>3, Sizes
<1> QED
  BY <1>1, <1>2

-----------------------------------------------------------------------------
(* The search for the rarest piece                                          *)

(* What FindRarest does to the tables, for the slots a and b it sends to and *)
(* the piece r: a is an idle holder that does not choke, r was asked of      *)
(* nobody, and b is another idle connection, sent the request for -1; both   *)
(* are told of interest, if they were not before.                           *)
SearchedAt(c, stat, rank, pr, r, a, b, told) ==
    /\ a # MAX_CONN => /\ c[a].in_use /\ ~c[a].peer_chocking /\ ~c[a].request_sent
                       /\ stat[r] = NOT_DOWNLOADED
    /\ b # MAX_CONN => b # a /\ ~c[b].request_sent
    /\ \A s \in {a, b} \cap Slots : s \in told \/ c[s].am_intersted
    /\ conn' = [s \in Slots |->
                 [c[s] EXCEPT
                   !.am_intersted = @ \/ s \in told,
                   !.request_sent = @ \/ s \in {a, b},
                   !.intersted_peice = IF s = a THEN r
                                       ELSE IF s = b THEN -1 ELSE @]]
    /\ peice_status' = [q \in Index |->
                 IF (q = r /\ a \in Slots) \/ (q = -1 /\ b \in Slots)
                 THEN DOWNLOADING ELSE stat[q]]
    /\ peice_ranking' = [q \in Pieces |->
                 IF q = r /\ a \in Slots THEN DOWNLOADING_RANKING ELSE rank[q]]
    /\ peer' = SendRequest(SendRequest(TellInterested(pr, told), a, r), b, -1)

Searched(c, stat, rank, pr) ==
    \E r \in Pieces, a, b \in Slots \cup {MAX_CONN}, told \in SUBSET Slots :
        SearchedAt(c, stat, rank, pr, r, a, b, told)

(* The slot a request goes to is in use, unchoked and idle, and the piece new. *)
LEMMA ChosenFacts ==
    ASSUME NEW c, NEW stat, NEW r, NEW lo \in Slots \cup {MAX_CONN, -1}
    PROVE  LET a == Chosen(c, stat, r, lo)
           IN /\ a \in Slots \cup {MAX_CONN}
              /\ a # MAX_CONN => /\ a > lo /\ c[a].in_use
                                 /\ ~c[a].peer_chocking /\ ~c[a].request_sent
                                 /\ stat[r] = NOT_DOWNLOADED
<1> DEFINE S == { s \in Holders(c, stat, r, lo) :
                    ~c[s].peer_chocking /\ ~c[s].request_sent }
<1>1. S \in SUBSET Slots
  BY DEF Holders
<1>2. (S = {} /\ FirstOf(S) = MAX_CONN) \/ (FirstOf(S) \in S /\ FirstOf(S) \in Slots)
  BY <1>1, FirstOfFacts
<1>3. Chosen(c, stat, r, lo) = FirstOf(S)
  BY DEF Chosen
<1>4. \A s \in S : /\ s > lo /\ c[s].in_use /\ ~c[s].peer_chocking
                      /\ ~c[s].request_sent /\ stat[r] = NOT_DOWNLOADED
  BY DEF Holders
<1> HIDE DEF S
<1> QED
  BY <1>2, <1>3, <1>4

(* A search leaves the tables alone or sends at most two requests.           *)
LEMMA SearchFacts ==
    ASSUME NEW c, NEW stat, NEW rank, NEW pr, NEW sent,
           FindRarest(c, stat, rank, pr, sent)
    PROVE  /\ proc' \in {"up", "killed"}
           /\ \/ /\ conn' = c /\ peice_status' = stat
                 /\ peice_ranking' = rank /\ peer' = pr
              \/ Searched(c, stat, rank, pr)
<1>1. ASSUME Commit(c, stat, rank, pr, sent)
      PROVE  /\ proc' \in {"up", "killed"}
             /\ conn' = c /\ peice_status' = stat
             /\ peice_ranking' = rank /\ peer' = pr
  BY <1>1 DEF Commit, AfterSends
<1>2. CASE Commit(c, stat, rank, pr, sent)
  BY <1>1, <1>2
<1>3. CASE \E r \in Rarest(rank) : SearchFor(c, stat, rank, pr, sent, r)
  <2>1. PICK r \in Rarest(rank) : SearchFor(c, stat, rank, pr, sent, r)
    BY <1>3
  <2> DEFINE a == Chosen(c, stat, r, -1)
             b == Chosen(c, stat, -1, a)
             told == Nudged(c, stat, r, -1) \cup Nudged(c, stat, -1, a)
                     \cup { s \in {a, b} \cap Slots : ~c[s].am_intersted }
  <2>2. /\ a \in Slots \cup {MAX_CONN}
        /\ a # MAX_CONN => /\ c[a].in_use /\ ~c[a].peer_chocking /\ ~c[a].request_sent
                           /\ stat[r] = NOT_DOWNLOADED
    BY ChosenFacts
  <2>3. /\ b \in Slots \cup {MAX_CONN}
        /\ b # MAX_CONN => b > a /\ ~c[b].request_sent
    BY <2>2, ChosenFacts
  <2>4. told \in SUBSET Slots
    BY DEF Nudged, Holders
  <2>5. r \in Pieces
    BY DEF Rarest
  <2>6. /\ proc' \in {"up", "killed"}
        /\ conn' = [s \in Slots |->
                     [c[s] EXCEPT
                       !.am_intersted = @ \/ s \in told,
                       !.request_sent = @ \/ s \in {a, b},
                       !.intersted_peice = IF s = a THEN r
                                           ELSE IF s = b THEN -1 ELSE @]]
        /\ peice_status' = [q \in Index |->
                     IF (q = r /\ a \in Slots) \/ (q = -1 /\ b \in Slots)
                     THEN DOWNLOADING ELSE stat[q]]
        /\ peice_ranking' = [q \in Pieces |->
                     IF q = r /\ a \in Slots THEN DOWNLOADING_RANKING ELSE rank[q]]
        /\ peer' = SendRequest(SendRequest(TellInterested(pr, told), a, r), b, -1)
    BY <2>1 DEF SearchFor, Told, ConnAfter, StatAfter, RankAfter, Commit, AfterSends
  <2>7. \A s \in {a, b} \cap Slots : s \in told \/ c[s].am_intersted
    OBVIOUS
  <2> HIDE DEF a, b, told
  <2>8. b # MAX_CONN => b # a
    BY <2>2, <2>3, Sizes
  <2> QED
    BY <2>2, <2>3, <2>4, <2>5, <2>6, <2>7, <2>8 DEF Searched, SearchedAt
<1> QED
  BY <1>2, <1>3 DEF FindRarest
-----------------------------------------------------------------------------
(* Type correctness                                                         *)

(* The part of TypeOK that Commit assigns.                                   *)
TablesOK ==
    /\ proc \in {"up", "killed"}
    /\ conn \in [Slots -> ConnType]
    /\ peice_status \in [Index -> Status]
    /\ peice_ranking \in [Pieces -> Nat]
    /\ peer \in [Slots -> PeerType]

(* Telling peers of interest keeps the type of the peers.                    *)
LEMMA TellInterestedType ==
    ASSUME NEW pr \in [Slots -> PeerType], NEW S
    PROVE  TellInterested(pr, S) \in [Slots -> PeerType]
BY DEF TellInterested, PeerType

(* Telling a peer of no interest keeps the type of the peers.                *)
LEMMA TellNotInterestedType ==
    ASSUME NEW pr \in [Slots -> PeerType], NEW s \in Slots
    PROVE  TellNotInterested(pr, s) \in [Slots -> PeerType]
BY DEF TellNotInterested, PeerType

(* Announcing a piece keeps the type of the peers.                           *)
LEMMA SendHaveType ==
    ASSUME NEW pr \in [Slots -> PeerType], NEW p \in Pieces
    PROVE  send_have_message(pr, p) \in [Slots -> PeerType]
BY DEF send_have_message, PeerType

(* A request reaches one peer at most, and what it adds to the pending        *)
(* requests of that peer is a piece the peer holds.                         *)
LEMMA SendRequestFacts ==
    ASSUME NEW pr \in [Slots -> PeerType], NEW s, NEW p
    PROVE  /\ SendRequest(pr, s, p) \in [Slots -> PeerType]
           /\ \A t \in Slots :
                /\ SendRequest(pr, s, p)[t].has = pr[t].has
                /\ t # s \/ p \notin Pieces => SendRequest(pr, s, p)[t].pending = pr[t].pending
                /\ SendRequest(pr, s, p)[t].pending \subseteq pr[t].pending \cup {p}
<1>1. CASE s \notin Slots
  BY <1>1 DEF SendRequest
<1>2. CASE s \in Slots
  <2> DEFINE more == IF pr[s].open /\ ~pr[s].choking /\ p \in pr[s].has
                     THEN pr[s].pending \cup {p} ELSE pr[s].pending
  <2>1. SendRequest(pr, s, p)
            = [pr EXCEPT ![s] = [pr[s] EXCEPT !.asked = TRUE, !.pending = more]]
    BY <1>2 DEF SendRequest
  <2>2. pr[s] \in PeerType
    BY <1>2
  <2>3. /\ more \in SUBSET Pieces
        /\ more \subseteq pr[s].pending \cup {p}
        /\ p \notin Pieces => more = pr[s].pending
    BY <2>2 DEF PeerType
  <2> HIDE DEF more
  <2>4. [pr[s] EXCEPT !.asked = TRUE, !.pending = more] \in PeerType
    BY <2>2, <2>3 DEF PeerType
  <2>5. /\ [pr[s] EXCEPT !.asked = TRUE, !.pending = more].has = pr[s].has
        /\ [pr[s] EXCEPT !.asked = TRUE, !.pending = more].pending = more
    BY <2>2 DEF PeerType
  <2> QED
    BY <1>2, <2>1, <2>3, <2>4, <2>5
<1> QED
  BY <1>1, <1>2

(* A search keeps the types of the tables it assigns.                        *)
LEMMA SearchType ==
    ASSUME NEW c \in [Slots -> ConnType], NEW stat \in [Index -> Status],
           NEW rank \in [Pieces -> Nat], NEW pr \in [Slots -> PeerType],
           NEW sent, FindRarest(c, stat, rank, pr, sent)
    PROVE  TablesOK'
<1>1. CASE Searched(c, stat, rank, pr)
  <2>1. PICK r \in Pieces, a \in Slots \cup {MAX_CONN}, b \in Slots \cup {MAX_CONN},
             told \in SUBSET Slots :
             SearchedAt(c, stat, rank, pr, r, a, b, told)
    BY <1>1 DEF Searched
  <2>2. conn' \in [Slots -> ConnType]
    <3>1. ASSUME NEW s \in Slots
          PROVE  [c[s] EXCEPT
                    !.am_intersted = @ \/ s \in told,
                    !.request_sent = @ \/ s \in {a, b},
                    !.intersted_peice = IF s = a THEN r
                                        ELSE IF s = b THEN -1 ELSE @] \in ConnType
      <4> DEFINE n == IF s = a THEN r ELSE IF s = b THEN -1 ELSE c[s].intersted_peice
      <4>1. c[s] \in ConnType
        OBVIOUS
      <4>2. n \in Index
        BY <4>1, Sizes DEF ConnType
      <4>3. (c[s].am_intersted \/ s \in told) \in BOOLEAN
            /\ (c[s].request_sent \/ s \in {a, b}) \in BOOLEAN
        OBVIOUS
      <4> HIDE DEF n
      <4>4. [c[s] EXCEPT
                !.am_intersted = c[s].am_intersted \/ s \in told,
                !.request_sent = c[s].request_sent \/ s \in {a, b},
                !.intersted_peice = n] \in ConnType
        BY <4>1, <4>2, <4>3 DEF ConnType
      <4> QED
        BY <4>4 DEF n
    <3> QED
      BY <2>1, <3>1 DEF SearchedAt
  <2>3. peice_status' \in [Index -> Status]
    BY <2>1 DEF SearchedAt, Status
  <2>4. peice_ranking' \in [Pieces -> Nat]
    <3>1. peice_ranking' = [q \in Pieces |->
                IF q = r /\ a \in Slots THEN DOWNLOADING_RANKING ELSE rank[q]]
      BY <2>1 DEF SearchedAt
    <3> QED
      BY <3>1 DEF DOWNLOADING_RANKING
  <2>5. peer' \in [Slots -> PeerType]
    <3>1. peer' = SendRequest(SendRequest(TellInterested(pr, told), a, r), b, -1)
      BY <2>1 DEF SearchedAt
    <3>2. TellInterested(pr, told) \in [Slots -> PeerType]
      BY TellInterestedType
    <3>3. SendRequest(TellInterested(pr, told), a, r) \in [Slots -> PeerType]
      BY <3>2, SendRequestFacts
    <3> QED
      BY <3>1, <3>3, SendRequestFacts
  <2> QED
    BY <2>2, <2>3, <2>4, <2>5, SearchFacts DEF TablesOK
<1> QED
  BY <1>1, SearchFacts DEF TablesOK

(* So does a handler that makes no search.                                   *)
LEMMA CommitType ==
    ASSUME NEW c \in [Slots -> ConnType], NEW stat \in [Index -> Status],
           NEW rank \in [Pieces -> Nat], NEW pr \in [Slots -> PeerType],
           NEW sent, Commit(c, stat, rank, pr, sent)
    PROVE  TablesOK'
BY DEF Commit, AfterSends, TablesOK

(* What a message of a type carries.                                         *)
LEMMA MessageFacts ==
    ASSUME NEW m \in Message
    PROVE  /\ m.type = "BIT_FIELD" => m.bits \in SUBSET Pieces
           /\ m.type \in {"HAVE", "PEICE"} => m.index \in Pieces
BY DEF Message, Choke, Unchoke, EndOfStream, Have, BitField, Peice

(* The first unread message is a message.                                    *)
LEMMA HeadFacts ==
    ASSUME TypeOK, NEW i \in Slots, wire[i] # <<>>
    PROVE  /\ Head(wire[i]) \in Message
           /\ Tail(wire[i]) \in Seq(Message)
           /\ Head(wire[i]).type = "BIT_FIELD" => Head(wire[i]).bits \in SUBSET Pieces
           /\ Head(wire[i]).type \in {"HAVE", "PEICE"} => Head(wire[i]).index \in Pieces
<1>1. wire[i] \in Seq(Message)
  BY DEF TypeOK
<1> QED
  BY <1>1, MessageFacts

(* Reading one message keeps the type of the wires.                          *)
LEMMA ConsumeType ==
    ASSUME TypeOK, NEW i \in Slots, wire[i] # <<>>, Consume(i)
    PROVE  wire' \in [Slots -> Seq(Message)]
BY HeadFacts DEF TypeOK, Consume

(* Closing a connection keeps the types.                                     *)
LEMMA CloseSlotType ==
    ASSUME TypeOK, NEW i \in Slots, CloseSlot(i)
    PROVE  /\ conn' \in [Slots -> ConnType]
           /\ wire' \in [Slots -> Seq(Message)]
           /\ peer' \in [Slots -> PeerType]
<1>1. conn' \in [Slots -> ConnType]
  BY DEF TypeOK, CloseSlot, Closed, ConnType
<1>2. wire' \in [Slots -> Seq(Message)]
  BY DEF TypeOK, CloseSlot
<1>3. NoPeer \in PeerType
  BY DEF NoPeer, PeerType
<1>4. peer' \in [Slots -> PeerType]
  BY <1>3 DEF TypeOK, CloseSlot
<1> QED
  BY <1>1, <1>2, <1>4

(* A handler of a message keeps the types.                                   *)
LEMMA ReadType ==
    ASSUME TypeOK, NEW i \in Slots, ReadFromConnection(i)
    PROVE  TypeOK'
<1>1. CASE HandleEndOfStream(i) \/ RejectBitField(i) \/ RejectPeice(i)
  BY <1>1, CloseSlotType
     DEF TypeOK, HandleEndOfStream, RejectBitField, RejectPeice, userVars, fileVars
<1>2. CASE HandleChoke(i)
  <2>1. conn' \in [Slots -> ConnType]
    BY <1>2 DEF TypeOK, HandleChoke, ConnType
  <2>2. wire' \in [Slots -> Seq(Message)]
    BY <1>2, ConsumeType DEF HandleChoke, Receives
  <2> QED
    BY <1>2, <2>1, <2>2 DEF TypeOK, HandleChoke, userVars, fileVars
<1>3. CASE HandleUnchoke(i)
  <2> DEFINE c == [conn EXCEPT ![i].peer_chocking = FALSE]
  <2>1. c \in [Slots -> ConnType]
    BY DEF TypeOK, ConnType
  <2>2. FindRarest(c, peice_status, peice_ranking, peer, {})
        \/ Commit(c, peice_status, peice_ranking, peer, {})
    BY <1>3 DEF HandleUnchoke
  <2> HIDE DEF c
  <2>3. TablesOK'
    BY <2>1, <2>2, SearchType, CommitType DEF TypeOK
  <2>4. wire' \in [Slots -> Seq(Message)]
    BY <1>3, ConsumeType DEF HandleUnchoke, Receives
  <2> QED
    BY <1>3, <2>3, <2>4 DEF TypeOK, TablesOK, HandleUnchoke, userVars, fileVars
<1>4. CASE AcceptBitField(i)
  <2> DEFINE bits == Head(wire[i]).bits
             rank == AddHolder(peice_ranking, bits)
             c    == StoreBitField(conn, i, bits)
             want == check_intersted(c, i, bit_field, peice_status)
             c1   == [c EXCEPT ![i].am_intersted = TRUE, ![i].intersted_peice = want]
             c2   == [c EXCEPT ![i].am_intersted = FALSE]
  <2>1. bits \in SUBSET Pieces
    BY <1>4, HeadFacts DEF AcceptBitField, Receives
  <2>2. \/ FindRarest(c1, peice_status, rank, TellInterested(peer, {i}), {i})
        \/ Commit(c2, peice_status, rank, TellNotInterested(peer, i), {i})
    BY <1>4 DEF AcceptBitField
  <2> HIDE DEF bits
  <2>3. rank \in [Pieces -> Nat]
    BY DEF AddHolder, TypeOK
  <2>4. c \in [Slots -> ConnType]
    BY <2>1 DEF StoreBitField, TypeOK, ConnType
  <2> HIDE DEF rank, c
  <2>5. want \in Index
    BY CheckInterstedType
  <2> HIDE DEF want
  <2>6. c1 \in [Slots -> ConnType]
    BY <2>4, <2>5 DEF ConnType
  <2>7. c2 \in [Slots -> ConnType]
    BY <2>4 DEF ConnType
  <2> HIDE DEF c1, c2
  <2>8. peice_status \in [Index -> Status] /\ peer \in [Slots -> PeerType]
    BY DEF TypeOK
  <2>9. TablesOK'
    BY <2>2, <2>3, <2>6, <2>7, <2>8, SearchType, CommitType,
       TellInterestedType, TellNotInterestedType
  <2>10. wire' \in [Slots -> Seq(Message)]
    BY <1>4, ConsumeType DEF AcceptBitField, Receives
  <2> QED
    BY <1>4, <2>9, <2>10 DEF TypeOK, TablesOK, AcceptBitField, userVars, fileVars
<1>5. CASE HandleHave(i)
  <2> DEFINE p    == Head(wire[i]).index
             c    == [conn EXCEPT ![i].bit_field = set_bit_field(conn[i].bit_field, p)]
             rank == [peice_ranking EXCEPT ![p] = peice_ranking[p] + 1]
  <2>1. p \in Pieces
    BY <1>5, HeadFacts DEF HandleHave, Receives
  <2>2. \/ FindRarest(c, peice_status, rank, TellInterested(peer, {i}), {i})
        \/ Commit(c, peice_status, rank, peer, {})
    BY <1>5 DEF HandleHave
  <2>3. conn[i].bit_field \in SUBSET Pieces
    BY <1>5 DEF HandleHave, TypeOK, ConnType
  <2> HIDE DEF p
  <2>4. set_bit_field(conn[i].bit_field, p) \in SUBSET Pieces
    BY <2>1, <2>3, SetBitType
  <2>5. c \in [Slots -> ConnType]
    BY <2>4 DEF TypeOK, ConnType
  <2>6. rank \in [Pieces -> Nat]
    BY <2>1 DEF TypeOK
  <2> HIDE DEF c, rank
  <2>7. peice_status \in [Index -> Status] /\ peer \in [Slots -> PeerType]
    BY DEF TypeOK
  <2>8. TablesOK'
    BY <2>2, <2>5, <2>6, <2>7, SearchType, CommitType, TellInterestedType
  <2>9. wire' \in [Slots -> Seq(Message)]
    BY <1>5, ConsumeType DEF HandleHave, Receives
  <2> QED
    BY <1>5, <2>8, <2>9 DEF TypeOK, TablesOK, HandleHave, userVars, fileVars
<1>6. CASE AcceptPeice(i)
  <2> DEFINE p    == Head(wire[i]).index
             stat == [peice_status EXCEPT ![p] = COMPLETED]
             own  == set_bit_field(bit_field, p)
             c    == [conn EXCEPT ![i].request_sent = FALSE]
             c1   == [c EXCEPT ![i].am_intersted = TRUE]
             c2   == [c EXCEPT ![i].am_intersted = FALSE]
             pr   == send_have_message(peer, p)
             all  == { s \in Slots : conn[s].in_use }
  <2>1. p \in Pieces
    BY <1>6, HeadFacts DEF AcceptPeice, Receives
  <2>2. \/ Commit(c, stat, peice_ranking, TellNotInterested(pr, i), all)
        \/ FindRarest(c1, stat, peice_ranking, pr, all)
        \/ Commit(c2, stat, peice_ranking, TellNotInterested(pr, i), all)
    BY <1>6 DEF AcceptPeice
  <2>3. bit_field' = own /\ UNCHANGED userVars /\ Consume(i) /\ wire[i] # <<>>
        /\ downloaded' = downloaded + PeiceLength(p) /\ left' = left - PeiceLength(p)
    BY <1>6 DEF AcceptPeice, Receives
  <2> HIDE DEF p
  <2>4. own \in SUBSET Pieces
    BY <2>1, SetBitType DEF TypeOK
  <2>5. stat \in [Index -> Status]
    BY <2>1, Sizes DEF TypeOK, Status
  <2>6. c \in [Slots -> ConnType]
    BY DEF TypeOK, ConnType
  <2> HIDE DEF c
  <2>7. c1 \in [Slots -> ConnType] /\ c2 \in [Slots -> ConnType]
    BY <2>6 DEF ConnType
  <2>8. pr \in [Slots -> PeerType]
    BY <2>1, SendHaveType DEF TypeOK
  <2>9. PeiceLength(p) \in Int
    BY ConstantsAssumption DEF PeiceLength, RequestLength
  <2> HIDE DEF c1, c2, pr, stat, own, all
  <2>10. peice_ranking \in [Pieces -> Nat]
    BY DEF TypeOK
  <2>11. TablesOK'
    BY <2>2, <2>5, <2>6, <2>7, <2>8, <2>10, SearchType, CommitType, TellNotInterestedType
  <2>12. wire' \in [Slots -> Seq(Message)]
    BY <2>3, ConsumeType
  <2> QED
    BY <2>3, <2>4, <2>9, <2>11, <2>12 DEF TypeOK, TablesOK, userVars
<1>7. CASE HaveWithoutBitField(i) \/ PeiceWriteFails(i)
  BY <1>7 DEF TypeOK, HaveWithoutBitField, PeiceWriteFails, userVars, fileVars
<1> QED
  BY <1>1, <1>2, <1>3, <1>4, <1>5, <1>6, <1>7 DEF ReadFromConnection

(* What opening a connection assigns keeps the type of a connection.         *)
LEMMA NewConnType ==
    ASSUME NEW c \in ConnType, NEW used \in BOOLEAN
    PROVE  /\ NewConn(c) \in ConnType
           /\ [NewConn(c) EXCEPT !.in_use = used] \in ConnType
           /\ NewConn(c).in_use = TRUE /\ NewConn(c).peer_chocking = TRUE
BY DEF NewConn, ConnType

(* The ends of a handshake on a slot keep the types.                         *)
LEMMA HandshakeType ==
    ASSUME TypeOK, NEW i \in Slots, NEW bits \in (SUBSET Pieces) \cup {NULL},
           HandshakeDone(i, bits) \/ HandshakeRefused(i) \/ HandshakeLost(i)
    PROVE  /\ conn' \in [Slots -> ConnType]
           /\ opened' \in 0 .. MaxOpened
           /\ wire' \in [Slots -> Seq(Message)]
           /\ peer' \in [Slots -> PeerType]
<1>1. conn[i] \in ConnType
  BY DEF TypeOK
<1>2. CASE HandshakeDone(i, bits)
  <2>1. PICK has \in Holdings :
          /\ peer' = [peer EXCEPT ![i] = NewPeer(has)]
          /\ \E g \in Greetings(has) : wire' = [wire EXCEPT ![i] = g]
    BY <1>2 DEF HandshakeDone
  <2>2. has \in SUBSET Pieces
    BY ConstantsAssumption
  <2>3. NewPeer(has) \in PeerType
    BY <2>2 DEF NewPeer, NoPeer, PeerType, TypeOK
  <2>4. BitField(has) \in Message
    BY <2>2 DEF Message
  <2>5. Greetings(has) \subseteq Seq(Message)
    <3>1. <<BitField(has)>> \in Seq(Message) /\ <<>> \in Seq(Message)
      BY <2>4
    <3> QED
      BY <3>1 DEF Greetings
  <2>6. [NewConn(conn[i]) EXCEPT !.bit_field = bits] \in ConnType
    <3>1. NewConn(conn[i]) \in ConnType
      BY <1>1, NewConnType
    <3> HIDE DEF NewConn
    <3> QED
      BY <3>1 DEF ConnType
  <2>7. conn' = [conn EXCEPT ![i] = [NewConn(conn[i]) EXCEPT !.bit_field = bits]]
        /\ opened < MaxOpened /\ opened' = opened + 1
    BY <1>2 DEF HandshakeDone
  <2>8. conn' \in [Slots -> ConnType]
    BY <2>6, <2>7 DEF TypeOK
  <2>9. wire' \in [Slots -> Seq(Message)]
    BY <2>1, <2>5 DEF TypeOK
  <2>10. peer' \in [Slots -> PeerType]
    BY <2>1, <2>3 DEF TypeOK
  <2>11. opened' \in 0 .. MaxOpened
    BY <2>7, ConstantsAssumption DEF TypeOK
  <2> QED
    BY <2>8, <2>9, <2>10, <2>11
<1>3. CASE HandshakeRefused(i)
  BY <1>1, <1>3, NewConnType DEF HandshakeRefused, TypeOK
<1>4. CASE HandshakeLost(i)
  <2>1. <<EndOfStream>> \in Seq(Message)
    BY DEF Message
  <2>2. wire' \in [Slots -> Seq(Message)]
    BY <1>4, <2>1 DEF HandshakeLost, TypeOK
  <2>3. conn' \in [Slots -> ConnType]
    BY <1>1, <1>4, NewConnType DEF HandshakeLost, TypeOK
  <2> QED
    BY <1>4, <2>2, <2>3, ConstantsAssumption DEF HandshakeLost, TypeOK
<1> QED
  BY <1>2, <1>3, <1>4

(* The slot that get_free_sock returns.                                      *)
LEMMA FreeSlotFacts ==
    /\ FreeSlots # {} => get_free_sock \in Slots
    /\ get_free_sock \in Slots => ~conn[get_free_sock].in_use
<1>1. FreeSlots \in SUBSET Slots /\ \A s \in FreeSlots : ~conn[s].in_use
  BY DEF FreeSlots
<1>2. \/ FreeSlots = {} /\ get_free_sock = MAX_CONN
      \/ get_free_sock \in FreeSlots /\ get_free_sock \in Slots
  BY <1>1, FirstOfFacts DEF get_free_sock
<1> QED
  BY <1>1, <1>2, Sizes

(* Opening connections and the user's commands keep the types.               *)
LEMMA OpenType ==
    ASSUME TypeOK, Accept \/ Announce \/ ConnectNext \/ ConnectOverrun \/ Show \/ Quit
    PROVE  TypeOK'
<1>1. CASE Accept
  <2> DEFINE i == get_free_sock
  <2>1. i \in Slots /\ (HandshakeDone(i, NULL) \/ HandshakeRefused(i) \/ HandshakeLost(i))
    BY <1>1 DEF Accept
  <2> HIDE DEF i
  <2>2. /\ conn' \in [Slots -> ConnType]
        /\ opened' \in 0 .. MaxOpened
        /\ wire' \in [Slots -> Seq(Message)]
        /\ peer' \in [Slots -> PeerType]
    BY <2>1, HandshakeType
  <2> QED
    BY <1>1, <2>2 DEF Accept, TypeOK, fileVars
<1>2. CASE Announce
  <2>1. 0 .. MAX_CONN - 1 = Slots /\ IsFiniteSet(Slots) /\ Cardinality(Slots) = MAX_CONN
    BY FS_Interval, ConstantsAssumption DEF Slots
  <2>2. IsFiniteSet(FreeSlots) /\ Cardinality(FreeSlots) <= MAX_CONN
    BY <2>1, FS_Subset DEF FreeSlots
  <2>3. Cardinality(FreeSlots) \in Nat
    BY <2>2, FS_CardinalityType
  <2>4. todo' \in 0 .. MAX_CONN + 1
    BY <1>2, <2>2, <2>3, ConstantsAssumption DEF Announce
  <2> QED
    BY <1>2, <2>4 DEF Announce, TypeOK, fileVars
<1>3. CASE ConnectNext
  <2> DEFINE i == get_free_sock
  <2>1. i \in Slots
    BY <1>3, FreeSlotFacts DEF ConnectNext
  <2>2. \/ HandshakeDone(i, conn[i].bit_field) \/ HandshakeRefused(i) \/ HandshakeLost(i)
        \/ UNCHANGED <<conn, opened, wire, peer>>
    BY <1>3 DEF ConnectNext
  <2> HIDE DEF i
  <2>3. conn[i].bit_field \in (SUBSET Pieces) \cup {NULL}
    BY <2>1 DEF TypeOK, ConnType
  <2>4. /\ conn' \in [Slots -> ConnType]
        /\ opened' \in 0 .. MaxOpened
        /\ wire' \in [Slots -> Seq(Message)]
        /\ peer' \in [Slots -> PeerType]
    BY <2>1, <2>2, <2>3, HandshakeType DEF TypeOK
  <2>5. todo' \in 0 .. MAX_CONN + 1
    BY <1>3, ConstantsAssumption DEF ConnectNext, TypeOK
  <2> QED
    BY <1>3, <2>4, <2>5 DEF ConnectNext, TypeOK, fileVars
<1>4. CASE ConnectOverrun \/ Show \/ Quit
  BY <1>4 DEF TypeOK, ConnectOverrun, Show, Quit, userVars, fileVars
<1> QED
  BY <1>1, <1>2, <1>3, <1>4

(* The peers keep the types.                                                 *)
LEMMA PeerStepType ==
    ASSUME TypeOK, NEW i \in Slots, PeerSteps(i)
    PROVE  TypeOK'
<1>1. ASSUME NEW m \in Message, PeerSends(i, m), peer' \in [Slots -> PeerType]
      PROVE  TypeOK'
  <2>1. wire' \in [Slots -> Seq(Message)]
    BY <1>1 DEF PeerSends, TypeOK
  <2> QED
    BY <1>1, <2>1 DEF PeerSends, TypeOK, userVars, fileVars
<1>2. CASE PeerUnchokes(i)
  <2>1. Unchoke \in Message
    BY DEF Message
  <2>2. peer' \in [Slots -> PeerType]
    BY <1>2 DEF PeerUnchokes, TypeOK, PeerType
  <2> QED
    BY <1>1, <1>2, <2>1, <2>2 DEF PeerUnchokes
<1>3. CASE PeerChokes(i)
  <2>1. Choke \in Message
    BY DEF Message
  <2>2. peer' \in [Slots -> PeerType]
    <3>1. peer' = [peer EXCEPT ![i] = [peer[i] EXCEPT !.choking = TRUE, !.pending = {}]]
      BY <1>3 DEF PeerChokes, TypeOK
    <3>2. peer[i] \in PeerType
      BY DEF TypeOK
    <3>3. [peer[i] EXCEPT !.choking = TRUE, !.pending = {}] \in PeerType
      BY <3>2 DEF PeerType
    <3> QED
      BY <3>1, <3>3 DEF TypeOK
  <2> QED
    BY <1>1, <1>3, <2>1, <2>2 DEF PeerChokes
<1>4. ASSUME NEW p \in Pieces, PeerGains(i, p)
      PROVE  TypeOK'
  <2>1. Have(p) \in Message
    BY DEF Message
  <2>2. peer' \in [Slots -> PeerType]
    BY <1>4 DEF PeerGains, TypeOK, PeerType
  <2> QED
    BY <1>1, <1>4, <2>1, <2>2 DEF PeerGains
<1>5. ASSUME NEW p \in Pieces, PeerServes(i, p)
      PROVE  TypeOK'
  <2>1. \A good \in BOOLEAN : Peice(p, good) \in Message
    BY DEF Message
  <2>2. peer' \in [Slots -> PeerType]
    BY <1>5 DEF PeerServes, TypeOK, PeerType
  <2> QED
    BY <1>1, <1>5, <2>1, <2>2 DEF PeerServes
<1>6. CASE PeerCloses(i)
  <2>1. EndOfStream \in Message
    BY DEF Message
  <2>2. peer' \in [Slots -> PeerType]
    <3>1. peer' = [peer EXCEPT ![i] = [peer[i] EXCEPT !.open = FALSE, !.pending = {}]]
      BY <1>6 DEF PeerCloses, TypeOK
    <3>2. peer[i] \in PeerType
      BY DEF TypeOK
    <3>3. [peer[i] EXCEPT !.open = FALSE, !.pending = {}] \in PeerType
      BY <3>2 DEF PeerType
    <3> QED
      BY <3>1, <3>3 DEF TypeOK
  <2> QED
    BY <1>1, <1>6, <2>1, <2>2 DEF PeerCloses
<1> QED
  BY <1>2, <1>3, <1>4, <1>5, <1>6 DEF PeerSteps

(* The program starts with values of their types.                            *)
LEMMA TypeStarts == Init => TypeOK
<1> SUFFICES ASSUME Init PROVE TypeOK
  OBVIOUS
<1>1. conn \in [Slots -> ConnType]
  <2>1. 0 \in Index
    BY ConstantsAssumption DEF Index, no_of_peices
  <2> QED
    BY <2>1 DEF Init, ConnType
<1>2. peice_status \in [Index -> Status]
  BY ConstantsAssumption DEF Init, Status
<1>3. wire \in [Slots -> Seq(Message)] /\ peer \in [Slots -> PeerType]
  BY DEF Init, NoPeer, PeerType
<1>4. bit_field \in SUBSET Pieces /\ downloaded \in Int /\ left \in Int
      /\ peice_ranking \in [Pieces -> Nat]
  BY ConstantsAssumption DEF Init
<1>5. proc \in {"up", "killed", "crashed", "overrun", "exited"} /\ announced \in BOOLEAN
  BY DEF Init
<1>6. todo \in 0 .. MAX_CONN + 1 /\ opened \in 0 .. MaxOpened
  BY ConstantsAssumption DEF Init
<1> QED
  BY <1>1, <1>2, <1>3, <1>4, <1>5, <1>6 DEF TypeOK

(* Every step keeps the types.                                               *)
LEMMA TypeStep == TypeOK /\ [Next]_vars => TypeOK'
<1>1. ASSUME TypeOK, UNCHANGED vars PROVE TypeOK'
  BY <1>1 DEF TypeOK, vars
<1> QED
  BY <1>1, ReadType, PeerStepType, OpenType DEF Next

(* Every variable of the download half keeps its type, in particular the      *)
(* bits of every bit field are pieces, for every torrent and table size.     *)
THEOREM TypeCorrect == Spec => []TypeOK
BY TypeStarts, TypeStep, PTL DEF Spec

-----------------------------------------------------------------------------
(* Requests and answers                                                     *)

(* AnswerIsExpected, RequestedOnce and GreetingFirst of given tables, so that *)
(* they can be stated between the two halves of a handler: what it does      *)
(* itself and what the search for the rarest piece does after it.            *)
Answers(w, i, p, k) == w[i][k].type = "PEICE" /\ w[i][k].index = p

Flight(pr, w, i, p) ==
    \/ p \in pr[i].pending
    \/ \E k \in 1 .. Len(w[i]) : Answers(w, i, p, k)

Expected(c, stat, pr, w) ==
    \A i \in Slots, p \in Pieces :
        Flight(pr, w, i, p) =>
            /\ c[i].in_use
            /\ c[i].request_sent
            /\ c[i].intersted_peice = p
            /\ stat[p] = DOWNLOADING

OnOneConnection(pr, w) ==
    \A i, j \in Slots, p \in Pieces : Flight(pr, w, i, p) /\ Flight(pr, w, j, p) => i = j

SentOnce(pr, w) ==
    \A i \in Slots, p, q \in Pieces : \A k, l \in 1 .. Len(w[i]) :
        Answers(w, i, p, k) =>
            /\ q \notin pr[i].pending
            /\ Answers(w, i, q, l) => k = l

Greeted(c, pr, w) ==
    \A i \in Slots : \A k \in 1 .. Len(w[i]) :
        w[i][k].type = "BIT_FIELD" =>
            /\ k = 1
            /\ c[i].peer_chocking
            /\ \A p \in Pieces : ~Flight(pr, w, i, p)

Sound(c, stat, pr, w) ==
    /\ Expected(c, stat, pr, w)
    /\ OnOneConnection(pr, w)
    /\ SentOnce(pr, w)
    /\ Greeted(c, pr, w)

(* The inductive invariant.                                                 *)
RequestsSound == Sound(conn, peice_status, peer, wire)

RequestInv == TypeOK /\ RequestsSound

(* The named parts of the invariant are the three properties of Leecher.     *)
LEMMA SoundIsTheProperties ==
    RequestsSound
        <=> AnswerIsExpected /\ RequestedOnce /\ GreetingFirst
BY DEF RequestsSound, Sound, Expected, OnOneConnection, SentOnce, Greeted, Flight, Answers,
       AnswerIsExpected, RequestedOnce, GreetingFirst, InFlight, Answer

(* What the provers need to know of a search or of its absence: at most one   *)
(* piece r is requested, at an idle slot a that does not choke, and it was    *)
(* asked of nobody.                                                         *)
Digest(c, stat, pr) ==
    \E r \in Pieces, a \in Slots \cup {MAX_CONN} :
        /\ a # MAX_CONN =>
            /\ c[a].in_use /\ ~c[a].peer_chocking /\ ~c[a].request_sent
            /\ stat[r] = NOT_DOWNLOADED /\ peice_status'[r] = DOWNLOADING
            /\ conn'[a].request_sent /\ conn'[a].intersted_peice = r
        /\ \A s \in Slots :
            /\ conn'[s].in_use = c[s].in_use
            /\ conn'[s].peer_chocking = c[s].peer_chocking
            /\ c[s].request_sent => /\ conn'[s].request_sent
                                    /\ conn'[s].intersted_peice = c[s].intersted_peice
            /\ peer'[s].pending \subseteq pr[s].pending \cup (IF s = a THEN {r} ELSE {})
        /\ \A q \in Pieces : q # r \/ a = MAX_CONN => peice_status'[q] = stat[q]

(* Messages that are no requests leave the pending requests alone.           *)
LEMMA TellPending ==
    ASSUME NEW pr \in [Slots -> PeerType], NEW S, NEW s \in Slots, NEW p \in Pieces
    PROVE  \A t \in Slots :
            /\ TellInterested(pr, S)[t].pending = pr[t].pending
            /\ TellNotInterested(pr, s)[t].pending = pr[t].pending
            /\ send_have_message(pr, p)[t].pending = pr[t].pending
<1> TAKE t \in Slots
<1>1. TellInterested(pr, S)[t].pending = pr[t].pending
  BY DEF TellInterested, PeerType
<1>2. TellNotInterested(pr, s)[t].pending = pr[t].pending
  BY DEF TellNotInterested, PeerType
<1>3. send_have_message(pr, p)[t].pending = pr[t].pending
  BY DEF send_have_message, PeerType
<1> QED
  BY <1>1, <1>2, <1>3

(* Every search, and a handler without one, satisfies Digest.                *)
LEMMA SearchDigest ==
    ASSUME NEW c \in [Slots -> ConnType], NEW stat \in [Index -> Status],
           NEW rank \in [Pieces -> Nat], NEW pr \in [Slots -> PeerType],
           NEW sent, FindRarest(c, stat, rank, pr, sent) \/ Commit(c, stat, rank, pr, sent)
    PROVE  Digest(c, stat, pr)
<1>1. ASSUME conn' = c, peice_status' = stat, peer' = pr
      PROVE  Digest(c, stat, pr)
  <2>1. 0 \in Pieces
    BY Sizes, ConstantsAssumption DEF Pieces, no_of_peices
  <2> QED
    BY <1>1, <2>1 DEF Digest
<1>2. CASE Searched(c, stat, rank, pr)
  <2>1. PICK r \in Pieces, a \in Slots \cup {MAX_CONN}, b \in Slots \cup {MAX_CONN},
             told \in SUBSET Slots :
             SearchedAt(c, stat, rank, pr, r, a, b, told)
    BY <1>2 DEF Searched
  <2>2. ASSUME NEW s \in Slots
        PROVE  /\ conn'[s].in_use = c[s].in_use
               /\ conn'[s].peer_chocking = c[s].peer_chocking
               /\ conn'[s].request_sent = (c[s].request_sent \/ s \in {a, b})
               /\ conn'[s].intersted_peice = IF s = a THEN r
                                             ELSE IF s = b THEN -1 ELSE c[s].intersted_peice
    <3>1. c[s] \in ConnType
      OBVIOUS
    <3>2. conn'[s] = [c[s] EXCEPT
                       !.am_intersted = c[s].am_intersted \/ s \in told,
                       !.request_sent = c[s].request_sent \/ s \in {a, b},
                       !.intersted_peice = IF s = a THEN r
                                           ELSE IF s = b THEN -1 ELSE c[s].intersted_peice]
      BY <2>1 DEF SearchedAt
    <3> QED
      BY <3>1, <3>2 DEF ConnType
  <2>3. ASSUME NEW s \in Slots
        PROVE  peer'[s].pending \subseteq pr[s].pending \cup (IF s = a THEN {r} ELSE {})
    <3> DEFINE p1 == TellInterested(pr, told)
               p2 == SendRequest(p1, a, r)
    <3>1. p1 \in [Slots -> PeerType] /\ p1[s].pending = pr[s].pending
      BY TellInterestedType, TellPending
    <3> HIDE DEF p1
    <3>2. /\ p2 \in [Slots -> PeerType]
          /\ s # a => p2[s].pending = p1[s].pending
          /\ p2[s].pending \subseteq p1[s].pending \cup {r}
      BY <3>1, SendRequestFacts
    <3> HIDE DEF p2
    <3>3. SendRequest(p2, b, -1)[s].pending = p2[s].pending
      BY <3>2, SendRequestFacts, Sizes
    <3>4. peer' = SendRequest(p2, b, -1)
      BY <2>1 DEF SearchedAt, p1, p2
    <3> QED
      BY <3>1, <3>2, <3>3, <3>4
  <2>4. \A q \in Pieces : peice_status'[q] = IF q = r /\ a \in Slots THEN DOWNLOADING ELSE stat[q]
    BY <2>1, Sizes DEF SearchedAt
  <2>5. a # MAX_CONN => a \in Slots
    OBVIOUS
  <2>6. a # MAX_CONN => /\ c[a].in_use /\ ~c[a].peer_chocking /\ ~c[a].request_sent
                        /\ stat[r] = NOT_DOWNLOADED
    BY <2>1 DEF SearchedAt
  <2>7. b # MAX_CONN => b # a /\ ~c[b].request_sent
    BY <2>1 DEF SearchedAt
  <2>8. a # MAX_CONN => /\ peice_status'[r] = DOWNLOADING
                        /\ conn'[a].request_sent /\ conn'[a].intersted_peice = r
    BY <2>2, <2>4, <2>5
  <2>9. ASSUME NEW s \in Slots, c[s].request_sent
        PROVE  /\ conn'[s].request_sent
               /\ conn'[s].intersted_peice = c[s].intersted_peice
    BY <2>2, <2>6, <2>7, <2>9, Sizes
  <2>10. \A q \in Pieces : q # r \/ a = MAX_CONN => peice_status'[q] = stat[q]
    BY <2>4, Sizes
  <2> QED
    BY <2>2, <2>3, <2>6, <2>8, <2>9, <2>10 DEF Digest
<1> QED
  BY <1>1, <1>2, SearchFacts DEF Commit


(* Of a step: the pieces whose request was lost before it are still marked    *)
(* and asked of nobody.                                                     *)
StaysLost(stat, pr, w) ==
    \A p \in Pieces : Abandoned(p) =>
        /\ stat[p] = DOWNLOADING
        /\ \A i \in Slots : ~Flight(pr, w, i, p)

Fine(c, stat, pr, w) == Sound(c, stat, pr, w) /\ StaysLost(stat, pr, w)

Kept == Fine(conn', peice_status', peer', wire')

(* Abandoned in terms of Flight, before and after a step.                    *)
LEMMA AbandonedFacts ==
    \A p \in Pieces :
        Abandoned(p) <=> /\ peice_status[p] = DOWNLOADING
                         /\ \A i \in Slots : ~Flight(peer, wire, i, p)
BY DEF Abandoned, InFlight, Answer, Flight, Answers

(* A step that leaves connections, pieces, peers and wires alone keeps all.  *)
LEMMA StutterKeeps ==
    ASSUME RequestInv, UNCHANGED <<conn, peice_status, peer, wire>>
    PROVE  Kept
BY AbandonedFacts DEF RequestInv, RequestsSound, Kept, Fine, StaysLost

(* A search keeps Sound: what it asks for was not in flight anywhere, and on  *)
(* the connection it uses nothing was in flight.                             *)
LEMMA DigestKeepsSound ==
    ASSUME NEW c \in [Slots -> ConnType], NEW stat \in [Index -> Status],
           NEW pr \in [Slots -> PeerType], NEW w \in [Slots -> Seq(Message)],
           Fine(c, stat, pr, w), Digest(c, stat, pr)
    PROVE  Fine(conn', peice_status', peer', w)
<1>1. PICK r \in Pieces, a \in Slots \cup {MAX_CONN} :
        /\ a # MAX_CONN =>
            /\ c[a].in_use /\ ~c[a].peer_chocking /\ ~c[a].request_sent
            /\ stat[r] = NOT_DOWNLOADED /\ peice_status'[r] = DOWNLOADING
            /\ conn'[a].request_sent /\ conn'[a].intersted_peice = r
        /\ \A s \in Slots :
            /\ conn'[s].in_use = c[s].in_use
            /\ conn'[s].peer_chocking = c[s].peer_chocking
            /\ c[s].request_sent => /\ conn'[s].request_sent
                                    /\ conn'[s].intersted_peice = c[s].intersted_peice
            /\ peer'[s].pending \subseteq pr[s].pending \cup (IF s = a THEN {r} ELSE {})
        /\ \A q \in Pieces : q # r \/ a = MAX_CONN => peice_status'[q] = stat[q]
  BY DEF Digest
<1>2. \A s \in Slots, q \in Pieces :
        Flight(peer', w, s, q) => Flight(pr, w, s, q) \/ (s = a /\ q = r)
  BY <1>1 DEF Flight
<1>3. a # MAX_CONN => /\ \A q \in Pieces : ~Flight(pr, w, a, q)
                      /\ \A s \in Slots : ~Flight(pr, w, s, r)
  BY <1>1 DEF Fine, Sound, Expected, NOT_DOWNLOADED, DOWNLOADING
<1>4. MAX_CONN \notin Slots
  BY Sizes
<1>5. Expected(conn', peice_status', peer', w)
  <2> SUFFICES ASSUME NEW s \in Slots, NEW q \in Pieces, Flight(peer', w, s, q)
               PROVE  /\ conn'[s].in_use /\ conn'[s].request_sent
                      /\ conn'[s].intersted_peice = q /\ peice_status'[q] = DOWNLOADING
    BY DEF Expected
  <2>1. CASE Flight(pr, w, s, q)
    <3>1. /\ c[s].in_use /\ c[s].request_sent
          /\ c[s].intersted_peice = q /\ stat[q] = DOWNLOADING
      BY <2>1 DEF Fine, Sound, Expected
    <3>2. q # r \/ a = MAX_CONN
      BY <1>3, <2>1
    <3> QED
      BY <1>1, <3>1, <3>2
  <2>2. CASE s = a /\ q = r
    BY <1>1, <1>4, <2>2
  <2> QED
    BY <1>2, <2>1, <2>2
<1>6. OnOneConnection(peer', w)
  BY <1>2, <1>3, <1>4 DEF Fine, Sound, OnOneConnection
<1>7. SentOnce(peer', w)
  <2> SUFFICES ASSUME NEW s \in Slots, NEW p \in Pieces, NEW q \in Pieces,
                      NEW k \in 1 .. Len(w[s]), NEW l \in 1 .. Len(w[s]),
                      Answers(w, s, p, k)
               PROVE  /\ q \notin peer'[s].pending
                      /\ Answers(w, s, q, l) => k = l
    BY DEF SentOnce
  <2>1. q \notin pr[s].pending /\ (Answers(w, s, q, l) => k = l)
    BY DEF Fine, Sound, SentOnce
  <2>2. Flight(pr, w, s, p)
    BY DEF Flight
  <2> QED
    BY <1>1, <1>3, <1>4, <2>1, <2>2
<1>8. Greeted(conn', peer', w)
  <2> SUFFICES ASSUME NEW s \in Slots, NEW k \in 1 .. Len(w[s]), w[s][k].type = "BIT_FIELD"
               PROVE  /\ k = 1 /\ conn'[s].peer_chocking
                      /\ \A p \in Pieces : ~Flight(peer', w, s, p)
    BY DEF Greeted
  <2>1. k = 1 /\ c[s].peer_chocking /\ \A p \in Pieces : ~Flight(pr, w, s, p)
    BY DEF Fine, Sound, Greeted
  <2> QED
    BY <1>1, <1>2, <1>4, <2>1
<1>9. StaysLost(peice_status', peer', w)
  <2> SUFFICES ASSUME NEW p \in Pieces, Abandoned(p)
               PROVE  /\ peice_status'[p] = DOWNLOADING
                      /\ \A s \in Slots : ~Flight(peer', w, s, p)
    BY DEF StaysLost
  <2>1. stat[p] = DOWNLOADING /\ \A s \in Slots : ~Flight(pr, w, s, p)
    BY DEF Fine, StaysLost
  <2>2. p # r \/ a = MAX_CONN
    BY <1>1, <2>1 DEF NOT_DOWNLOADED, DOWNLOADING
  <2> QED
    BY <1>1, <1>2, <1>4, <2>1, <2>2
<1> QED
  BY <1>5, <1>6, <1>7, <1>8, <1>9 DEF Fine, Sound

(* The messages that are left when the first is read.                        *)
LEMMA TailFacts ==
    ASSUME NEW s \in Seq(Message), s # <<>>
    PROVE  /\ Head(s) = s[1] /\ 1 \in 1 .. Len(s)
           /\ Len(Tail(s)) = Len(s) - 1 /\ Len(s) \in Nat
           /\ \A k \in 1 .. Len(Tail(s)) : Tail(s)[k] = s[k + 1] /\ k + 1 \in 1 .. Len(s)
OBVIOUS

(* Reading a message that is no piece keeps Sound, whatever the handler does   *)
(* to the connection when the message is the greeting.                       *)
LEMMA ReadKeepsSound ==
    ASSUME RequestInv, NEW i \in Slots, wire[i] # <<>>, Head(wire[i]).type # "PEICE",
           NEW c, NEW pr,
           \A s \in Slots \ {i} : c[s] = conn[s],
           \A s \in Slots : pr[s].pending = peer[s].pending,
           \/ Head(wire[i]).type = "BIT_FIELD"
           \/ /\ c[i].in_use = conn[i].in_use
              /\ c[i].request_sent = conn[i].request_sent
              /\ c[i].intersted_peice = conn[i].intersted_peice
    PROVE  Fine(c, peice_status, pr, [wire EXCEPT ![i] = Tail(wire[i])])
<1> DEFINE w == [wire EXCEPT ![i] = Tail(wire[i])]
<1>1. wire \in [Slots -> Seq(Message)] /\ wire[i] \in Seq(Message)
  BY DEF RequestInv, TypeOK
<1>2. /\ \A s \in Slots \ {i} : w[s] = wire[s]
      /\ \A k \in 1 .. Len(w[i]) : w[i][k] = wire[i][k + 1] /\ k + 1 \in 1 .. Len(wire[i])
      /\ Head(wire[i]) = wire[i][1] /\ 1 \in 1 .. Len(wire[i])
  BY <1>1, TailFacts
<1> HIDE DEF w
<1>3. \A s \in Slots, q \in Pieces : Flight(pr, w, s, q) => Flight(peer, wire, s, q)
  BY <1>2 DEF Flight, Answers
<1>4. Head(wire[i]).type = "BIT_FIELD" => \A q \in Pieces : ~Flight(pr, w, i, q)
  BY <1>2, <1>3 DEF RequestInv, RequestsSound, Sound, Greeted
<1>5. Expected(c, peice_status, pr, w)
  BY <1>3, <1>4 DEF RequestInv, RequestsSound, Sound, Expected
<1>6. OnOneConnection(pr, w)
  BY <1>3 DEF RequestInv, RequestsSound, Sound, OnOneConnection
<1>7. SentOnce(pr, w)
  <2> SUFFICES ASSUME NEW s \in Slots, NEW p \in Pieces, NEW q \in Pieces,
                      NEW k \in 1 .. Len(w[s]), NEW l \in 1 .. Len(w[s]),
                      Answers(w, s, p, k)
               PROVE  /\ q \notin pr[s].pending
                      /\ Answers(w, s, q, l) => k = l
    BY DEF SentOnce
  <2>1. CASE s = i
    <3>1. Answers(wire, i, p, k + 1) /\ k + 1 \in 1 .. Len(wire[i])
      BY <1>2, <2>1 DEF Answers
    <3>2. Answers(w, s, q, l) => Answers(wire, i, q, l + 1) /\ l + 1 \in 1 .. Len(wire[i])
      BY <1>2, <2>1 DEF Answers
    <3>3. q \notin peer[i].pending
      BY <3>1 DEF RequestInv, RequestsSound, Sound, SentOnce
    <3>4. Answers(w, s, q, l) => k + 1 = l + 1
      BY <3>1, <3>2 DEF RequestInv, RequestsSound, Sound, SentOnce
    <3> QED
      BY <2>1, <3>3, <3>4
  <2>2. CASE s # i
    BY <1>2, <2>2 DEF RequestInv, RequestsSound, Sound, SentOnce, Answers
  <2> QED
    BY <2>1, <2>2
<1>8. Greeted(c, pr, w)
  <2> SUFFICES ASSUME NEW s \in Slots, NEW k \in 1 .. Len(w[s]), w[s][k].type = "BIT_FIELD"
               PROVE  /\ k = 1 /\ c[s].peer_chocking
                      /\ \A p \in Pieces : ~Flight(pr, w, s, p)
    BY DEF Greeted
  <2>1. s # i
    <3> SUFFICES ASSUME s = i PROVE FALSE
      OBVIOUS
    <3>1. wire[i][k + 1].type = "BIT_FIELD" /\ k + 1 \in 1 .. Len(wire[i])
      BY <1>2
    <3>2. k + 1 = 1
      BY <3>1 DEF RequestInv, RequestsSound, Sound, Greeted
    <3> QED
      BY <3>2
  <2>2. k \in 1 .. Len(wire[s]) /\ wire[s][k].type = "BIT_FIELD"
    BY <1>2, <2>1
  <2>3. k = 1 /\ conn[s].peer_chocking /\ \A p \in Pieces : ~Flight(peer, wire, s, p)
    BY <2>2 DEF RequestInv, RequestsSound, Sound, Greeted
  <2> QED
    BY <1>3, <2>1, <2>3
<1>9. StaysLost(peice_status, pr, w)
  BY <1>3, AbandonedFacts DEF StaysLost
<1> QED
  BY <1>5, <1>6, <1>7, <1>8, <1>9 DEF Fine, Sound, w

(* A connection with nothing in flight may be set to anything.               *)
LEMMA ResetKeepsSound ==
    ASSUME RequestInv, NEW i \in Slots, NEW c, NEW pr, NEW w,
           \A s \in Slots \ {i} : /\ c[s] = conn[s] /\ w[s] = wire[s]
                                  /\ pr[s].pending = peer[s].pending,
           pr[i].pending = {},
           \A k \in 1 .. Len(w[i]) :
                /\ w[i][k].type # "PEICE"
                /\ w[i][k].type = "BIT_FIELD" => k = 1 /\ c[i].peer_chocking
    PROVE  Fine(c, peice_status, pr, w)
<1>1. \A q \in Pieces : ~Flight(pr, w, i, q)
  BY DEF Flight, Answers
<1>2. \A s \in Slots \ {i}, q \in Pieces : Flight(pr, w, s, q) = Flight(peer, wire, s, q)
  BY DEF Flight, Answers
<1>3. Expected(c, peice_status, pr, w)
  BY <1>1, <1>2 DEF RequestInv, RequestsSound, Sound, Expected
<1>4. OnOneConnection(pr, w)
  BY <1>1, <1>2 DEF RequestInv, RequestsSound, Sound, OnOneConnection
<1>5. SentOnce(pr, w)
  BY DEF RequestInv, RequestsSound, Sound, SentOnce, Answers
<1>6. Greeted(c, pr, w)
  BY <1>1, <1>2 DEF RequestInv, RequestsSound, Sound, Greeted
<1>7. StaysLost(peice_status, pr, w)
  BY <1>1, <1>2, AbandonedFacts DEF StaysLost
<1> QED
  BY <1>3, <1>4, <1>5, <1>6, <1>7 DEF Fine, Sound

(* Closing a connection ends what was in flight on it and nothing else.      *)
LEMMA CloseKeepsSound ==
    ASSUME RequestInv, NEW i \in Slots, CloseSlot(i), peice_status' = peice_status
    PROVE  Kept
<1> DEFINE c  == Closed(conn, i)
           w  == [wire EXCEPT ![i] = <<>>]
           pr == [peer EXCEPT ![i] = NoPeer]
<1>1. conn' = c /\ wire' = w /\ peer' = pr
  BY DEF CloseSlot
<1>2. /\ \A s \in Slots \ {i} : /\ c[s] = conn[s] /\ w[s] = wire[s]
                                /\ pr[s].pending = peer[s].pending
      /\ pr[i].pending = {} /\ w[i] = <<>>
  BY DEF RequestInv, TypeOK, Closed, NoPeer
<1> HIDE DEF c, w, pr
<1>3. Fine(c, peice_status, pr, w)
  BY <1>2, ResetKeepsSound
<1> QED
  BY <1>1, <1>3 DEF Kept

(* The handlers keep Sound: first what the handler does itself, then what     *)
(* the search after it does.                                                *)
LEMMA SearchAfterKeepsSound ==
    ASSUME NEW c \in [Slots -> ConnType], NEW stat \in [Index -> Status],
           NEW rank \in [Pieces -> Nat], NEW pr \in [Slots -> PeerType], NEW sent,
           FindRarest(c, stat, rank, pr, sent) \/ Commit(c, stat, rank, pr, sent),
           wire' \in [Slots -> Seq(Message)],
           Fine(c, stat, pr, wire')
    PROVE  Kept
<1>1. Digest(c, stat, pr)
  BY SearchDigest
<1>2. \A w \in [Slots -> Seq(Message)] :
        Fine(c, stat, pr, w) => Fine(conn', peice_status', peer', w)
  BY <1>1, DigestKeepsSound
<1> QED
  BY <1>2 DEF Kept

(* A choke message keeps the invariant.                                      *)
LEMMA HandleChokeSound ==
    ASSUME RequestInv, NEW i \in Slots, HandleChoke(i)
    PROVE  Kept
<1> DEFINE c == [conn EXCEPT ![i].peer_chocking = TRUE]
<1>1. /\ wire[i] # <<>> /\ Head(wire[i]).type = "CHOKE"
      /\ wire' = [wire EXCEPT ![i] = Tail(wire[i])] /\ conn' = c
      /\ peice_status' = peice_status /\ peer' = peer
  BY DEF HandleChoke, Receives, Consume
<1>2. /\ \A s \in Slots \ {i} : c[s] = conn[s]
      /\ c[i].in_use = conn[i].in_use
      /\ c[i].request_sent = conn[i].request_sent
      /\ c[i].intersted_peice = conn[i].intersted_peice
  BY DEF RequestInv, TypeOK, ConnType
<1> HIDE DEF c
<1>3. Fine(c, peice_status, peer, [wire EXCEPT ![i] = Tail(wire[i])])
  BY <1>1, <1>2, ReadKeepsSound
<1> QED
  BY <1>1, <1>3 DEF Kept

(* An unchoke message, with the search it may start, keeps the invariant.    *)
LEMMA HandleUnchokeSound ==
    ASSUME RequestInv, NEW i \in Slots, HandleUnchoke(i)
    PROVE  Kept
<1> DEFINE c == [conn EXCEPT ![i].peer_chocking = FALSE]
<1>1. /\ wire[i] # <<>> /\ Head(wire[i]).type = "UNCHOKE"
      /\ wire' = [wire EXCEPT ![i] = Tail(wire[i])]
      /\ \/ FindRarest(c, peice_status, peice_ranking, peer, {})
         \/ Commit(c, peice_status, peice_ranking, peer, {})
  BY DEF HandleUnchoke, Receives, Consume
<1>2. /\ \A s \in Slots \ {i} : c[s] = conn[s]
      /\ c[i].in_use = conn[i].in_use
      /\ c[i].request_sent = conn[i].request_sent
      /\ c[i].intersted_peice = conn[i].intersted_peice
      /\ c \in [Slots -> ConnType]
  BY DEF RequestInv, TypeOK, ConnType
<1> HIDE DEF c
<1>3. Fine(c, peice_status, peer, wire')
  BY <1>1, <1>2, ReadKeepsSound
<1>4. /\ wire' \in [Slots -> Seq(Message)] /\ peice_status \in [Index -> Status]
      /\ peice_ranking \in [Pieces -> Nat] /\ peer \in [Slots -> PeerType]
  BY <1>1, ConsumeType DEF RequestInv, TypeOK, Consume
<1> QED
  BY <1>1, <1>2, <1>3, <1>4, SearchAfterKeepsSound

(* A bit field keeps it: nothing is in flight when intersted_peice changes.  *)
LEMMA AcceptBitFieldSound ==
    ASSUME RequestInv, NEW i \in Slots, AcceptBitField(i)
    PROVE  Kept
<1> DEFINE bits == Head(wire[i]).bits
           rank == AddHolder(peice_ranking, bits)
           c    == StoreBitField(conn, i, bits)
           want == check_intersted(c, i, bit_field, peice_status)
           c1   == [c EXCEPT ![i].am_intersted = TRUE, ![i].intersted_peice = want]
           c2   == [c EXCEPT ![i].am_intersted = FALSE]
           p1   == TellInterested(peer, {i})
           p2   == TellNotInterested(peer, i)
<1>1. /\ wire[i] # <<>> /\ Head(wire[i]).type = "BIT_FIELD"
      /\ wire' = [wire EXCEPT ![i] = Tail(wire[i])]
      /\ \/ FindRarest(c1, peice_status, rank, p1, {i})
         \/ Commit(c2, peice_status, rank, p2, {i})
  BY DEF AcceptBitField, Receives, Consume
<1>2. bits \in SUBSET Pieces
  BY <1>1, HeadFacts DEF RequestInv
<1>3. /\ peice_status \in [Index -> Status] /\ peer \in [Slots -> PeerType]
      /\ conn \in [Slots -> ConnType]
  BY DEF RequestInv, TypeOK
<1> HIDE DEF bits
<1>4. rank \in [Pieces -> Nat]
  BY DEF AddHolder, RequestInv, TypeOK
<1>5. c \in [Slots -> ConnType] /\ \A s \in Slots \ {i} : c[s] = conn[s]
  BY <1>2, <1>3 DEF StoreBitField, ConnType
<1>6. want \in Index
  BY CheckInterstedType
<1> HIDE DEF rank, c, want
<1>7. c1 \in [Slots -> ConnType] /\ \A s \in Slots \ {i} : c1[s] = conn[s]
  BY <1>5, <1>6 DEF ConnType
<1>8. c2 \in [Slots -> ConnType] /\ \A s \in Slots \ {i} : c2[s] = conn[s]
  BY <1>5 DEF ConnType
<1> HIDE DEF c1, c2
<1>9. /\ p1 \in [Slots -> PeerType] /\ p2 \in [Slots -> PeerType]
      /\ \A s \in Slots : p1[s].pending = peer[s].pending /\ p2[s].pending = peer[s].pending
  <2>1. 0 \in Pieces
    BY Sizes, ConstantsAssumption DEF Pieces, no_of_peices
  <2> QED
    BY <1>3, <2>1, TellInterestedType, TellNotInterestedType, TellPending
<1> HIDE DEF p1, p2
<1>10. Fine(c1, peice_status, p1, wire') /\ Fine(c2, peice_status, p2, wire')
  BY <1>1, <1>7, <1>8, <1>9, ReadKeepsSound
<1>11. wire' \in [Slots -> Seq(Message)]
  BY <1>1, ConsumeType DEF RequestInv, Consume
<1> QED
  BY <1>1, <1>3, <1>4, <1>7, <1>8, <1>9, <1>10, <1>11, SearchAfterKeepsSound

(* A have message, with the search it may start, keeps the invariant.        *)
LEMMA HandleHaveSound ==
    ASSUME RequestInv, NEW i \in Slots, HandleHave(i)
    PROVE  Kept
<1> DEFINE p    == Head(wire[i]).index
           c    == [conn EXCEPT ![i].bit_field = set_bit_field(conn[i].bit_field, p)]
           rank == [peice_ranking EXCEPT ![p] = peice_ranking[p] + 1]
           p1   == TellInterested(peer, {i})
<1>1. /\ wire[i] # <<>> /\ Head(wire[i]).type = "HAVE" /\ conn[i].bit_field # NULL
      /\ wire' = [wire EXCEPT ![i] = Tail(wire[i])]
      /\ \/ FindRarest(c, peice_status, rank, p1, {i})
         \/ Commit(c, peice_status, rank, peer, {})
  BY DEF HandleHave, Receives, Consume
<1>2. p \in Pieces
  BY <1>1, HeadFacts DEF RequestInv
<1>3. /\ peice_status \in [Index -> Status] /\ peer \in [Slots -> PeerType]
      /\ conn \in [Slots -> ConnType] /\ conn[i].bit_field \in SUBSET Pieces
  BY <1>1 DEF RequestInv, TypeOK, ConnType
<1> HIDE DEF p
<1>4. rank \in [Pieces -> Nat]
  BY <1>2 DEF RequestInv, TypeOK
<1>5. set_bit_field(conn[i].bit_field, p) \in SUBSET Pieces
  BY <1>2, <1>3, SetBitType
<1>6. /\ c \in [Slots -> ConnType] /\ \A s \in Slots \ {i} : c[s] = conn[s]
      /\ c[i].in_use = conn[i].in_use
      /\ c[i].request_sent = conn[i].request_sent
      /\ c[i].intersted_peice = conn[i].intersted_peice
  BY <1>3, <1>5 DEF ConnType
<1> HIDE DEF c, rank
<1>7. /\ p1 \in [Slots -> PeerType]
      /\ \A s \in Slots : p1[s].pending = peer[s].pending
  BY <1>2, <1>3, TellInterestedType, TellPending
<1> HIDE DEF p1
<1>8. Fine(c, peice_status, p1, wire') /\ Fine(c, peice_status, peer, wire')
  BY <1>1, <1>6, <1>7, ReadKeepsSound
<1>9. wire' \in [Slots -> Seq(Message)]
  BY <1>1, ConsumeType DEF RequestInv, Consume
<1> QED
  BY <1>1, <1>3, <1>4, <1>6, <1>7, <1>8, <1>9, SearchAfterKeepsSound

(* After an answer is read nothing is in flight on its connection, and its     *)
(* piece is in flight nowhere.                                              *)
LEMMA AnswerKeepsSound ==
    ASSUME RequestInv, NEW i \in Slots, wire[i] # <<>>, Head(wire[i]).type = "PEICE",
           NEW p \in Pieces, p = Head(wire[i]).index,
           NEW c, NEW pr,
           \A s \in Slots \ {i} : c[s] = conn[s],
           \A s \in Slots : pr[s].pending = peer[s].pending
    PROVE  Fine(c, [peice_status EXCEPT ![p] = COMPLETED], pr,
                 [wire EXCEPT ![i] = Tail(wire[i])])
<1> DEFINE w    == [wire EXCEPT ![i] = Tail(wire[i])]
           stat == [peice_status EXCEPT ![p] = COMPLETED]
<1>1. wire \in [Slots -> Seq(Message)] /\ wire[i] \in Seq(Message)
  BY DEF RequestInv, TypeOK
<1>2. /\ \A s \in Slots \ {i} : w[s] = wire[s]
      /\ \A k \in 1 .. Len(w[i]) : w[i][k] = wire[i][k + 1] /\ k + 1 \in 1 .. Len(wire[i])
      /\ Head(wire[i]) = wire[i][1] /\ 1 \in 1 .. Len(wire[i])
  BY <1>1, TailFacts
<1>3. \A q \in Pieces : q # p => stat[q] = peice_status[q]
  BY Sizes DEF RequestInv, TypeOK
<1> HIDE DEF w, stat
<1>4. Answers(wire, i, p, 1)
  BY <1>2 DEF Answers
<1>5. \A q \in Pieces : ~Flight(pr, w, i, q)
  <2> SUFFICES ASSUME NEW q \in Pieces, Flight(pr, w, i, q) PROVE FALSE
    OBVIOUS
  <2>1. q \notin pr[i].pending
    BY <1>2, <1>4 DEF RequestInv, RequestsSound, Sound, SentOnce
  <2>2. PICK k \in 1 .. Len(w[i]) : Answers(w, i, q, k)
    BY <2>1 DEF Flight
  <2>3. Answers(wire, i, q, k + 1) /\ k + 1 \in 1 .. Len(wire[i])
    BY <1>2, <2>2 DEF Answers
  <2>4. 1 = k + 1
    BY <1>2, <1>4, <2>3 DEF RequestInv, RequestsSound, Sound, SentOnce
  <2> QED
    BY <2>4
<1>6. \A s \in Slots \ {i}, q \in Pieces : Flight(pr, w, s, q) = Flight(peer, wire, s, q)
  BY <1>2 DEF Flight, Answers
<1>7. \A s \in Slots \ {i} : ~Flight(peer, wire, s, p)
  <2>1. Flight(peer, wire, i, p)
    BY <1>2, <1>4 DEF Flight
  <2> QED
    BY <2>1 DEF RequestInv, RequestsSound, Sound, OnOneConnection
<1>8. Expected(c, stat, pr, w)
  BY <1>3, <1>5, <1>6, <1>7 DEF RequestInv, RequestsSound, Sound, Expected
<1>9. OnOneConnection(pr, w)
  BY <1>5, <1>6 DEF RequestInv, RequestsSound, Sound, OnOneConnection
<1>10. SentOnce(pr, w)
  <2> SUFFICES ASSUME NEW s \in Slots, NEW q1 \in Pieces, NEW q2 \in Pieces,
                      NEW k \in 1 .. Len(w[s]), NEW l \in 1 .. Len(w[s]),
                      Answers(w, s, q1, k)
               PROVE  /\ q2 \notin pr[s].pending
                      /\ Answers(w, s, q2, l) => k = l
    BY DEF SentOnce
  <2>1. s # i
    BY <1>5 DEF Flight
  <2> QED
    BY <1>2, <2>1 DEF RequestInv, RequestsSound, Sound, SentOnce, Answers
<1>11. Greeted(c, pr, w)
  <2> SUFFICES ASSUME NEW s \in Slots, NEW k \in 1 .. Len(w[s]), w[s][k].type = "BIT_FIELD"
               PROVE  /\ k = 1 /\ c[s].peer_chocking
                      /\ \A q \in Pieces : ~Flight(pr, w, s, q)
    BY DEF Greeted
  <2>1. s # i
    <3> SUFFICES ASSUME s = i PROVE FALSE
      OBVIOUS
    <3>1. wire[i][k + 1].type = "BIT_FIELD" /\ k + 1 \in 1 .. Len(wire[i])
      BY <1>2
    <3>2. k + 1 = 1
      BY <3>1 DEF RequestInv, RequestsSound, Sound, Greeted
    <3> QED
      BY <3>2
  <2>2. k \in 1 .. Len(wire[s]) /\ wire[s][k].type = "BIT_FIELD"
    BY <1>2, <2>1
  <2>3. k = 1 /\ conn[s].peer_chocking /\ \A q \in Pieces : ~Flight(peer, wire, s, q)
    BY <2>2 DEF RequestInv, RequestsSound, Sound, Greeted
  <2> QED
    BY <1>6, <2>1, <2>3
<1>12. StaysLost(stat, pr, w)
  <2> SUFFICES ASSUME NEW q \in Pieces, Abandoned(q)
               PROVE  stat[q] = DOWNLOADING /\ \A s \in Slots : ~Flight(pr, w, s, q)
    BY DEF StaysLost
  <2>1. peice_status[q] = DOWNLOADING /\ \A s \in Slots : ~Flight(peer, wire, s, q)
    BY AbandonedFacts
  <2>2. q # p
    BY <1>2, <1>4, <2>1 DEF Flight
  <2> QED
    BY <1>3, <1>5, <1>6, <2>1, <2>2
<1> QED
  BY <1>8, <1>9, <1>10, <1>11, <1>12 DEF Fine, Sound, w, stat

(* An accepted piece keeps it: its connection is idle again when it searches. *)
LEMMA AcceptPeiceSound ==
    ASSUME RequestInv, NEW i \in Slots, AcceptPeice(i)
    PROVE  Kept
<1> DEFINE p    == Head(wire[i]).index
           stat == [peice_status EXCEPT ![p] = COMPLETED]
           c    == [conn EXCEPT ![i].request_sent = FALSE]
           c1   == [c EXCEPT ![i].am_intersted = TRUE]
           c2   == [c EXCEPT ![i].am_intersted = FALSE]
           p1   == send_have_message(peer, p)
           p2   == TellNotInterested(p1, i)
           all  == { s \in Slots : conn[s].in_use }
<1>1. /\ wire[i] # <<>> /\ Head(wire[i]).type = "PEICE"
      /\ wire' = [wire EXCEPT ![i] = Tail(wire[i])]
      /\ \/ Commit(c, stat, peice_ranking, p2, all)
         \/ FindRarest(c1, stat, peice_ranking, p1, all)
         \/ Commit(c2, stat, peice_ranking, p2, all)
  BY DEF AcceptPeice, Receives, Consume
<1>2. p \in Pieces
  BY <1>1, HeadFacts DEF RequestInv
<1>3. /\ peice_status \in [Index -> Status] /\ peer \in [Slots -> PeerType]
      /\ conn \in [Slots -> ConnType] /\ peice_ranking \in [Pieces -> Nat]
  BY DEF RequestInv, TypeOK
<1>4. stat \in [Index -> Status]
  BY <1>2, <1>3, Sizes DEF Status
<1>5. c \in [Slots -> ConnType] /\ \A s \in Slots \ {i} : c[s] = conn[s]
  BY <1>3 DEF ConnType
<1> HIDE DEF c
<1>6. /\ c1 \in [Slots -> ConnType] /\ \A s \in Slots \ {i} : c1[s] = conn[s]
      /\ c2 \in [Slots -> ConnType] /\ \A s \in Slots \ {i} : c2[s] = conn[s]
  BY <1>5 DEF ConnType
<1>7. p1 \in [Slots -> PeerType] /\ \A s \in Slots : p1[s].pending = peer[s].pending
  BY <1>2, <1>3, SendHaveType, TellPending
<1> HIDE DEF c1, c2, p1, all
<1>8. p2 \in [Slots -> PeerType] /\ \A s \in Slots : p2[s].pending = peer[s].pending
  BY <1>2, <1>7, TellNotInterestedType, TellPending
<1> HIDE DEF p2
<1>9. /\ Fine(c, stat, p2, wire')
      /\ Fine(c1, stat, p1, wire')
      /\ Fine(c2, stat, p2, wire')
  BY <1>1, <1>2, <1>5, <1>6, <1>7, <1>8, AnswerKeepsSound
<1>10. wire' \in [Slots -> Seq(Message)]
  BY <1>1, ConsumeType DEF RequestInv, Consume
<1> HIDE DEF stat
<1> QED
  BY <1>1, <1>3, <1>4, <1>5, <1>6, <1>7, <1>8, <1>9, <1>10, SearchAfterKeepsSound

(* Every handler of the event loop keeps Sound.                              *)
LEMMA ReadSound ==
    ASSUME RequestInv, NEW i \in Slots, ReadFromConnection(i)
    PROVE  Kept
<1>1. CASE HandleEndOfStream(i) \/ RejectBitField(i) \/ RejectPeice(i)
  BY <1>1, CloseKeepsSound DEF HandleEndOfStream, RejectBitField, RejectPeice
<1>2. CASE HaveWithoutBitField(i) \/ PeiceWriteFails(i)
  BY <1>2, StutterKeeps DEF HaveWithoutBitField, PeiceWriteFails
<1> QED
  BY <1>1, <1>2, HandleChokeSound, HandleUnchokeSound, AcceptBitFieldSound,
     HandleHaveSound, AcceptPeiceSound DEF ReadFromConnection

(* A free slot has nothing in flight, so that a handshake may fill it.        *)
LEMMA HandshakeSound ==
    ASSUME RequestInv, NEW i \in Slots, NEW bits, ~conn[i].in_use,
           HandshakeDone(i, bits) \/ HandshakeRefused(i) \/ HandshakeLost(i),
           peice_status' = peice_status
    PROVE  Kept
<1>1. /\ conn \in [Slots -> ConnType] /\ peer \in [Slots -> PeerType]
      /\ wire \in [Slots -> Seq(Message)]
  BY DEF RequestInv, TypeOK
<1>2. peer[i].pending = {} /\ \A k \in 1 .. Len(wire[i]) : wire[i][k].type # "PEICE"
  <2>1. \A q \in Pieces : ~Flight(peer, wire, i, q)
    BY DEF RequestInv, RequestsSound, Sound, Expected
  <2>2. peer[i].pending \in SUBSET Pieces
    BY <1>1 DEF PeerType
  <2>3. ASSUME NEW k \in 1 .. Len(wire[i]), wire[i][k].type = "PEICE" PROVE FALSE
    <3>1. wire[i][k] \in Message
      BY <1>1
    <3> QED
      BY <2>1, <2>3, <3>1, MessageFacts DEF Flight, Answers
  <2> QED
    BY <2>1, <2>2, <2>3 DEF Flight
<1>3. CASE HandshakeDone(i, bits)
  <2>1. PICK has \in Holdings :
          /\ peer' = [peer EXCEPT ![i] = NewPeer(has)]
          /\ \E g \in Greetings(has) : wire' = [wire EXCEPT ![i] = g]
    BY <1>3 DEF HandshakeDone
  <2>2. peer'[i].pending = {}
    BY <1>1, <2>1 DEF NewPeer, NoPeer
  <2>3. conn' = [conn EXCEPT ![i] = [NewConn(conn[i]) EXCEPT !.bit_field = bits]]
    BY <1>3 DEF HandshakeDone
  <2>4. conn'[i].peer_chocking
    BY <1>1, <2>3 DEF NewConn, ConnType
  <2>5. wire'[i] = <<BitField(has)>> \/ wire'[i] = <<>>
    BY <1>1, <2>1 DEF Greetings
  <2>6. \A k \in 1 .. Len(wire'[i]) : k = 1 /\ wire'[i][k].type = "BIT_FIELD"
    <3>1. BitField(has).type = "BIT_FIELD"
      BY DEF BitField
    <3>2. CASE wire'[i] = <<BitField(has)>>
      BY <3>1, <3>2
    <3>3. CASE wire'[i] = <<>>
      BY <3>3
    <3> QED
      BY <2>5, <3>2, <3>3
  <2>7. \A s \in Slots \ {i} : /\ conn'[s] = conn[s] /\ wire'[s] = wire[s]
                              /\ peer'[s].pending = peer[s].pending
    BY <1>1, <2>1, <2>3
  <2>8. Fine(conn', peice_status, peer', wire')
    BY <2>2, <2>4, <2>6, <2>7, ResetKeepsSound
  <2> QED
    BY <2>8 DEF Kept
<1>4. CASE HandshakeRefused(i)
  <2>1. conn' = [conn EXCEPT ![i] = [NewConn(conn[i]) EXCEPT !.in_use = FALSE]]
        /\ wire' = wire /\ peer' = peer
    BY <1>4 DEF HandshakeRefused
  <2>2. conn'[i].peer_chocking
    BY <1>1, <2>1 DEF NewConn, ConnType
  <2>3. \A s \in Slots \ {i} : conn'[s] = conn[s]
    BY <1>1, <2>1
  <2>4. \A k \in 1 .. Len(wire[i]) : wire[i][k].type = "BIT_FIELD" => k = 1
    BY DEF RequestInv, RequestsSound, Sound, Greeted
  <2>5. Fine(conn', peice_status, peer, wire)
    BY <1>2, <2>2, <2>3, <2>4, ResetKeepsSound
  <2> QED
    BY <2>1, <2>5 DEF Kept
<1>5. CASE HandshakeLost(i)
  <2>1. /\ conn' = [conn EXCEPT ![i] = NewConn(conn[i])]
        /\ wire' = [wire EXCEPT ![i] = <<EndOfStream>>] /\ peer' = peer
    BY <1>5 DEF HandshakeLost
  <2>2. \A k \in 1 .. Len(wire'[i]) : wire'[i][k].type = "EOF"
    BY <1>1, <2>1 DEF EndOfStream
  <2>3. \A s \in Slots \ {i} : conn'[s] = conn[s] /\ wire'[s] = wire[s]
    BY <1>1, <2>1
  <2>4. Fine(conn', peice_status, peer, wire')
    BY <1>2, <2>2, <2>3, ResetKeepsSound
  <2> QED
    BY <2>1, <2>4 DEF Kept
<1> QED
  BY <1>3, <1>4, <1>5

(* The messages on a wire when one more is sent.                             *)
LEMMA AppendFacts ==
    ASSUME NEW s \in Seq(Message), NEW m \in Message
    PROVE  /\ Len(s) \in Nat /\ Len(Append(s, m)) = Len(s) + 1
           /\ \A k \in 1 .. Len(s) : Append(s, m)[k] = s[k]
           /\ Append(s, m)[Len(s) + 1] = m
OBVIOUS

(* A peer's message keeps Sound if it is no greeting and, when it is an        *)
(* answer, takes a pending request away.                                    *)
LEMMA PeerSendsSound ==
    ASSUME RequestInv, NEW i \in Slots, NEW m \in Message, PeerSends(i, m),
           m.type # "BIT_FIELD",
           \A s \in Slots \ {i} : peer'[s].pending = peer[s].pending,
           peer'[i].pending \subseteq peer[i].pending,
           m.type = "PEICE" => /\ m.index \in peer[i].pending
                               /\ m.index \notin peer'[i].pending
    PROVE  Kept
<1>1. wire \in [Slots -> Seq(Message)] /\ peer[i].pending \in SUBSET Pieces
  BY DEF RequestInv, TypeOK, PeerType
<1>2. /\ wire' = [wire EXCEPT ![i] = Append(wire[i], m)]
      /\ conn' = conn /\ peice_status' = peice_status
  BY DEF PeerSends
<1> DEFINE n == Len(wire[i])
<1>3. /\ n \in Nat /\ Len(wire'[i]) = n + 1 /\ wire'[i][n + 1] = m
      /\ \A k \in 1 .. n : wire'[i][k] = wire[i][k]
      /\ \A k \in 1 .. n + 1 : k \in 1 .. n \/ k = n + 1
  BY <1>1, <1>2, AppendFacts
<1>4. \A s \in Slots \ {i} : wire'[s] = wire[s]
  BY <1>1, <1>2
<1> HIDE DEF n
<1>5. ASSUME NEW s \in Slots, NEW q \in Pieces, Flight(peer', wire', s, q)
      PROVE  Flight(peer, wire, s, q)
  <2>1. CASE s # i
    BY <1>4, <1>5, <2>1 DEF Flight, Answers
  <2>2. CASE s = i
    <3>1. CASE q \in peer'[i].pending
      BY <2>2, <3>1 DEF Flight
    <3>2. ASSUME NEW k \in 1 .. n + 1, Answers(wire', i, q, k)
          PROVE  Flight(peer, wire, i, q)
      <4>1. CASE k \in 1 .. n
        BY <1>3, <3>2, <4>1 DEF Flight, Answers, n
      <4>2. CASE k = n + 1
        BY <1>3, <3>2, <4>2 DEF Flight, Answers
      <4> QED
        BY <1>3, <4>1, <4>2
    <3> QED
      BY <1>3, <1>5, <2>2, <3>1, <3>2 DEF Flight
  <2> QED
    BY <2>1, <2>2
<1>6. Expected(conn, peice_status, peer', wire')
  BY <1>5 DEF RequestInv, RequestsSound, Sound, Expected
<1>7. OnOneConnection(peer', wire')
  BY <1>5 DEF RequestInv, RequestsSound, Sound, OnOneConnection
<1>8. SentOnce(peer', wire')
  <2> SUFFICES ASSUME NEW s \in Slots, NEW p \in Pieces, NEW q \in Pieces,
                      NEW k \in 1 .. Len(wire'[s]), NEW l \in 1 .. Len(wire'[s]),
                      Answers(wire', s, p, k)
               PROVE  /\ q \notin peer'[s].pending
                      /\ Answers(wire', s, q, l) => k = l
    BY DEF SentOnce
  <2>1. CASE s # i
    BY <1>4, <2>1 DEF RequestInv, RequestsSound, Sound, SentOnce, Answers
  <2>2. CASE s = i /\ m.type = "PEICE"
    <3>1. \A t \in 1 .. n, r \in Pieces : ~Answers(wire, i, r, t)
      BY <1>1, <2>2 DEF RequestInv, RequestsSound, Sound, SentOnce, n
    <3>2. \A t \in 1 .. n + 1, r \in Pieces : Answers(wire', i, r, t) => t = n + 1 /\ r = m.index
      BY <1>3, <3>1 DEF Answers
    <3>3. k = n + 1 /\ p = m.index /\ (Answers(wire', i, q, l) => l = n + 1)
      BY <1>3, <2>2, <3>2
    <3>4. q \in peer'[i].pending => q = m.index
      <4>1. \A r \in peer[i].pending : conn[i].intersted_peice = r
        BY <1>1 DEF RequestInv, RequestsSound, Sound, Expected, Flight
      <4> QED
        BY <2>2, <4>1
    <3> QED
      BY <2>2, <3>3, <3>4
  <2>3. CASE s = i /\ m.type # "PEICE"
    <3>1. k \in 1 .. n /\ Answers(wire, i, p, k)
      BY <1>3, <2>3 DEF Answers
    <3>2. Answers(wire', i, q, l) => l \in 1 .. n /\ Answers(wire, i, q, l)
      BY <1>3, <2>3 DEF Answers
    <3> QED
      BY <2>3, <3>1, <3>2 DEF RequestInv, RequestsSound, Sound, SentOnce, n
  <2> QED
    BY <2>1, <2>2, <2>3
<1>9. Greeted(conn, peer', wire')
  <2> SUFFICES ASSUME NEW s \in Slots, NEW k \in 1 .. Len(wire'[s]), wire'[s][k].type = "BIT_FIELD"
               PROVE  /\ k = 1 /\ conn[s].peer_chocking
                      /\ \A q \in Pieces : ~Flight(peer', wire', s, q)
    BY DEF Greeted
  <2>1. k \in 1 .. Len(wire[s]) /\ wire[s][k].type = "BIT_FIELD"
    <3>1. CASE s = i
      BY <1>3, <3>1 DEF n
    <3>2. CASE s # i
      BY <1>4, <3>2
    <3> QED
      BY <3>1, <3>2
  <2> QED
    BY <1>5, <2>1 DEF RequestInv, RequestsSound, Sound, Greeted
<1>10. StaysLost(peice_status, peer', wire')
  BY <1>5, AbandonedFacts DEF StaysLost
<1> QED
  BY <1>2, <1>6, <1>7, <1>8, <1>9, <1>10 DEF Fine, Sound, Kept

(* The steps of the peers keep Sound.                                        *)
LEMMA PeerStepSound ==
    ASSUME RequestInv, NEW i \in Slots, PeerSteps(i)
    PROVE  Kept
<1>1. peer \in [Slots -> PeerType]
  BY DEF RequestInv, TypeOK
<1>2. CASE PeerUnchokes(i)
  <2>1. Unchoke \in Message /\ Unchoke.type = "UNCHOKE"
    BY DEF Message, Unchoke
  <2>2. \A s \in Slots : peer'[s].pending = peer[s].pending
    BY <1>1, <1>2 DEF PeerUnchokes, PeerType
  <2> QED
    BY <1>2, <2>1, <2>2, PeerSendsSound DEF PeerUnchokes
<1>3. CASE PeerChokes(i)
  <2>1. Choke \in Message /\ Choke.type = "CHOKE"
    BY DEF Message, Choke
  <2>2. peer'[i].pending = {} /\ \A s \in Slots \ {i} : peer'[s].pending = peer[s].pending
    BY <1>1, <1>3 DEF PeerChokes, PeerType
  <2> QED
    BY <1>3, <2>1, <2>2, PeerSendsSound DEF PeerChokes
<1>4. ASSUME NEW p \in Pieces, PeerGains(i, p)
      PROVE  Kept
  <2>1. Have(p) \in Message /\ Have(p).type = "HAVE"
    BY DEF Message, Have
  <2>2. \A s \in Slots : peer'[s].pending = peer[s].pending
    BY <1>1, <1>4 DEF PeerGains, PeerType
  <2> QED
    BY <1>4, <2>1, <2>2, PeerSendsSound DEF PeerGains
<1>5. ASSUME NEW p \in Pieces, PeerServes(i, p)
      PROVE  Kept
  <2>1. PICK good \in BOOLEAN : PeerSends(i, Peice(p, good))
    BY <1>5 DEF PeerServes
  <2>2. /\ Peice(p, good) \in Message /\ Peice(p, good).type = "PEICE"
        /\ Peice(p, good).index = p
    BY DEF Message, Peice
  <2>3. /\ p \in peer[i].pending
        /\ peer'[i].pending = peer[i].pending \ {p}
        /\ \A s \in Slots \ {i} : peer'[s].pending = peer[s].pending
    BY <1>1, <1>5 DEF PeerServes, PeerType
  <2> QED
    BY <2>1, <2>2, <2>3, PeerSendsSound
<1>6. CASE PeerCloses(i)
  <2>1. EndOfStream \in Message /\ EndOfStream.type = "EOF"
    BY DEF Message, EndOfStream
  <2>2. peer'[i].pending = {} /\ \A s \in Slots \ {i} : peer'[s].pending = peer[s].pending
    BY <1>1, <1>6 DEF PeerCloses, PeerType
  <2> QED
    BY <1>6, <2>1, <2>2, PeerSendsSound DEF PeerCloses
<1> QED
  BY <1>2, <1>3, <1>4, <1>5, <1>6 DEF PeerSteps

(* Opening connections and the commands of the user keep Sound.              *)
LEMMA OpenSound ==
    ASSUME RequestInv, Accept \/ Announce \/ ConnectNext \/ ConnectOverrun \/ Show \/ Quit
    PROVE  Kept
<1>1. CASE Accept
  <2>1. /\ get_free_sock \in Slots /\ peice_status' = peice_status
        /\ \/ HandshakeDone(get_free_sock, NULL)
           \/ HandshakeRefused(get_free_sock)
           \/ HandshakeLost(get_free_sock)
    BY <1>1 DEF Accept
  <2> QED
    BY <2>1, FreeSlotFacts, HandshakeSound
<1>2. CASE ConnectNext
  <2>1. get_free_sock \in Slots /\ peice_status' = peice_status
    BY <1>2, FreeSlotFacts DEF ConnectNext
  <2>2. \/ HandshakeDone(get_free_sock, conn[get_free_sock].bit_field)
        \/ HandshakeRefused(get_free_sock)
        \/ HandshakeLost(get_free_sock)
        \/ UNCHANGED <<conn, opened, wire, peer>>
    BY <1>2 DEF ConnectNext
  <2>3. CASE UNCHANGED <<conn, opened, wire, peer>>
    BY <2>1, <2>3, StutterKeeps
  <2> QED
    BY <2>1, <2>2, <2>3, FreeSlotFacts, HandshakeSound
<1>3. CASE Announce \/ ConnectOverrun \/ Show \/ Quit
  BY <1>3, StutterKeeps DEF Announce, ConnectOverrun, Show, Quit
<1> QED
  BY <1>1, <1>2, <1>3

(* The invariant holds when the program starts: nothing is in flight.        *)
LEMMA RequestStarts == Init => RequestInv
<1> SUFFICES ASSUME Init PROVE RequestInv
  OBVIOUS
<1>1. \A s \in Slots : peer[s].pending = {} /\ wire[s] = <<>>
  BY DEF Init, NoPeer
<1>2. RequestsSound
  BY <1>1 DEF RequestsSound, Sound, Expected, OnOneConnection, SentOnce, Greeted,
              Flight, Answers
<1> QED
  BY <1>2, TypeStarts DEF RequestInv

(* Every step keeps the invariant, and a lost request lost.                  *)
LEMMA StepKeeps ==
    ASSUME RequestInv, [Next]_vars
    PROVE  Kept
<1>1. CASE UNCHANGED vars
  BY <1>1, StutterKeeps DEF vars
<1> QED
  BY <1>1, ReadSound, PeerStepSound, OpenSound DEF Next

(* Every step of the client and of its peers keeps the invariant.            *)
LEMMA RequestStep == RequestInv /\ [Next]_vars => RequestInv'
<1> SUFFICES ASSUME RequestInv, [Next]_vars PROVE RequestInv'
  OBVIOUS
<1>1. TypeOK'
  BY TypeStep DEF RequestInv
<1> QED
  BY <1>1, StepKeeps DEF RequestInv, RequestsSound, Kept, Fine

(* The invariant that the properties of requests follow from holds always.   *)
THEOREM RequestInvariance == Spec => []RequestInv
BY RequestStarts, RequestStep, PTL DEF Spec

(* No answer of an honest peer is refused: it is always the answer to the     *)
(* request its connection is marked busy with.                              *)
THEOREM AnswersAreExpected == Spec => []AnswerIsExpected
BY RequestInvariance, SoundIsTheProperties, PTL DEF RequestInv

(* No piece is requested of two peers, or twice of one, while an answer is    *)
(* on its way.                                                              *)
THEOREM RequestsAreUnique == Spec => []RequestedOnce
BY RequestInvariance, SoundIsTheProperties, PTL DEF RequestInv

(* A connection is choked and idle until the greeting of its peer is read.    *)
THEOREM GreetingComesFirst == Spec => []GreetingFirst
BY RequestInvariance, SoundIsTheProperties, PTL DEF RequestInv

(* A request that was lost is never made again.                             *)
THEOREM LostRequestsStayLost == Spec => LostRequestIsNeverRepeated
<1>1. RequestInv /\ [Next]_vars => [\A p \in Pieces : Abandoned(p) => Abandoned(p)']_vars
  <2> SUFFICES ASSUME RequestInv, [Next]_vars, NEW p \in Pieces, Abandoned(p)
               PROVE  Abandoned(p)'
    OBVIOUS
  <2>1. StaysLost(peice_status', peer', wire')
    BY StepKeeps DEF Kept, Fine
  <2> QED
    BY <2>1 DEF StaysLost, Abandoned, InFlight, Answer, Flight, Answers
<1> QED
  BY <1>1, RequestInvariance, PTL DEF Spec, LostRequestIsNeverRepeated

-----------------------------------------------------------------------------
(* What the handlers that may search do before they search                  *)

(* The bit fields c with rankings that count every holder in them.            *)
Ranked(c, rank) ==
    \A s \in Slots, q \in Pieces :
        c[s].bit_field # NULL /\ get_bit_field(c[s].bit_field, q) => rank[q] > 0

(* A message of connection i is read, and the search, or none, starts from     *)
(* the tables c, stat, rank and pr.                                         *)
Prepared(i, c, stat, rank, pr) ==
    /\ wire[i] # <<>>
    /\ wire' = [wire EXCEPT ![i] = Tail(wire[i])]
    /\ \A s \in Slots : pr[s].pending = peer[s].pending
    /\ \A s \in Slots \ {i} : c[s] = conn[s]
    /\ \/ /\ Head(wire[i]).type # "PEICE"
          /\ stat = peice_status
          /\ c[i].request_sent = conn[i].request_sent
       \/ /\ Head(wire[i]).type = "PEICE"
          /\ Head(wire[i]).index \in Pieces
          /\ stat = [peice_status EXCEPT ![Head(wire[i]).index] = COMPLETED]
    /\ Ranked(conn, peice_ranking) => Ranked(c, rank)
    /\ \A q \in Pieces : peice_ranking[q] > 0 => rank[q] > 0

(* What the peers pr have told and been told, next to the peers as they are.   *)
SameSide(pr) ==
    \A s \in Slots : /\ pr[s].open = peer[s].open
                    /\ pr[s].has = peer[s].has
                    /\ pr[s].choking = peer[s].choking

NothingTold(pr) == \A s \in Slots : pr[s].told = peer[s].told

OthersTold(i, pr) == \A s \in Slots \ {i} : peer[s].interested => pr[s].interested

(* What the message that is read on connection i says is in c; no peer is told *)
(* less than before, except peer i of interest, when the connection is not    *)
(* marked interesting or nothing is left to download.                       *)
Recorded(i, c, stat, pr) ==
    LET m == Head(wire[i])
    IN /\ conn[i].in_use /\ c[i].in_use
       /\ m.type = "UNCHOKE" => ~c[i].peer_chocking
       /\ m.type # "UNCHOKE" => c[i].peer_chocking = conn[i].peer_chocking
       /\ m.type = "BIT_FIELD" => c[i].bit_field = m.bits
       /\ m.type = "HAVE" => /\ conn[i].bit_field # NULL
                             /\ c[i].bit_field = set_bit_field(conn[i].bit_field, m.index)
       /\ m.type \notin {"BIT_FIELD", "HAVE"} => c[i].bit_field = conn[i].bit_field
       /\ m.type \in {"UNCHOKE", "HAVE", "BIT_FIELD", "PEICE"}
       /\ SameSide(pr) /\ OthersTold(i, pr)
       /\ \/ m.type = "PEICE" /\ \A s \in Slots : pr[s].told = send_have_message(peer, m.index)[s].told
          \/ m.type # "PEICE" /\ NothingTold(pr)
       /\ m.type \notin {"BIT_FIELD", "PEICE"} =>
            /\ c[i].am_intersted = conn[i].am_intersted
            /\ peer[i].interested => pr[i].interested
       /\ c[i].am_intersted =>
            \/ m.type = "BIT_FIELD" /\ (peer[i].open => pr[i].interested)
            \/ m.type = "PEICE" /\ \A q \in Pieces : stat[q] = COMPLETED
            \/ m.type # "BIT_FIELD" /\ (peer[i].interested => pr[i].interested)

Searches(c, stat, rank, pr) ==
    \E sent : FindRarest(c, stat, rank, pr, sent) \/ Commit(c, stat, rank, pr, sent)

ReadsAndSearches(i) ==
    \E c \in [Slots -> ConnType], stat \in [Index -> Status],
       rank \in [Pieces -> Nat], pr \in [Slots -> PeerType] :
        /\ Prepared(i, c, stat, rank, pr)
        /\ Recorded(i, c, stat, pr)
        /\ Searches(c, stat, rank, pr)

(* Messages of interest and have messages change nothing else of a peer.       *)
LEMMA TellSides ==
    ASSUME TypeOK, NEW i \in Slots
    PROVE  LET p1 == TellInterested(peer, {i})
               p2 == TellNotInterested(peer, i)
           IN /\ SameSide(p1) /\ NothingTold(p1) /\ OthersTold(i, p1)
              /\ peer[i].interested \/ peer[i].open => p1[i].interested
              /\ SameSide(p2) /\ NothingTold(p2) /\ OthersTold(i, p2)
<1>1. peer \in [Slots -> PeerType]
  BY DEF TypeOK
<1>2. ASSUME NEW s \in Slots
      PROVE  LET p == TellInterested(peer, {i})[s]
                 q == TellNotInterested(peer, i)[s]
             IN /\ p.open = peer[s].open /\ p.has = peer[s].has
                /\ p.choking = peer[s].choking /\ p.told = peer[s].told
                /\ peer[s].interested => p.interested
                /\ s = i /\ peer[s].open => p.interested
                /\ q.open = peer[s].open /\ q.has = peer[s].has
                /\ q.choking = peer[s].choking /\ q.told = peer[s].told
                /\ s # i => q.interested = peer[s].interested
  BY <1>1 DEF TellInterested, TellNotInterested, PeerType
<1> QED
  BY <1>2 DEF SameSide, NothingTold, OthersTold

LEMMA HaveSides ==
    ASSUME TypeOK, NEW i \in Slots, NEW p \in Pieces
    PROVE  LET p1 == send_have_message(peer, p)
               p2 == TellNotInterested(p1, i)
           IN /\ SameSide(p1) /\ OthersTold(i, p1)
              /\ peer[i].interested => p1[i].interested
              /\ SameSide(p2) /\ OthersTold(i, p2)
              /\ \A s \in Slots : p2[s].told = p1[s].told
<1>1. peer \in [Slots -> PeerType]
  BY DEF TypeOK
<1> DEFINE p1 == send_have_message(peer, p)
<1>2. p1 \in [Slots -> PeerType]
  BY <1>1, SendHaveType
<1>3. \A s \in Slots : /\ p1[s].open = peer[s].open /\ p1[s].has = peer[s].has
                       /\ p1[s].choking = peer[s].choking
                       /\ p1[s].interested = peer[s].interested
  BY <1>1 DEF send_have_message, PeerType
<1> HIDE DEF p1
<1>4. ASSUME NEW s \in Slots
      PROVE  LET q == TellNotInterested(p1, i)[s]
             IN /\ q.open = p1[s].open /\ q.has = p1[s].has
                /\ q.choking = p1[s].choking /\ q.told = p1[s].told
                /\ s # i => q.interested = p1[s].interested
  BY <1>2 DEF TellNotInterested, PeerType
<1>5. SameSide(p1) /\ OthersTold(i, p1) /\ (peer[i].interested => p1[i].interested)
  BY <1>3 DEF SameSide, OthersTold
<1>6. /\ SameSide(TellNotInterested(p1, i)) /\ OthersTold(i, TellNotInterested(p1, i))
      /\ \A s \in Slots : TellNotInterested(p1, i)[s].told = p1[s].told
  BY <1>3, <1>4 DEF SameSide, OthersTold
<1> QED
  BY <1>5, <1>6 DEF p1

(* Two tables of connections with the same bit fields are ranked alike.        *)
LEMMA SameBitsRanked ==
    ASSUME NEW c, NEW rank, \A s \in Slots : c[s].bit_field = conn[s].bit_field,
           Ranked(conn, rank)
    PROVE  Ranked(c, rank)
BY DEF Ranked

(* The form of the handler of an unchoke message.                            *)
LEMMA UnchokeForm ==
    ASSUME RequestInv, NEW i \in Slots, HandleUnchoke(i)
    PROVE  ReadsAndSearches(i)
<1> DEFINE c == [conn EXCEPT ![i].peer_chocking = FALSE]
<1>1. /\ conn \in [Slots -> ConnType] /\ peice_status \in [Index -> Status]
      /\ peice_ranking \in [Pieces -> Nat] /\ peer \in [Slots -> PeerType]
  BY DEF RequestInv, TypeOK
<1>2. /\ wire[i] # <<>> /\ Head(wire[i]).type = "UNCHOKE"
      /\ wire' = [wire EXCEPT ![i] = Tail(wire[i])]
      /\ \/ FindRarest(c, peice_status, peice_ranking, peer, {})
         \/ Commit(c, peice_status, peice_ranking, peer, {})
  BY DEF HandleUnchoke, Receives, Consume
<1>3. /\ c \in [Slots -> ConnType] /\ \A s \in Slots \ {i} : c[s] = conn[s]
      /\ c[i].request_sent = conn[i].request_sent
      /\ \A s \in Slots : c[s].bit_field = conn[s].bit_field
      /\ c[i].in_use = conn[i].in_use /\ c[i].am_intersted = conn[i].am_intersted
      /\ ~c[i].peer_chocking
  BY <1>1 DEF ConnType
<1> HIDE DEF c
<1>4. Prepared(i, c, peice_status, peice_ranking, peer)
  BY <1>2, <1>3, SameBitsRanked DEF Prepared
<1>5. Searches(c, peice_status, peice_ranking, peer)
  BY <1>2 DEF Searches
<1>6. Recorded(i, c, peice_status, peer)
  BY <1>2, <1>3 DEF Recorded, SameSide, NothingTold, OthersTold, HandleUnchoke, Receives
<1> QED
  BY <1>1, <1>3, <1>4, <1>5, <1>6 DEF ReadsAndSearches

(* The form of the handler of a bit field: whom it adds is counted.           *)
LEMMA BitFieldForm ==
    ASSUME RequestInv, NEW i \in Slots, AcceptBitField(i)
    PROVE  ReadsAndSearches(i)
<1> DEFINE bits == Head(wire[i]).bits
           rank == AddHolder(peice_ranking, bits)
           c    == StoreBitField(conn, i, bits)
           want == check_intersted(c, i, bit_field, peice_status)
           c1   == [c EXCEPT ![i].am_intersted = TRUE, ![i].intersted_peice = want]
           c2   == [c EXCEPT ![i].am_intersted = FALSE]
           p1   == TellInterested(peer, {i})
           p2   == TellNotInterested(peer, i)
<1>1. /\ conn \in [Slots -> ConnType] /\ peice_status \in [Index -> Status]
      /\ peice_ranking \in [Pieces -> Nat] /\ peer \in [Slots -> PeerType]
  BY DEF RequestInv, TypeOK
<1>2. /\ wire[i] # <<>> /\ Head(wire[i]).type = "BIT_FIELD"
      /\ wire' = [wire EXCEPT ![i] = Tail(wire[i])]
      /\ \/ FindRarest(c1, peice_status, rank, p1, {i})
         \/ Commit(c2, peice_status, rank, p2, {i})
  BY DEF AcceptBitField, Receives, Consume
<1>3. bits \in SUBSET Pieces
  BY <1>2, HeadFacts DEF RequestInv
<1> HIDE DEF bits
<1>4. /\ rank \in [Pieces -> Nat]
      /\ \A q \in Pieces : rank[q] >= peice_ranking[q]
      /\ \A q \in Pieces : get_bit_field(bits, q) => rank[q] > 0
  BY <1>1 DEF AddHolder
<1>5. /\ c \in [Slots -> ConnType] /\ \A s \in Slots \ {i} : c[s] = conn[s]
      /\ c[i].request_sent = conn[i].request_sent
      /\ c[i].bit_field = bits /\ c[i].in_use = conn[i].in_use
      /\ c[i].peer_chocking = conn[i].peer_chocking
  BY <1>1, <1>3 DEF StoreBitField, ConnType
<1>6. want \in Index
  BY CheckInterstedType
<1> HIDE DEF rank, c, want
<1>7. /\ c1 \in [Slots -> ConnType] /\ \A s \in Slots \ {i} : c1[s] = conn[s]
      /\ c1[i].request_sent = conn[i].request_sent
      /\ c1[i].bit_field = bits /\ c1[i].in_use = conn[i].in_use
      /\ c1[i].peer_chocking = conn[i].peer_chocking
  <2> DEFINE d == [c[i] EXCEPT !.am_intersted = TRUE, !.intersted_peice = want]
  <2>1. c[i] \in ConnType
    BY <1>5
  <2>2. c1 = [c EXCEPT ![i] = d]
    BY <1>5
  <2>3. /\ d \in ConnType /\ d.request_sent = c[i].request_sent
        /\ d.bit_field = c[i].bit_field /\ d.in_use = c[i].in_use
        /\ d.peer_chocking = c[i].peer_chocking
    BY <1>6, <2>1 DEF ConnType
  <2> HIDE DEF d
  <2> QED
    BY <1>5, <2>2, <2>3
<1>8. /\ c2 \in [Slots -> ConnType] /\ \A s \in Slots \ {i} : c2[s] = conn[s]
      /\ c2[i].request_sent = conn[i].request_sent
      /\ c2[i].bit_field = bits /\ c2[i].in_use = conn[i].in_use
      /\ c2[i].peer_chocking = conn[i].peer_chocking /\ ~c2[i].am_intersted
  BY <1>5 DEF ConnType
<1> HIDE DEF c1, c2
<1>9. /\ p1 \in [Slots -> PeerType] /\ p2 \in [Slots -> PeerType]
      /\ \A s \in Slots : p1[s].pending = peer[s].pending /\ p2[s].pending = peer[s].pending
  <2>1. 0 \in Pieces
    BY Sizes, ConstantsAssumption DEF Pieces, no_of_peices
  <2>2. p1 \in [Slots -> PeerType] /\ p2 \in [Slots -> PeerType]
    BY <1>1, TellInterestedType, TellNotInterestedType
  <2>3. \A s \in Slots : p1[s].pending = peer[s].pending
    BY <1>1, <2>1, TellPending
  <2>4. \A s \in Slots : p2[s].pending = peer[s].pending
    BY <1>1, <2>1, TellPending
  <2> QED
    BY <2>2, <2>3, <2>4
<1>10. /\ SameSide(p1) /\ NothingTold(p1) /\ OthersTold(i, p1)
       /\ peer[i].open => p1[i].interested
       /\ SameSide(p2) /\ NothingTold(p2) /\ OthersTold(i, p2)
  BY TellSides DEF RequestInv
<1> HIDE DEF p1, p2
<1>11. ASSUME Ranked(conn, peice_ranking) PROVE Ranked(c1, rank) /\ Ranked(c2, rank)
  <2> SUFFICES ASSUME NEW s \in Slots, NEW q \in Pieces,
                      \/ c1[s].bit_field # NULL /\ get_bit_field(c1[s].bit_field, q)
                      \/ c2[s].bit_field # NULL /\ get_bit_field(c2[s].bit_field, q)
               PROVE  rank[q] > 0
    BY DEF Ranked
  <2>1. CASE s = i
    BY <1>4, <1>7, <1>8, <2>1
  <2>2. CASE s # i
    <3>1. peice_ranking[q] > 0
      BY <1>7, <1>8, <1>11, <2>2 DEF Ranked
    <3> QED
      BY <1>1, <1>4, <3>1
  <2> QED
    BY <2>1, <2>2
<1>12. \A q \in Pieces : peice_ranking[q] > 0 => rank[q] > 0
  BY <1>1, <1>4
<1>13. Prepared(i, c1, peice_status, rank, p1) /\ Prepared(i, c2, peice_status, rank, p2)
  BY <1>2, <1>7, <1>8, <1>9, <1>11, <1>12 DEF Prepared
<1>14. Recorded(i, c1, peice_status, p1) /\ Recorded(i, c2, peice_status, p2)
  BY <1>2, <1>7, <1>8, <1>10 DEF Recorded, AcceptBitField, Receives, bits
<1>15. Searches(c1, peice_status, rank, p1) \/ Searches(c2, peice_status, rank, p2)
  BY <1>2 DEF Searches
<1> QED
  BY <1>1, <1>4, <1>7, <1>8, <1>9, <1>13, <1>15, <1>14 DEF ReadsAndSearches

(* The form of the handler of a have message: the bit it sets, if any, and     *)
(* the ranking it raises are those of one piece.                            *)
LEMMA HaveForm ==
    ASSUME RequestInv, NEW i \in Slots, HandleHave(i)
    PROVE  ReadsAndSearches(i)
<1> DEFINE p    == Head(wire[i]).index
           bits == set_bit_field(conn[i].bit_field, p)
           c    == [conn EXCEPT ![i].bit_field = bits]
           rank == [peice_ranking EXCEPT ![p] = peice_ranking[p] + 1]
           p1   == TellInterested(peer, {i})
<1>1. /\ conn \in [Slots -> ConnType] /\ peice_status \in [Index -> Status]
      /\ peice_ranking \in [Pieces -> Nat] /\ peer \in [Slots -> PeerType]
  BY DEF RequestInv, TypeOK
<1>2. /\ wire[i] # <<>> /\ Head(wire[i]).type = "HAVE" /\ conn[i].bit_field # NULL
      /\ wire' = [wire EXCEPT ![i] = Tail(wire[i])]
      /\ \/ FindRarest(c, peice_status, rank, p1, {i})
         \/ Commit(c, peice_status, rank, peer, {})
  BY DEF HandleHave, Receives, Consume
<1>3. p \in Pieces /\ conn[i].bit_field \in SUBSET Pieces
  BY <1>1, <1>2, HeadFacts DEF RequestInv, ConnType
<1> HIDE DEF p
<1>4. /\ rank \in [Pieces -> Nat] /\ rank[p] > 0
      /\ \A q \in Pieces : rank[q] >= peice_ranking[q]
  BY <1>1, <1>3
<1>5. /\ bits \in SUBSET Pieces
      /\ \A q \in Pieces : get_bit_field(bits, q) =>
            q = p \/ get_bit_field(conn[i].bit_field, q)
  <2>1. bits \in SUBSET Pieces
    BY <1>3, SetBitType
  <2>2. ASSUME NEW q \in Pieces, Cell(p) # NoCell, Cell(q) = Cell(p) PROVE q = p
    <3>1. p \in Nat /\ q \in Nat
      BY <1>3, Sizes
    <3> QED
      BY <2>2, <3>1 DEF Cell, NoCell
  <2> QED
    BY <2>1, <2>2 DEF set_bit_field, get_bit_field
<1> HIDE DEF bits, rank
<1>6. /\ c \in [Slots -> ConnType] /\ \A s \in Slots \ {i} : c[s] = conn[s]
      /\ c[i].request_sent = conn[i].request_sent
      /\ c[i].bit_field = bits /\ c[i].in_use = conn[i].in_use
      /\ c[i].peer_chocking = conn[i].peer_chocking
      /\ c[i].am_intersted = conn[i].am_intersted
  BY <1>1, <1>5 DEF ConnType
<1> HIDE DEF c
<1>7. p1 \in [Slots -> PeerType] /\ \A s \in Slots : p1[s].pending = peer[s].pending
  BY <1>1, <1>3, TellInterestedType, TellPending
<1>8. SameSide(p1) /\ NothingTold(p1) /\ OthersTold(i, p1) /\ (peer[i].interested => p1[i].interested)
  BY TellSides DEF RequestInv
<1> HIDE DEF p1
<1>9. ASSUME Ranked(conn, peice_ranking) PROVE Ranked(c, rank)
  <2> SUFFICES ASSUME NEW s \in Slots, NEW q \in Pieces,
                      c[s].bit_field # NULL, get_bit_field(c[s].bit_field, q)
               PROVE  rank[q] > 0
    BY DEF Ranked
  <2>1. q = p \/ (get_bit_field(conn[s].bit_field, q) /\ conn[s].bit_field # NULL)
    BY <1>2, <1>5, <1>6
  <2>2. q # p => peice_ranking[q] > 0
    BY <1>9, <2>1 DEF Ranked
  <2> QED
    BY <1>1, <1>4, <2>2
<1>10. \A q \in Pieces : peice_ranking[q] > 0 => rank[q] > 0
  BY <1>1, <1>4
<1>11. Prepared(i, c, peice_status, rank, p1) /\ Prepared(i, c, peice_status, rank, peer)
  BY <1>2, <1>6, <1>7, <1>9, <1>10 DEF Prepared
<1>12. Recorded(i, c, peice_status, p1) /\ Recorded(i, c, peice_status, peer)
  BY <1>2, <1>6, <1>8 DEF Recorded, SameSide, NothingTold, OthersTold, HandleHave, Receives, bits, p
<1>13. Searches(c, peice_status, rank, p1) \/ Searches(c, peice_status, rank, peer)
  BY <1>2 DEF Searches
<1> QED
  BY <1>1, <1>4, <1>6, <1>7, <1>11, <1>13, <1>12 DEF ReadsAndSearches

(* The form of the handler of an accepted piece.                             *)
LEMMA PeiceForm ==
    ASSUME RequestInv, NEW i \in Slots, AcceptPeice(i)
    PROVE  ReadsAndSearches(i)
<1> DEFINE p    == Head(wire[i]).index
           stat == [peice_status EXCEPT ![p] = COMPLETED]
           c    == [conn EXCEPT ![i].request_sent = FALSE]
           c1   == [c EXCEPT ![i].am_intersted = TRUE]
           c2   == [c EXCEPT ![i].am_intersted = FALSE]
           p1   == send_have_message(peer, p)
           p2   == TellNotInterested(p1, i)
           all  == { s \in Slots : conn[s].in_use }
<1>1. /\ conn \in [Slots -> ConnType] /\ peice_status \in [Index -> Status]
      /\ peice_ranking \in [Pieces -> Nat] /\ peer \in [Slots -> PeerType]
  BY DEF RequestInv, TypeOK
<1>2. /\ wire[i] # <<>> /\ Head(wire[i]).type = "PEICE"
      /\ wire' = [wire EXCEPT ![i] = Tail(wire[i])]
      /\ \/ /\ \A q \in Pieces : stat[q] = COMPLETED
            /\ Commit(c, stat, peice_ranking, p2, all)
         \/ FindRarest(c1, stat, peice_ranking, p1, all)
         \/ Commit(c2, stat, peice_ranking, p2, all)
  BY DEF AcceptPeice, Receives, Consume
<1>3. p \in Pieces
  BY <1>2, HeadFacts DEF RequestInv
<1>4. stat \in [Index -> Status]
  BY <1>1, <1>3, Sizes DEF Status
<1>5. /\ c \in [Slots -> ConnType] /\ \A s \in Slots \ {i} : c[s] = conn[s]
      /\ \A s \in Slots : c[s].bit_field = conn[s].bit_field
      /\ c[i].in_use = conn[i].in_use /\ c[i].peer_chocking = conn[i].peer_chocking
  BY <1>1 DEF ConnType
<1> HIDE DEF c
<1>6. /\ c1 \in [Slots -> ConnType] /\ \A s \in Slots \ {i} : c1[s] = conn[s]
      /\ \A s \in Slots : c1[s].bit_field = conn[s].bit_field
      /\ c1[i].in_use = conn[i].in_use /\ c1[i].peer_chocking = conn[i].peer_chocking
  BY <1>5 DEF ConnType
<1>7. /\ c2 \in [Slots -> ConnType] /\ \A s \in Slots \ {i} : c2[s] = conn[s]
      /\ \A s \in Slots : c2[s].bit_field = conn[s].bit_field
      /\ c2[i].in_use = conn[i].in_use /\ c2[i].peer_chocking = conn[i].peer_chocking
      /\ ~c2[i].am_intersted
  BY <1>5 DEF ConnType
<1>8. p1 \in [Slots -> PeerType] /\ \A s \in Slots : p1[s].pending = peer[s].pending
  BY <1>1, <1>3, SendHaveType, TellPending
<1>9. /\ SameSide(p1) /\ OthersTold(i, p1)
      /\ peer[i].interested => p1[i].interested
      /\ SameSide(p2) /\ OthersTold(i, p2)
      /\ \A s \in Slots : p2[s].told = p1[s].told
  BY <1>3, HaveSides DEF RequestInv
<1>10. \A s \in Slots : p1[s].told = send_have_message(peer, Head(wire[i]).index)[s].told
  OBVIOUS
<1> HIDE DEF c1, c2, p1, all
<1>11. p2 \in [Slots -> PeerType] /\ \A s \in Slots : p2[s].pending = peer[s].pending
  BY <1>3, <1>8, TellNotInterestedType, TellPending
<1> HIDE DEF p2
<1>12. Ranked(conn, peice_ranking) =>
        Ranked(c, peice_ranking) /\ Ranked(c1, peice_ranking) /\ Ranked(c2, peice_ranking)
  BY <1>5, <1>6, <1>7, SameBitsRanked
<1>13. stat = [peice_status EXCEPT ![Head(wire[i]).index] = COMPLETED]
  OBVIOUS
<1> HIDE DEF stat
<1>14. /\ Prepared(i, c, stat, peice_ranking, p2)
       /\ Prepared(i, c1, stat, peice_ranking, p1)
       /\ Prepared(i, c2, stat, peice_ranking, p2)
  BY <1>2, <1>3, <1>5, <1>6, <1>7, <1>8, <1>11, <1>12, <1>13 DEF Prepared
<1> HIDE DEF p
<1>15. /\ (\A q \in Pieces : stat[q] = COMPLETED) => Recorded(i, c, stat, p2)
       /\ Recorded(i, c1, stat, p1)
       /\ Recorded(i, c2, stat, p2)
  <2>1. conn[i].in_use /\ Head(wire[i]).type = "PEICE"
    BY DEF AcceptPeice, Receives
  <2>2. \A s \in Slots : p2[s].told = send_have_message(peer, Head(wire[i]).index)[s].told
    BY <1>9, <1>10
  <2>3. (\A q \in Pieces : stat[q] = COMPLETED) => Recorded(i, c, stat, p2)
    BY <2>1, <2>2, <1>5, <1>9 DEF Recorded
  <2>4. Recorded(i, c1, stat, p1)
    BY <2>1, <1>6, <1>9, <1>10 DEF Recorded
  <2>5. Recorded(i, c2, stat, p2)
    BY <2>1, <2>2, <1>7, <1>9 DEF Recorded
  <2> QED
    BY <2>3, <2>4, <2>5
<1>16. \/ Searches(c, stat, peice_ranking, p2) /\ \A q \in Pieces : stat[q] = COMPLETED
       \/ Searches(c1, stat, peice_ranking, p1)
       \/ Searches(c2, stat, peice_ranking, p2)
  BY <1>2 DEF Searches
<1> QED
  BY <1>1, <1>4, <1>5, <1>6, <1>7, <1>8, <1>11, <1>14, <1>16, <1>15 DEF ReadsAndSearches

-----------------------------------------------------------------------------
(* What a step does to the answers that are on their way                     *)

(* Connection i alone may lose what is on its way, and no piece is marked.     *)
OnlyLoses(i) ==
    /\ peice_status' = peice_status /\ peice_ranking' = peice_ranking
    /\ \A q \in Pieces : Flight(peer', wire', i, q) => Flight(peer, wire, i, q)
    /\ \A s \in Slots \ {i} : wire'[s] = wire[s] /\ peer'[s].pending = peer[s].pending

KeepsBusy == \A s \in Slots : conn[s].request_sent => conn'[s].request_sent

KeepsRanked == Ranked(conn, peice_ranking) => Ranked(conn', peice_ranking')

(* The two forms of a step: messages are lost or sent, or a message is read    *)
(* and the search is started.                                               *)
StepForm ==
    \/ /\ \E i \in Slots : OnlyLoses(i)
       /\ KeepsBusy /\ KeepsRanked
    \/ \E i \in Slots : ReadsAndSearches(i)

(* Bit fields and rankings that are not changed stay ranked.                 *)
LEMMA SameBitsKeepRanked ==
    ASSUME \A s \in Slots : conn'[s].bit_field = conn[s].bit_field,
           peice_ranking' = peice_ranking
    PROVE  KeepsRanked
BY DEF KeepsRanked, Ranked

(* A step that leaves connections, pieces, peers and wires alone loses none.   *)
LEMMA StutterForm ==
    ASSUME UNCHANGED <<conn, peice_status, peice_ranking, peer, wire>>
    PROVE  StepForm
<1>1. 0 \in Slots
  BY ConstantsAssumption DEF Slots
<1> QED
  BY <1>1 DEF StepForm, OnlyLoses, KeepsBusy, KeepsRanked

(* Closing a slot.                                                          *)
LEMMA CloseForm ==
    ASSUME RequestInv, NEW i \in Slots, CloseSlot(i),
           UNCHANGED <<peice_status, peice_ranking>>
    PROVE  StepForm
<1>1. /\ conn \in [Slots -> ConnType] /\ peer \in [Slots -> PeerType]
      /\ wire \in [Slots -> Seq(Message)]
  BY DEF RequestInv, TypeOK
<1>2. /\ \A s \in Slots : /\ conn'[s].bit_field = conn[s].bit_field
                          /\ conn'[s].request_sent = conn[s].request_sent
      /\ \A s \in Slots \ {i} : wire'[s] = wire[s] /\ peer'[s].pending = peer[s].pending
      /\ peer'[i].pending = {} /\ wire'[i] = <<>>
  BY <1>1 DEF CloseSlot, Closed, NoPeer, ConnType
<1>3. \A q \in Pieces : ~Flight(peer', wire', i, q)
  BY <1>2 DEF Flight
<1> QED
  BY <1>2, <1>3, SameBitsKeepRanked DEF StepForm, OnlyLoses, KeepsBusy

(* Reading a choke message: the peer has dropped the requests already.        *)
LEMMA ChokeForm ==
    ASSUME RequestInv, NEW i \in Slots, HandleChoke(i)
    PROVE  StepForm
<1>1. /\ conn \in [Slots -> ConnType] /\ wire \in [Slots -> Seq(Message)]
  BY DEF RequestInv, TypeOK
<1>2. /\ wire[i] # <<>> /\ wire' = [wire EXCEPT ![i] = Tail(wire[i])]
      /\ conn' = [conn EXCEPT ![i].peer_chocking = TRUE]
      /\ peer' = peer /\ UNCHANGED <<peice_status, peice_ranking>>
  BY DEF HandleChoke, Receives, Consume
<1>3. \A s \in Slots : /\ conn'[s].bit_field = conn[s].bit_field
                       /\ conn'[s].request_sent = conn[s].request_sent
  BY <1>1, <1>2 DEF ConnType
<1>4. /\ \A s \in Slots \ {i} : wire'[s] = wire[s]
      /\ \A k \in 1 .. Len(wire'[i]) : wire'[i][k] = wire[i][k + 1] /\ k + 1 \in 1 .. Len(wire[i])
  BY <1>1, <1>2, TailFacts
<1>5. \A q \in Pieces : Flight(peer', wire', i, q) => Flight(peer, wire, i, q)
  BY <1>2, <1>4 DEF Flight, Answers
<1> QED
  BY <1>2, <1>3, <1>4, <1>5, SameBitsKeepRanked DEF StepForm, OnlyLoses, KeepsBusy

(* A handler is one of the two forms.                                        *)
LEMMA ReadForm ==
    ASSUME RequestInv, NEW i \in Slots, ReadFromConnection(i)
    PROVE  StepForm
<1>1. CASE HandleEndOfStream(i) \/ RejectBitField(i) \/ RejectPeice(i)
  BY <1>1, CloseForm DEF HandleEndOfStream, RejectBitField, RejectPeice
<1>2. CASE HaveWithoutBitField(i) \/ PeiceWriteFails(i)
  BY <1>2, StutterForm DEF HaveWithoutBitField, PeiceWriteFails
<1> QED
  BY <1>1, <1>2, ChokeForm, UnchokeForm, BitFieldForm, HaveForm, PeiceForm
     DEF ReadFromConnection, StepForm

(* A handshake on a free slot.                                               *)
LEMMA HandshakeForm ==
    ASSUME RequestInv, NEW i \in Slots, NEW bits, bits \in {NULL, conn[i].bit_field},
           HandshakeDone(i, bits) \/ HandshakeRefused(i) \/ HandshakeLost(i),
           UNCHANGED <<peice_status, peice_ranking>>
    PROVE  StepForm
<1>1. /\ conn \in [Slots -> ConnType] /\ peer \in [Slots -> PeerType]
      /\ wire \in [Slots -> Seq(Message)]
  BY DEF RequestInv, TypeOK
<1>2. CASE HandshakeDone(i, bits)
  <2>1. PICK has \in Holdings :
          /\ peer' = [peer EXCEPT ![i] = NewPeer(has)]
          /\ \E g \in Greetings(has) : wire' = [wire EXCEPT ![i] = g]
    BY <1>2 DEF HandshakeDone
  <2>2. conn' = [conn EXCEPT ![i] = [NewConn(conn[i]) EXCEPT !.bit_field = bits]]
    BY <1>2 DEF HandshakeDone
  <2>3. /\ \A s \in Slots : conn'[s].request_sent = conn[s].request_sent
        /\ \A s \in Slots \ {i} : conn'[s] = conn[s]
        /\ conn'[i].bit_field = bits
    BY <1>1, <2>2 DEF NewConn, ConnType
  <2>4. peer'[i].pending = {}
    BY <1>1, <2>1 DEF NewPeer, NoPeer
  <2>5. wire'[i] = <<BitField(has)>> \/ wire'[i] = <<>>
    BY <1>1, <2>1 DEF Greetings
  <2>6. \A k \in 1 .. Len(wire'[i]) : wire'[i][k].type # "PEICE"
    <3>1. BitField(has).type # "PEICE"
      BY DEF BitField
    <3>2. CASE wire'[i] = <<BitField(has)>>
      BY <3>1, <3>2
    <3>3. CASE wire'[i] = <<>>
      BY <3>3
    <3> QED
      BY <2>5, <3>2, <3>3
  <2>7. \A q \in Pieces : ~Flight(peer', wire', i, q)
    BY <2>4, <2>6 DEF Flight, Answers
  <2>8. \A s \in Slots \ {i} : wire'[s] = wire[s] /\ peer'[s].pending = peer[s].pending
    BY <1>1, <2>1
  <2>9. KeepsRanked
    <3> SUFFICES ASSUME Ranked(conn, peice_ranking), NEW s \in Slots, NEW q \in Pieces,
                        conn'[s].bit_field # NULL, get_bit_field(conn'[s].bit_field, q)
                 PROVE  peice_ranking[q] > 0
      BY DEF KeepsRanked, Ranked
    <3>1. conn'[s].bit_field = conn[s].bit_field
      BY <2>3
    <3> QED
      BY <3>1 DEF Ranked
  <2> QED
    BY <2>3, <2>7, <2>8, <2>9 DEF StepForm, OnlyLoses, KeepsBusy
<1>3. CASE HandshakeRefused(i)
  <2>1. /\ conn' = [conn EXCEPT ![i] = [NewConn(conn[i]) EXCEPT !.in_use = FALSE]]
        /\ wire' = wire /\ peer' = peer
    BY <1>3 DEF HandshakeRefused
  <2>2. \A s \in Slots : /\ conn'[s].request_sent = conn[s].request_sent
                         /\ conn'[s].bit_field = conn[s].bit_field
    BY <1>1, <2>1 DEF NewConn, ConnType
  <2> QED
    BY <2>1, <2>2, SameBitsKeepRanked DEF StepForm, OnlyLoses, KeepsBusy
<1>4. CASE HandshakeLost(i)
  <2>1. /\ conn' = [conn EXCEPT ![i] = NewConn(conn[i])]
        /\ wire' = [wire EXCEPT ![i] = <<EndOfStream>>] /\ peer' = peer
    BY <1>4 DEF HandshakeLost
  <2>2. \A s \in Slots : /\ conn'[s].request_sent = conn[s].request_sent
                         /\ conn'[s].bit_field = conn[s].bit_field
    BY <1>1, <2>1 DEF NewConn, ConnType
  <2>3. \A k \in 1 .. Len(wire'[i]) : wire'[i][k].type # "PEICE"
    BY <1>1, <2>1 DEF EndOfStream
  <2>4. \A q \in Pieces : Flight(peer', wire', i, q) => Flight(peer, wire, i, q)
    BY <2>1, <2>3 DEF Flight, Answers
  <2>5. \A s \in Slots \ {i} : wire'[s] = wire[s] /\ peer'[s].pending = peer[s].pending
    BY <1>1, <2>1
  <2> QED
    BY <2>2, <2>4, <2>5, SameBitsKeepRanked DEF StepForm, OnlyLoses, KeepsBusy
<1> QED
  BY <1>2, <1>3, <1>4

(* Opening connections and the commands of the user.                         *)
LEMMA OpenForm ==
    ASSUME RequestInv, Accept \/ Announce \/ ConnectNext \/ ConnectOverrun \/ Show \/ Quit
    PROVE  StepForm
<1>1. CASE Accept
  <2>1. /\ get_free_sock \in Slots /\ UNCHANGED <<peice_status, peice_ranking>>
        /\ \/ HandshakeDone(get_free_sock, NULL)
           \/ HandshakeRefused(get_free_sock)
           \/ HandshakeLost(get_free_sock)
    BY <1>1 DEF Accept
  <2> QED
    BY <2>1, HandshakeForm
<1>2. CASE ConnectNext
  <2>1. get_free_sock \in Slots /\ UNCHANGED <<peice_status, peice_ranking>>
    BY <1>2, FreeSlotFacts DEF ConnectNext
  <2>2. \/ HandshakeDone(get_free_sock, conn[get_free_sock].bit_field)
        \/ HandshakeRefused(get_free_sock)
        \/ HandshakeLost(get_free_sock)
        \/ UNCHANGED <<conn, opened, wire, peer>>
    BY <1>2 DEF ConnectNext
  <2>3. CASE UNCHANGED <<conn, opened, wire, peer>>
    BY <2>1, <2>3, StutterForm
  <2> QED
    BY <2>1, <2>2, <2>3, HandshakeForm
<1>3. CASE Announce \/ ConnectOverrun \/ Show \/ Quit
  BY <1>3, StutterForm DEF Announce, ConnectOverrun, Show, Quit
<1> QED
  BY <1>1, <1>2, <1>3

(* A message of a peer is no answer, or one to a request it takes away.       *)
LEMMA PeerSendsForm ==
    ASSUME RequestInv, NEW i \in Slots, NEW m \in Message, PeerSends(i, m),
           \A s \in Slots \ {i} : peer'[s].pending = peer[s].pending,
           peer'[i].pending \subseteq peer[i].pending,
           m.type = "PEICE" => m.index \in peer[i].pending
    PROVE  StepForm
<1>1. wire \in [Slots -> Seq(Message)]
  BY DEF RequestInv, TypeOK
<1>2. /\ wire' = [wire EXCEPT ![i] = Append(wire[i], m)]
      /\ UNCHANGED <<conn, peice_status, peice_ranking>>
  BY DEF PeerSends
<1> DEFINE n == Len(wire[i])
<1>3. /\ n \in Nat /\ Len(wire'[i]) = n + 1 /\ wire'[i][n + 1] = m
      /\ \A k \in 1 .. n : wire'[i][k] = wire[i][k]
      /\ \A k \in 1 .. n + 1 : k \in 1 .. n \/ k = n + 1
  BY <1>1, <1>2, AppendFacts
<1>4. \A s \in Slots \ {i} : wire'[s] = wire[s]
  BY <1>1, <1>2
<1> HIDE DEF n
<1>5. ASSUME NEW q \in Pieces, Flight(peer', wire', i, q) PROVE Flight(peer, wire, i, q)
  <2>1. CASE q \in peer'[i].pending
    BY <2>1 DEF Flight
  <2>2. ASSUME NEW k \in 1 .. n + 1, Answers(wire', i, q, k)
        PROVE  Flight(peer, wire, i, q)
    <3>1. CASE k \in 1 .. n
      BY <1>3, <2>2, <3>1 DEF Flight, Answers, n
    <3>2. CASE k = n + 1
      BY <1>3, <2>2, <3>2 DEF Flight, Answers
    <3> QED
      BY <1>3, <3>1, <3>2
  <2> QED
    BY <1>3, <1>5, <2>1, <2>2 DEF Flight
<1> QED
  BY <1>2, <1>4, <1>5, SameBitsKeepRanked DEF StepForm, OnlyLoses, KeepsBusy

(* The steps of the peers.                                                   *)
LEMMA PeerStepForm ==
    ASSUME RequestInv, NEW i \in Slots, PeerSteps(i)
    PROVE  StepForm
<1>1. peer \in [Slots -> PeerType]
  BY DEF RequestInv, TypeOK
<1>2. CASE PeerUnchokes(i)
  <2>1. Unchoke \in Message /\ Unchoke.type # "PEICE"
    BY DEF Message, Unchoke
  <2>2. \A s \in Slots : peer'[s].pending = peer[s].pending
    BY <1>1, <1>2 DEF PeerUnchokes, PeerType
  <2> QED
    BY <1>2, <2>1, <2>2, PeerSendsForm DEF PeerUnchokes
<1>3. CASE PeerChokes(i)
  <2>1. Choke \in Message /\ Choke.type # "PEICE"
    BY DEF Message, Choke
  <2>2. peer'[i].pending = {} /\ \A s \in Slots \ {i} : peer'[s].pending = peer[s].pending
    BY <1>1, <1>3 DEF PeerChokes, PeerType
  <2> QED
    BY <1>3, <2>1, <2>2, PeerSendsForm DEF PeerChokes
<1>4. ASSUME NEW p \in Pieces, PeerGains(i, p) PROVE StepForm
  <2>1. Have(p) \in Message /\ Have(p).type # "PEICE"
    BY DEF Message, Have
  <2>2. \A s \in Slots : peer'[s].pending = peer[s].pending
    BY <1>1, <1>4 DEF PeerGains, PeerType
  <2> QED
    BY <1>4, <2>1, <2>2, PeerSendsForm DEF PeerGains
<1>5. ASSUME NEW p \in Pieces, PeerServes(i, p) PROVE StepForm
  <2>1. PICK good \in BOOLEAN : PeerSends(i, Peice(p, good))
    BY <1>5 DEF PeerServes
  <2>2. Peice(p, good) \in Message /\ Peice(p, good).index = p
    BY DEF Message, Peice
  <2>3. /\ p \in peer[i].pending
        /\ peer'[i].pending = peer[i].pending \ {p}
        /\ \A s \in Slots \ {i} : peer'[s].pending = peer[s].pending
    BY <1>1, <1>5 DEF PeerServes, PeerType
  <2> QED
    BY <2>1, <2>2, <2>3, PeerSendsForm
<1>6. CASE PeerCloses(i)
  <2>1. EndOfStream \in Message /\ EndOfStream.type # "PEICE"
    BY DEF Message, EndOfStream
  <2>2. peer'[i].pending = {} /\ \A s \in Slots \ {i} : peer'[s].pending = peer[s].pending
    BY <1>1, <1>6 DEF PeerCloses, PeerType
  <2> QED
    BY <1>6, <2>1, <2>2, PeerSendsForm DEF PeerCloses
<1> QED
  BY <1>2, <1>3, <1>4, <1>5, <1>6 DEF PeerSteps

(* Every step is one of the two forms.                                       *)
LEMMA EveryStepForm ==
    ASSUME RequestInv, [Next]_vars
    PROVE  StepForm
<1>1. CASE UNCHANGED vars
  BY <1>1, StutterForm DEF vars
<1> QED
  BY <1>1, ReadForm, PeerStepForm, OpenForm DEF Next

-----------------------------------------------------------------------------
(* What a search adds                                                       *)

(* A request takes no pending request away.                                  *)
LEMMA SendRequestGrows ==
    ASSUME NEW pr \in [Slots -> PeerType], NEW s, NEW p
    PROVE  \A t \in Slots : pr[t].pending \subseteq SendRequest(pr, s, p)[t].pending
<1>1. CASE s \notin Slots
  BY <1>1 DEF SendRequest
<1>2. CASE s \in Slots
  <2> DEFINE more == IF pr[s].open /\ ~pr[s].choking /\ p \in pr[s].has
                     THEN pr[s].pending \cup {p} ELSE pr[s].pending
  <2>1. SendRequest(pr, s, p)
            = [pr EXCEPT ![s] = [pr[s] EXCEPT !.asked = TRUE, !.pending = more]]
    BY <1>2 DEF SendRequest
  <2>2. pr[s] \in PeerType /\ pr[s].pending \subseteq more
    BY <1>2
  <2> HIDE DEF more
  <2>3. [pr[s] EXCEPT !.asked = TRUE, !.pending = more].pending = more
    BY <2>2 DEF PeerType
  <2> QED
    BY <1>2, <2>1, <2>2, <2>3
<1> QED
  BY <1>1, <1>2

(* Nor does a search.                                                        *)
LEMMA SearchGrows ==
    ASSUME NEW c \in [Slots -> ConnType], NEW stat \in [Index -> Status],
           NEW rank \in [Pieces -> Nat], NEW pr \in [Slots -> PeerType],
           Searches(c, stat, rank, pr)
    PROVE  \A t \in Slots : pr[t].pending \subseteq peer'[t].pending
<1>1. PICK sent : FindRarest(c, stat, rank, pr, sent) \/ Commit(c, stat, rank, pr, sent)
  BY DEF Searches
<1>2. CASE peer' = pr
  BY <1>2
<1>3. CASE Searched(c, stat, rank, pr)
  <2>1. PICK r \in Pieces, a \in Slots \cup {MAX_CONN}, b \in Slots \cup {MAX_CONN},
             told \in SUBSET Slots :
             SearchedAt(c, stat, rank, pr, r, a, b, told)
    BY <1>3 DEF Searched
  <2> DEFINE p1 == TellInterested(pr, told)
             p2 == SendRequest(p1, a, r)
  <2>2. p1 \in [Slots -> PeerType] /\ \A t \in Slots : p1[t].pending = pr[t].pending
    <3>1. p1 \in [Slots -> PeerType]
      BY TellInterestedType
    <3> QED
      BY <3>1, TellPending
  <2> HIDE DEF p1
  <2>3. p2 \in [Slots -> PeerType] /\ \A t \in Slots : p1[t].pending \subseteq p2[t].pending
    BY <2>2, SendRequestFacts, SendRequestGrows
  <2> HIDE DEF p2
  <2>4. \A t \in Slots : p2[t].pending \subseteq SendRequest(p2, b, -1)[t].pending
    BY <2>3, SendRequestGrows
  <2>5. peer' = SendRequest(p2, b, -1)
    BY <2>1 DEF SearchedAt, p1, p2
  <2> QED
    BY <2>2, <2>3, <2>4, <2>5
<1> QED
  BY <1>1, <1>2, <1>3, SearchFacts DEF Commit

(* A search that marks a piece has found its bit in a bit field, and no piece  *)
(* is rarer: when holders are counted, every piece has one.                  *)
LEMMA MarkedIsRarest ==
    ASSUME NEW c \in [Slots -> ConnType], NEW stat \in [Index -> Status],
           NEW rank \in [Pieces -> Nat], NEW pr,
           Searches(c, stat, rank, pr), Ranked(c, rank),
           NEW p \in Pieces, peice_status'[p] # stat[p]
    PROVE  /\ \A q \in Pieces : peice_ranking'[q] > 0
           /\ \E bits \in SUBSET Pieces : get_bit_field(bits, p)
<1>1. PICK sent : FindRarest(c, stat, rank, pr, sent) \/ Commit(c, stat, rank, pr, sent)
  BY DEF Searches
<1>2. PICK r \in Rarest(rank) : SearchFor(c, stat, rank, pr, sent, r)
  BY <1>1 DEF FindRarest, Commit
<1> DEFINE a == Chosen(c, stat, r, -1)
           b == Chosen(c, stat, -1, a)
<1>3. /\ peice_status' = StatAfter(stat, r, a, b)
      /\ peice_ranking' = RankAfter(rank, r, a)
  BY <1>2 DEF SearchFor, Commit
<1> HIDE DEF b
<1>4. p = r /\ a \in Slots
  BY <1>3, Sizes DEF StatAfter
<1>5. a \in Holders(c, stat, r, -1)
  <2> DEFINE S == { s \in Holders(c, stat, r, -1) : ~c[s].peer_chocking /\ ~c[s].request_sent }
  <2>1. S \in SUBSET Slots /\ S \subseteq Holders(c, stat, r, -1)
    BY DEF Holders
  <2>2. a = FirstOf(S)
    BY DEF Chosen
  <2> HIDE DEF S, a
  <2> QED
    BY <1>4, <2>1, <2>2, FirstOfFacts, Sizes
<1>6. c[a].bit_field # NULL /\ get_bit_field(c[a].bit_field, r)
  BY <1>5 DEF Holders
<1>7. c[a].bit_field \in SUBSET Pieces
  BY <1>4, <1>6 DEF ConnType
<1> HIDE DEF a
<1>8. rank[r] > 0
  BY <1>4, <1>6 DEF Ranked
<1>9. \A q \in Pieces : rank[q] > 0
  BY <1>4, <1>8 DEF Rarest
<1> QED
  BY <1>3, <1>4, <1>6, <1>9, <1>7 DEF RankAfter, DOWNLOADING_RANKING

(* A search leaves counted what it was given counted.                        *)
LEMMA SearchKeepsRanked ==
    ASSUME NEW c \in [Slots -> ConnType], NEW stat \in [Index -> Status],
           NEW rank \in [Pieces -> Nat], NEW pr,
           Searches(c, stat, rank, pr), Ranked(c, rank)
    PROVE  Ranked(conn', peice_ranking')
<1>1. PICK sent : FindRarest(c, stat, rank, pr, sent) \/ Commit(c, stat, rank, pr, sent)
  BY DEF Searches
<1>2. CASE Searched(c, stat, rank, pr)
  <2>1. PICK r \in Pieces, a \in Slots \cup {MAX_CONN}, b \in Slots \cup {MAX_CONN},
             told \in SUBSET Slots :
             SearchedAt(c, stat, rank, pr, r, a, b, told)
    BY <1>2 DEF Searched
  <2>2. ASSUME NEW s \in Slots PROVE conn'[s].bit_field = c[s].bit_field
    <3>1. c[s] \in ConnType
      OBVIOUS
    <3>2. conn'[s] = [c[s] EXCEPT
                       !.am_intersted = c[s].am_intersted \/ s \in told,
                       !.request_sent = c[s].request_sent \/ s \in {a, b},
                       !.intersted_peice = IF s = a THEN r
                                           ELSE IF s = b THEN -1 ELSE c[s].intersted_peice]
      BY <2>1 DEF SearchedAt
    <3> QED
      BY <3>1, <3>2 DEF ConnType
  <2>3. \A q \in Pieces : rank[q] > 0 => peice_ranking'[q] > 0
    <3>1. peice_ranking' = [q \in Pieces |->
                IF q = r /\ a \in Slots THEN DOWNLOADING_RANKING ELSE rank[q]]
      BY <2>1 DEF SearchedAt
    <3> QED
      BY <3>1 DEF DOWNLOADING_RANKING
  <2> QED
    BY <2>2, <2>3 DEF Ranked
<1>3. CASE conn' = c /\ peice_ranking' = rank
  BY <1>3
<1> QED
  BY <1>1, <1>2, <1>3, SearchFacts DEF Commit

-----------------------------------------------------------------------------
(* A piece nobody is known to hold                                          *)

AllRanked == Ranked(conn, peice_ranking)

RankedInv == RequestInv /\ AllRanked

(* No bit field is stored at first.                                          *)
LEMMA RankedStarts == Init => RankedInv
<1> SUFFICES ASSUME Init PROVE RankedInv
  OBVIOUS
<1>1. \A s \in Slots : conn[s].bit_field = NULL
  BY DEF Init
<1> QED
  BY <1>1, RequestStarts DEF RankedInv, AllRanked, Ranked

(* Every step counts the holders it records.                                 *)
LEMMA RankedStep == RankedInv /\ [Next]_vars => RankedInv'
<1> SUFFICES ASSUME RankedInv, [Next]_vars PROVE RankedInv'
  OBVIOUS
<1>1. RequestInv'
  BY RequestStep DEF RankedInv
<1>2. StepForm
  BY EveryStepForm DEF RankedInv
<1>3. CASE KeepsRanked
  BY <1>1, <1>3 DEF KeepsRanked, RankedInv, AllRanked
<1>4. ASSUME NEW i \in Slots, ReadsAndSearches(i) PROVE Ranked(conn', peice_ranking')
  <2>1. PICK c \in [Slots -> ConnType], stat \in [Index -> Status],
             rank \in [Pieces -> Nat], pr \in [Slots -> PeerType] :
                Prepared(i, c, stat, rank, pr) /\ Searches(c, stat, rank, pr)
    BY <1>4 DEF ReadsAndSearches
  <2>2. Ranked(c, rank)
    BY <2>1 DEF Prepared, RankedInv, AllRanked
  <2> QED
    BY <2>1, <2>2, SearchKeepsRanked
<1> QED
  BY <1>1, <1>2, <1>3, <1>4 DEF StepForm, RankedInv, AllRanked

(* A step that marks a piece leaves no piece without a counted holder.        *)
LEMMA MarkingStep ==
    ASSUME RankedInv, [Next]_vars, NEW p \in Pieces,
           peice_status[p] = NOT_DOWNLOADED, peice_status'[p] # NOT_DOWNLOADED
    PROVE  /\ \A q \in Pieces : peice_ranking'[q] > 0
           /\ \E bits \in SUBSET Pieces : get_bit_field(bits, p)
<1>1. StepForm
  BY EveryStepForm DEF RankedInv
<1>2. ASSUME NEW i \in Slots, ReadsAndSearches(i)
      PROVE  /\ \A q \in Pieces : peice_ranking'[q] > 0
             /\ \E bits \in SUBSET Pieces : get_bit_field(bits, p)
  <2>1. PICK c \in [Slots -> ConnType], stat \in [Index -> Status],
             rank \in [Pieces -> Nat], pr \in [Slots -> PeerType] :
                Prepared(i, c, stat, rank, pr) /\ Searches(c, stat, rank, pr)
    BY <1>2 DEF ReadsAndSearches
  <2>2. Ranked(c, rank)
    BY <2>1 DEF Prepared, RankedInv, AllRanked
  <2>3. stat[p] = NOT_DOWNLOADED
    <3>1. CASE stat = peice_status
      BY <3>1
    <3>2. CASE /\ Head(wire[i]).type = "PEICE"
               /\ Head(wire[i]).index \in Pieces
               /\ stat = [peice_status EXCEPT ![Head(wire[i]).index] = COMPLETED]
      <4>1. peice_status[Head(wire[i]).index] = DOWNLOADING
        <5>1. wire[i] # <<>> /\ wire[i] \in Seq(Message)
          BY <2>1 DEF Prepared, RankedInv, RequestInv, TypeOK
        <5>2. 1 \in 1 .. Len(wire[i]) /\ wire[i][1] = Head(wire[i])
          BY <5>1, TailFacts
        <5>3. Flight(peer, wire, i, Head(wire[i]).index)
          BY <3>2, <5>2 DEF Flight, Answers
        <5> QED
          BY <3>2, <5>3 DEF RankedInv, RequestInv, RequestsSound, Sound, Expected
      <4>2. p # Head(wire[i]).index
        BY <4>1 DEF NOT_DOWNLOADED, DOWNLOADING
      <4> QED
        BY <3>2, <4>2
    <3> QED
      BY <2>1, <3>1, <3>2 DEF Prepared
  <2> QED
    BY <2>1, <2>2, <2>3, MarkedIsRarest
<1> QED
  BY <1>1, <1>2 DEF StepForm, OnlyLoses

(* Holders are counted in every state.                                       *)
THEOREM HoldersAreRanked == Spec => []RankedInv
BY RankedStarts, RankedStep, PTL DEF Spec

(* As long as a piece has no counted holder, no piece is asked for.           *)
THEOREM UnheldPiecesBlock == Spec => UnheldPieceBlocks
<1>1. RankedInv /\ RankedInv' /\ [Next]_vars =>
        [(\E q \in Pieces : peice_status'[q] = NOT_DOWNLOADED /\ peice_ranking'[q] = 0)
            => \A p \in Pieces : peice_status[p] = NOT_DOWNLOADED
                                    => peice_status'[p] = NOT_DOWNLOADED]_vars
  <2> SUFFICES ASSUME RankedInv, [Next]_vars,
                      NEW q \in Pieces, peice_status'[q] = NOT_DOWNLOADED,
                      peice_ranking'[q] = 0,
                      NEW p \in Pieces, peice_status[p] = NOT_DOWNLOADED
               PROVE  peice_status'[p] = NOT_DOWNLOADED
    OBVIOUS
  <2> QED
    BY MarkingStep
<1> QED
  BY <1>1, HoldersAreRanked, PTL DEF Spec, UnheldPieceBlocks

-----------------------------------------------------------------------------
(* Slots whose answer was lost                                              *)

(* What is read can only be less to come, and an answer is to what was asked.   *)
LEMMA PreparedFacts ==
    ASSUME RequestInv, NEW i \in Slots, NEW c, NEW stat, NEW rank, NEW pr,
           Prepared(i, c, stat, rank, pr)
    PROVE  /\ \A s \in Slots, q \in Pieces :
                Flight(pr, wire', s, q) => Flight(peer, wire, s, q)
           /\ \A s \in Slots \ {i}, q \in Pieces :
                Flight(pr, wire', s, q) <=> Flight(peer, wire, s, q)
           /\ Head(wire[i]).type # "PEICE" =>
                \A q \in Pieces : Flight(pr, wire', i, q) <=> Flight(peer, wire, i, q)
           /\ Head(wire[i]).type = "PEICE" =>
                /\ Flight(peer, wire, i, Head(wire[i]).index)
                /\ \A q \in Pieces : ~Flight(pr, wire', i, q)
<1> DEFINE p == Head(wire[i]).index
<1>1. wire \in [Slots -> Seq(Message)] /\ wire[i] \in Seq(Message) /\ wire[i] # <<>>
  BY DEF RequestInv, TypeOK, Prepared
<1>2. /\ \A s \in Slots \ {i} : wire'[s] = wire[s]
      /\ \A s \in Slots : pr[s].pending = peer[s].pending
      /\ \A k \in 1 .. Len(wire'[i]) : wire'[i][k] = wire[i][k + 1] /\ k + 1 \in 1 .. Len(wire[i])
      /\ Head(wire[i]) = wire[i][1] /\ 1 \in 1 .. Len(wire[i])
  BY <1>1, TailFacts DEF Prepared
<1>3. \A k \in 2 .. Len(wire[i]) : wire[i][k] = wire'[i][k - 1] /\ k - 1 \in 1 .. Len(wire'[i])
  <2>1. Len(wire'[i]) = Len(wire[i]) - 1 /\ Len(wire[i]) \in Nat
    BY <1>1, TailFacts DEF Prepared
  <2> SUFFICES ASSUME NEW k \in 2 .. Len(wire[i])
               PROVE  wire[i][k] = wire'[i][k - 1] /\ k - 1 \in 1 .. Len(wire'[i])
    OBVIOUS
  <2>2. k - 1 \in 1 .. Len(wire'[i]) /\ (k - 1) + 1 = k
    BY <2>1
  <2> QED
    BY <1>2, <2>2
<1>4. \A s \in Slots, q \in Pieces : Flight(pr, wire', s, q) => Flight(peer, wire, s, q)
  BY <1>2 DEF Flight, Answers
<1>5. \A s \in Slots \ {i}, q \in Pieces : Flight(pr, wire', s, q) <=> Flight(peer, wire, s, q)
  BY <1>2 DEF Flight, Answers
<1>6. ASSUME Head(wire[i]).type # "PEICE", NEW q \in Pieces, Flight(peer, wire, i, q)
      PROVE  Flight(pr, wire', i, q)
  <2>1. CASE q \in peer[i].pending
    BY <1>2, <2>1 DEF Flight
  <2>2. ASSUME NEW k \in 1 .. Len(wire[i]), Answers(wire, i, q, k)
        PROVE  Flight(pr, wire', i, q)
    <3>1. k # 1
      BY <1>2, <1>6, <2>2 DEF Answers
    <3>2. k \in 2 .. Len(wire[i])
      BY <1>1, <3>1
    <3> QED
      BY <1>3, <2>2, <3>2 DEF Flight, Answers
  <2> QED
    BY <1>6, <2>1, <2>2 DEF Flight
<1>7. ASSUME Head(wire[i]).type = "PEICE"
      PROVE  Flight(peer, wire, i, p) /\ \A q \in Pieces : ~Flight(pr, wire', i, q)
  <2>1. Answers(wire, i, p, 1)
    BY <1>2, <1>7 DEF Answers
  <2>2. p \in Pieces
    BY <1>1, <1>7, HeadFacts DEF RequestInv
  <2>3. ASSUME NEW q \in Pieces, Flight(pr, wire', i, q) PROVE FALSE
    <3>1. q \notin pr[i].pending
      BY <1>2, <2>1, <2>2 DEF RequestInv, RequestsSound, Sound, SentOnce
    <3>2. PICK k \in 1 .. Len(wire'[i]) : Answers(wire', i, q, k)
      BY <2>3, <3>1 DEF Flight
    <3>3. Answers(wire, i, q, k + 1) /\ k + 1 \in 1 .. Len(wire[i])
      BY <1>2, <3>2 DEF Answers
    <3>4. 1 = k + 1
      BY <1>2, <2>1, <2>2, <3>3 DEF RequestInv, RequestsSound, Sound, SentOnce
    <3> QED
      BY <3>4
  <2> QED
    BY <1>2, <2>1, <2>3 DEF Flight
<1> QED
  BY <1>4, <1>5, <1>6, <1>7

(* A stale slot in terms of Flight.                                          *)
LEMMA StaleFacts ==
    \A i \in Slots : Stale(i) <=> conn[i].request_sent /\ \A p \in Pieces : ~Flight(peer, wire, i, p)
BY DEF Stale, InFlight, Answer, Flight, Answers

(* No step asks anything of the peer of a slot that is busy.                  *)
LEMMA StaleStep ==
    ASSUME RequestInv, [Next]_vars, NEW s \in Slots, Stale(s)
    PROVE  /\ conn'[s].request_sent
           /\ \A p \in Pieces : ~Flight(peer', wire', s, p)
<1>1. conn[s].request_sent /\ \A p \in Pieces : ~Flight(peer, wire, s, p)
  BY StaleFacts
<1>2. ASSUME NEW i \in Slots, OnlyLoses(i), KeepsBusy
      PROVE  /\ conn'[s].request_sent
             /\ \A p \in Pieces : ~Flight(peer', wire', s, p)
  BY <1>1, <1>2 DEF OnlyLoses, KeepsBusy, Flight, Answers
<1>3. ASSUME NEW i \in Slots, ReadsAndSearches(i)
      PROVE  /\ conn'[s].request_sent
             /\ \A p \in Pieces : ~Flight(peer', wire', s, p)
  <2>1. PICK c \in [Slots -> ConnType], stat \in [Index -> Status],
             rank \in [Pieces -> Nat], pr \in [Slots -> PeerType] :
                Prepared(i, c, stat, rank, pr) /\ Searches(c, stat, rank, pr)
    BY <1>3 DEF ReadsAndSearches
  <2>2. Digest(c, stat, pr)
    BY <2>1, SearchDigest DEF Searches
  <2>3. \A p \in Pieces : ~Flight(pr, wire', s, p)
    BY <1>1, <2>1, PreparedFacts
  <2>4. c[s].request_sent
    <3>1. CASE s # i
      BY <1>1, <2>1, <3>1 DEF Prepared
    <3>2. CASE s = i
      BY <1>1, <2>1, <3>2, PreparedFacts DEF Prepared
    <3> QED
      BY <3>1, <3>2
  <2>5. conn'[s].request_sent /\ peer'[s].pending \subseteq pr[s].pending
    BY <2>2, <2>4, Sizes DEF Digest
  <2> QED
    BY <2>3, <2>5 DEF Flight
<1> QED
  BY <1>2, <1>3, EveryStepForm DEF StepForm

(* A slot whose answer was lost is never used for a request again.            *)
THEOREM LostSlotsStayBusy == Spec => LostSlotStaysBusy
<1>1. RequestInv /\ [Next]_vars => [\A i \in Slots : Stale(i) => Stale(i)']_vars
  <2> SUFFICES ASSUME RequestInv, [Next]_vars, NEW i \in Slots, Stale(i)
               PROVE  Stale(i)'
    OBVIOUS
  <2> QED
    BY StaleStep DEF Stale, InFlight, Answer, Flight, Answers
<1> QED
  BY <1>1, RequestInvariance, PTL DEF Spec, LostSlotStaysBusy

-----------------------------------------------------------------------------
(* The refinement                                                           *)

OnTheWay(pr, w) == { p \in Pieces : \E i \in Slots : Flight(pr, w, i, p) }

(* Of a step: from the marks stat and the answers S, one piece is asked for at  *)
(* most.                                                                    *)
AsksFrom(stat, S) ==
    \/ /\ \A q \in Pieces : peice_status'[q] = stat[q]
       /\ OnTheWay(peer', wire') = S
    \/ \E r \in Pieces :
        /\ stat[r] = NOT_DOWNLOADED
        /\ \A q \in Pieces : peice_status'[q] = IF q = r THEN DOWNLOADING ELSE stat[q]
        /\ OnTheWay(peer', wire') \in {S, S \cup {r}}

(* A search asks for one piece at most.                                      *)
LEMMA SearchAsks ==
    ASSUME NEW c \in [Slots -> ConnType], NEW stat \in [Index -> Status],
           NEW rank \in [Pieces -> Nat], NEW pr \in [Slots -> PeerType],
           Searches(c, stat, rank, pr)
    PROVE  AsksFrom(stat, OnTheWay(pr, wire'))
<1>1. PICK r \in Pieces, a \in Slots \cup {MAX_CONN} :
        /\ a # MAX_CONN => stat[r] = NOT_DOWNLOADED /\ peice_status'[r] = DOWNLOADING
        /\ \A s \in Slots :
            peer'[s].pending \subseteq pr[s].pending \cup (IF s = a THEN {r} ELSE {})
        /\ \A q \in Pieces : q # r \/ a = MAX_CONN => peice_status'[q] = stat[q]
  <2>1. Digest(c, stat, pr)
    BY SearchDigest DEF Searches
  <2> QED
    BY <2>1 DEF Digest
<1>2. \A s \in Slots : pr[s].pending \subseteq peer'[s].pending
  BY SearchGrows
<1>3. OnTheWay(pr, wire') \subseteq OnTheWay(peer', wire')
  BY <1>2 DEF OnTheWay, Flight
<1>4. \A q \in OnTheWay(peer', wire') :
        q \in OnTheWay(pr, wire') \/ (a # MAX_CONN /\ q = r)
  BY <1>1, Sizes DEF OnTheWay, Flight
<1>5. CASE a = MAX_CONN
  BY <1>1, <1>3, <1>4, <1>5 DEF AsksFrom
<1>6. CASE a # MAX_CONN
  <2>1. OnTheWay(peer', wire') \in {OnTheWay(pr, wire'), OnTheWay(pr, wire') \cup {r}}
    BY <1>3, <1>4
  <2> QED
    BY <1>1, <1>6, <2>1 DEF AsksFrom
<1> QED
  BY <1>5, <1>6

(* Connection i alone holds what is on its way on it, and that is one piece.   *)
LEMMA OneOnTheWay ==
    ASSUME RequestInv, NEW i \in Slots, NEW p \in Pieces, Flight(peer, wire, i, p)
    PROVE  /\ peice_status[p] = DOWNLOADING
           /\ \A q \in Pieces : Flight(peer, wire, i, q) => q = p
           /\ \A s \in Slots : Flight(peer, wire, s, p) => s = i
BY DEF RequestInv, RequestsSound, Sound, Expected, OnOneConnection

(* When a connection alone may lose, one piece is lost or none.               *)
LEMMA OneIsLost ==
    ASSUME RequestInv, NEW i \in Slots, NEW pr, NEW w,
           \A q \in Pieces : Flight(pr, w, i, q) => Flight(peer, wire, i, q),
           \A s \in Slots \ {i}, q \in Pieces : Flight(pr, w, s, q) <=> Flight(peer, wire, s, q)
    PROVE  \/ OnTheWay(pr, w) = OnTheWay(peer, wire)
           \/ \E p \in OnTheWay(peer, wire) : OnTheWay(pr, w) = OnTheWay(peer, wire) \ {p}
<1>1. CASE \A q \in Pieces : Flight(peer, wire, i, q) => Flight(pr, w, i, q)
  BY <1>1 DEF OnTheWay
<1>2. ASSUME NEW p \in Pieces, Flight(peer, wire, i, p), ~Flight(pr, w, i, p)
      PROVE  p \in OnTheWay(peer, wire) /\ OnTheWay(pr, w) = OnTheWay(peer, wire) \ {p}
  <2>1. /\ \A q \in Pieces : Flight(peer, wire, i, q) => q = p
        /\ \A s \in Slots : Flight(peer, wire, s, p) => s = i
    BY <1>2, OneOnTheWay
  <2>2. p \in OnTheWay(peer, wire)
    BY <1>2 DEF OnTheWay
  <2>3. \A q \in Pieces : q \in OnTheWay(pr, w) <=> q \in OnTheWay(peer, wire) /\ q # p
    BY <1>2, <2>1 DEF OnTheWay
  <2> QED
    BY <2>2, <2>3 DEF OnTheWay
<1> QED
  BY <1>1, <1>2

(* What every step does to the pieces: it is a stutter, a loss, a request, or   *)
(* a receipt with or without a request.                                     *)
LEMMA EveryStepMaps ==
    ASSUME RequestInv, [Next]_vars
    PROVE  LET S == OnTheWay(peer, wire)
           IN \/ AsksFrom(peice_status, S)
              \/ \E p \in S : /\ peice_status' = peice_status
                              /\ OnTheWay(peer', wire') = S \ {p}
              \/ \E p \in S : /\ peice_status[p] = DOWNLOADING
                              /\ AsksFrom([peice_status EXCEPT ![p] = COMPLETED], S \ {p})
<1> DEFINE S == OnTheWay(peer, wire)
<1>1. ASSUME NEW i \in Slots, OnlyLoses(i)
      PROVE  \/ AsksFrom(peice_status, S)
             \/ \E p \in S : peice_status' = peice_status /\ OnTheWay(peer', wire') = S \ {p}
  <2>1. peice_status' = peice_status
    BY <1>1 DEF OnlyLoses
  <2>2. /\ \A q \in Pieces : Flight(peer', wire', i, q) => Flight(peer, wire, i, q)
        /\ \A s \in Slots \ {i}, q \in Pieces : Flight(peer', wire', s, q) <=> Flight(peer, wire, s, q)
    BY <1>1 DEF OnlyLoses, Flight, Answers
  <2>3. \/ OnTheWay(peer', wire') = S
        \/ \E p \in S : OnTheWay(peer', wire') = S \ {p}
    BY <2>2, OneIsLost
  <2> QED
    BY <2>1, <2>3 DEF AsksFrom
<1>2. ASSUME NEW i \in Slots, ReadsAndSearches(i)
      PROVE  \/ AsksFrom(peice_status, S)
             \/ \E p \in S : /\ peice_status[p] = DOWNLOADING
                             /\ AsksFrom([peice_status EXCEPT ![p] = COMPLETED], S \ {p})
  <2>1. PICK c \in [Slots -> ConnType], stat \in [Index -> Status],
             rank \in [Pieces -> Nat], pr \in [Slots -> PeerType] :
                Prepared(i, c, stat, rank, pr) /\ Searches(c, stat, rank, pr)
    BY <1>2 DEF ReadsAndSearches
  <2>2. AsksFrom(stat, OnTheWay(pr, wire'))
    BY <2>1, SearchAsks
  <2>3. CASE Head(wire[i]).type # "PEICE"
    <3>1. stat = peice_status
      BY <2>1, <2>3 DEF Prepared
    <3>2. \A s \in Slots, q \in Pieces : Flight(pr, wire', s, q) <=> Flight(peer, wire, s, q)
      BY <2>1, <2>3, PreparedFacts
    <3>3. OnTheWay(pr, wire') = S
      BY <3>2 DEF OnTheWay
    <3> QED
      BY <2>2, <3>1, <3>3
  <2>4. CASE Head(wire[i]).type = "PEICE"
    <3> DEFINE p == Head(wire[i]).index
    <3>1. p \in Pieces /\ stat = [peice_status EXCEPT ![p] = COMPLETED]
      BY <2>1, <2>4 DEF Prepared
    <3>2. /\ Flight(peer, wire, i, p)
          /\ \A q \in Pieces : ~Flight(pr, wire', i, q)
          /\ \A s \in Slots \ {i}, q \in Pieces : Flight(pr, wire', s, q) <=> Flight(peer, wire, s, q)
      BY <2>1, <2>4, PreparedFacts
    <3> HIDE DEF p
    <3>3. /\ peice_status[p] = DOWNLOADING
          /\ \A q \in Pieces : Flight(peer, wire, i, q) => q = p
          /\ \A s \in Slots : Flight(peer, wire, s, p) => s = i
      BY <3>1, <3>2, OneOnTheWay
    <3>4. p \in S
      BY <3>1, <3>2 DEF OnTheWay
    <3>5. \A q \in Pieces : q \in OnTheWay(pr, wire') <=> q \in S /\ q # p
      BY <3>2, <3>3 DEF OnTheWay
    <3>6. OnTheWay(pr, wire') = S \ {p}
      BY <3>5 DEF OnTheWay
    <3> QED
      BY <2>2, <3>1, <3>3, <3>4, <3>6
  <2> QED
    BY <2>3, <2>4
<1> QED
  BY <1>1, <1>2, EveryStepForm DEF StepForm

(* A step that asks is a request of Download, or none.                        *)
LEMMA AskMaps ==
    ASSUME NEW stat, NEW S, AsksFrom(stat, S)
    PROVE  LET W  == { p \in Pieces : stat[p] = NOT_DOWNLOADED }
               W1 == { p \in Pieces : peice_status'[p] = NOT_DOWNLOADED }
               G  == { p \in Pieces : stat[p] = COMPLETED }
               G1 == { p \in Pieces : peice_status'[p] = COMPLETED }
               S1 == OnTheWay(peer', wire')
           IN /\ G1 = G
              /\ \/ W1 = W /\ S1 = S
                 \/ \E r \in Pieces : r \in W /\ W1 = W \ {r} /\ S1 \in {S, S \cup {r}}
BY DEF AsksFrom, NOT_DOWNLOADED, DOWNLOADING, COMPLETED

(* The client starts as Download starts.                                     *)
LEMMA AbstractStarts == Init => Abstract!Init
<1> SUFFICES ASSUME Init PROVE Abstract!Init
  OBVIOUS
<1>1. \A s \in Slots : peer[s].pending = {} /\ wire[s] = <<>>
  BY DEF Init, NoPeer
<1>2. \A p \in Pieces : peice_status[p] = NOT_DOWNLOADED
  BY Sizes DEF Init
<1>3. { p \in Pieces : \E i \in Slots : InFlight(i, p) } = {}
  BY <1>1 DEF InFlight, Answer
<1> QED
  BY <1>2, <1>3 DEF Abstract!Init, NOT_DOWNLOADED, COMPLETED

(* Every step of the client and its peers is a step of Download, or none.     *)
LEMMA AbstractStep == RequestInv /\ [Next]_vars => [Abstract!Next]_(Abstract!vars)
<1> SUFFICES ASSUME RequestInv, [Next]_vars PROVE [Abstract!Next]_(Abstract!vars)
  OBVIOUS
<1> DEFINE W  == { p \in Pieces : peice_status[p] = NOT_DOWNLOADED }
           W1 == { p \in Pieces : peice_status'[p] = NOT_DOWNLOADED }
           G  == { p \in Pieces : peice_status[p] = COMPLETED }
           G1 == { p \in Pieces : peice_status'[p] = COMPLETED }
           S  == OnTheWay(peer, wire)
           S1 == OnTheWay(peer', wire')
<1>1. /\ { p \in Pieces : \E i \in Slots : InFlight(i, p) } = S
      /\ { p \in Pieces : \E i \in Slots : InFlight(i, p) }' = S1
  BY DEF OnTheWay, InFlight, Answer, Flight, Answers
<1>2. S \subseteq Pieces
  BY DEF OnTheWay
<1>3. CASE AsksFrom(peice_status, S)
  <2>1. /\ G1 = G
        /\ \/ W1 = W /\ S1 = S
           \/ \E r \in Pieces : r \in W /\ W1 = W \ {r} /\ S1 \in {S, S \cup {r}}
    BY <1>3, AskMaps
  <2> HIDE DEF W, W1, G, G1, S, S1
  <2>2. CASE W1 = W /\ S1 = S
    BY <1>1, <2>1, <2>2 DEF Abstract!vars, W, W1, G, G1
  <2>3. CASE \E r \in Pieces : r \in W /\ W1 = W \ {r} /\ S1 \in {S, S \cup {r}}
    <3>1. PICK r \in Pieces : r \in W /\ W1 = W \ {r} /\ S1 \in {S, S \cup {r}}
      BY <2>3
    <3>2. Abstract!Ask(r)
      BY <1>1, <2>1, <3>1 DEF Abstract!Ask, Abstract!Request, W, W1, G, G1
    <3> QED
      BY <3>2 DEF Abstract!Next
  <2> QED
    BY <2>1, <2>2, <2>3
<1>4. ASSUME NEW p \in S, peice_status' = peice_status, S1 = S \ {p}
      PROVE  Abstract!Lose(p)
  <2> HIDE DEF S, S1
  <2> QED
    BY <1>1, <1>4 DEF Abstract!Lose
<1>5. ASSUME NEW p \in S, peice_status[p] = DOWNLOADING,
             AsksFrom([peice_status EXCEPT ![p] = COMPLETED], S \ {p})
      PROVE  Abstract!Receive(p)
  <2> DEFINE stat == [peice_status EXCEPT ![p] = COMPLETED]
             V == { q \in Pieces : stat[q] = NOT_DOWNLOADED }
             H == { q \in Pieces : stat[q] = COMPLETED }
  <2>1. p \in Pieces
    BY <1>2
  <2>2. peice_status \in [Index -> Status] /\ p \in Index
    BY <2>1, Sizes DEF RequestInv, TypeOK
  <2>3. \A q \in Pieces : stat[q] = IF q = p THEN COMPLETED ELSE peice_status[q]
    BY <2>2, Sizes
  <2>4. V = W /\ H = G \cup {p}
    BY <1>5, <2>1, <2>3 DEF NOT_DOWNLOADED, DOWNLOADING, COMPLETED
  <2> HIDE DEF stat
  <2>5. /\ G1 = H
        /\ \/ W1 = V /\ S1 = S \ {p}
           \/ \E r \in Pieces : r \in V /\ W1 = V \ {r} /\ S1 \in {S \ {p}, (S \ {p}) \cup {r}}
    BY <1>5, AskMaps DEF stat
  <2> HIDE DEF V, H, W, W1, G, G1, S, S1
  <2>6. G1 = G \cup {p}
    BY <2>4, <2>5
  <2>7. \/ W1 = W /\ S1 = S \ {p}
        \/ \E r \in Pieces : r \in W /\ W1 = W \ {r} /\ S1 \in {S \ {p}, (S \ {p}) \cup {r}}
    BY <2>4, <2>5
  <2> QED
    BY <1>1, <2>6, <2>7 DEF Abstract!Receive, Abstract!Request, W, W1, G, G1
<1>6. \/ AsksFrom(peice_status, S)
      \/ \E p \in S : peice_status' = peice_status /\ S1 = S \ {p}
      \/ \E p \in S : /\ peice_status[p] = DOWNLOADING
                      /\ AsksFrom([peice_status EXCEPT ![p] = COMPLETED], S \ {p})
  BY EveryStepMaps
<1> HIDE DEF S, S1
<1> QED
  BY <1>2, <1>3, <1>4, <1>5, <1>6 DEF Abstract!Next

(* The download half implements Download.                                    *)
THEOREM DownloadIsImplemented == Spec => ImplementsDownload
BY AbstractStarts, AbstractStep, RequestInvariance, PTL DEF Spec, ImplementsDownload, Abstract!Spec

-----------------------------------------------------------------------------
(* Piece 8                                                                  *)

(* A ranking that has been raised is never 0 again.                          *)
LEMMA RankingsStay ==
    ASSUME RequestInv, [Next]_vars, NEW q \in Pieces, peice_ranking[q] > 0
    PROVE  peice_ranking'[q] > 0
<1>1. ASSUME NEW i \in Slots, ReadsAndSearches(i) PROVE peice_ranking'[q] > 0
  <2>1. PICK c \in [Slots -> ConnType], stat \in [Index -> Status],
             rank \in [Pieces -> Nat], pr \in [Slots -> PeerType] :
                Prepared(i, c, stat, rank, pr) /\ Searches(c, stat, rank, pr)
    BY <1>1 DEF ReadsAndSearches
  <2>2. rank[q] > 0
    BY <2>1 DEF Prepared
  <2>3. PICK sent : FindRarest(c, stat, rank, pr, sent) \/ Commit(c, stat, rank, pr, sent)
    BY <2>1 DEF Searches
  <2>4. CASE Searched(c, stat, rank, pr)
    <3>1. PICK r \in Pieces, a \in Slots \cup {MAX_CONN} :
            peice_ranking' = [p \in Pieces |->
                IF p = r /\ a \in Slots THEN DOWNLOADING_RANKING ELSE rank[p]]
      BY <2>4 DEF Searched, SearchedAt
    <3> QED
      BY <2>2, <3>1 DEF DOWNLOADING_RANKING
  <2>5. CASE peice_ranking' = rank
    BY <2>2, <2>5
  <2> QED
    BY <2>3, <2>4, <2>5, SearchFacts DEF Commit
<1> QED
  BY <1>1, EveryStepForm DEF StepForm, OnlyLoses

(* No bit field has a bit for piece 8.                                       *)
LEMMA NoBitForEight ==
    \A bits \in SUBSET Pieces : ~get_bit_field(bits, 8)
BY Sizes DEF get_bit_field, Cell, NoCell, Pieces

(* What every step keeps of piece 8 needs that holders are counted.           *)
EightInv == RankedInv /\ PieceEightBlocks

LEMMA EightStarts == Init => EightInv
<1>1. Init /\ no_of_peices > 8 =>
        8 \in Pieces /\ \A p \in Pieces : peice_status[p] = NOT_DOWNLOADED
  BY Sizes DEF Init, Pieces
<1> QED
  BY <1>1, RankedStarts DEF EightInv, PieceEightBlocks

LEMMA EightStep == EightInv /\ [Next]_vars => EightInv'
<1> SUFFICES ASSUME EightInv, [Next]_vars PROVE EightInv'
  OBVIOUS
<1>1. RankedInv'
  BY RankedStep DEF EightInv
<1> SUFFICES ASSUME no_of_peices > 8
             PROVE  /\ peice_status'[8] = NOT_DOWNLOADED
                    /\ peice_ranking'[8] = 0 =>
                        \A p \in Pieces : peice_status'[p] = NOT_DOWNLOADED
  BY <1>1 DEF EightInv, PieceEightBlocks
<1>2. 8 \in Pieces
  BY Sizes DEF Pieces
<1>3. /\ peice_status[8] = NOT_DOWNLOADED
      /\ peice_ranking[8] = 0 => \A p \in Pieces : peice_status[p] = NOT_DOWNLOADED
  BY DEF EightInv, PieceEightBlocks
<1>4. peice_status'[8] = NOT_DOWNLOADED
  BY <1>2, <1>3, MarkingStep, NoBitForEight DEF EightInv
<1>5. ASSUME peice_ranking'[8] = 0, NEW p \in Pieces
      PROVE  peice_status'[p] = NOT_DOWNLOADED
  <2>1. peice_ranking[8] = 0
    <3>1. peice_ranking[8] \in Nat
      BY <1>2 DEF EightInv, RankedInv, RequestInv, TypeOK
    <3>2. ~(peice_ranking[8] > 0)
      BY <1>2, <1>5, RankingsStay DEF EightInv, RankedInv
    <3> QED
      BY <3>1, <3>2
  <2>2. peice_status[p] = NOT_DOWNLOADED
    BY <1>3, <2>1
  <2> QED
    BY <1>2, <1>5, <2>2, MarkingStep DEF EightInv
<1> QED
  BY <1>4, <1>5

(* In a torrent of more than eight pieces, piece 8 is never asked for, and     *)
(* nothing is until a have message for it is read: for every number and size  *)
(* of pieces, and whatever peers hold and do.                               *)
THEOREM PieceEightIsNeverAsked == Spec => []PieceEightBlocks
BY EightStarts, EightStep, PTL DEF Spec, EightInv

-----------------------------------------------------------------------------
(* The lengths of the pieces                                                *)

Last == no_of_peices - 1

(* All pieces but the last have PieceSize bytes and the last has the rest;     *)
(* send_request asks for as many.                                           *)
LEMMA Lengths ==
    /\ Last \in Pieces /\ Last \in Nat
    /\ \A p \in Pieces : p # Last => TrueLength(p) = PieceSize
    /\ TrueLength(Last) = FileSize - Last * PieceSize
    /\ \A p \in Pieces : RequestLength(p) = TrueLength(p) /\ TrueLength(p) \in Int
<1> DEFINE q == FileSize \div PieceSize
           r == FileSize % PieceSize
<1>1. /\ q \in Nat /\ r \in Nat /\ r < PieceSize /\ FileSize = PieceSize * q + r
      /\ PieceSize \in Nat \ {0} /\ FileSize \in Nat \ {0}
  BY ConstantsAssumption
<1>2. no_of_peices = IF r # 0 THEN q + 1 ELSE q
  BY DEF no_of_peices
<1>3. \A p : RequestLength(p) = IF p = Last /\ r # 0 THEN r ELSE PieceSize
  BY DEF RequestLength, Last
<1> HIDE DEF q, r
<1>4. q * PieceSize = PieceSize * q
  BY <1>1
<1>5. r = 0 => q # 0
  BY <1>1
<1>6. Last \in Nat /\ Last = IF r # 0 THEN q ELSE q - 1
  BY <1>1, <1>2, <1>5 DEF Last
<1>7. Pieces = 0 .. Last
  BY DEF Pieces, Last
<1>8. ASSUME NEW p \in Pieces, p # Last PROVE TrueLength(p) = PieceSize
  <2>1. p \in Nat /\ p + 1 <= Last
    BY <1>6, <1>7, <1>8
  <2>2. p + 1 <= q
    BY <1>1, <1>6, <2>1
  <2>3. (p + 1) * PieceSize <= q * PieceSize
    BY <1>1, <2>1, <2>2, SMTT(20)
  <2>4. q * PieceSize <= FileSize
    BY <1>1, <1>4
  <2> DEFINE n == (p + 1) * PieceSize
             m == q * PieceSize
  <2>5. n \in Int /\ m \in Int
    BY <1>1, <2>1
  <2> HIDE DEF n, m
  <2>6. n <= FileSize
    BY <1>1, <2>3, <2>4, <2>5 DEF n, m
  <2> QED
    BY <2>6 DEF n, TrueLength
<1>9. TrueLength(Last) = FileSize - Last * PieceSize
      /\ TrueLength(Last) = IF r # 0 THEN r ELSE PieceSize
  <2>1. CASE r # 0
    <3>1. Last = q
      BY <1>6, <2>1
    <3>2. (q + 1) * PieceSize = PieceSize * q + PieceSize
      BY <1>1
    <3>3. ~((q + 1) * PieceSize <= FileSize)
      BY <1>1, <3>2
    <3>4. TrueLength(Last) = FileSize - Last * PieceSize
      BY <3>1, <3>3 DEF TrueLength
    <3> QED
      BY <1>1, <1>4, <2>1, <3>1, <3>4
  <2>2. CASE r = 0
    <3>1. Last = q - 1
      BY <1>6, <2>2
    <3>2. (Last + 1) * PieceSize = FileSize
      BY <1>1, <1>4, <2>2, <3>1
    <3>3. TrueLength(Last) = PieceSize
      BY <1>1, <3>2 DEF TrueLength
    <3>4. Last * PieceSize = PieceSize * q - PieceSize
      BY <1>1, <3>1
    <3> QED
      BY <1>1, <2>2, <3>3, <3>4
  <2> QED
    BY <2>1, <2>2
<1> QED
  BY <1>1, <1>3, <1>6, <1>7, <1>8, <1>9

(* SumOfLengths is a function that adds the length of one chosen member to the  *)
(* sum of the others'.                                                      *)
AddsUp(S, sum) ==
    sum = [s \in SUBSET S |->
             IF s = {} THEN 0
             ELSE TrueLength(CHOOSE x \in s : TRUE) + sum[s \ {CHOOSE x \in s : TRUE}]]

LEMMA SumAddsUp ==
    ASSUME NEW S, NEW f, AddsUp(S, f)
    PROVE  \E sum : AddsUp(S, sum) /\ SumOfLengths(S) = sum[S]
<1>1. SumOfLengths(S) = (CHOOSE sum : AddsUp(S, sum))[S]
  BY DEF SumOfLengths, MapThenSumSet, MapThenFoldSet, AddsUp
<1>2. AddsUp(S, CHOOSE sum : AddsUp(S, sum))
  BY f = f
<1> QED
  BY <1>1, <1>2

(* The bytes of the pieces s in closed form.                                 *)
Bytes(s) ==
    Cardinality(s) * PieceSize + (IF Last \in s THEN TrueLength(Last) - PieceSize ELSE 0)

(* A piece more adds its length.                                             *)
LEMMA BytesGrow ==
    ASSUME NEW s \in SUBSET Pieces, NEW p \in Pieces, p \notin s
    PROVE  /\ IsFiniteSet(s) /\ Cardinality(s) \in Nat
           /\ Bytes(s) \in Int
           /\ Cardinality(s \cup {p}) = Cardinality(s) + 1
           /\ Bytes(s \cup {p}) = Bytes(s) + TrueLength(p)
<1>1. IsFiniteSet(Pieces)
  BY Sizes, FS_Interval DEF Pieces
<1>2. IsFiniteSet(s)
  BY <1>1, FS_Subset
<1>3. Cardinality(s) \in Nat /\ Cardinality(s \cup {p}) = Cardinality(s) + 1
  BY <1>2, FS_CardinalityType, FS_AddElement
<1> DEFINE n == Cardinality(s)
<1> HIDE DEF n
<1>4. PieceSize \in Nat /\ (n + 1) * PieceSize = n * PieceSize + PieceSize
  BY <1>3, ConstantsAssumption DEF n
<1>5. n * PieceSize \in Int
  BY <1>3, <1>4 DEF n
<1>6. /\ TrueLength(Last) \in Int /\ TrueLength(p) \in Int
      /\ p # Last => TrueLength(p) = PieceSize
  BY Lengths
<1> DEFINE m == n * PieceSize
           k == TrueLength(Last)
<1>7. Bytes(s) = m + (IF Last \in s THEN k - PieceSize ELSE 0)
  BY DEF Bytes, n
<1>8. Bytes(s \cup {p}) = m + PieceSize + (IF Last \in s \cup {p} THEN k - PieceSize ELSE 0)
  BY <1>3, <1>4 DEF Bytes, n
<1>9. m \in Int
  BY <1>5
<1> HIDE DEF m
<1>10. k \in Int
  BY <1>6
<1> HIDE DEF k
<1>11. Bytes(s \cup {p}) = Bytes(s) + TrueLength(p)
  <2>1. CASE p = Last
    <3>1. TrueLength(p) = k /\ Last \notin s
      BY <2>1 DEF k
    <3>2. Bytes(s) = m + 0
      BY <1>7, <3>1
    <3>3. Bytes(s \cup {p}) = m + PieceSize + (k - PieceSize)
      BY <1>8, <2>1
    <3> QED
      BY <1>4, <1>9, <1>10, <3>1, <3>2, <3>3
  <2>2. CASE p # Last
    BY <1>4, <1>6, <1>7, <1>8, <1>9, <1>10, <2>2
  <2> QED
    BY <2>1, <2>2
<1> QED
  BY <1>2, <1>3, <1>4, <1>7, <1>9, <1>10, <1>11

LEMMA BytesOfNone == Bytes({}) = 0
BY FS_EmptySet, ConstantsAssumption DEF Bytes

(* The closed form is what SumOfLengths computes.                            *)
LEMMA SumIsBytes ==
    ASSUME NEW S \in SUBSET Pieces
    PROVE  SumOfLengths(S) = Bytes(S)
<1>1. ASSUME NEW s \in SUBSET Pieces, s # {}, NEW x, x = CHOOSE y \in s : TRUE
      PROVE  /\ x \in s /\ s \ {x} \in SUBSET Pieces
             /\ Cardinality(s \ {x}) \in Nat
             /\ Cardinality(s) = Cardinality(s \ {x}) + 1
             /\ Bytes(s) = TrueLength(x) + Bytes(s \ {x})
  <2>1. x \in s
    BY <1>1
  <2>2. x \in Pieces /\ x \notin s \ {x} /\ s = (s \ {x}) \cup {x}
    BY <2>1
  <2>3. TrueLength(x) \in Int
    BY <2>2, Lengths
  <2> QED
    BY <2>1, <2>2, <2>3, BytesGrow
<1>2. AddsUp(S, [s \in SUBSET S |-> Bytes(s)])
  <2> DEFINE f == [s \in SUBSET S |-> Bytes(s)]
  <2>1. ASSUME NEW s \in SUBSET S
        PROVE  Bytes(s) = IF s = {} THEN 0
                          ELSE TrueLength(CHOOSE x \in s : TRUE)
                                + f[s \ {CHOOSE x \in s : TRUE}]
    <3>1. CASE s = {}
      BY <3>1, BytesOfNone
    <3>2. CASE s # {}
      <4> DEFINE x == CHOOSE y \in s : TRUE
      <4>1. Bytes(s) = TrueLength(x) + Bytes(s \ {x})
        BY <1>1, <3>2
      <4>2. f[s \ {x}] = Bytes(s \ {x})
        OBVIOUS
      <4> HIDE DEF f
      <4> QED
        BY <3>2, <4>1, <4>2
    <3> QED
      BY <3>1, <3>2
  <2> QED
    BY <2>1 DEF AddsUp
<1>3. PICK sum : AddsUp(S, sum) /\ SumOfLengths(S) = sum[S]
  BY <1>2, SumAddsUp
<1> DEFINE bad == { s \in SUBSET S : sum[s] # Bytes(s) }
           N   == { Cardinality(s) : s \in bad }
<1>4. ASSUME bad # {} PROVE FALSE
  <2>1. N \subseteq Nat
    <3>1. \A s \in SUBSET S : Cardinality(s) \in Nat
      <4> TAKE s \in SUBSET S
      <4>1. IsFiniteSet(Pieces)
        BY Sizes, FS_Interval DEF Pieces
      <4> QED
        BY <4>1, FS_Subset, FS_CardinalityType
    <3> QED
      BY <3>1
  <2>2. PICK s \in bad : \A t \in bad : Cardinality(s) <= Cardinality(t)
    <3>1. N # {}
      BY <1>4
    <3>2. PICK n \in N : \A m \in N : n <= m
      <4> HIDE DEF N
      <4> QED
        BY <2>1, <3>1, LeastMember
    <3> QED
      BY <3>2
  <2>3. s # {}
    BY <1>3, <2>2, BytesOfNone DEF AddsUp
  <2> DEFINE x == CHOOSE y \in s : TRUE
  <2>4. sum[s] = TrueLength(x) + sum[s \ {x}]
    BY <1>3, <2>2, <2>3 DEF AddsUp
  <2>5. /\ Cardinality(s \ {x}) \in Nat
        /\ Cardinality(s) = Cardinality(s \ {x}) + 1
        /\ Bytes(s) = TrueLength(x) + Bytes(s \ {x})
    BY <1>1, <2>2, <2>3
  <2> HIDE DEF x
  <2>6. s \ {x} \notin bad
    <3>1. s \ {x} \in bad => Cardinality(s) <= Cardinality(s \ {x})
      BY <2>2
    <3> HIDE DEF bad
    <3> QED
      BY <2>5, <3>1
  <2>7. sum[s \ {x}] = Bytes(s \ {x})
    BY <2>2, <2>6
  <2> QED
    BY <2>2, <2>4, <2>5, <2>7
<1> QED
  BY <1>3, <1>4

(* The pieces together are the file.                                         *)
LEMMA AllBytes == Bytes(Pieces) = FileSize
<1>1. Cardinality(Pieces) = no_of_peices
  BY Sizes, FS_Interval DEF Pieces
<1>2. no_of_peices = Last + 1 /\ Last \in Nat /\ Last \in Pieces
  BY Lengths, Sizes DEF Last
<1>3. PieceSize \in Nat /\ FileSize \in Nat
      /\ (Last + 1) * PieceSize = Last * PieceSize + PieceSize
  BY <1>2, ConstantsAssumption
<1>4. Bytes(Pieces) = Last * PieceSize + PieceSize + (TrueLength(Last) - PieceSize)
  BY <1>1, <1>2, <1>3 DEF Bytes
<1>5. Last * PieceSize \in Int /\ TrueLength(Last) = FileSize - Last * PieceSize
  BY <1>2, <1>3, Lengths
<1> DEFINE m == Last * PieceSize
<1> HIDE DEF m
<1>6. Bytes(Pieces) = m + PieceSize + ((FileSize - m) - PieceSize) /\ m \in Int
  BY <1>4, <1>5 DEF m
<1> QED
  BY <1>3, <1>6

-----------------------------------------------------------------------------
(* The counters                                                             *)

Done(stat) == { p \in Pieces : stat[p] = COMPLETED }

Counted(stat, down, more) ==
    down = SumOfLengths(Done(stat)) /\ more = FileSize - down

CounterInv == RequestInv /\ Counted(peice_status, downloaded, left)

LEMMA CountedMatches ==
    ASSUME Counted(peice_status, downloaded, left) PROVE CountersMatchPieces
<1>1. AllCompleted => Done(peice_status) = Pieces
  BY DEF AllCompleted, Done
<1>2. AllCompleted => downloaded = FileSize
  BY <1>1, AllBytes, SumIsBytes DEF Counted
<1> QED
  BY <1>2, ConstantsAssumption DEF Counted, CountersMatchPieces, Done

(* A search marks nothing as COMPLETED.                                      *)
LEMMA SearchCompletesNone ==
    ASSUME NEW c \in [Slots -> ConnType], NEW stat \in [Index -> Status],
           NEW rank \in [Pieces -> Nat], NEW pr \in [Slots -> PeerType],
           Searches(c, stat, rank, pr)
    PROVE  Done(peice_status') = Done(stat)
<1>1. AsksFrom(stat, OnTheWay(pr, wire'))
  BY SearchAsks
<1>2. \A q \in Pieces : peice_status'[q] = COMPLETED <=> stat[q] = COMPLETED
  BY <1>1 DEF AsksFrom, NOT_DOWNLOADED, DOWNLOADING, COMPLETED
<1> QED
  BY <1>2 DEF Done

(* The counters and the client's bit field change when a piece is accepted:    *)
(* they count and hold that piece.                                          *)
LEMMA CounterStep ==
    ASSUME RequestInv, [Next]_vars
    PROVE  \/ /\ Done(peice_status') = Done(peice_status)
              /\ UNCHANGED fileVars
           \/ \E p \in Pieces :
                /\ peice_status[p] = DOWNLOADING
                /\ Done(peice_status') = Done(peice_status) \cup {p}
                /\ bit_field' = set_bit_field(bit_field, p)
                /\ downloaded' = downloaded + RequestLength(p)
                /\ left' = left - RequestLength(p)
<1>1. ASSUME NEW i \in Slots, ReadsAndSearches(i)
      PROVE  \/ /\ Head(wire[i]).type # "PEICE"
                /\ Done(peice_status') = Done(peice_status)
             \/ /\ Head(wire[i]).type = "PEICE"
                /\ Head(wire[i]).index \in Pieces
                /\ peice_status[Head(wire[i]).index] = DOWNLOADING
                /\ Done(peice_status') = Done(peice_status) \cup {Head(wire[i]).index}
  <2>1. PICK c \in [Slots -> ConnType], stat \in [Index -> Status],
             rank \in [Pieces -> Nat], pr \in [Slots -> PeerType] :
                Prepared(i, c, stat, rank, pr) /\ Searches(c, stat, rank, pr)
    BY <1>1 DEF ReadsAndSearches
  <2>2. Done(peice_status') = Done(stat)
    BY <2>1, SearchCompletesNone
  <2>3. CASE Head(wire[i]).type # "PEICE"
    BY <2>1, <2>2, <2>3 DEF Prepared
  <2>4. CASE Head(wire[i]).type = "PEICE"
    <3>1. /\ Head(wire[i]).index \in Pieces
          /\ stat = [peice_status EXCEPT ![Head(wire[i]).index] = COMPLETED]
          /\ Flight(peer, wire, i, Head(wire[i]).index)
      BY <2>1, <2>4, PreparedFacts DEF Prepared
    <3>2. peice_status[Head(wire[i]).index] = DOWNLOADING
      BY <3>1, OneOnTheWay
    <3>3. Done(stat) = Done(peice_status) \cup {Head(wire[i]).index}
      BY <3>1, Sizes DEF Done, RequestInv, TypeOK
    <3> QED
      BY <2>2, <2>4, <3>1, <3>2, <3>3
  <2> QED
    BY <2>3, <2>4
<1>2. ASSUME NEW i \in Slots, AcceptPeice(i)
      PROVE  \E p \in Pieces :
                /\ peice_status[p] = DOWNLOADING
                /\ Done(peice_status') = Done(peice_status) \cup {p}
                /\ bit_field' = set_bit_field(bit_field, p)
                /\ downloaded' = downloaded + RequestLength(p)
                /\ left' = left - RequestLength(p)
  <2>1. /\ Head(wire[i]).type = "PEICE"
        /\ bit_field' = set_bit_field(bit_field, Head(wire[i]).index)
        /\ downloaded' = downloaded + RequestLength(Head(wire[i]).index)
        /\ left' = left - RequestLength(Head(wire[i]).index)
    BY <1>2 DEF AcceptPeice, Receives, PeiceLength
  <2> QED
    BY <1>1, <1>2, <2>1, PeiceForm
<1>3. ASSUME NEW i \in Slots, HandleUnchoke(i) \/ AcceptBitField(i) \/ HandleHave(i)
      PROVE  Done(peice_status') = Done(peice_status) /\ UNCHANGED fileVars
  <2>1. Head(wire[i]).type # "PEICE" /\ UNCHANGED fileVars
    BY <1>3 DEF HandleUnchoke, AcceptBitField, HandleHave, Receives, fileVars
  <2> QED
    BY <1>1, <1>3, <2>1, UnchokeForm, BitFieldForm, HaveForm
<1>4. ASSUME NEW i \in Slots,
             \/ HandleEndOfStream(i) \/ HandleChoke(i) \/ RejectBitField(i)
             \/ HaveWithoutBitField(i) \/ RejectPeice(i) \/ PeiceWriteFails(i)
      PROVE  UNCHANGED <<peice_status, fileVars>>
  BY <1>4 DEF HandleEndOfStream, HandleChoke, RejectBitField, HaveWithoutBitField,
              RejectPeice, PeiceWriteFails, fileVars
<1>5. ASSUME NEW i \in Slots, PeerSteps(i)
      PROVE  UNCHANGED <<peice_status, fileVars>>
  BY <1>5 DEF PeerSteps, PeerUnchokes, PeerChokes, PeerGains, PeerServes, PeerCloses,
              PeerSends, fileVars
<1>6. ASSUME Accept \/ Announce \/ ConnectNext \/ ConnectOverrun \/ Show \/ Quit
      PROVE  UNCHANGED <<peice_status, fileVars>>
  BY <1>6 DEF Accept, Announce, ConnectNext, ConnectOverrun, Show, Quit, fileVars
<1>7. ASSUME UNCHANGED vars PROVE UNCHANGED <<peice_status, fileVars>>
  BY <1>7 DEF vars, fileVars
<1>8. ASSUME UNCHANGED <<peice_status, fileVars>>
      PROVE  Done(peice_status') = Done(peice_status) /\ UNCHANGED fileVars
  BY <1>8
<1> QED
  BY <1>2, <1>3, <1>4, <1>5, <1>6, <1>7, <1>8 DEF Next, ReadFromConnection

LEMMA CounterStarts == Init => CounterInv
<1> SUFFICES ASSUME Init PROVE CounterInv
  OBVIOUS
<1>1. Done(peice_status) = {}
  BY Sizes DEF Init, Done, NOT_DOWNLOADED, COMPLETED
<1>2. SumOfLengths({}) = 0
  BY SumIsBytes, BytesOfNone
<1>3. downloaded = 0 /\ left = FileSize /\ FileSize \in Nat
  BY ConstantsAssumption DEF Init
<1>4. Counted(peice_status, downloaded, left)
  BY <1>1, <1>2, <1>3 DEF Counted
<1> QED
  BY <1>4, RequestStarts DEF CounterInv

(* A piece is counted once because an answer finds it DOWNLOADING.            *)
LEMMA CounterKept == CounterInv /\ [Next]_vars => CounterInv'
<1> SUFFICES ASSUME CounterInv, [Next]_vars PROVE CounterInv'
  OBVIOUS
<1>1. RequestInv /\ RequestInv'
  BY RequestStep DEF CounterInv
<1>2. downloaded \in Int /\ left \in Int
  BY <1>1 DEF RequestInv, TypeOK
<1>3. CASE /\ Done(peice_status') = Done(peice_status)
           /\ UNCHANGED fileVars
  BY <1>1, <1>3 DEF CounterInv, Counted, fileVars
<1>4. ASSUME NEW p \in Pieces,
             peice_status[p] = DOWNLOADING,
             Done(peice_status') = Done(peice_status) \cup {p},
             downloaded' = downloaded + RequestLength(p),
             left' = left - RequestLength(p)
      PROVE  CounterInv'
  <2> DEFINE S == Done(peice_status)
  <2>1. S \in SUBSET Pieces /\ S \cup {p} \in SUBSET Pieces /\ p \notin S
    BY <1>4 DEF Done, DOWNLOADING, COMPLETED
  <2>2. RequestLength(p) = TrueLength(p) /\ TrueLength(p) \in Int
    BY Lengths
  <2>3. SumOfLengths(S) = Bytes(S) /\ SumOfLengths(S \cup {p}) = Bytes(S \cup {p})
    BY <2>1, SumIsBytes
  <2>4. Bytes(S \cup {p}) = Bytes(S) + TrueLength(p)
    BY <2>1, BytesGrow
  <2>5. downloaded = SumOfLengths(S) /\ left = FileSize - downloaded
    BY DEF CounterInv, Counted
  <2> HIDE DEF S
  <2>6. /\ downloaded' = SumOfLengths(S \cup {p})
        /\ left' = FileSize - downloaded'
    BY <1>2, <1>4, <2>2, <2>3, <2>4, <2>5, ConstantsAssumption
  <2> QED
    BY <1>1, <1>4, <2>6 DEF S, CounterInv, Counted
<1> QED
  BY <1>1, <1>3, <1>4, CounterStep

(* downloaded is the size of the pieces that are COMPLETED, left the rest of   *)
(* the file, and left is 0 when all are: for every file and piece size.      *)
THEOREM CountersAreRight == Spec => []CountersMatchPieces
<1>1. CounterInv => CountersMatchPieces
  BY CountedMatches DEF CounterInv
<1> QED
  BY <1>1, CounterStarts, CounterKept, PTL DEF Spec

-----------------------------------------------------------------------------
(* What a search leaves of the views                                        *)

(* A request changes nothing of a peer but asked and pending.                *)
LEMMA SendRequestSides ==
    ASSUME NEW pr \in [Slots -> PeerType], NEW s, NEW p
    PROVE  \A t \in Slots :
            LET q == SendRequest(pr, s, p)[t]
            IN /\ q.open = pr[t].open /\ q.has = pr[t].has /\ q.choking = pr[t].choking
               /\ q.told = pr[t].told /\ q.interested = pr[t].interested
<1>1. CASE s \notin Slots
  BY <1>1 DEF SendRequest
<1>2. CASE s \in Slots
  <2> DEFINE more == IF pr[s].open /\ ~pr[s].choking /\ p \in pr[s].has
                     THEN pr[s].pending \cup {p} ELSE pr[s].pending
  <2>1. SendRequest(pr, s, p)
            = [pr EXCEPT ![s] = [pr[s] EXCEPT !.asked = TRUE, !.pending = more]]
    BY <1>2 DEF SendRequest
  <2>2. pr[s] \in PeerType
    BY <1>2
  <2> HIDE DEF more
  <2>3. LET q == [pr[s] EXCEPT !.asked = TRUE, !.pending = more]
        IN /\ q.open = pr[s].open /\ q.has = pr[s].has /\ q.choking = pr[s].choking
           /\ q.told = pr[s].told /\ q.interested = pr[s].interested
    BY <2>2 DEF PeerType
  <2> QED
    BY <1>2, <2>1, <2>3
<1> QED
  BY <1>1, <1>2

(* The tables c and pr next to those that a search from them leaves: a         *)
(* connection that becomes interesting is told so, and so is one that is     *)
(* sent a request.                                                          *)
Saw(c, pr, s) ==
    /\ conn'[s].bit_field = c[s].bit_field
    /\ peer'[s].open = pr[s].open
    /\ peer'[s].has = pr[s].has
    /\ peer'[s].choking = pr[s].choking
    /\ peer'[s].told = pr[s].told
    /\ pr[s].interested => peer'[s].interested
    /\ c[s].am_intersted => conn'[s].am_intersted
    /\ conn'[s].am_intersted /\ ~c[s].am_intersted /\ pr[s].open => peer'[s].interested
    /\ \A q \in Pieces : q \in peer'[s].pending /\ q \notin pr[s].pending
                            => conn'[s].am_intersted

LEMMA SearchSaw ==
    ASSUME NEW c \in [Slots -> ConnType], NEW stat \in [Index -> Status],
           NEW rank \in [Pieces -> Nat], NEW pr \in [Slots -> PeerType],
           Searches(c, stat, rank, pr), NEW s \in Slots
    PROVE  Saw(c, pr, s)
<1>1. PICK sent : FindRarest(c, stat, rank, pr, sent) \/ Commit(c, stat, rank, pr, sent)
  BY DEF Searches
<1>2. CASE conn' = c /\ peer' = pr
  BY <1>2 DEF Saw
<1>3. CASE Searched(c, stat, rank, pr)
  <2>1. PICK r \in Pieces, a \in Slots \cup {MAX_CONN}, b \in Slots \cup {MAX_CONN},
             told \in SUBSET Slots :
             SearchedAt(c, stat, rank, pr, r, a, b, told)
    BY <1>3 DEF Searched
  <2> DEFINE p1 == TellInterested(pr, told)
             p2 == SendRequest(p1, a, r)
  <2>2. /\ conn'[s].bit_field = c[s].bit_field
        /\ conn'[s].am_intersted <=> c[s].am_intersted \/ s \in told
    <3>1. c[s] \in ConnType
      OBVIOUS
    <3>2. conn'[s] = [c[s] EXCEPT
                       !.am_intersted = c[s].am_intersted \/ s \in told,
                       !.request_sent = c[s].request_sent \/ s \in {a, b},
                       !.intersted_peice = IF s = a THEN r
                                           ELSE IF s = b THEN -1 ELSE c[s].intersted_peice]
      BY <2>1 DEF SearchedAt
    <3> QED
      BY <3>1, <3>2 DEF ConnType
  <2>3. /\ p1 \in [Slots -> PeerType]
        /\ p1[s].open = pr[s].open /\ p1[s].has = pr[s].has
        /\ p1[s].choking = pr[s].choking /\ p1[s].told = pr[s].told
        /\ p1[s].pending = pr[s].pending
        /\ p1[s].interested <=> pr[s].interested \/ (s \in told /\ pr[s].open)
    <3>1. pr[s] \in PeerType
      OBVIOUS
    <3>2. p1[s] = [pr[s] EXCEPT !.interested =
                        pr[s].interested \/ (s \in told /\ pr[s].open)]
      BY DEF TellInterested
    <3>3. p1 \in [Slots -> PeerType]
      BY TellInterestedType
    <3> HIDE DEF p1
    <3> QED
      BY <3>1, <3>2, <3>3 DEF PeerType
  <2> HIDE DEF p1
  <2>4. /\ p2 \in [Slots -> PeerType]
        /\ p2[s].open = p1[s].open /\ p2[s].has = p1[s].has
        /\ p2[s].choking = p1[s].choking /\ p2[s].told = p1[s].told
        /\ p2[s].interested = p1[s].interested
        /\ \A q \in Pieces : q \in p2[s].pending /\ q \notin p1[s].pending => s = a
    BY <2>3, SendRequestSides, SendRequestFacts
  <2> HIDE DEF p2
  <2>5. peer' = SendRequest(p2, b, -1)
    BY <2>1 DEF SearchedAt, p1, p2
  <2>6. /\ peer'[s].open = p2[s].open /\ peer'[s].has = p2[s].has
        /\ peer'[s].choking = p2[s].choking /\ peer'[s].told = p2[s].told
        /\ peer'[s].interested = p2[s].interested
        /\ peer'[s].pending = p2[s].pending
    BY <2>4, <2>5, SendRequestSides, SendRequestFacts, Sizes
  <2>7. s = a => s \in told \/ c[s].am_intersted
    BY <2>1 DEF SearchedAt
  <2> QED
    BY <2>2, <2>3, <2>4, <2>6, <2>7 DEF Saw
<1> QED
  BY <1>1, <1>2, <1>3, SearchFacts DEF Commit

-----------------------------------------------------------------------------
(* The messages that are on the way                                         *)

Says(m) == m.type \in {"CHOKE", "UNCHOKE"}

(* A peer chokes or not as the last of the messages q says, or else as the      *)
(* client has recorded.                                                     *)
ChokingKnown(recorded, q, choking) ==
    /\ (\A k \in 1 .. Len(q) : ~Says(q[k])) => (recorded <=> choking)
    /\ \A k \in 1 .. Len(q) :
        Says(q[k]) /\ (\A l \in 1 .. Len(q) : l > k => ~Says(q[l]))
            => (q[k].type = "CHOKE" <=> choking)

Tells(q, p) == \E k \in 1 .. Len(q) : q[k].type = "HAVE" /\ q[k].index = p

(* A peer holds what its greeting says or, when it was read, what the client   *)
(* has recorded, and what it has told since.                                *)
HoldingsKnown(recorded, q, has) ==
    /\ (\A k \in 1 .. Len(q) : q[k].type # "BIT_FIELD") =>
        \A p \in Pieces : p \in has <=> p \in recorded \/ Tells(q, p)
    /\ \A k \in 1 .. Len(q) : q[k].type = "BIT_FIELD" =>
        \A p \in Pieces : p \in has <=> p \in q[k].bits \/ Tells(q, p)

(* The positions of a sequence whose first member is taken away.              *)
LEMMA TailPositions ==
    ASSUME NEW q \in Seq(Message), q # <<>>
    PROVE  /\ Tail(q) \in Seq(Message) /\ Len(Tail(q)) \in Nat
           /\ Head(q) = q[1] /\ 1 \in 1 .. Len(q)
           /\ \A k \in 1 .. Len(Tail(q)) : Tail(q)[k] = q[k + 1] /\ k + 1 \in 1 .. Len(q)
           /\ \A k \in 1 .. Len(q) : k = 1 \/ \E l \in 1 .. Len(Tail(q)) : k = l + 1
<1>1. /\ Tail(q) \in Seq(Message) /\ Len(Tail(q)) = Len(q) - 1 /\ Len(q) \in Nat
      /\ Head(q) = q[1] /\ 1 \in 1 .. Len(q)
      /\ \A k \in 1 .. Len(Tail(q)) : Tail(q)[k] = q[k + 1] /\ k + 1 \in 1 .. Len(q)
  BY TailFacts
<1>2. ASSUME NEW k \in 1 .. Len(q), k # 1
      PROVE  k - 1 \in 1 .. Len(Tail(q)) /\ k = (k - 1) + 1
  BY <1>1, <1>2
<1> QED
  BY <1>1, <1>2

(* Reading a choke or unchoke message records it.                            *)
LEMMA ChokingRead ==
    ASSUME NEW b \in BOOLEAN, NEW b1 \in BOOLEAN, NEW choking \in BOOLEAN,
           NEW q \in Seq(Message), q # <<>>,
           ChokingKnown(b, q, choking),
           Head(q).type = "CHOKE" => b1,
           Head(q).type = "UNCHOKE" => ~b1,
           ~Says(Head(q)) => (b1 <=> b)
    PROVE  ChokingKnown(b1, Tail(q), choking)
<1> DEFINE t == Tail(q)
<1>1. /\ Len(t) \in Nat /\ Len(q) \in Nat /\ Head(q) = q[1] /\ 1 \in 1 .. Len(q)
      /\ \A k \in 1 .. Len(t) : t[k] = q[k + 1] /\ k + 1 \in 1 .. Len(q)
      /\ \A k \in 1 .. Len(q) : k = 1 \/ \E l \in 1 .. Len(t) : k = l + 1
  BY TailPositions
<1> HIDE DEF t
<1>2. ASSUME \A k \in 1 .. Len(t) : ~Says(t[k])
      PROVE  b1 <=> choking
  <2>1. \A k \in 1 .. Len(q) : k # 1 => ~Says(q[k])
    BY <1>1, <1>2
  <2>2. CASE Says(q[1])
    <3>1. q[1].type = "CHOKE" <=> choking
      <4>1. \A l \in 1 .. Len(q) : l > 1 => ~Says(q[l])
        BY <2>1
      <4> QED
        BY <1>1, <2>2, <4>1 DEF ChokingKnown
    <3> QED
      BY <1>1, <2>2, <3>1 DEF Says
  <2>3. CASE ~Says(q[1])
    <3>1. \A k \in 1 .. Len(q) : ~Says(q[k])
      BY <2>1, <2>3
    <3> QED
      BY <1>1, <2>3, <3>1 DEF ChokingKnown
  <2> QED
    BY <2>2, <2>3
<1>3. ASSUME NEW k \in 1 .. Len(t), Says(t[k]),
             \A l \in 1 .. Len(t) : l > k => ~Says(t[l])
      PROVE  t[k].type = "CHOKE" <=> choking
  <2>1. k + 1 \in 1 .. Len(q) /\ t[k] = q[k + 1]
    BY <1>1
  <2>2. ASSUME NEW m \in 1 .. Len(q), m > k + 1 PROVE ~Says(q[m])
    <3>1. m # 1
      BY <1>1, <2>2
    <3>2. PICK l \in 1 .. Len(t) : m = l + 1
      BY <1>1, <3>1
    <3>3. l > k
      BY <1>1, <2>2, <3>2
    <3> QED
      BY <1>1, <1>3, <3>2, <3>3
  <2> QED
    BY <1>3, <2>1, <2>2 DEF ChokingKnown
<1> QED
  BY <1>2, <1>3 DEF ChokingKnown, t

(* A choke or unchoke message says what the peer does from then on.          *)
LEMMA ChokingSent ==
    ASSUME NEW b \in BOOLEAN, NEW choking \in BOOLEAN, NEW choking1 \in BOOLEAN,
           NEW q \in Seq(Message), NEW m \in Message,
           ChokingKnown(b, q, choking),
           m.type = "CHOKE" => choking1,
           m.type = "UNCHOKE" => ~choking1,
           ~Says(m) => (choking1 <=> choking)
    PROVE  ChokingKnown(b, Append(q, m), choking1)
<1> DEFINE t == Append(q, m)
           n == Len(q) + 1
<1>1. /\ Len(q) \in Nat /\ Len(t) = n /\ t[n] = m
      /\ \A k \in 1 .. Len(q) : t[k] = q[k]
  BY AppendFacts
<1>2. /\ n \in 1 .. Len(t) /\ \A k \in 1 .. Len(q) : k \in 1 .. Len(t) /\ n > k
      /\ \A k \in 1 .. Len(t) : k = n \/ k \in 1 .. Len(q)
  BY <1>1
<1> HIDE DEF t, n
<1>3. ASSUME \A k \in 1 .. Len(t) : ~Says(t[k])
      PROVE  b <=> choking1
  <2>1. ~Says(m) /\ \A k \in 1 .. Len(q) : ~Says(q[k])
    BY <1>1, <1>2, <1>3
  <2> QED
    BY <2>1 DEF ChokingKnown
<1>4. ASSUME NEW k \in 1 .. Len(t), Says(t[k]),
             \A l \in 1 .. Len(t) : l > k => ~Says(t[l])
      PROVE  t[k].type = "CHOKE" <=> choking1
  <2>1. CASE k = n
    BY <1>1, <1>4, <2>1 DEF Says
  <2>2. CASE k \in 1 .. Len(q)
    <3>1. ~Says(m)
      BY <1>1, <1>2, <1>4, <2>2
    <3>2. \A l \in 1 .. Len(q) : l > k => ~Says(q[l])
      BY <1>1, <1>2, <1>4
    <3> QED
      BY <1>1, <1>4, <2>2, <3>1, <3>2 DEF ChokingKnown
  <2> QED
    BY <1>2, <2>1, <2>2
<1> QED
  BY <1>3, <1>4 DEF ChokingKnown, t

(* A have message of the first is told by the others or recorded.             *)
LEMMA HoldingsRead ==
    ASSUME NEW b, NEW b1, NEW has, NEW q \in Seq(Message), q # <<>>,
           HoldingsKnown(b, q, has),
           \A k \in 1 .. Len(q) : q[k].type = "BIT_FIELD" => k = 1,
           Head(q).type = "BIT_FIELD" => b1 = Head(q).bits,
           Head(q).type = "HAVE" =>
                \A p \in Pieces : p \in b1 <=> p \in b \/ p = Head(q).index,
           Head(q).type \notin {"BIT_FIELD", "HAVE"} => b1 = b
    PROVE  HoldingsKnown(b1, Tail(q), has)
<1> DEFINE t == Tail(q)
<1>1. /\ Len(t) \in Nat /\ Len(q) \in Nat /\ Head(q) = q[1] /\ 1 \in 1 .. Len(q)
      /\ \A k \in 1 .. Len(t) : t[k] = q[k + 1] /\ k + 1 \in 1 .. Len(q)
      /\ \A k \in 1 .. Len(q) : k = 1 \/ \E l \in 1 .. Len(t) : k = l + 1
  BY TailPositions
<1> HIDE DEF t
<1>2. \A k \in 1 .. Len(t) : t[k].type # "BIT_FIELD"
  <2> TAKE k \in 1 .. Len(t)
  <2>1. k + 1 # 1
    BY <1>1
  <2> QED
    BY <1>1, <2>1
<1>3. ASSUME NEW p \in Pieces
      PROVE  Tells(q, p) <=> Tells(t, p) \/ (q[1].type = "HAVE" /\ q[1].index = p)
  <2>1. ASSUME Tells(q, p)
        PROVE  Tells(t, p) \/ (q[1].type = "HAVE" /\ q[1].index = p)
    <3>1. PICK k \in 1 .. Len(q) : q[k].type = "HAVE" /\ q[k].index = p
      BY <2>1 DEF Tells
    <3>2. CASE k = 1
      BY <3>1, <3>2
    <3>3. ASSUME NEW l \in 1 .. Len(t), k = l + 1 PROVE Tells(t, p)
      <4>1. t[l] = q[k]
        BY <1>1, <3>3
      <4> QED
        BY <3>1, <4>1 DEF Tells
    <3> QED
      BY <1>1, <3>2, <3>3
  <2>2. ASSUME Tells(t, p) PROVE Tells(q, p)
    BY <1>1, <2>2 DEF Tells
  <2> QED
    BY <1>1, <2>1, <2>2 DEF Tells
<1>4. ASSUME NEW p \in Pieces
      PROVE  p \in has <=> p \in b1 \/ Tells(t, p)
  <2>1. CASE q[1].type = "BIT_FIELD"
    <3>1. p \in has <=> p \in q[1].bits \/ Tells(q, p)
      BY <1>1, <2>1 DEF HoldingsKnown
    <3> QED
      BY <1>1, <1>3, <2>1, <3>1
  <2>2. CASE q[1].type # "BIT_FIELD"
    <3>1. \A k \in 1 .. Len(q) : q[k].type # "BIT_FIELD"
      BY <2>2
    <3>2. p \in has <=> p \in b \/ Tells(q, p)
      BY <3>1 DEF HoldingsKnown
    <3> QED
      BY <1>1, <1>3, <2>2, <3>2
  <2> QED
    BY <2>1, <2>2
<1> QED
  BY <1>2, <1>4 DEF HoldingsKnown, t

(* A have message tells of the piece that was gained.                        *)
LEMMA HoldingsSent ==
    ASSUME NEW b, NEW has, NEW has1, NEW q \in Seq(Message), NEW m \in Message,
           HoldingsKnown(b, q, has),
           m.type # "BIT_FIELD",
           m.type = "HAVE" => \A p \in Pieces : p \in has1 <=> p \in has \/ p = m.index,
           m.type # "HAVE" => has1 = has
    PROVE  HoldingsKnown(b, Append(q, m), has1)
<1> DEFINE t == Append(q, m)
           n == Len(q) + 1
<1>1. /\ Len(q) \in Nat /\ Len(t) = n /\ t[n] = m
      /\ \A k \in 1 .. Len(q) : t[k] = q[k]
  BY AppendFacts
<1>2. /\ n \in 1 .. Len(t) /\ \A k \in 1 .. Len(q) : k \in 1 .. Len(t)
      /\ \A k \in 1 .. Len(t) : k = n \/ k \in 1 .. Len(q)
  BY <1>1
<1> HIDE DEF t, n
<1>3. ASSUME NEW p \in Pieces
      PROVE  Tells(t, p) <=> Tells(q, p) \/ (m.type = "HAVE" /\ m.index = p)
  BY <1>1, <1>2 DEF Tells
<1>4. ASSUME \A k \in 1 .. Len(t) : t[k].type # "BIT_FIELD", NEW p \in Pieces
      PROVE  p \in has1 <=> p \in b \/ Tells(t, p)
  <2>1. \A k \in 1 .. Len(q) : q[k].type # "BIT_FIELD"
    BY <1>1, <1>2, <1>4
  <2>2. p \in has <=> p \in b \/ Tells(q, p)
    BY <2>1 DEF HoldingsKnown
  <2> QED
    BY <1>3, <2>2
<1>5. ASSUME NEW k \in 1 .. Len(t), t[k].type = "BIT_FIELD", NEW p \in Pieces
      PROVE  p \in has1 <=> p \in t[k].bits \/ Tells(t, p)
  <2>1. k \in 1 .. Len(q) /\ t[k] = q[k]
    BY <1>1, <1>2, <1>5
  <2>2. p \in has <=> p \in q[k].bits \/ Tells(q, p)
    BY <1>5, <2>1 DEF HoldingsKnown
  <2> QED
    BY <1>3, <2>1, <2>2
<1> QED
  BY <1>4, <1>5 DEF HoldingsKnown, t

-----------------------------------------------------------------------------
(* What a step does to the two ends of a connection                          *)

SamePeer(s) == /\ peer'[s].open = peer[s].open
               /\ peer'[s].has = peer[s].has
               /\ peer'[s].choking = peer[s].choking

Unmoved(s) ==
    /\ SamePeer(s)
    /\ wire'[s] = wire[s]
    /\ conn'[s].in_use = conn[s].in_use
    /\ conn'[s].peer_chocking = conn[s].peer_chocking
    /\ conn'[s].bit_field = conn[s].bit_field

HasRead(s) ==
    LET m == Head(wire[s])
    IN /\ SamePeer(s)
       /\ wire[s] # <<>> /\ wire'[s] = Tail(wire[s])
       /\ conn[s].in_use /\ conn'[s].in_use
       /\ m.type = "CHOKE" => conn'[s].peer_chocking
       /\ m.type = "UNCHOKE" => ~conn'[s].peer_chocking
       /\ ~Says(m) => conn'[s].peer_chocking = conn[s].peer_chocking
       /\ m.type = "BIT_FIELD" => conn'[s].bit_field = m.bits
       /\ m.type = "HAVE" =>
            conn[s].bit_field # NULL /\ conn'[s].bit_field = set_bit_field(conn[s].bit_field, m.index)
       /\ m.type \notin {"BIT_FIELD", "HAVE"} => conn'[s].bit_field = conn[s].bit_field

HasSent(s) ==
    \E m \in Message :
        /\ m.type # "BIT_FIELD"
        /\ wire'[s] = Append(wire[s], m)
        /\ conn'[s] = conn[s]
        /\ peer'[s].open = peer[s].open
        /\ m.type = "CHOKE" => peer'[s].choking
        /\ m.type = "UNCHOKE" => ~peer'[s].choking
        /\ ~Says(m) => peer'[s].choking = peer[s].choking
        /\ m.type = "HAVE" => peer'[s].has = peer[s].has \cup {m.index}
        /\ m.type # "HAVE" => peer'[s].has = peer[s].has

Opened(s) ==
    /\ ~conn[s].in_use /\ conn'[s].in_use
    /\ conn'[s].peer_chocking /\ ~conn'[s].am_intersted
    /\ \E has \in SUBSET Pieces : peer'[s] = NewPeer(has) /\ wire'[s] \in Greetings(has)

SlotStep(s) ==
    Unmoved(s) \/ HasRead(s) \/ HasSent(s) \/ ~peer'[s].open \/ Opened(s)

(* Nobody is told anything.                                                  *)
Calm(s) ==
    /\ conn[s].in_use => conn'[s].am_intersted = conn[s].am_intersted
    /\ peer[s].open /\ peer'[s].open =>
        peer'[s].interested = peer[s].interested /\ peer'[s].told = peer[s].told

(* A peer that can be reached is that of a connection in use.                 *)
OpenUsed == \A s \in Slots : peer[s].open => conn[s].in_use

LEMMA UnmovedStep ==
    ASSUME NEW s \in Slots, conn'[s] = conn[s], wire'[s] = wire[s], peer'[s] = peer[s]
    PROVE  SlotStep(s) /\ Calm(s)
BY DEF SlotStep, Unmoved, SamePeer, Calm

LEMMA CloseSlotStep ==
    ASSUME RequestInv, NEW i \in Slots, CloseSlot(i), NEW s \in Slots
    PROVE  SlotStep(s) /\ Calm(s)
<1>1. /\ conn \in [Slots -> ConnType] /\ peer \in [Slots -> PeerType]
      /\ wire \in [Slots -> Seq(Message)]
  BY DEF RequestInv, TypeOK
<1>2. CASE s = i
  <2>1. ~peer'[s].open /\ conn'[s].am_intersted = conn[s].am_intersted
    BY <1>1, <1>2 DEF CloseSlot, Closed, NoPeer, ConnType
  <2> QED
    BY <2>1 DEF SlotStep, Calm
<1>3. CASE s # i
  BY <1>1, <1>3, UnmovedStep DEF CloseSlot, Closed
<1> QED
  BY <1>2, <1>3

LEMMA ChokeSlotStep ==
    ASSUME RequestInv, NEW i \in Slots, HandleChoke(i), NEW s \in Slots
    PROVE  SlotStep(s) /\ Calm(s)
<1>1. /\ conn \in [Slots -> ConnType] /\ peer \in [Slots -> PeerType]
      /\ wire \in [Slots -> Seq(Message)]
  BY DEF RequestInv, TypeOK
<1>2. /\ conn[i].in_use /\ wire[i] # <<>> /\ Head(wire[i]).type = "CHOKE"
      /\ wire' = [wire EXCEPT ![i] = Tail(wire[i])]
      /\ conn' = [conn EXCEPT ![i].peer_chocking = TRUE]
      /\ peer' = peer
  BY DEF HandleChoke, Receives, Consume
<1>3. CASE s = i
  <2>1. /\ conn'[s].peer_chocking /\ conn'[s].in_use
        /\ conn'[s].bit_field = conn[s].bit_field
        /\ conn'[s].am_intersted = conn[s].am_intersted
        /\ wire'[s] = Tail(wire[s])
    BY <1>1, <1>2, <1>3 DEF ConnType
  <2> QED
    BY <1>2, <1>3, <2>1 DEF SlotStep, HasRead, Says, SamePeer, Calm
<1>4. CASE s # i
  BY <1>1, <1>2, <1>4, UnmovedStep
<1> QED
  BY <1>3, <1>4

LEMMA HandshakeSlotStep ==
    ASSUME RequestInv, OpenUsed, NEW i \in Slots, NEW bits, ~conn[i].in_use,
           HandshakeDone(i, bits) \/ HandshakeRefused(i) \/ HandshakeLost(i),
           NEW s \in Slots
    PROVE  SlotStep(s) /\ Calm(s)
<1>1. /\ conn \in [Slots -> ConnType] /\ peer \in [Slots -> PeerType]
      /\ wire \in [Slots -> Seq(Message)]
  BY DEF RequestInv, TypeOK
<1>2. CASE s # i
  BY <1>1, <1>2, UnmovedStep DEF HandshakeDone, HandshakeRefused, HandshakeLost
<1>3. CASE s = i /\ (HandshakeRefused(i) \/ HandshakeLost(i))
  <2>1. peer' = peer /\ ~peer[i].open
    BY <1>3 DEF HandshakeRefused, HandshakeLost, OpenUsed
  <2> QED
    BY <1>3, <2>1 DEF SlotStep, Calm
<1>4. CASE s = i /\ HandshakeDone(i, bits)
  <2>1. PICK has \in Holdings :
          /\ peer' = [peer EXCEPT ![i] = NewPeer(has)]
          /\ \E g \in Greetings(has) : wire' = [wire EXCEPT ![i] = g]
    BY <1>4 DEF HandshakeDone
  <2>2. conn' = [conn EXCEPT ![i] = [NewConn(conn[i]) EXCEPT !.bit_field = bits]]
    BY <1>4 DEF HandshakeDone
  <2>3. LET n == [NewConn(conn[i]) EXCEPT !.bit_field = bits]
        IN n.in_use /\ n.peer_chocking /\ ~n.am_intersted
    BY <1>1 DEF NewConn, ConnType
  <2>4. conn'[i].in_use /\ conn'[i].peer_chocking /\ ~conn'[i].am_intersted
    BY <1>1, <2>2, <2>3
  <2>5. has \in SUBSET Pieces
    BY ConstantsAssumption
  <2>6. peer'[i] = NewPeer(has) /\ wire'[i] \in Greetings(has)
    BY <1>1, <2>1
  <2>7. ~peer[i].open
    BY DEF OpenUsed
  <2> QED
    BY <1>4, <2>4, <2>5, <2>6, <2>7 DEF SlotStep, Opened, Calm
<1> QED
  BY <1>2, <1>3, <1>4

LEMMA PeerSlotStep ==
    ASSUME RequestInv, NEW i \in Slots, PeerSteps(i), NEW s \in Slots
    PROVE  SlotStep(s) /\ Calm(s)
<1>1. /\ conn \in [Slots -> ConnType] /\ peer \in [Slots -> PeerType]
      /\ wire \in [Slots -> Seq(Message)] /\ peer[i] \in PeerType
  BY DEF RequestInv, TypeOK
<1>2. ASSUME NEW m \in Message, PeerSends(i, m), m.type # "BIT_FIELD", s = i,
             /\ peer'[s].open = peer[s].open
             /\ peer'[s].interested = peer[s].interested
             /\ peer'[s].told = peer[s].told
             /\ m.type = "CHOKE" => peer'[s].choking
             /\ m.type = "UNCHOKE" => ~peer'[s].choking
             /\ ~Says(m) => peer'[s].choking = peer[s].choking
             /\ m.type = "HAVE" => peer'[s].has = peer[s].has \cup {m.index}
             /\ m.type # "HAVE" => peer'[s].has = peer[s].has
      PROVE  SlotStep(s) /\ Calm(s)
  <2>1. wire'[s] = Append(wire[s], m) /\ conn' = conn
    BY <1>1, <1>2 DEF PeerSends
  <2> QED
    BY <1>2, <2>1 DEF SlotStep, HasSent, Calm
<1>3. ASSUME s # i PROVE SlotStep(s) /\ Calm(s)
  <2>1. /\ conn' = conn
        /\ \E m : wire' = [wire EXCEPT ![i] = Append(wire[i], m)]
    BY DEF PeerSteps, PeerUnchokes, PeerChokes, PeerGains, PeerServes, PeerCloses, PeerSends
  <2>2. peer'[s] = peer[s]
    BY <1>1, <1>3
       DEF PeerSteps, PeerUnchokes, PeerChokes, PeerGains, PeerServes, PeerCloses
  <2> QED
    BY <1>1, <1>3, <2>1, <2>2, UnmovedStep
<1>4. ASSUME s = i, PeerUnchokes(i) PROVE SlotStep(s) /\ Calm(s)
  <2>1. Unchoke \in Message /\ Unchoke.type = "UNCHOKE"
    BY DEF Message, Unchoke
  <2>2. LET q == [peer[i] EXCEPT !.choking = FALSE]
        IN /\ q.open = peer[i].open /\ q.interested = peer[i].interested
           /\ q.told = peer[i].told /\ q.has = peer[i].has /\ ~q.choking
    BY <1>1 DEF PeerType
  <2>3. peer'[i] = [peer[i] EXCEPT !.choking = FALSE]
    BY <1>1, <1>4 DEF PeerUnchokes
  <2> QED
    BY <1>2, <1>4, <2>1, <2>2, <2>3 DEF PeerUnchokes, Says
<1>5. ASSUME s = i, PeerChokes(i) PROVE SlotStep(s) /\ Calm(s)
  <2>1. Choke \in Message /\ Choke.type = "CHOKE"
    BY DEF Message, Choke
  <2>2. LET q == [peer[i] EXCEPT !.choking = TRUE, !.pending = {}]
        IN /\ q.open = peer[i].open /\ q.interested = peer[i].interested
           /\ q.told = peer[i].told /\ q.has = peer[i].has /\ q.choking
    BY <1>1 DEF PeerType
  <2>3. peer'[i] = [peer[i] EXCEPT !.choking = TRUE, !.pending = {}]
    BY <1>1, <1>5 DEF PeerChokes
  <2> QED
    BY <1>2, <1>5, <2>1, <2>2, <2>3 DEF PeerChokes, Says
<1>6. ASSUME s = i, NEW p \in Pieces, PeerGains(i, p) PROVE SlotStep(s) /\ Calm(s)
  <2>1. Have(p) \in Message /\ Have(p).type = "HAVE" /\ Have(p).index = p
    BY DEF Message, Have
  <2>2. LET q == [peer[i] EXCEPT !.has = peer[i].has \cup {p}]
        IN /\ q.open = peer[i].open /\ q.interested = peer[i].interested
           /\ q.told = peer[i].told /\ q.choking = peer[i].choking
           /\ q.has = peer[i].has \cup {p}
    BY <1>1 DEF PeerType
  <2>3. peer'[i] = [peer[i] EXCEPT !.has = peer[i].has \cup {p}]
    BY <1>1, <1>6 DEF PeerGains
  <2> QED
    BY <1>2, <1>6, <2>1, <2>2, <2>3 DEF PeerGains, Says
<1>7. ASSUME s = i, NEW p \in Pieces, PeerServes(i, p) PROVE SlotStep(s) /\ Calm(s)
  <2>1. PICK good \in BOOLEAN : PeerSends(i, Peice(p, good))
    BY <1>7 DEF PeerServes
  <2>2. Peice(p, good) \in Message /\ Peice(p, good).type = "PEICE"
    BY DEF Message, Peice
  <2>3. LET q == [peer[i] EXCEPT !.pending = peer[i].pending \ {p}]
        IN /\ q.open = peer[i].open /\ q.interested = peer[i].interested
           /\ q.told = peer[i].told /\ q.choking = peer[i].choking
           /\ q.has = peer[i].has
    BY <1>1 DEF PeerType
  <2>4. peer'[i] = [peer[i] EXCEPT !.pending = peer[i].pending \ {p}]
    BY <1>1, <1>7 DEF PeerServes
  <2> QED
    BY <1>2, <1>7, <2>1, <2>2, <2>3, <2>4 DEF Says
<1>8. ASSUME s = i, PeerCloses(i) PROVE SlotStep(s) /\ Calm(s)
  <2>1. LET q == [peer[i] EXCEPT !.open = FALSE, !.pending = {}] IN ~q.open
    BY <1>1 DEF PeerType
  <2>2. peer'[i] = [peer[i] EXCEPT !.open = FALSE, !.pending = {}] /\ conn' = conn
    BY <1>1, <1>8 DEF PeerCloses, PeerSends
  <2> QED
    BY <1>8, <2>1, <2>2 DEF SlotStep, Calm
<1> QED
  BY <1>3, <1>4, <1>5, <1>6, <1>7, <1>8 DEF PeerSteps

(* A step that reads no message of interest to a search.                     *)
LEMMA CalmSlotStep ==
    ASSUME RequestInv, OpenUsed, [Next]_vars, NEW s \in Slots
    PROVE  (\E i \in Slots : ReadsAndSearches(i)) \/ (SlotStep(s) /\ Calm(s))
<1>1. ASSUME UNCHANGED <<conn, wire, peer>> PROVE SlotStep(s) /\ Calm(s)
  BY <1>1, UnmovedStep
<1>2. ASSUME NEW i \in Slots, ReadFromConnection(i)
      PROVE  ReadsAndSearches(i) \/ (SlotStep(s) /\ Calm(s))
  <2>1. CASE HandleEndOfStream(i) \/ RejectBitField(i) \/ RejectPeice(i)
    BY <2>1, CloseSlotStep DEF HandleEndOfStream, RejectBitField, RejectPeice
  <2>2. CASE HaveWithoutBitField(i) \/ PeiceWriteFails(i)
    BY <1>1, <2>2 DEF HaveWithoutBitField, PeiceWriteFails
  <2> QED
    BY <1>2, <2>1, <2>2, ChokeSlotStep, UnchokeForm, BitFieldForm, HaveForm, PeiceForm
       DEF ReadFromConnection
<1>3. CASE Accept \/ ConnectNext
  <2>1. /\ get_free_sock \in Slots /\ ~conn[get_free_sock].in_use
        /\ \/ \E bits : HandshakeDone(get_free_sock, bits)
           \/ HandshakeRefused(get_free_sock)
           \/ HandshakeLost(get_free_sock)
           \/ UNCHANGED <<conn, wire, peer>>
    BY <1>3, FreeSlotFacts DEF Accept, ConnectNext
  <2> QED
    BY <1>1, <2>1, HandshakeSlotStep
<1>4. CASE Announce \/ ConnectOverrun \/ Show \/ Quit
  BY <1>1, <1>4 DEF Announce, ConnectOverrun, Show, Quit
<1>5. CASE UNCHANGED vars
  BY <1>1, <1>5 DEF vars
<1> QED
  BY <1>2, <1>3, <1>4, <1>5, PeerSlotStep DEF Next

(* A handler that may search does to the others' connections nothing, and to   *)
(* its own what the message says.                                           *)
LEMMA SearchSlotStep ==
    ASSUME RequestInv, NEW i \in Slots, ReadsAndSearches(i), NEW s \in Slots
    PROVE  SlotStep(s)
<1>1. PICK c \in [Slots -> ConnType], stat \in [Index -> Status],
           rank \in [Pieces -> Nat], pr \in [Slots -> PeerType] :
              Prepared(i, c, stat, rank, pr) /\ Recorded(i, c, stat, pr)
                /\ Searches(c, stat, rank, pr)
  BY DEF ReadsAndSearches
<1>2. wire \in [Slots -> Seq(Message)] /\ wire[i] # <<>>
      /\ wire' = [wire EXCEPT ![i] = Tail(wire[i])]
  BY <1>1 DEF RequestInv, TypeOK, Prepared
<1>3. Saw(c, pr, s)
  BY <1>1, SearchSaw
<1>4. conn'[s].in_use = c[s].in_use /\ conn'[s].peer_chocking = c[s].peer_chocking
  BY <1>1, SearchDigest DEF Searches, Digest
<1>5. SamePeer(s)
  BY <1>1, <1>3 DEF Recorded, SameSide, Saw, SamePeer
<1>6. conn'[s].bit_field = c[s].bit_field
  BY <1>3 DEF Saw
<1>7. CASE s # i
  <2>1. c[s] = conn[s] /\ wire'[s] = wire[s]
    BY <1>1, <1>2, <1>7 DEF Prepared
  <2> QED
    BY <1>4, <1>5, <1>6, <2>1 DEF SlotStep, Unmoved
<1>8. CASE s = i
  <2> DEFINE m == Head(wire[i])
  <2>1. /\ conn[i].in_use /\ c[i].in_use
        /\ m.type = "UNCHOKE" => ~c[i].peer_chocking
        /\ m.type # "UNCHOKE" => c[i].peer_chocking = conn[i].peer_chocking
        /\ m.type = "BIT_FIELD" => c[i].bit_field = m.bits
        /\ m.type = "HAVE" => /\ conn[i].bit_field # NULL
                              /\ c[i].bit_field = set_bit_field(conn[i].bit_field, m.index)
        /\ m.type \notin {"BIT_FIELD", "HAVE"} => c[i].bit_field = conn[i].bit_field
        /\ m.type \in {"UNCHOKE", "HAVE", "BIT_FIELD", "PEICE"}
    BY <1>1 DEF Recorded
  <2>2. wire'[i] = Tail(wire[i])
    BY <1>2
  <2> HIDE DEF m
  <2>3. /\ conn[i].in_use /\ conn'[i].in_use
        /\ m.type = "CHOKE" => conn'[i].peer_chocking
        /\ m.type = "UNCHOKE" => ~conn'[i].peer_chocking
        /\ ~Says(m) => conn'[i].peer_chocking = conn[i].peer_chocking
    BY <1>4, <1>8, <2>1 DEF Says
  <2>4. /\ m.type = "BIT_FIELD" => conn'[i].bit_field = m.bits
        /\ m.type = "HAVE" =>
            /\ conn[i].bit_field # NULL
            /\ conn'[i].bit_field = set_bit_field(conn[i].bit_field, m.index)
        /\ m.type \notin {"BIT_FIELD", "HAVE"} => conn'[i].bit_field = conn[i].bit_field
    BY <1>6, <1>8, <2>1
  <2> QED
    BY <1>2, <1>5, <1>8, <2>2, <2>3, <2>4 DEF SlotStep, HasRead, m
<1> QED
  BY <1>7, <1>8

LEMMA EverySlotStep ==
    ASSUME RequestInv, OpenUsed, [Next]_vars, NEW s \in Slots
    PROVE  SlotStep(s)
BY CalmSlotStep, SearchSlotStep

-----------------------------------------------------------------------------
(* Choking and interest                                                     *)

(* What is on its way was asked of a peer that had been told of interest.     *)
AskedOfTold ==
    \A s \in Slots, q \in Pieces : Flight(peer, wire, s, q) => conn[s].am_intersted

ChokesKnown ==
    \A s \in Slots :
        peer[s].open => ChokingKnown(conn[s].peer_chocking, wire[s], peer[s].choking)

InterestKnown ==
    \A s \in Slots :
        peer[s].open /\ conn[s].am_intersted /\ ~AllCompleted => peer[s].interested

ViewInv == RequestInv /\ OpenUsed /\ AskedOfTold /\ ChokesKnown /\ InterestKnown

(* A finished download stays finished.                                       *)
LEMMA CompletedStays ==
    ASSUME RequestInv, [Next]_vars, AllCompleted
    PROVE  AllCompleted'
<1>1. \A p \in Pieces : p \in Done(peice_status) => p \in Done(peice_status')
  BY CounterStep
<1> QED
  BY <1>1 DEF AllCompleted, Done

LEMMA UsedStep ==
    ASSUME RequestInv, OpenUsed, [Next]_vars, NEW s \in Slots, peer'[s].open
    PROVE  conn'[s].in_use
<1>1. peer[s].open => conn[s].in_use
  BY DEF OpenUsed
<1> QED
  BY <1>1, EverySlotStep DEF SlotStep, Unmoved, HasRead, HasSent, Opened, SamePeer

LEMMA ChokesStep ==
    ASSUME RequestInv, OpenUsed, ChokesKnown, [Next]_vars, NEW s \in Slots, peer'[s].open
    PROVE  ChokingKnown(conn'[s].peer_chocking, wire'[s], peer'[s].choking)
<1>1. /\ conn[s].peer_chocking \in BOOLEAN /\ peer[s].choking \in BOOLEAN
      /\ wire[s] \in Seq(Message)
  BY DEF RequestInv, TypeOK, ConnType, PeerType
<1>2. conn'[s].peer_chocking \in BOOLEAN /\ peer'[s].choking \in BOOLEAN
  BY TypeStep DEF RequestInv, TypeOK, ConnType, PeerType
<1>3. peer[s].open => ChokingKnown(conn[s].peer_chocking, wire[s], peer[s].choking)
  BY DEF ChokesKnown
<1>4. CASE Unmoved(s)
  BY <1>3, <1>4 DEF Unmoved, SamePeer
<1>5. CASE HasRead(s)
  <2>1. ChokingKnown(conn[s].peer_chocking, wire[s], peer[s].choking)
        /\ peer'[s].choking = peer[s].choking
    BY <1>3, <1>5 DEF HasRead, SamePeer
  <2>2. /\ wire[s] # <<>> /\ wire'[s] = Tail(wire[s])
        /\ Head(wire[s]).type = "CHOKE" => conn'[s].peer_chocking
        /\ Head(wire[s]).type = "UNCHOKE" => ~conn'[s].peer_chocking
        /\ ~Says(Head(wire[s])) => (conn'[s].peer_chocking <=> conn[s].peer_chocking)
    BY <1>5 DEF HasRead
  <2>3. ChokingKnown(conn'[s].peer_chocking, Tail(wire[s]), peer[s].choking)
    BY <1>1, <1>2, <2>1, <2>2, ChokingRead
  <2> QED
    BY <2>1, <2>2, <2>3
<1>6. CASE HasSent(s)
  <2>1. PICK m \in Message :
          /\ wire'[s] = Append(wire[s], m) /\ conn'[s] = conn[s]
          /\ peer'[s].open = peer[s].open
          /\ m.type = "CHOKE" => peer'[s].choking
          /\ m.type = "UNCHOKE" => ~peer'[s].choking
          /\ ~Says(m) => peer'[s].choking = peer[s].choking
    BY <1>6 DEF HasSent
  <2>2. ChokingKnown(conn[s].peer_chocking, wire[s], peer[s].choking)
    BY <1>3, <2>1
  <2>3. ChokingKnown(conn[s].peer_chocking, Append(wire[s], m), peer'[s].choking)
    BY <1>1, <1>2, <2>1, <2>2, ChokingSent
  <2> QED
    BY <2>1, <2>3
<1>7. CASE Opened(s)
  <2>1. PICK has \in SUBSET Pieces : peer'[s] = NewPeer(has) /\ wire'[s] \in Greetings(has)
    BY <1>7 DEF Opened
  <2>2. peer'[s].choking /\ conn'[s].peer_chocking
    BY <1>7, <2>1 DEF Opened, NewPeer, NoPeer
  <2>3. \A k \in 1 .. Len(wire'[s]) : ~Says(wire'[s][k])
    BY <2>1 DEF Greetings, BitField, Says
  <2> QED
    BY <2>2, <2>3 DEF ChokingKnown
<1> QED
  BY <1>4, <1>5, <1>6, <1>7, EverySlotStep DEF SlotStep

(* A handler that may search keeps what its peers were told of interest.      *)
LEMMA InterestRead ==
    ASSUME RequestInv, AskedOfTold, InterestKnown, [Next]_vars,
           NEW i \in Slots, ReadsAndSearches(i), NEW s \in Slots
    PROVE  /\ \A q \in Pieces : Flight(peer', wire', s, q) => conn'[s].am_intersted
           /\ peer'[s].open /\ conn'[s].am_intersted /\ ~AllCompleted' => peer'[s].interested
<1>1. PICK c \in [Slots -> ConnType], stat \in [Index -> Status],
           rank \in [Pieces -> Nat], pr \in [Slots -> PeerType] :
              Prepared(i, c, stat, rank, pr) /\ Recorded(i, c, stat, pr)
                /\ Searches(c, stat, rank, pr)
  BY DEF ReadsAndSearches
<1>2. Saw(c, pr, s)
  BY <1>1, SearchSaw
<1> DEFINE m == Head(wire[i])
<1>3. /\ \A t \in Slots, q \in Pieces : Flight(pr, wire', t, q) => Flight(peer, wire, t, q)
      /\ m.type = "PEICE" =>
            /\ m.index \in Pieces /\ Flight(peer, wire, i, m.index)
            /\ \A q \in Pieces : ~Flight(pr, wire', i, q)
  BY <1>1, PreparedFacts DEF Prepared
<1>4. m.type = "BIT_FIELD" => \A q \in Pieces : ~Flight(peer, wire, i, q)
  <2>1. wire[i] \in Seq(Message) /\ wire[i] # <<>>
    BY <1>1 DEF RequestInv, TypeOK, Prepared
  <2>2. Head(wire[i]) = wire[i][1] /\ 1 \in 1 .. Len(wire[i])
    BY <2>1, TailFacts
  <2> QED
    BY <2>2 DEF RequestInv, RequestsSound, Sound, Greeted
<1>5. /\ s # i => c[s] = conn[s]
      /\ pr[s].open = peer[s].open
      /\ s # i /\ peer[s].interested => pr[s].interested
      /\ m.type \notin {"BIT_FIELD", "PEICE"} => c[i].am_intersted = conn[i].am_intersted
      /\ c[i].am_intersted =>
            \/ m.type = "BIT_FIELD" /\ (peer[i].open => pr[i].interested)
            \/ m.type = "PEICE" /\ \A q \in Pieces : stat[q] = COMPLETED
            \/ m.type # "BIT_FIELD" /\ (peer[i].interested => pr[i].interested)
  BY <1>1 DEF Prepared, Recorded, SameSide, OthersTold
<1> HIDE DEF m
<1>6. ASSUME NEW q \in Pieces, Flight(pr, wire', s, q) PROVE c[s].am_intersted
  <2>1. Flight(peer, wire, s, q) /\ conn[s].am_intersted
    BY <1>3, <1>6 DEF AskedOfTold
  <2>2. CASE s # i
    BY <1>5, <2>1, <2>2
  <2>3. CASE s = i
    <3>1. m.type \notin {"BIT_FIELD", "PEICE"}
      BY <1>3, <1>4, <1>6, <2>1, <2>3
    <3> QED
      BY <1>5, <2>1, <2>3, <3>1
  <2> QED
    BY <2>2, <2>3
<1>7. ASSUME NEW q \in Pieces, Flight(peer', wire', s, q) PROVE conn'[s].am_intersted
  <2>1. CASE q \in peer'[s].pending /\ q \notin pr[s].pending
    BY <1>2, <2>1 DEF Saw
  <2>2. CASE Flight(pr, wire', s, q)
    BY <1>2, <1>6, <2>2 DEF Saw
  <2> QED
    BY <1>7, <2>1, <2>2 DEF Flight
<1>8. ASSUME peer'[s].open, conn'[s].am_intersted, ~AllCompleted' PROVE peer'[s].interested
  <2>1. pr[s].open /\ peer[s].open
    BY <1>2, <1>5, <1>8 DEF Saw
  <2>2. ~AllCompleted
    BY <1>8, CompletedStays
  <2>3. conn[s].am_intersted => peer[s].interested
    BY <2>1, <2>2 DEF InterestKnown
  <2>4. CASE ~c[s].am_intersted
    BY <1>2, <1>8, <2>1, <2>4 DEF Saw
  <2>5. CASE c[s].am_intersted /\ s # i
    BY <1>2, <1>5, <2>3, <2>5 DEF Saw
  <2>6. CASE c[s].am_intersted /\ s = i
    <3>1. ~(\A q \in Pieces : stat[q] = COMPLETED)
      <4>1. Done(peice_status') = Done(stat)
        BY <1>1, SearchCompletesNone
      <4> QED
        BY <1>8, <4>1 DEF AllCompleted, Done
    <3>2. m.type # "BIT_FIELD" => conn[i].am_intersted
      BY <1>3, <1>5, <2>6 DEF AskedOfTold
    <3>3. pr[i].interested
      BY <1>5, <2>1, <2>3, <2>6, <3>1, <3>2
    <3> QED
      BY <1>2, <2>6, <3>3 DEF Saw
  <2> QED
    BY <2>4, <2>5, <2>6
<1> QED
  BY <1>7, <1>8

LEMMA InterestStep ==
    ASSUME ViewInv, [Next]_vars, NEW s \in Slots
    PROVE  /\ \A q \in Pieces : Flight(peer', wire', s, q) => conn'[s].am_intersted
           /\ peer'[s].open /\ conn'[s].am_intersted /\ ~AllCompleted' => peer'[s].interested
<1>1. CASE \E i \in Slots : ReadsAndSearches(i)
  BY <1>1, InterestRead DEF ViewInv
<1>2. CASE ~(\E i \in Slots : ReadsAndSearches(i))
  <2>1. SlotStep(s) /\ Calm(s)
    BY <1>2, CalmSlotStep DEF ViewInv
  <2>2. PICK i \in Slots : OnlyLoses(i)
    BY <1>2, EveryStepForm DEF ViewInv, StepForm
  <2>3. ASSUME NEW q \in Pieces, Flight(peer', wire', s, q) PROVE conn'[s].am_intersted
    <3>1. Flight(peer, wire, s, q)
      BY <2>2, <2>3 DEF OnlyLoses, Flight, Answers
    <3>2. conn[s].am_intersted /\ conn[s].in_use
      BY <3>1 DEF ViewInv, AskedOfTold, RequestInv, RequestsSound, Sound, Expected
    <3> QED
      BY <2>1, <3>2 DEF Calm
  <2>4. ASSUME peer'[s].open, conn'[s].am_intersted, ~AllCompleted'
        PROVE  peer'[s].interested
    <3>1. peer[s].open
      BY <2>1, <2>4 DEF SlotStep, Unmoved, HasRead, HasSent, Opened, SamePeer
    <3>2. conn[s].am_intersted /\ peer'[s].interested = peer[s].interested
      BY <2>1, <2>4, <3>1 DEF Calm, ViewInv, OpenUsed
    <3>3. ~AllCompleted
      BY <2>4, CompletedStays DEF ViewInv
    <3>4. peer[s].interested
      BY <3>1, <3>2, <3>3 DEF ViewInv, InterestKnown
    <3> QED
      BY <3>2, <3>4
  <2> QED
    BY <2>3, <2>4
<1> QED
  BY <1>1, <1>2

LEMMA ViewStarts == Init => ViewInv
<1> SUFFICES ASSUME Init PROVE ViewInv
  OBVIOUS
<1>1. \A s \in Slots : ~peer[s].open /\ peer[s].pending = {} /\ wire[s] = <<>>
  BY DEF Init, NoPeer
<1>2. AskedOfTold
  BY <1>1 DEF AskedOfTold, Flight
<1> QED
  BY <1>1, <1>2, RequestStarts DEF ViewInv, OpenUsed, ChokesKnown, InterestKnown

LEMMA ViewStep == ViewInv /\ [Next]_vars => ViewInv'
<1> SUFFICES ASSUME ViewInv, [Next]_vars PROVE ViewInv'
  OBVIOUS
<1>1. RequestInv'
  BY RequestStep DEF ViewInv
<1>2. OpenUsed'
  BY UsedStep DEF ViewInv, OpenUsed
<1>3. ChokesKnown'
  BY ChokesStep DEF ViewInv, ChokesKnown
<1>4. AskedOfTold'
  BY InterestStep DEF AskedOfTold
<1>5. InterestKnown'
  BY InterestStep DEF InterestKnown
<1> QED
  BY <1>1, <1>2, <1>3, <1>4, <1>5 DEF ViewInv

(* A set of positions that is not empty has a greatest member.               *)
LEMMA GreatestPosition ==
    ASSUME NEW n \in Nat, NEW S \in SUBSET (1 .. n), S # {}
    PROVE  Max(S) \in S /\ \A k \in S : k <= Max(S)
<1> DEFINE T == { n - k : k \in S }
<1>1. T \subseteq Nat /\ T # {}
  <2>1. \A k \in S : n - k \in Nat
    OBVIOUS
  <2> QED
    BY <2>1
<1>2. PICK d \in T : \A e \in T : d <= e
  <2> HIDE DEF T
  <2> QED
    BY <1>1, LeastMember
<1>3. \E k \in S : \A l \in S : k >= l
  <2>1. PICK k \in S : d = n - k
    BY <1>2
  <2>2. \A l \in S : n - k <= n - l
    BY <1>2, <2>1
  <2>3. \A l \in S : k >= l
    <3> TAKE l \in S
    <3>1. n - k <= n - l /\ k \in Int /\ l \in Int
      BY <2>2
    <3> QED
      BY <3>1
  <2> QED
    BY <2>3
<1>4. /\ Max(S) \in S
      /\ \A l \in S : Max(S) >= l
  BY <1>3 DEF Max
<1> QED
  BY <1>4

(* The invariant in the words of the property.                               *)
LEMMA ChokesAgree == RequestInv /\ ChokesKnown => ChokingAgrees
<1> SUFFICES ASSUME RequestInv, ChokesKnown, NEW i \in Slots, Connected(i)
             PROVE  WillBelieveChoking(i) = peer[i].choking
  BY DEF ChokingAgrees
<1> DEFINE q  == wire[i]
           ks == Unread(i, {"CHOKE", "UNCHOKE"})
<1>1. /\ q \in Seq(Message) /\ Len(q) \in Nat
      /\ conn[i].peer_chocking \in BOOLEAN /\ peer[i].choking \in BOOLEAN
  BY DEF RequestInv, TypeOK, ConnType, PeerType
<1>2. ChokingKnown(conn[i].peer_chocking, q, peer[i].choking)
  BY DEF ChokesKnown, Connected
<1>3. ks = { k \in 1 .. Len(q) : Says(q[k]) }
  BY DEF Unread, Says
<1>4. WillBelieveChoking(i) = IF ks = {} THEN conn[i].peer_chocking ELSE q[Max(ks)] = Choke
  BY DEF WillBelieveChoking
<1> HIDE DEF q, ks
<1>5. CASE ks = {}
  <2>1. \A k \in 1 .. Len(q) : ~Says(q[k])
    BY <1>3, <1>5
  <2>2. conn[i].peer_chocking <=> peer[i].choking
    BY <1>2, <2>1 DEF ChokingKnown
  <2> QED
    BY <1>1, <1>4, <1>5, <2>2
<1>6. CASE ks # {}
  <2> DEFINE n == Max(ks)
  <2>1. n \in ks /\ \A k \in ks : k <= n
    BY <1>1, <1>3, <1>6, GreatestPosition
  <2> HIDE DEF n
  <2>2. /\ n \in 1 .. Len(q) /\ Says(q[n])
        /\ \A l \in 1 .. Len(q) : l > n => ~Says(q[l])
    BY <1>1, <1>3, <2>1
  <2>3. q[n].type = "CHOKE" <=> peer[i].choking
    BY <1>2, <2>2 DEF ChokingKnown
  <2>4. q[n] \in Message
    BY <1>1, <2>2
  <2>5. q[n].type = "CHOKE" <=> q[n] = Choke
    BY <2>4 DEF Message, Choke, Unchoke, EndOfStream, Have, BitField, Peice
  <2>6. WillBelieveChoking(i) = (q[n] = Choke)
    BY <1>4, <1>6 DEF n
  <2> QED
    BY <1>1, <2>3, <2>5, <2>6
<1> QED
  BY <1>5, <1>6

LEMMA InterestAgree == InterestKnown => InterestAgrees
BY DEF InterestKnown, InterestAgrees, Connected

(* What the client will believe of choking, and what a peer it is waiting for   *)
(* has been told of interest, is right for every torrent, whatever peers do.  *)
THEOREM ChokingAndInterestAgree == Spec => [](ChokingAgrees /\ InterestAgrees)
<1>1. ViewInv => ChokingAgrees /\ InterestAgrees
  BY ChokesAgree, InterestAgree DEF ViewInv
<1> QED
  BY <1>1, ViewStarts, ViewStep, PTL DEF Spec

-----------------------------------------------------------------------------
(* Holdings                                                                 *)

(* Up to eight pieces, the bit of a piece has its number.                     *)
LEMMA OwnBit ==
    ASSUME no_of_peices <= 8, NEW p \in Pieces, NEW bits
    PROVE  set_bit_field(bits, p) = bits \cup {p}
<1>1. p \in 0 .. 7
  BY Sizes DEF Pieces
<1>2. Cell(p) = p /\ p # NoCell
  BY <1>1 DEF Cell, NoCell
<1> QED
  BY <1>2 DEF set_bit_field

Greeting(q) == \E k \in 1 .. Len(q) : q[k].type = "BIT_FIELD"

HasGreeted ==
    \A s \in Slots : peer[s].open => Greeting(wire[s]) \/ conn[s].bit_field # NULL

HoldingsAllKnown ==
    \A s \in Slots :
        peer[s].open => HoldingsKnown(conn[s].bit_field, wire[s], peer[s].has)

HoldInv == ViewInv /\ HasGreeted /\ HoldingsAllKnown

LEMMA HoldStarts == Init => HoldInv
<1>1. Init => \A s \in Slots : ~peer[s].open
  BY DEF Init, NoPeer
<1> QED
  BY <1>1, ViewStarts DEF HoldInv, HasGreeted, HoldingsAllKnown

LEMMA HoldSlotStep ==
    ASSUME no_of_peices <= 8, "skip" \notin Behaviours,
           HoldInv, [Next]_vars, NEW s \in Slots, peer'[s].open
    PROVE  /\ Greeting(wire'[s]) \/ conn'[s].bit_field # NULL
           /\ HoldingsKnown(conn'[s].bit_field, wire'[s], peer'[s].has)
<1>1. /\ conn[s].bit_field \in (SUBSET Pieces) \cup {NULL}
      /\ wire[s] \in Seq(Message)
  BY DEF HoldInv, ViewInv, RequestInv, TypeOK, ConnType
<1>2. peer[s].open =>
        /\ Greeting(wire[s]) \/ conn[s].bit_field # NULL
        /\ HoldingsKnown(conn[s].bit_field, wire[s], peer[s].has)
  BY DEF HoldInv, HasGreeted, HoldingsAllKnown
<1>3. CASE Unmoved(s)
  BY <1>2, <1>3 DEF Unmoved, SamePeer
<1>4. CASE HasRead(s)
  <2> DEFINE m == Head(wire[s])
  <2>1. /\ wire[s] # <<>> /\ wire'[s] = Tail(wire[s]) /\ peer[s].open
        /\ peer'[s].has = peer[s].has
    BY <1>4 DEF HasRead, SamePeer
  <2>2. /\ m.type = "BIT_FIELD" => m.bits \in SUBSET Pieces
        /\ m.type = "HAVE" => m.index \in Pieces
    BY <2>1, HeadFacts DEF HoldInv, ViewInv, RequestInv
  <2>3. \A k \in 1 .. Len(wire[s]) : wire[s][k].type = "BIT_FIELD" => k = 1
    BY DEF HoldInv, ViewInv, RequestInv, RequestsSound, Sound, Greeted
  <2>4. /\ m.type = "BIT_FIELD" => conn'[s].bit_field = m.bits
        /\ m.type = "HAVE" =>
            /\ conn[s].bit_field \in SUBSET Pieces
            /\ conn'[s].bit_field = conn[s].bit_field \cup {m.index}
        /\ m.type \notin {"BIT_FIELD", "HAVE"} => conn'[s].bit_field = conn[s].bit_field
    BY <1>1, <1>4, <2>2, OwnBit DEF HasRead
  <2> HIDE DEF m
  <2>5. HoldingsKnown(conn'[s].bit_field, Tail(wire[s]), peer[s].has)
    <3>1. m.type = "HAVE" => \A p \in Pieces :
            p \in conn'[s].bit_field <=> p \in conn[s].bit_field \/ p = m.index
      BY <2>4
    <3> QED
      BY <1>1, <1>2, <2>1, <2>3, <2>4, <3>1, HoldingsRead DEF m
  <2>6. conn'[s].bit_field # NULL
    <3>1. CASE m.type \in {"BIT_FIELD", "HAVE"}
      <4>1. conn'[s].bit_field \in SUBSET Pieces
        BY <2>2, <2>4, <3>1
      <4> QED
        BY <4>1, ConstantsAssumption
    <3>2. CASE m.type \notin {"BIT_FIELD", "HAVE"}
      <4>1. ~Greeting(wire[s])
        <5>1. m = wire[s][1]
          BY <1>1, <2>1, TailFacts DEF m
        <5> QED
          BY <2>3, <3>2, <5>1 DEF Greeting
      <4> QED
        BY <1>2, <2>1, <2>4, <3>2, <4>1
    <3> QED
      BY <3>1, <3>2
  <2> QED
    BY <2>1, <2>5, <2>6
<1>5. CASE HasSent(s)
  <2>1. PICK m \in Message :
          /\ m.type # "BIT_FIELD"
          /\ wire'[s] = Append(wire[s], m) /\ conn'[s] = conn[s]
          /\ peer'[s].open = peer[s].open
          /\ m.type = "HAVE" => peer'[s].has = peer[s].has \cup {m.index}
          /\ m.type # "HAVE" => peer'[s].has = peer[s].has
    BY <1>5 DEF HasSent
  <2>2. /\ Greeting(wire[s]) \/ conn[s].bit_field # NULL
        /\ HoldingsKnown(conn[s].bit_field, wire[s], peer[s].has)
    BY <1>2, <2>1
  <2>3. HoldingsKnown(conn[s].bit_field, Append(wire[s], m), peer'[s].has)
    <3>1. m.type = "HAVE" => \A p \in Pieces :
            p \in peer'[s].has <=> p \in peer[s].has \/ p = m.index
      BY <2>1
    <3> QED
      BY <1>1, <2>1, <2>2, <3>1, HoldingsSent
  <2>4. Greeting(wire[s]) => Greeting(Append(wire[s], m))
    <3>1. /\ Len(wire[s]) \in Nat /\ Len(Append(wire[s], m)) = Len(wire[s]) + 1
          /\ \A k \in 1 .. Len(wire[s]) : Append(wire[s], m)[k] = wire[s][k]
      BY <1>1, AppendFacts
    <3>2. \A k \in 1 .. Len(wire[s]) : k \in 1 .. Len(Append(wire[s], m))
      BY <3>1
    <3> QED
      BY <3>1, <3>2 DEF Greeting
  <2> QED
    BY <2>1, <2>2, <2>3, <2>4
<1>6. CASE Opened(s)
  <2>1. PICK has \in SUBSET Pieces : peer'[s] = NewPeer(has) /\ wire'[s] \in Greetings(has)
    BY <1>6 DEF Opened
  <2>2. peer'[s].has = has /\ wire'[s] = <<BitField(has)>>
    BY <2>1 DEF NewPeer, NoPeer, Greetings
  <2>3. /\ Len(wire'[s]) = 1 /\ wire'[s][1].type = "BIT_FIELD"
        /\ wire'[s][1].bits = has
    BY <2>2 DEF BitField
  <2>4. \A k \in 1 .. Len(wire'[s]) : k = 1
    BY <2>3
  <2>5. 1 \in 1 .. Len(wire'[s])
    BY <2>3
  <2>6. \A p : ~Tells(wire'[s], p)
    BY <2>3, <2>4 DEF Tells
  <2> QED
    BY <2>2, <2>3, <2>4, <2>5, <2>6 DEF Greeting, HoldingsKnown
<1> QED
  BY <1>3, <1>4, <1>5, <1>6, EverySlotStep DEF SlotStep, HoldInv, ViewInv

LEMMA HoldStep ==
    no_of_peices <= 8 /\ "skip" \notin Behaviours /\ HoldInv /\ [Next]_vars => HoldInv'
<1> SUFFICES ASSUME no_of_peices <= 8, "skip" \notin Behaviours, HoldInv, [Next]_vars
             PROVE  HoldInv'
  OBVIOUS
<1>1. ViewInv'
  BY ViewStep DEF HoldInv
<1>2. HasGreeted' /\ HoldingsAllKnown'
  BY HoldSlotStep DEF HasGreeted, HoldingsAllKnown
<1> QED
  BY <1>1, <1>2 DEF HoldInv

LEMMA HoldingsAgreeHere == HoldInv => HoldingsAgree
<1> SUFFICES ASSUME HoldInv, NEW i \in Slots, Connected(i)
             PROVE  WillBelieveHas(i) = peer[i].has
  BY DEF HoldingsAgree
<1> DEFINE q  == wire[i]
           ks == Unread(i, {"BIT_FIELD"})
           H  == { wire[i][k].index : k \in Unread(i, {"HAVE"}) }
<1>1. /\ q \in Seq(Message) /\ Len(q) \in Nat
      /\ conn[i].bit_field \in (SUBSET Pieces) \cup {NULL}
      /\ peer[i].has \in SUBSET Pieces
  BY DEF HoldInv, ViewInv, RequestInv, TypeOK, ConnType, PeerType
<1>2. /\ Greeting(q) \/ conn[i].bit_field # NULL
      /\ HoldingsKnown(conn[i].bit_field, q, peer[i].has)
  BY DEF HoldInv, HasGreeted, HoldingsAllKnown, Connected
<1>3. ks = { k \in 1 .. Len(q) : q[k].type = "BIT_FIELD" }
  BY DEF Unread
<1>4. /\ H \in SUBSET Pieces
      /\ \A p \in Pieces : p \in H <=> Tells(q, p)
  <2>1. Unread(i, {"HAVE"}) = { k \in 1 .. Len(q) : q[k].type = "HAVE" }
    BY DEF Unread
  <2>2. \A k \in 1 .. Len(q) : q[k] \in Message
    BY <1>1
  <2>3. \A k \in 1 .. Len(q) : q[k].type = "HAVE" => q[k].index \in Pieces
    BY <2>2, MessageFacts
  <2> QED
    BY <2>1, <2>3 DEF Tells
<1>5. WillBelieveHas(i) = (IF ks = {} THEN conn[i].bit_field ELSE q[Max(ks)].bits) \cup H
  BY DEF WillBelieveHas
<1> HIDE DEF q, ks, H
<1>6. CASE ks = {}
  <2>1. ~Greeting(q) /\ \A k \in 1 .. Len(q) : q[k].type # "BIT_FIELD"
    BY <1>3, <1>6 DEF Greeting
  <2>2. conn[i].bit_field \in SUBSET Pieces
    BY <1>1, <1>2, <2>1
  <2>3. \A p \in Pieces : p \in peer[i].has <=> p \in conn[i].bit_field \/ p \in H
    BY <1>2, <1>4, <2>1 DEF HoldingsKnown
  <2> QED
    BY <1>1, <1>4, <1>5, <1>6, <2>2, <2>3
<1>7. CASE ks # {}
  <2> DEFINE n == Max(ks)
  <2>1. n \in ks
    BY <1>1, <1>3, <1>7, GreatestPosition
  <2>2. WillBelieveHas(i) = q[n].bits \cup H
    BY <1>5, <1>7
  <2> HIDE DEF n
  <2>3. n \in 1 .. Len(q) /\ q[n].type = "BIT_FIELD" /\ q[n] \in Message
    BY <1>1, <1>3, <2>1
  <2>4. q[n].bits \in SUBSET Pieces
    BY <2>3, MessageFacts
  <2>5. \A p \in Pieces : p \in peer[i].has <=> p \in q[n].bits \/ p \in H
    BY <1>2, <1>4, <2>3 DEF HoldingsKnown
  <2> QED
    BY <1>1, <1>4, <2>2, <2>4, <2>5
<1> QED
  BY <1>6, <1>7

(* The client's view of its peers, brought up to date by what it has not read, *)
(* is right in a torrent of at most eight pieces, whose bits have their       *)
(* numbers, when every peer sends a bit field.                              *)
THEOREM ViewsStayRight ==
    no_of_peices <= 8 /\ "skip" \notin Behaviours /\ Spec => []ViewsAgree
<1>1. HoldInv => ViewsAgree
  BY HoldingsAgreeHere, ChokesAgree, InterestAgree DEF HoldInv, ViewInv, ViewsAgree
<1> SUFFICES ASSUME no_of_peices <= 8, "skip" \notin Behaviours
             PROVE  Spec => []ViewsAgree
  OBVIOUS
<1>2. HoldInv /\ [Next]_vars => HoldInv'
  BY HoldStep
<1> QED
  BY <1>1, <1>2, HoldStarts, PTL DEF Spec

-----------------------------------------------------------------------------
(* What the peers know of the client                                        *)

OwnBits == bit_field = Done(peice_status)

PeersTold == \A s \in Slots : peer[s].open => peer[s].told = Done(peice_status)

ToldInv == ViewInv /\ OwnBits /\ PeersTold

LEMMA ToldStarts == Init => ToldInv
<1> SUFFICES ASSUME Init PROVE ToldInv
  OBVIOUS
<1>1. \A s \in Slots : ~peer[s].open
  BY DEF Init, NoPeer
<1>2. OwnBits
  BY Sizes DEF Init, OwnBits, Done, NOT_DOWNLOADED, COMPLETED
<1> QED
  BY <1>1, <1>2, ViewStarts DEF ToldInv, PeersTold

(* A connected peer is told of the piece that the handler has accepted.       *)
LEMMA ToldRead ==
    ASSUME ~LittleEndian, ToldInv, [Next]_vars,
           NEW i \in Slots, ReadsAndSearches(i), NEW s \in Slots, peer'[s].open
    PROVE  peer'[s].told = Done(peice_status')
<1>1. PICK c \in [Slots -> ConnType], stat \in [Index -> Status],
           rank \in [Pieces -> Nat], pr \in [Slots -> PeerType] :
              Prepared(i, c, stat, rank, pr) /\ Recorded(i, c, stat, pr)
                /\ Searches(c, stat, rank, pr)
  BY DEF ReadsAndSearches
<1> DEFINE m == Head(wire[i])
<1>2. /\ peer'[s].told = pr[s].told /\ peer'[s].open = pr[s].open
      /\ Done(peice_status') = Done(stat)
  BY <1>1, SearchSaw, SearchCompletesNone DEF Saw
<1>3. peer[s].open /\ peer[s].told = Done(peice_status)
  BY <1>1, <1>2 DEF Recorded, SameSide, ToldInv, PeersTold
<1>4. CASE m.type # "PEICE"
  BY <1>1, <1>2, <1>3, <1>4 DEF Prepared, Recorded, NothingTold
<1>5. CASE m.type = "PEICE"
  <2>1. /\ m.index \in Pieces
        /\ stat = [peice_status EXCEPT ![m.index] = COMPLETED]
        /\ pr[s].told = send_have_message(peer, m.index)[s].told
    BY <1>1, <1>5 DEF Prepared, Recorded
  <2> HIDE DEF m
  <2>2. send_have_message(peer, m.index)[s].told = peer[s].told \cup {m.index}
    <3>1. peer[s] \in PeerType
      BY DEF ToldInv, ViewInv, RequestInv, TypeOK
    <3>2. [peer[s] EXCEPT !.told = peer[s].told \cup {m.index}].told
            = peer[s].told \cup {m.index}
      BY <3>1 DEF PeerType
    <3> QED
      BY <1>3, <3>2 DEF send_have_message
  <2>3. Done(stat) = Done(peice_status) \cup {m.index}
    BY <2>1, Sizes DEF Done, ToldInv, ViewInv, RequestInv, TypeOK
  <2> QED
    BY <1>2, <1>3, <2>1, <2>2, <2>3
<1> QED
  BY <1>4, <1>5

LEMMA ToldSlotStep ==
    ASSUME ~LittleEndian, ToldInv, [Next]_vars, NEW s \in Slots, peer'[s].open
    PROVE  peer'[s].told = Done(peice_status')
<1>1. CASE \E i \in Slots : ReadsAndSearches(i)
  BY <1>1, ToldRead
<1>2. CASE ~(\E i \in Slots : ReadsAndSearches(i))
  <2>1. SlotStep(s) /\ Calm(s)
    BY <1>2, CalmSlotStep DEF ToldInv, ViewInv
  <2>2. peice_status' = peice_status
    BY <1>2, EveryStepForm DEF ToldInv, ViewInv, StepForm, OnlyLoses
  <2>3. CASE Opened(s)
    BY <2>2, <2>3 DEF Opened, NewPeer, NoPeer, ToldInv, OwnBits
  <2>4. CASE ~Opened(s)
    <3>1. peer[s].open
      BY <2>1, <2>4 DEF SlotStep, Unmoved, HasRead, HasSent, SamePeer
    <3> QED
      BY <2>1, <2>2, <3>1 DEF Calm, ToldInv, PeersTold
  <2> QED
    BY <2>3, <2>4
<1> QED
  BY <1>1, <1>2

LEMMA OwnBitsStep ==
    ASSUME no_of_peices <= 8, RequestInv, OwnBits, [Next]_vars
    PROVE  OwnBits'
BY CounterStep, OwnBit DEF OwnBits, fileVars

LEMMA ToldStep ==
    no_of_peices <= 8 /\ ~LittleEndian /\ ToldInv /\ [Next]_vars => ToldInv'
<1> SUFFICES ASSUME no_of_peices <= 8, ~LittleEndian, ToldInv, [Next]_vars
             PROVE  ToldInv'
  OBVIOUS
<1>1. ViewInv' /\ OwnBits'
  BY ViewStep, OwnBitsStep DEF ToldInv, ViewInv
<1>2. PeersTold'
  BY ToldSlotStep DEF PeersTold
<1> QED
  BY <1>1, <1>2 DEF ToldInv

(* Where htonl swaps no bytes, and in a torrent of at most eight pieces, every  *)
(* connected peer has been told of exactly the pieces that are COMPLETED.     *)
THEOREM PeersAreTold ==
    no_of_peices <= 8 /\ ~LittleEndian /\ Spec => []PeersKnowOurPieces
<1>1. ToldInv => PeersKnowOurPieces
  BY DEF ToldInv, PeersTold, PeersKnowOurPieces, Done, Connected
<1> SUFFICES ASSUME no_of_peices <= 8, ~LittleEndian
             PROVE  Spec => []PeersKnowOurPieces
  OBVIOUS
<1>2. ToldInv /\ [Next]_vars => ToldInv'
  BY ToldStep
<1> QED
  BY <1>1, <1>2, ToldStarts, PTL DEF Spec
=============================================================================
