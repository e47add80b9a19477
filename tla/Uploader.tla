------------------------------ MODULE Uploader ------------------------------
(***************************************************************************)
(* The upload half: a client that has the file, and guests that connect to    *)
(* it, ask for blocks, leave and are followed by others in the same slots.   *)
(* Streams are bytes, so that a message may arrive in two parts, and a        *)
(* handler may leave bytes that the next one takes for a message.           *)
(***************************************************************************)
EXTENDS Client

CONSTANTS
    Holdings,       \* the sets of pieces a guest may hold when it connects
    Manners,        \* what guests may do besides asking for blocks
    CutPoints,      \* where a message may be cut
    Capacity,       \* bytes that the buffers of a connection take unread
    MaxOpened,      \* bound: connections accepted in one run
    MaxWire,        \* bound: unread bytes of a guest
    MaxSaid         \* bound: messages of all guests together

AllManners == {"rude", "cut", "close", "have", "deaf"}

ASSUME UploaderAssumption ==
    /\ Holdings \subseteq SUBSET Pieces
    /\ Manners \subseteq AllManners
    /\ CutPoints \subseteq Nat
    /\ Capacity \in Nat
    /\ MaxOpened \in Nat
    /\ MaxWire \in Nat
    /\ MaxSaid \in Nat

VARIABLES
    client,
    serving,    \* the slot in whose handler the program is held up, or NULL
    wire,       \* wire[i]: bytes from the guest in slot i, not yet read
    guest,      \* guest[i]: the guest in slot i
    deaf,       \* the slots of the guests that do not read what they are sent
    unread,     \* unread[i]: bytes that lie in the buffers of one of these
    opened,     \* connections accepted so far
    said,       \* messages sent by guests so far
    calm        \* no guest has left, was rude or said that it has a piece

vars == <<client, serving, wire, guest, deaf, unread, opened, said, calm>>

-----------------------------------------------------------------------------
(* Guests (external)                                                        *)

NoGuest ==
    [open |-> FALSE,    \* it has not closed its end
     wants |-> FALSE,   \* what it said last: it is interested
     wanted |-> FALSE,  \* it has said so at some time
     polite |-> TRUE,   \* it never cancelled, or asked while not interested
     rest |-> <<>>,     \* the part of its last message that is still to come
     asked |-> <<>>,    \* the blocks it may expect, in the order of its requests
     served |-> FALSE,  \* it was sent a block
     misled |-> FALSE]  \* it was sent another block than the next it expects

(* The blocks asked for: whole pieces, and one in the middle of a piece.      *)
Blocks == { <<p, 0, TrueLength(p)>> : p \in Pieces } \cup { <<0, 1, TrueLength(0) - 1>> }

(* One that leaves the piece, and one that leaves the file.                  *)
TooLong == { <<0, 1, PieceSize>>, <<no_of_peices - 1, 0, TrueLength(no_of_peices - 1) + 1>> }

Request(b) == RequestMessage(b[1], b[2], b[3])
Cancel(b)  == Message(CANCLE, Word(b[1]) \o Word(b[2]) \o Word(b[3]))
Have(p)    == Message(HAVE_PEICE, Word(p))
Block(b)   == PeiceMessage(b[1], b[2], Data(b[1], b[2], b[3]))

(* A guest whose last message has been sent whole sends m, or a part of it,   *)
(* and is then as g says.                                                   *)
Say(i, m, g) ==
    /\ client.proc = "up"
    /\ guest[i].open /\ guest[i].rest = <<>>
    /\ said < MaxSaid
    /\ Len(wire[i]) + Len(m) <= MaxWire
    /\ said' = said + 1
    /\ \E k \in {Len(m)} \cup (IF "cut" \in Manners THEN CutPoints ELSE {}) :
        /\ k \in 1 .. Len(m)
        /\ wire' = [wire EXCEPT ![i] = @ \o SubSeq(m, 1, k)]
        /\ guest' = [guest EXCEPT ![i] = [g EXCEPT !.rest = SubSeq(m, k + 1, Len(m))]]
    /\ UNCHANGED <<client, serving, deaf, unread, opened>>

SaysIntersted(i) ==
    /\ Say(i, Message(INTERSTED, <<>>),
           [guest[i] EXCEPT !.wants = TRUE, !.wanted = TRUE])
    /\ UNCHANGED calm

SaysNotIntersted(i) ==
    /\ guest[i].wants
    /\ Say(i, Message(NOT_INTERSTED, <<>>), [guest[i] EXCEPT !.wants = FALSE])
    /\ UNCHANGED calm

(* A guest need not have been unchoked, only to have said that it is          *)
(* interested.                                                              *)
Asks(i, b) ==
    /\ guest[i].wants
    /\ Say(i, Request(b), [guest[i] EXCEPT !.asked = Append(@, b)])
    /\ UNCHANGED calm

AsksTooMuch(i) ==
    /\ guest[i].wants
    /\ \E b \in TooLong : Say(i, Request(b), guest[i])
    /\ UNCHANGED calm

KeepsAlive(i) == Say(i, KeepAlive, guest[i]) /\ UNCHANGED calm

(* A request of a guest that is not interested, and a request withdrawn.      *)
IsRude(i, b) ==
    /\ "rude" \in Manners
    /\ \/ ~guest[i].wants /\ Say(i, Request(b), [guest[i] EXCEPT !.polite = FALSE])
       \/ Say(i, Cancel(b), [guest[i] EXCEPT !.polite = FALSE])
    /\ calm' = FALSE

SaysHave(i, p) ==
    /\ "have" \in Manners
    /\ Say(i, Have(p), guest[i])
    /\ calm' = FALSE

SendsRest(i) ==
    /\ client.proc = "up"
    /\ guest[i].rest # <<>>
    /\ wire' = [wire EXCEPT ![i] = @ \o guest[i].rest]
    /\ guest' = [guest EXCEPT ![i].rest = <<>>]
    /\ UNCHANGED <<client, serving, deaf, unread, opened, said, calm>>

(* A guest that waits for a block may stop reading, and start again.  One that *)
(* is sent no block, only a few bytes, is no different if it does.            *)
StopsReading(i) ==
    /\ "deaf" \in Manners
    /\ client.proc = "up"
    /\ guest[i].open /\ guest[i].asked # <<>>
    /\ i \notin deaf
    /\ deaf' = deaf \cup {i}
    /\ UNCHANGED <<client, serving, wire, guest, unread, opened, said, calm>>

ReadsAgain(i) ==
    /\ client.proc = "up"
    /\ i \in deaf
    /\ deaf' = deaf \ {i}
    /\ unread' = [unread EXCEPT ![i] = 0]
    /\ UNCHANGED <<client, serving, wire, guest, opened, said, calm>>

(* What the client has not read may be lost with the connection.             *)
Leaves(i) ==
    /\ "close" \in Manners
    /\ client.proc = "up"
    /\ guest[i].open
    /\ guest' = [guest EXCEPT ![i].open = FALSE, ![i].rest = <<>>]
    /\ \E s \in {wire[i], <<>>} : wire' = [wire EXCEPT ![i] = s]
    /\ calm' = FALSE
    /\ deaf' = deaf \ {i}
    /\ unread' = [unread EXCEPT ![i] = 0]
    /\ UNCHANGED <<client, serving, opened, said>>

-----------------------------------------------------------------------------
(* The client                                                               *)

(* establish_tcp_connection up to the bit field that the guest sends.         *)
Accept ==
    /\ client.proc = "up" /\ serving = NULL
    /\ opened < MaxOpened
    /\ opened' = opened + 1
    /\ LET i == FreeSlot(client)
       IN /\ i \in Slots
          /\ client' = [Opened(client, i) EXCEPT !.conn[i].bit_field = NULL]
          /\ guest' = [guest EXCEPT ![i] = [NoGuest EXCEPT !.open = TRUE]]
          /\ \E has \in Holdings :
                /\ wire' = [wire EXCEPT ![i] = BitFieldMessage(has, no_of_peices)]
                /\ calm' = (calm /\ has = {})
    /\ UNCHANGED <<serving, deaf, unread, said>>

(* What guest g makes of a block; it does not look at other messages.         *)
Heard(g, m) ==
    [g EXCEPT !.served = TRUE,
              !.misled = @ \/ g.asked = <<>> \/ Block(Head(g.asked)) # m,
              !.asked = IF @ = <<>> THEN @ ELSE Tail(@)]

HeardAll(g, m) == IF m # <<>> /\ m[5] = PEICE THEN Heard(g, m) ELSE g

(* A send to a guest that has closed succeeds, raises SIGPIPE, or fails; when  *)
(* it is a block that cannot be sent, it is freed twice.                     *)
AfterSends(out) ==
    LET late == { s \in Slots : out[s] # <<>> /\ ~guest[s].open }
    IN {"up"} \cup (IF late # {} THEN {"killed"} ELSE {})
              \cup (IF \E s \in late : out[s][5] = PEICE THEN {"crashed"} ELSE {})

Readable(i) ==
    /\ client.proc = "up" /\ serving \in {NULL, i}
    /\ client.conn[i].in_use
    /\ wire[i] # <<>> \/ ~guest[i].open

(* send returns once the buffers have taken what is sent: at once, unless the  *)
(* guest does not read.                                                     *)
Taken(out) ==
    \A s \in deaf : out[s] # <<>> => unread[s] + Len(out[s]) <= Capacity

(* How the handler of slot i may come to its end.                            *)
MayLeave(i) ==
    { r \in Reactions(client, i, wire[i], ~guest[i].open) : Taken(r.out) }

(* A handler waits in readn or in send, and keeps the program from every other *)
(* connection.                                                              *)
Wait(i) ==
    /\ Readable(i)
    /\ MayLeave(i) = {}
    /\ serving = NULL /\ serving' = i
    /\ UNCHANGED <<client, wire, guest, deaf, unread, opened, said, calm>>

(* read_from_client_connection(i), from select to select.                     *)
Serve(i) ==
    /\ Readable(i)
    /\ \E r \in MayLeave(i) :
        /\ \E how \in IF r.client.proc = "up" THEN AfterSends(r.out) ELSE {r.client.proc} :
            client' = [r.client EXCEPT !.proc = how]
        /\ IF r.client.conn[i].in_use
           THEN /\ wire' = [wire EXCEPT ![i] = SubSeq(@, r.used + 1, Len(@))]
                /\ guest' = [guest EXCEPT ![i] = HeardAll(@, r.out[i])]
                /\ unread' = [s \in Slots |->
                      IF s \in deaf THEN unread[s] + Len(r.out[s]) ELSE 0]
                /\ UNCHANGED deaf
           ELSE /\ wire' = [wire EXCEPT ![i] = <<>>]
                /\ guest' = [guest EXCEPT ![i] = NoGuest]
                /\ unread' = [unread EXCEPT ![i] = 0]
                /\ deaf' = deaf \ {i}
    /\ serving' = NULL
    /\ UNCHANGED <<opened, said, calm>>

-----------------------------------------------------------------------------
Init ==
    /\ client = NewClient(TRUE, TRUE, NOT_DOWNLOADED)
    /\ serving = NULL
    /\ wire = [s \in Slots |-> <<>>]
    /\ guest = [s \in Slots |-> NoGuest]
    /\ deaf = {}
    /\ unread = [s \in Slots |-> 0]
    /\ opened = 0
    /\ said = 0
    /\ calm = TRUE

GuestSteps(i) ==
    \/ SaysIntersted(i)
    \/ SaysNotIntersted(i)
    \/ \E b \in Blocks : Asks(i, b) \/ IsRude(i, b)
    \/ AsksTooMuch(i)
    \/ KeepsAlive(i)
    \/ \E p \in Pieces : SaysHave(i, p)
    \/ SendsRest(i)
    \/ StopsReading(i)
    \/ ReadsAgain(i)
    \/ Leaves(i)

Next ==
    \/ Accept
    \/ \E i \in Slots : Wait(i) \/ Serve(i) \/ GuestSteps(i)

(* The loop reads every connection that select reports before it calls select  *)
(* again, and a handler that is held up goes on when it can: this is           *)
(* SF_vars(Wait(i) \/ Serve(i)) with the condition of ENABLED written out.     *)
(* Guests need not say, finish or read anything.                             *)
ReadInTurn(i) ==
    []<>(Readable(i) /\ (serving = NULL \/ MayLeave(i) # {}))
        => []<><<Wait(i) \/ Serve(i)>>_vars

Spec == Init /\ [][Next]_vars /\ \A i \in Slots : ReadInTurn(i)

-----------------------------------------------------------------------------
(* All that a polite guest says.                                             *)
Sayings ==
    {KeepAlive, Message(INTERSTED, <<>>), Message(NOT_INTERSTED, <<>>)}
        \cup { Request(b) : b \in Blocks \cup TooLong }
        \cup { Have(p) : p \in Pieces }
        \cup { BitFieldMessage(has, no_of_peices) : has \in Holdings }

(* Whatever other guests do, in this slot before or in the other slots now,    *)
(* and however its messages are cut, what the program has not read of a       *)
(* polite guest begins where a message of the guest does whenever it is at    *)
(* select: no handler leaves a part of a message of such a guest unread.      *)
PoliteStaysInSync ==
    \A i \in Slots :
        LET s == wire[i] \o guest[i].rest
        IN guest[i].open /\ guest[i].polite /\ s # <<>> =>
            \E m \in Sayings : IsPrefix(m, s)

(* A polite guest is sent the blocks that it asked for, in the order of its    *)
(* requests, also when it has not waited to be unchoked or has lost interest  *)
(* since, and none is missing once what it has sent is read.                 *)
AnsweredInOrder ==
    client.proc = "up" =>
        \A i \in Slots :
            guest[i].open /\ guest[i].polite =>
                /\ ~guest[i].misled
                /\ wire[i] = <<>> /\ guest[i].rest = <<>> => guest[i].asked = <<>>

(* A guest that has not said that it is interested is sent no block, whatever *)
(* the guest before it in the slot was granted, in a torrent whose numbers,   *)
(* left unread, do not read as an interested message.                       *)
StrangersGetNothing ==
    \A i \in Slots : guest[i].served => guest[i].wanted

(* The program waits inside a handler only for a guest that was rude, has not   *)
(* sent a message to its end, or does not read: in send it waits for none that *)
(* has left room for a block of a whole piece.                               *)
OnlyGuestsInArrearsBlock ==
    \A i \in Slots :
        serving = i /\ guest[i].polite /\ guest[i].rest = <<>> =>
            \/ MayLeave(i) # {}
            \/ i \in deaf /\ unread[i] + 13 + PieceSize > Capacity

(* The program stays up as long as no guest has left, was rude or has said     *)
(* that it holds a piece.                                                   *)
CalmGuestsAreSafe == calm => client.proc = "up"

(* If no guest holds the program up for ever, in readn or in send, a request is *)
(* answered, unless its guest leaves or the program ends.                    *)
RequestsAnswered ==
    []<>(serving = NULL) =>
        \A i \in Slots :
            (guest[i].open /\ guest[i].polite /\ guest[i].asked # <<>>)
                ~> (guest[i].asked = <<>> \/ ~guest[i].open
                      \/ guest[i].rest # <<>> \/ client.proc # "up")
=============================================================================
