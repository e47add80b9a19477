-------------------------------- MODULE Swarm --------------------------------
(***************************************************************************)
(* Clients that run this program and nothing else: each is the value and the  *)
(* handlers of Client, and what one sends is what another reads, as bytes.    *)
(* A connection joins two slots; the handshake that opens it is one step      *)
(* here, see Handshake for what may happen in it.                           *)
(***************************************************************************)
EXTENDS Client

CONSTANTS
    Clients,
    Seeders,        \* started with the file
    Machines,       \* the sets of clients on whose machine htonl swaps bytes
    Capacity,       \* bytes that the buffers of a connection take unread
    MaxOpened       \* bound: connections opened in one run

ASSUME SwarmAssumption ==
    /\ \A end \in Clients \X Slots : NULL # end
    /\ Seeders \subseteq Clients
    /\ \A M \in Machines : M \subseteq Clients
    /\ Capacity \in Nat
    /\ MaxOpened \in Nat

VARIABLES
    client,     \* client[c]
    serving,    \* serving[c]: the slot whose stream readn waits for, or NULL
    sending,    \* sending[c]: the slots to which a send has not returned
    far,        \* far[c][i]: the other end of slot i as <<client, slot>>, or NULL
    wire,       \* wire[c][i]: bytes given to send for slot i of c and not read;
                \* what the buffers have no room for is still with the send
    opened,     \* connections opened so far
    taken       \* taken[c][i]: the pieces c took over slot i, in their order

vars == <<client, serving, sending, far, wire, opened, taken>>

-----------------------------------------------------------------------------
(* Connections (external)                                                   *)

Linked(c, i) == far[c][i] # NULL

(* The bytes sent to the other ends of the slots of c.                        *)
Delivered(c, out) ==
    [d \in Clients |-> [j \in Slots |->
        IF far[d][j] # NULL /\ far[d][j][1] = c
        THEN wire[d][j] \o out[far[d][j][2]]
        ELSE wire[d][j]]]

(* The slots S of c are closed: their streams end at the other ends.          *)
Parted(c, S) ==
    [d \in Clients |-> [j \in Slots |->
        IF (d = c /\ j \in S) \/ (far[d][j] # NULL /\ far[d][j][1] = c /\ far[d][j][2] \in S)
        THEN NULL ELSE far[d][j]]]

(* send waits for room in the buffers.  What a handler sends after a send that  *)
(* waits is on its wire as well: it might just as well be read late.          *)
Overfull(c, out) ==
    { s \in Slots : Linked(c, s) /\ out[s] # <<>>
        /\ Len(wire[far[c][s][1]][far[c][s][2]]) + Len(out[s]) > Capacity }

(* A send over a connection whose other end is closed succeeds, raises        *)
(* SIGPIPE, or fails; a block that cannot be sent is freed twice.            *)
AfterSends(c, out) ==
    LET late == { s \in Slots : out[s] # <<>> /\ ~Linked(c, s) }
    IN {"up"} \cup (IF late # {} THEN {"killed"} ELSE {})
              \cup (IF \E s \in late : out[s][5] = PEICE THEN {"crashed"} ELSE {})

Parts(m) == {<<>>, m} \cup { SubSeq(m, 1, n) : n \in {9} \cap 1 .. Len(m) }

(* A program that is killed in one of several sends has sent those before it:   *)
(* to each slot nothing, a have message, or everything.                      *)
Sent(out, how) ==
    IF how \notin {"killed", "crashed"} THEN {out}
    ELSE { f \in [Slots -> UNION { Parts(out[s]) : s \in Slots }] :
             \A s \in Slots : f[s] \in Parts(out[s]) }

(* c is between two rounds of its loop, or at the point of a handler where it   *)
(* has nothing to send.                                                     *)
Runs(c) == client[c].proc = "up" /\ sending[c] = {}

-----------------------------------------------------------------------------
(* download_from_peers connects to a client that accepts: the two handshakes,  *)
(* and a bit field from each side.                                          *)
Connect(c, d) ==
    /\ c # d /\ c \notin Seeders
    /\ \A e \in {c, d} : Runs(e) /\ serving[e] = NULL
    /\ opened < MaxOpened
    /\ opened' = opened + 1
    /\ LET i == FreeSlot(client[c])
           j == FreeSlot(client[d])
       IN /\ i \in Slots /\ j \in Slots
          /\ client' = [client EXCEPT
                ![c] = Opened(@, i),
                ![d] = [Opened(@, j) EXCEPT !.conn[j].bit_field = NULL]]
          /\ far' = [far EXCEPT ![c][i] = <<d, j>>, ![d][j] = <<c, i>>]
          /\ wire' = [wire EXCEPT
                ![c][i] = BitFieldMessage(client[d].bits, no_of_peices),
                ![d][j] = BitFieldMessage(client[c].bits, no_of_peices)]
          /\ taken' = [taken EXCEPT ![c][i] = <<>>, ![d][j] = <<>>]
    /\ UNCHANGED <<serving, sending>>

Readable(c, i) ==
    /\ Runs(c) /\ serving[c] \in {NULL, i}
    /\ client[c].conn[i].in_use
    /\ wire[c][i] # <<>> \/ ~Linked(c, i)

MayLeave(c, i) == Reactions(client[c], i, wire[c][i], ~Linked(c, i))

(* A handler waits in readn, and keeps c from its other connections.          *)
Wait(c, i) ==
    /\ Readable(c, i)
    /\ MayLeave(c, i) = {}
    /\ serving[c] = NULL /\ serving' = [serving EXCEPT ![c] = i]
    /\ UNCHANGED <<client, sending, far, wire, opened, taken>>

NewlyCompleted(before, after) ==
    SetToSeq({ p \in Pieces : before.stat[p] # COMPLETED /\ after.stat[p] = COMPLETED })

(* read_from_client_connection(i) of c, from select to select but for the sends *)
(* that wait.  The kernel closes what a process that ends has open.           *)
Serve(c, i) ==
    /\ Readable(c, i)
    /\ \E r \in MayLeave(c, i) :
        \E how \in IF r.client.proc = "up" THEN AfterSends(c, r.out) ELSE {r.client.proc} :
        \E out \in Sent(r.out, how) :
          /\ client' = [client EXCEPT ![c] = [r.client EXCEPT !.proc = how]]
          /\ taken' = [taken EXCEPT ![c][i] = @ \o NewlyCompleted(client[c], r.client)]
          /\ sending' = [sending EXCEPT ![c] = IF how = "up" THEN Overfull(c, out) ELSE {}]
          /\ LET shut == IF how # "up" THEN Slots
                         ELSE { s \in Slots : client[c].conn[s].in_use /\ ~r.client.conn[s].in_use }
             IN /\ far' = Parted(c, shut)
                /\ wire' = [Delivered(c, out) EXCEPT ![c] =
                     [s \in Slots |-> IF s \in shut THEN <<>>
                                      ELSE IF s = i THEN SubSeq(@[s], r.used + 1, Len(@[s]))
                                      ELSE @[s]]]
    /\ serving' = [serving EXCEPT ![c] = NULL]
    /\ UNCHANGED opened

(* A send returns when the other end has read enough, or has closed.          *)
Returns(c, s) ==
    /\ s \in sending[c]
    /\ Linked(c, s) => Len(wire[far[c][s][1]][far[c][s][2]]) <= Capacity
    /\ sending' = [sending EXCEPT ![c] = @ \ {s}]
    /\ UNCHANGED <<client, serving, far, wire, opened, taken>>

(* A send that waits when the other end closes may also end the program, by     *)
(* SIGPIPE, or because a block is freed twice.                               *)
Breaks(c, s) ==
    /\ s \in sending[c]
    /\ ~Linked(c, s)
    /\ \E how \in {"killed", "crashed"} : client' = [client EXCEPT ![c].proc = how]
    /\ sending' = [sending EXCEPT ![c] = {}]
    /\ far' = Parted(c, Slots)
    /\ wire' = [wire EXCEPT ![c] = Silence]
    /\ UNCHANGED <<serving, opened, taken>>

-----------------------------------------------------------------------------
Init ==
    /\ \E M \in Machines :
        client = [c \in Clients |-> NewClient(c \in Seeders, c \in M, NOT_DOWNLOADED)]
    /\ serving = [c \in Clients |-> NULL]
    /\ sending = [c \in Clients |-> {}]
    /\ far = [c \in Clients |-> [s \in Slots |-> NULL]]
    /\ wire = [c \in Clients |-> [s \in Slots |-> <<>>]]
    /\ opened = 0
    /\ taken = [c \in Clients |-> [s \in Slots |-> <<>>]]

Next ==
    \E c \in Clients :
        \/ \E d \in Clients : Connect(c, d)
        \/ \E i \in Slots : Wait(c, i) \/ Serve(c, i) \/ Returns(c, i) \/ Breaks(c, i)

(* The loop of a client that runs reads every connection that is readable.    *)
(* This is WF_vars(Serve(c, i)) with the condition of ENABLED written out.     *)
(* A send that can return does.                                             *)
ReadInTurn(c, i) ==
    <>[](Readable(c, i) /\ MayLeave(c, i) # {}) => []<><<Serve(c, i)>>_vars

Spec ==
    /\ Init /\ [][Next]_vars
    /\ \A c \in Clients, i \in Slots : ReadInTurn(c, i) /\ WF_vars(Returns(c, i))

-----------------------------------------------------------------------------
Has(c) == { p \in Pieces : client[c].stat[p] = COMPLETED }

(* The have messages of c are still have messages: its machine does not swap   *)
(* bytes, or it has sent none.                                              *)
Sound(c) == ~client[c].swaps \/ Has(c) = {}

(* All that one client says to another that says nothing else.  The blocks are  *)
(* also those that are sent for a request that was never made.              *)
Sayings ==
    { Message(id, <<>>) : id \in {UNCHOKE, INTERSTED, NOT_INTERSTED} }
        \cup { BitFieldMessage(bits, no_of_peices) : bits \in SUBSET Pieces }
        \cup { Message(HAVE_PEICE, Word(p)) : p \in Pieces }
        \cup { RequestMessage(p, 0, RequestLength(p)) : p \in Index }
        \cup { PeiceMessage(p, begin, Data(p, begin, n)) :
                 p \in Pieces, begin \in 0 .. PieceSize, n \in 0 .. PieceSize }

InSync(c, i) ==
    wire[c][i] # <<>> => \E n \in 1 .. Len(wire[c][i]) : SubSeq(wire[c][i], 1, n) \in Sayings

(* What a client reads of another one begins with a message whenever it comes  *)
(* back to the stream, whatever was read before, until the other one, on a    *)
(* machine that swaps bytes, has completed a piece.                         *)
StreamsInSync ==
    \A c \in Clients, i \in Slots :
        Linked(c, i) /\ Sound(far[c][i][1]) => InSync(c, i)

(* No client waits in readn for another one: what has been sent to it, or is on *)
(* its way there, is read at its next turn, so that no two wait for each other *)
(* there, and one that waits in send waits for a client that takes what it     *)
(* sends as soon as it is at its loop.  This is until one of the two, on a     *)
(* machine that swaps bytes, has completed a piece.                          *)
WhatIsSentIsRead ==
    \A c \in Clients, i \in Slots :
        Linked(c, i) /\ Sound(c) /\ Sound(far[c][i][1]) =>
            /\ serving[c] # i
            /\ wire[c][i] # <<>> => MayLeave(c, i) # {}


(* The two ends of a connection agree once nothing is on its way: on who       *)
(* chokes, on the pieces of a client, and on interest as far as it still      *)
(* matters.                                                                *)
EndsAgree ==
    \A c \in Clients, i \in Slots :
        Linked(c, i) =>
            LET d == far[c][i][1]
                j == far[c][i][2]
            IN wire[c][i] = <<>> /\ wire[d][j] = <<>> /\ Sound(c) /\ Sound(d) =>
                /\ client[c].conn[i].peer_chocking = client[d].conn[j].am_chocking
                /\ client[c].conn[i].bit_field = client[d].bits
                /\ client[c].conn[i].am_intersted /\ Has(c) # Pieces =>
                    client[d].conn[j].peer_intersted

(* No connection ever brings more than one piece, or piece 0 and one more:     *)
(* what a client sends the others when it has a piece ends a seeder that      *)
(* understands it, and one that does not takes its last four bytes, which    *)
(* are only harmless for piece 0, for the head of a message.                 *)
OneOrTwoPieces ==
    \A c \in Clients, i \in Slots :
        taken[c][i] # <<>> =>
            \/ Len(taken[c][i]) = 1
            \/ client[c].swaps /\ Len(taken[c][i]) = 2 /\ taken[c][i][1] = 0

(* A client that downloads is connected to a seeder: somebody gets a piece.    *)
FirstPieceArrives ==
    (\E c \in Clients, i \in Slots : Linked(c, i) /\ far[c][i][1] \in Seeders)
        ~> (\E c \in Clients : Has(c) # {})

(* "inform all other peer about your downloaded peice" (download.c:458): a     *)
(* peer that has read all that was sent to it knows of it.                   *)
HaveIsHeard ==
    \A c \in Clients, i \in Slots :
        Linked(c, i) /\ wire[c][i] = <<>> /\ serving[c] = NULL
            /\ client[c].conn[i].bit_field # NULL
            => Has(far[c][i][1]) \subseteq client[c].conn[i].bit_field
=============================================================================
