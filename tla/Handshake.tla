------------------------------ MODULE Handshake ------------------------------
(***************************************************************************)
(* Several clients that find each other through the tracker and open          *)
(* connections among themselves.  A client has one thread: while it waits    *)
(* for the handshake of a peer, in the announce command or after an accept,  *)
(* it serves nobody, and nor does it while it waits for the tracker or is     *)
(* held up in the handler of a message.  The kernel completes a connect       *)
(* without the program that listens, so that a client may wait for one that   *)
(* waits itself.                                                            *)
(*                                                                         *)
(* A link is a TCP connection with the state of its two ends.               *)
(***************************************************************************)
EXTENDS Integers, Sequences, SequencesExt, FiniteSets

CONSTANTS
    Clients,
    Seeders,        \* started with the file: they announce, but never connect
    Hidden,         \* their address at the tracker is not the one they see
    Torrents,       \* what torrents the clients may have been started with
    Lists,          \* the orders in which the tracker may list the clients
    MAX_CONN,       \* size of a connection table
    MaxAnnounces    \* bound: announce commands of all clients together

ASSUME ConstantsAssumption ==
    /\ IsFiniteSet(Clients)
    /\ Seeders \subseteq Clients /\ Hidden \subseteq Clients
    /\ \A t \in Torrents : DOMAIN t = Clients
    /\ \A list \in Lists : list \in Seq(Clients) /\ IsInjective(list)
    /\ MAX_CONN \in Nat \ {0}
    /\ MaxAnnounces \in Nat

VARIABLES
    alive,          \* the clients that run
    announces,      \* announce commands so far
    todo,           \* todo[c]: what download_from_peers has still to connect to
    links,          \* the connections, in the order in which they were opened
    torrent,        \* torrent[c]: the torrent c was started with
    place           \* place[c]: the link on which a handler of c is held up, or
                    \* one of AtTracker, Elsewhere

vars == <<alive, announces, todo, links, torrent, place>>

Elsewhere == 0
AtTracker == -1

(* near: "fresh" connected, "greeted" waits for the answer, "up", "gone".     *)
(* far: "queued" not yet accepted, "hearing" waits for the handshake, "up",   *)
(* "gone".  hello and reply: the handshakes that were sent.                  *)
Link ==
    [from: Clients, to: Clients, hello: BOOLEAN, reply: BOOLEAN,
     near: {"fresh", "greeted", "up", "gone"},
     far: {"queued", "hearing", "up", "gone"}]

Ids == DOMAIN links

Out(c, states) == { k \in Ids : links[k].from = c /\ links[k].near \in states }
In(c, states)  == { k \in Ids : links[k].to = c /\ links[k].far \in states }

(* The slots of c in use.                                                   *)
InUse(c) == Out(c, {"fresh", "greeted", "up"}) \cup In(c, {"hearing", "up"})

Full(c) == Cardinality(InUse(c)) >= MAX_CONN

(* c is inside establish_conn_with_client or establish_tcp_connection.       *)
InCall(c) == Out(c, {"fresh", "greeted"}) \cup In(c, {"hearing"})

(* c is at select.                                                          *)
Idle(c) == c \in alive /\ place[c] = Elsewhere /\ todo[c] = <<>> /\ InCall(c) = {}

Update(k, field, value) == links' = [links EXCEPT ![k][field] = value]

-----------------------------------------------------------------------------
(* populate_tracker_struct: a client strikes itself from the list if it finds *)
(* its own address there, and takes one entry less than the list has.        *)
Listed(c, list) ==
    SubSeq(SelectSeq(list, LAMBDA d : d # c \/ c \in Hidden), 1, Len(list) - 1)

(* The announce command waits for the response of the tracker.               *)
AskTracker(c) ==
    /\ Idle(c)
    /\ announces < MaxAnnounces
    /\ announces' = announces + 1
    /\ place' = [place EXCEPT ![c] = AtTracker]
    /\ UNCHANGED <<alive, todo, links, torrent>>

(* The response has come, or none will.  A client that has the file does not   *)
(* connect; another one takes the list, which may be the last one's or empty. *)
LeaveTracker(c) ==
    /\ place[c] = AtTracker
    /\ place' = [place EXCEPT ![c] = Elsewhere]
    /\ \/ UNCHANGED todo
       \/ c \notin Seeders /\ \E list \in Lists : todo' = [todo EXCEPT ![c] = Listed(c, list)]
    /\ UNCHANGED <<alive, announces, links, torrent>>

-----------------------------------------------------------------------------
(* Handlers of open connections                                             *)

OtherEnd(c, k) == IF links[k].from = c THEN links[k].to ELSE links[k].from

Closed(k) == "gone" \in {links[k].near, links[k].far}

(* A handler of c waits for bytes that the other end has not sent, in readn,   *)
(* or for room for the bytes it sends, in send.                              *)
HeldUp(c) ==
    /\ Idle(c)
    /\ \E k \in Out(c, {"up"}) \cup In(c, {"up"}) :
        ~Closed(k) /\ place' = [place EXCEPT ![c] = k]
    /\ UNCHANGED <<alive, announces, todo, links, torrent>>

(* It goes on when the program at the other end has sent or read, from its     *)
(* loop or from a handler of the same connection; and when it has closed.    *)
GoesOn(c) ==
    /\ place[c] \in Ids
    /\ LET d == OtherEnd(c, place[c])
       IN d # c /\ (Idle(d) \/ place[d] = place[c])
    /\ place' = [place EXCEPT ![c] = Elsewhere]
    /\ UNCHANGED <<alive, announces, todo, links, torrent>>

LetGo(c) ==
    /\ place[c] \in Ids
    /\ Closed(place[c])
    /\ place' = [place EXCEPT ![c] = Elsewhere]
    /\ UNCHANGED <<alive, announces, todo, links, torrent>>

-----------------------------------------------------------------------------
(* Handshakes                                                               *)

NextPeer(c) == c \in alive /\ InCall(c) = {} /\ todo[c] # <<>>

(* connect succeeds as soon as the other program listens.                    *)
Connect(c) ==
    /\ NextPeer(c)
    /\ ~Full(c)
    /\ Head(todo[c]) \in alive
    /\ links' = Append(links, [from |-> c, to |-> Head(todo[c]),
                               hello |-> FALSE, reply |-> FALSE,
                               near |-> "fresh", far |-> "queued"])
    /\ UNCHANGED <<alive, announces, todo, torrent, place>>

ConnectFails(c) ==
    /\ NextPeer(c)
    /\ ~Full(c)
    /\ Head(todo[c]) \notin alive
    /\ todo' = [todo EXCEPT ![c] = Tail(@)]
    /\ UNCHANGED <<alive, announces, links, torrent, place>>

(* A handshake whose peer has ended may be refused, which ends the call with  *)
(* the slot in use.                                                         *)
Greet(c) ==
    /\ c \in alive
    /\ \E k \in Out(c, {"fresh"}) :
        \/ /\ links' = [links EXCEPT ![k].near = "greeted", ![k].hello = TRUE]
           /\ UNCHANGED todo
        \/ /\ links[k].far = "gone"
           /\ Update(k, "near", "up")
           /\ todo' = [todo EXCEPT ![c] = Tail(@)]
    /\ UNCHANGED <<alive, announces, torrent, place>>

(* Mutant: the wait for the answer ends without one.                         *)
AwaitNothing(c) ==
    /\ c \in alive
    /\ \E k \in Out(c, {"greeted"}) :
        Update(k, "near", IF links[k].reply THEN "up" ELSE "gone")
    /\ todo' = [todo EXCEPT ![c] = Tail(@)]
    /\ UNCHANGED <<alive, announces, torrent, place>>

(* The blocking read of the answer returns when it came or the other end is   *)
(* closed; without an answer the connection is closed.                      *)
Await(c) ==
    /\ c \in alive
    /\ \E k \in Out(c, {"greeted"}) :
        /\ links[k].reply \/ links[k].far = "gone"
        /\ Update(k, "near", IF links[k].reply THEN "up" ELSE "gone")
    /\ todo' = [todo EXCEPT ![c] = Tail(@)]
    /\ UNCHANGED <<alive, announces, torrent, place>>

(* Mutants: the torrent is not compared; the answer is not sent.             *)
AnyTorrent(k) == TRUE
Unanswered(k) == Update(k, "far", "up")

SameTorrent(k) == torrent[links[k].from] = torrent[links[k].to]

Answered(k) == links' = [links EXCEPT ![k].far = "up", ![k].reply = TRUE]

(* select serves the listening socket; with a full table nothing is accepted. *)
Accept(c) ==
    /\ Idle(c)
    /\ ~Full(c)
    /\ \E k \in In(c, {"queued"}) :
        /\ \A m \in In(c, {"queued"}) : k <= m
        /\ Update(k, "far", "hearing")
    /\ UNCHANGED <<alive, announces, todo, torrent, place>>

(* The rest of establish_tcp_connection: the blocking read of the handshake,  *)
(* and the answer to one that is taken.                                     *)
Hear(c) ==
    /\ c \in alive
    /\ \E k \in In(c, {"hearing"}) :
        \/ /\ links[k].hello /\ SameTorrent(k)
           /\ Answered(k)
        \/ /\ IF links[k].hello THEN ~SameTorrent(k) ELSE links[k].near = "gone"
           /\ Update(k, "far", "gone")
    /\ UNCHANGED <<alive, announces, todo, torrent, place>>

(* The event loop reads the end of the stream of a connection.               *)
Close(c) ==
    /\ Idle(c)
    /\ \/ \E k \in Out(c, {"up"}) : links[k].far = "gone" /\ Update(k, "near", "gone")
       \/ \E k \in In(c, {"up"}) : links[k].near = "gone" /\ Update(k, "far", "gone")
    /\ UNCHANGED <<alive, announces, todo, torrent, place>>

(* A handler closes a connection, for a message it does not accept.          *)
Drop(c) ==
    /\ Idle(c)
    /\ \/ \E k \in Out(c, {"up"}) : Update(k, "near", "gone")
       \/ \E k \in In(c, {"up"}) : Update(k, "far", "gone")
    /\ UNCHANGED <<alive, announces, todo, torrent, place>>

(* What the kernel does with the connections of a program that has ended.    *)
EndAll(c) ==
    [k \in Ids |-> [links[k] EXCEPT
        !.near = IF links[k].from = c THEN "gone" ELSE @,
        !.far  = IF links[k].to = c THEN "gone" ELSE @]]

(* The program ends, by quit or by a signal, wherever it is.                 *)
End(c) ==
    /\ c \in alive
    /\ alive' = alive \ {c}
    /\ links' = EndAll(c)
    /\ place' = [place EXCEPT ![c] = Elsewhere]
    /\ UNCHANGED <<announces, todo, torrent>>

(* With a full table the slot of the next connection is -1 and what lies      *)
(* before the table is overwritten, taken here as the end of the program.    *)
Overrun(c) ==
    /\ NextPeer(c)
    /\ Full(c)
    /\ End(c)

-----------------------------------------------------------------------------
Init ==
    /\ alive = Clients
    /\ announces = 0
    /\ todo = [c \in Clients |-> <<>>]
    /\ links = <<>>
    /\ torrent \in Torrents
    /\ place = [c \in Clients |-> Elsewhere]

Proceed(c) ==
    \/ Connect(c)
    \/ ConnectFails(c)
    \/ Greet(c)
    \/ Await(c)
    \/ Accept(c)
    \/ Hear(c)
    \/ Close(c)
    \/ LetGo(c)
    \/ Overrun(c)

Next ==
    \E c \in Clients :
        \/ AskTracker(c)
        \/ LeaveTracker(c)
        \/ HeldUp(c)
        \/ GoesOn(c)
        \/ Proceed(c)
        \/ Drop(c)
        \/ End(c)

(* A program that is not blocked goes on, and each turn of its loop serves the *)
(* listening socket and every connection that is readable.  The tracker need   *)
(* not respond, the other end of a handler that is held up need not send or    *)
(* read, and users need not announce or quit.                                *)
Spec ==
    /\ Init /\ [][Next]_vars
    /\ \A c \in Clients : WF_vars(Proceed(c)) /\ SF_vars(Accept(c)) /\ SF_vars(Close(c))

-----------------------------------------------------------------------------
(* What one end takes for an open connection is one for the other end: after  *)
(* a handshake the client at the near end may send on it and the client at    *)
(* the far end reads it, both handshakes were sent, and the torrent is the    *)
(* same, unless the other end has closed in the meantime.                   *)
UpMeansShaken ==
    \A k \in Ids :
        /\ links[k].near = "up" => links[k].far \in {"up", "gone"}
        /\ links[k].near = "up" /\ links[k].far = "up" =>
            links[k].hello /\ links[k].reply
        /\ "up" \in {links[k].near, links[k].far} /\ links[k].reply =>
            torrent[links[k].from] = torrent[links[k].to]

(* c waits for an answer that d has not sent.                                *)
WaitsFor(c, d) ==
    \E k \in Out(c, {"greeted"}) :
        links[k].to = d /\ ~links[k].reply /\ links[k].far # "gone"

(* c is held up in a handler by d, which is not in a handler of the same       *)
(* connection.                                                              *)
HeldBy(c, d) ==
    LET k == place[c]
    IN /\ k \in Ids /\ ~Closed(k)
       /\ d = OtherEnd(c, k)
       /\ d = c \/ place[d] # k

(* Every client of X waits for one of X, for a handshake or in a handler: X     *)
(* holds a ring.                                                            *)
Ring(X) == \A c \in X : \E d \in X : WaitsFor(c, d) \/ HeldBy(c, d)

(* Waiting in a ring lasts until one of its clients ends: there is no timeout, *)
(* and no way for a client that waits to answer, send or read.               *)
RingsLast ==
    [][\A X \in SUBSET Clients :
        X # {} /\ Ring(X) => Ring(X)' \/ ~(X \subseteq alive')]_vars

(* c waits for a client that does not answer: every client along the chain of  *)
(* those who wait has a full table, is held up in a handler or waits for the  *)
(* tracker, if the chain does not close to a ring.                           *)
Stuck(c) ==
    \E X \in SUBSET Clients :
        /\ c \in X
        /\ \A d \in X :
            Full(d) \/ place[d] # Elsewhere \/ \E e \in X : WaitsFor(d, e)

(* A ring, a full table, a handler that is held up for ever and a tracker that *)
(* never responds are the only ways to wait for ever: every other client that  *)
(* waits for a handshake gets an answer or the end of the stream, however      *)
(* often those it waits for are held up for a while.                         *)
WaitEnds ==
    \A c \in Clients :
        <>[](\E d \in Clients : WaitsFor(c, d)) => <>[]Stuck(c)
=============================================================================
