-------------------------- MODULE HandshakeProofs --------------------------
(***************************************************************************)
(* What holds of clients that connect to each other, however many there are   *)
(* and however large their tables: two ends agree on what is open, and a      *)
(* ring of clients that wait for each other stays.                          *)
(***************************************************************************)
EXTENDS Handshake, SequenceTheorems, TLAPS

-----------------------------------------------------------------------------
(* Links                                                                    *)

LinksOK == alive \subseteq Clients /\ links \in Seq(Link)

(* The link l with other states of its ends.                                 *)
With(l, near, far, hello, reply) ==
    [from |-> l.from, to |-> l.to, hello |-> hello, reply |-> reply,
     near |-> near, far |-> far]

NearStates == {"fresh", "greeted", "up", "gone"}
FarStates  == {"queued", "hearing", "up", "gone"}

LEMMA WithIsLink ==
    ASSUME NEW l \in Link, NEW near \in NearStates, NEW far \in FarStates,
           NEW hello \in BOOLEAN, NEW reply \in BOOLEAN
    PROVE  With(l, near, far, hello, reply) \in Link
BY DEF With, Link, NearStates, FarStates

LEMMA LinkHas ==
    ASSUME NEW l \in Link
    PROVE  /\ l.from \in Clients /\ l.to \in Clients
           /\ l.hello \in BOOLEAN /\ l.reply \in BOOLEAN
           /\ l.near \in NearStates /\ l.far \in FarStates
BY DEF Link, NearStates, FarStates

(* The ways in which the handlers write to a link.                           *)
LEMMA NearWith ==
    ASSUME NEW l \in Link, NEW v \in NearStates
    PROVE  [l EXCEPT !.near = v] = With(l, v, l.far, l.hello, l.reply)
BY DEF With, Link, NearStates

LEMMA FarWith ==
    ASSUME NEW l \in Link, NEW v \in FarStates
    PROVE  [l EXCEPT !.far = v] = With(l, l.near, v, l.hello, l.reply)
BY DEF With, Link, FarStates

LEMMA SentWith ==
    ASSUME NEW l \in Link, NEW b
    PROVE  /\ [l EXCEPT !.hello = b] = With(l, l.near, l.far, b, l.reply)
           /\ [l EXCEPT !.reply = b] = With(l, l.near, l.far, l.hello, b)
BY DEF With, Link

LEMMA NearFarWith ==
    ASSUME NEW l \in Link, NEW v \in NearStates, NEW w \in FarStates
    PROVE  [l EXCEPT !.near = v, !.far = w] = With(l, v, w, l.hello, l.reply)
<1> DEFINE m == [l EXCEPT !.near = v]
<1>1. m = With(l, v, l.far, l.hello, l.reply)
  BY NearWith
<1> HIDE DEF m
<1>2. m \in Link
  <2>1. l.far \in FarStates /\ l.hello \in BOOLEAN /\ l.reply \in BOOLEAN
    BY LinkHas
  <2> QED
    BY <1>1, <2>1, WithIsLink
<1>3. [m EXCEPT !.far = w] = With(l, v, w, l.hello, l.reply)
  BY <1>1, <1>2, FarWith DEF With
<1> QED
  BY <1>3 DEF m

LEMMA HelloWith ==
    ASSUME NEW l \in Link
    PROVE  [l EXCEPT !.near = "greeted", !.hello = TRUE]
             = With(l, "greeted", l.far, TRUE, l.reply)
<1> DEFINE m == [l EXCEPT !.near = "greeted"]
<1>1. m = With(l, "greeted", l.far, l.hello, l.reply)
  BY NearWith DEF NearStates
<1> HIDE DEF m
<1>2. m \in Link
  <2>1. l.far \in FarStates /\ l.hello \in BOOLEAN /\ l.reply \in BOOLEAN
    BY LinkHas
  <2>2. "greeted" \in NearStates
    BY DEF NearStates
  <2> QED
    BY <1>1, <2>1, <2>2, WithIsLink
<1>3. [m EXCEPT !.hello = TRUE] = With(m, m.near, m.far, TRUE, m.reply)
  BY <1>2, SentWith
<1>4. /\ m.from = l.from /\ m.to = l.to /\ m.near = "greeted"
      /\ m.far = l.far /\ m.reply = l.reply
  BY <1>1 DEF With
<1>5. [m EXCEPT !.hello = TRUE] = With(l, "greeted", l.far, TRUE, l.reply)
  BY <1>3, <1>4, Zenon DEF With
<1> QED
  BY <1>5 DEF m

LEMMA ReplyWith ==
    ASSUME NEW l \in Link
    PROVE  [l EXCEPT !.far = "up", !.reply = TRUE]
             = With(l, l.near, "up", l.hello, TRUE)
<1> DEFINE m == [l EXCEPT !.far = "up"]
<1>1. m = With(l, l.near, "up", l.hello, l.reply)
  BY FarWith DEF FarStates
<1>2. m \in Link
  BY <1>1, LinkHas, WithIsLink DEF FarStates
<1> HIDE DEF m
<1>3. [m EXCEPT !.reply = TRUE] = With(m, m.near, m.far, m.hello, TRUE)
  BY <1>2, SentWith
<1>4. /\ m.from = l.from /\ m.to = l.to /\ m.near = l.near
      /\ m.far = "up" /\ m.hello = l.hello
  BY <1>1 DEF With
<1>5. [m EXCEPT !.reply = TRUE] = With(l, l.near, "up", l.hello, TRUE)
  BY <1>3, <1>4, Zenon DEF With
<1> QED
  BY <1>5 DEF m

-----------------------------------------------------------------------------
(* Steps                                                                    *)

(* Link k becomes m, and the others stay.                                    *)
Becomes(k, m) ==
    /\ links' \in Seq(Link) /\ Ids' = Ids
    /\ links'[k] = m
    /\ \A j \in Ids \ {k} : links'[j] = links[j]

LEMMA BecomesByExcept ==
    ASSUME LinksOK, NEW k \in Ids, NEW m \in Link, links' = [links EXCEPT ![k] = m]
    PROVE  Becomes(k, m)
BY DEF LinksOK, Becomes, Ids

LEMMA BecomesByUpdate ==
    ASSUME LinksOK, NEW k \in Ids
    PROVE  /\ \A v \in NearStates : Update(k, "near", v) =>
                Becomes(k, With(links[k], v, links[k].far, links[k].hello, links[k].reply))
           /\ \A v \in FarStates : Update(k, "far", v) =>
                Becomes(k, With(links[k], links[k].near, v, links[k].hello, links[k].reply))
<1> DEFINE l == links[k]
<1>1. l \in Link
  BY DEF LinksOK, Ids
<1>2. ASSUME NEW v \in NearStates, Update(k, "near", v)
      PROVE  Becomes(k, With(l, v, l.far, l.hello, l.reply))
  <2>1. links' = [links EXCEPT ![k] = [l EXCEPT !.near = v]]
    BY <1>2 DEF Update
  <2>2. [l EXCEPT !.near = v] = With(l, v, l.far, l.hello, l.reply)
    BY <1>1, NearWith
  <2> QED
    BY <1>1, <2>1, <2>2, LinkHas, WithIsLink, BecomesByExcept
<1>3. ASSUME NEW v \in FarStates, Update(k, "far", v)
      PROVE  Becomes(k, With(l, l.near, v, l.hello, l.reply))
  <2>1. links' = [links EXCEPT ![k] = [l EXCEPT !.far = v]]
    BY <1>3 DEF Update
  <2>2. [l EXCEPT !.far = v] = With(l, l.near, v, l.hello, l.reply)
    BY <1>1, FarWith
  <2> QED
    BY <1>1, <2>1, <2>2, LinkHas, WithIsLink, BecomesByExcept
<1> QED
  BY <1>2, <1>3

NewLink(c, d) ==
    [from |-> c, to |-> d, hello |-> FALSE, reply |-> FALSE,
     near |-> "fresh", far |-> "queued"]

(* What c makes of a link by a handler: of one from it, of one to it, and of   *)
(* one that is open.                                                        *)
Calls(c, k, m) ==
    LET l == links[k]
    IN /\ l.from = c
       /\ \/ l.near = "fresh" /\ m = With(l, "greeted", l.far, TRUE, l.reply)
          \/ l.near = "fresh" /\ l.far = "gone" /\ m = With(l, "up", l.far, l.hello, l.reply)
          \/ l.near = "greeted" /\ l.reply /\ m = With(l, "up", l.far, l.hello, l.reply)
          \/ l.near = "greeted" /\ l.far = "gone" /\ m = With(l, "gone", l.far, l.hello, l.reply)

Answers(c, k, m) ==
    LET l == links[k]
    IN /\ l.to = c
       /\ \/ /\ l.far = "queued" /\ Idle(c)
             /\ m = With(l, l.near, "hearing", l.hello, l.reply)
          \/ /\ l.far = "hearing" /\ l.hello /\ SameTorrent(k)
             /\ m = With(l, l.near, "up", l.hello, TRUE)
          \/ l.far = "hearing" /\ m = With(l, l.near, "gone", l.hello, l.reply)

Closes(c, k, m) ==
    LET l == links[k]
    IN /\ Idle(c)
       /\ \/ l.from = c /\ l.near = "up" /\ m = With(l, "gone", l.far, l.hello, l.reply)
          \/ l.to = c /\ l.far = "up" /\ m = With(l, l.near, "gone", l.hello, l.reply)

Handles(c, k, m) == Calls(c, k, m) \/ Answers(c, k, m) \/ Closes(c, k, m)

(* A step of c.                                                             *)
Does(c) ==
    AskTracker(c) \/ LeaveTracker(c) \/ HeldUp(c) \/ GoesOn(c) \/ Proceed(c) \/ Drop(c) \/ End(c)

(* What it does to the links.                                                *)
StepsLinks(c) ==
    \/ UNCHANGED links
    \/ \E k \in Ids : \E m : Handles(c, k, m) /\ Becomes(k, m)
    \/ InCall(c) = {} /\ \E d \in Clients : links' = Append(links, NewLink(c, d))
    \/ c \notin alive' /\ links' = EndAll(c)

LEMMA Steps ==
    ASSUME LinksOK, NEW c \in Clients, Does(c)
    PROVE  StepsLinks(c) /\ alive' \subseteq alive /\ torrent' = torrent
<1> USE DEF InCall, Out, In
<1>0. \A k \in Ids : links[k] \in Link
  BY DEF LinksOK, Ids
<1>1. CASE AskTracker(c) \/ LeaveTracker(c) \/ HeldUp(c) \/ GoesOn(c) \/ LetGo(c) \/ ConnectFails(c)
  BY <1>1 DEF AskTracker, LeaveTracker, HeldUp, GoesOn, LetGo, ConnectFails, StepsLinks
<1>2. CASE Connect(c)
  <2>1. Head(todo[c]) \in Clients
    BY <1>2 DEF Connect, LinksOK
  <2>2. links' = Append(links, NewLink(c, Head(todo[c]))) /\ InCall(c) = {}
    BY <1>2 DEF Connect, NextPeer, NewLink
  <2>3. alive' = alive /\ torrent' = torrent
    BY <1>2 DEF Connect
  <2> QED
    BY <2>1, <2>2, <2>3 DEF StepsLinks
<1>3. CASE Greet(c)
  <2>1. PICK k \in Out(c, {"fresh"}) :
          \/ links' = [links EXCEPT ![k].near = "greeted", ![k].hello = TRUE]
          \/ links[k].far = "gone" /\ Update(k, "near", "up")
    BY <1>3 DEF Greet
  <2> DEFINE l == links[k]
  <2>2. k \in Ids /\ l.from = c /\ l.near = "fresh" /\ l \in Link
    BY <1>0, <2>1
  <2>3. CASE links' = [links EXCEPT ![k].near = "greeted", ![k].hello = TRUE]
    <3> DEFINE m == With(l, "greeted", l.far, TRUE, l.reply)
    <3>1. links' = [links EXCEPT ![k] = [l EXCEPT !.near = "greeted", !.hello = TRUE]]
      BY <2>2, <2>3 DEF LinksOK, Ids
    <3>2. links' = [links EXCEPT ![k] = m]
      BY <2>2, <3>1, HelloWith
    <3>3. m \in Link
      BY <2>2, LinkHas, WithIsLink DEF NearStates
    <3>4. Becomes(k, m)
      BY <2>2, <3>2, <3>3, BecomesByExcept
    <3>5. Handles(c, k, m)
      BY <2>2 DEF Handles, Calls
    <3> QED
      BY <1>3, <2>2, <3>4, <3>5 DEF StepsLinks, Greet
  <2>4. CASE l.far = "gone" /\ Update(k, "near", "up")
    <3> DEFINE m == With(l, "up", l.far, l.hello, l.reply)
    <3>1. Becomes(k, m)
      BY <2>2, <2>4, BecomesByUpdate DEF NearStates
    <3>2. Handles(c, k, m)
      BY <2>2, <2>4 DEF Handles, Calls
    <3> QED
      BY <1>3, <2>2, <3>1, <3>2 DEF StepsLinks, Greet
  <2> QED
    BY <2>1, <2>3, <2>4
<1>4. CASE Await(c)
  <2>1. PICK k \in Out(c, {"greeted"}) :
          \/ links[k].reply /\ Update(k, "near", "up")
          \/ links[k].far = "gone" /\ Update(k, "near", "gone")
    BY <1>4 DEF Await
  <2> DEFINE l == links[k]
             m(near) == With(l, near, l.far, l.hello, l.reply)
  <2>2. k \in Ids /\ l.from = c /\ l.near = "greeted"
    BY <2>1
  <2>3. CASE l.reply /\ Update(k, "near", "up")
    <3>1. Becomes(k, m("up")) /\ Handles(c, k, m("up"))
      BY <2>2, <2>3, BecomesByUpdate DEF NearStates, Handles, Calls
    <3> QED
      BY <1>4, <2>2, <3>1 DEF StepsLinks, Await
  <2>4. CASE l.far = "gone" /\ Update(k, "near", "gone")
    <3>1. Becomes(k, m("gone")) /\ Handles(c, k, m("gone"))
      BY <2>2, <2>4, BecomesByUpdate DEF NearStates, Handles, Calls
    <3> QED
      BY <1>4, <2>2, <3>1 DEF StepsLinks, Await
  <2> QED
    BY <2>1, <2>3, <2>4
<1>5. CASE Accept(c)
  <2>1. PICK k \in In(c, {"queued"}) : Update(k, "far", "hearing")
    BY <1>5 DEF Accept
  <2> DEFINE l == links[k]
             m == With(l, l.near, "hearing", l.hello, l.reply)
  <2>2. k \in Ids /\ l.to = c /\ l.far = "queued" /\ Idle(c)
    BY <1>5, <2>1 DEF Accept
  <2>3. Becomes(k, m) /\ Handles(c, k, m)
    BY <2>1, <2>2, BecomesByUpdate DEF FarStates, Handles, Answers
  <2> QED
    BY <1>5, <2>2, <2>3 DEF StepsLinks, Accept
<1>6. CASE Hear(c)
  <2>1. PICK k \in In(c, {"hearing"}) :
          \/ links[k].hello /\ SameTorrent(k) /\ Answered(k)
          \/ Update(k, "far", "gone")
    BY <1>6 DEF Hear
  <2> DEFINE l == links[k]
  <2>2. k \in Ids /\ l.to = c /\ l.far = "hearing" /\ l \in Link
    BY <1>0, <2>1
  <2>3. CASE l.hello /\ SameTorrent(k) /\ Answered(k)
    <3> DEFINE m == With(l, l.near, "up", l.hello, TRUE)
    <3>1. links' = [links EXCEPT ![k] = [l EXCEPT !.far = "up", !.reply = TRUE]]
      BY <2>2, <2>3 DEF Answered, LinksOK, Ids
    <3>2. links' = [links EXCEPT ![k] = m]
      BY <2>2, <3>1, ReplyWith
    <3>3. m \in Link
      BY <2>2, LinkHas, WithIsLink DEF FarStates
    <3>4. Becomes(k, m)
      BY <2>2, <3>2, <3>3, BecomesByExcept
    <3>5. Handles(c, k, m)
      BY <2>2, <2>3 DEF Handles, Answers
    <3> QED
      BY <1>6, <2>2, <3>4, <3>5 DEF StepsLinks, Hear
  <2>4. CASE Update(k, "far", "gone")
    <3> DEFINE m == With(l, l.near, "gone", l.hello, l.reply)
    <3>1. Becomes(k, m) /\ Handles(c, k, m)
      BY <2>2, <2>4, BecomesByUpdate DEF FarStates, Handles, Answers
    <3> QED
      BY <1>6, <2>2, <3>1 DEF StepsLinks, Hear
  <2> QED
    BY <2>1, <2>3, <2>4
<1>7. CASE Close(c) \/ Drop(c)
  <2>1. PICK k \in Ids :
          \/ links[k].from = c /\ links[k].near = "up" /\ Update(k, "near", "gone")
          \/ links[k].to = c /\ links[k].far = "up" /\ Update(k, "far", "gone")
    BY <1>7 DEF Close, Drop
  <2> DEFINE l == links[k]
             near == With(l, "gone", l.far, l.hello, l.reply)
             far == With(l, l.near, "gone", l.hello, l.reply)
  <2>2. /\ Idle(c)
        /\ alive' = alive /\ torrent' = torrent
    BY <1>7 DEF Close, Drop
  <2>3. \/ Becomes(k, near) /\ Handles(c, k, near)
        \/ Becomes(k, far) /\ Handles(c, k, far)
    BY <2>1, <2>2, BecomesByUpdate DEF NearStates, FarStates, Handles, Closes
  <2> QED
    BY <2>2, <2>3 DEF StepsLinks
<1>8. CASE Overrun(c) \/ End(c)
  BY <1>8 DEF Overrun, End, StepsLinks
<1> QED
  BY <1>1, <1>2, <1>3, <1>4, <1>5, <1>6, <1>7, <1>8 DEF Does, Proceed

-----------------------------------------------------------------------------
(* What every step keeps                                                    *)

(* Only a handshake for the same torrent is answered, by an end that then is   *)
(* up; and an end is up only when the other is, or has been closed.          *)
ShakenLink(k) ==
    LET l == links[k]
    IN /\ l.reply => l.hello /\ SameTorrent(k) /\ l.far \in {"up", "gone"}
       /\ l.far = "up" => l.reply
       /\ l.near = "up" => l.far \in {"up", "gone"}

Shaken == \A k \in Ids : ShakenLink(k)

(* A client has one thread: it is in one call, and it does not answer a link   *)
(* to itself while it waits at the other end.                               *)
OneCall ==
    /\ \A c \in Clients : \A k, m \in InCall(c) : k = m
    /\ \A k \in Ids :
        links[k].from = links[k].to /\ links[k].far = "hearing" =>
            links[k].near \notin {"fresh", "greeted"}

(* A client that is held up is in no handshake and has none to begin, and the  *)
(* connection of the handler is open at its end.                            *)
OwnEndUp(c, k) ==
    /\ k \in Ids
    /\ \/ links[k].from = c /\ links[k].near = "up"
       \/ links[k].to = c /\ links[k].far = "up"

Placed ==
    /\ place \in [Clients -> Int] /\ DOMAIN todo = Clients
    /\ \A c \in Clients : place[c] # Elsewhere =>
        /\ todo[c] = <<>> /\ InCall(c) = {}
        /\ place[c] = AtTracker \/ OwnEndUp(c, place[c])

HandshakeInv == LinksOK /\ Shaken /\ OneCall /\ Placed

(* The links after a program has ended.                                      *)
LEMMA EndedLinks ==
    ASSUME LinksOK, NEW c \in Clients, links' = EndAll(c)
    PROVE  /\ links' \in Seq(Link) /\ Ids' = Ids
           /\ \A k \in Ids : LET l == links[k] IN
                links'[k] = With(l, IF l.from = c THEN "gone" ELSE l.near,
                                    IF l.to = c THEN "gone" ELSE l.far, l.hello, l.reply)
<1> DEFINE near(l) == IF l.from = c THEN "gone" ELSE l.near
           far(l) == IF l.to = c THEN "gone" ELSE l.far
           m(l) == With(l, near(l), far(l), l.hello, l.reply)
<1>1. \A k \in Ids : links[k] \in Link
  BY DEF LinksOK, Ids
<1>2. \A k \in Ids : near(links[k]) \in NearStates /\ far(links[k]) \in FarStates
  BY <1>1, LinkHas DEF NearStates, FarStates
<1>3. Ids' = Ids /\ \A k \in Ids :
        links'[k] = [links[k] EXCEPT !.near = near(links[k]), !.far = far(links[k])]
  BY DEF EndAll, Ids
<1> HIDE DEF near, far
<1>4. \A k \in Ids : links'[k] = m(links[k])
  BY <1>1, <1>2, <1>3, NearFarWith
<1> HIDE DEF m
<1>5. \A k \in Ids : m(links[k]) \in Link
  BY <1>1, <1>2, LinkHas, WithIsLink DEF m
<1>6. Ids = 1 .. Len(links)
  BY DEF LinksOK, Ids
<1>7. links' = [k \in 1 .. Len(links) |-> m(links[k])]
  BY <1>4, <1>6 DEF EndAll
<1>8. links' \in Seq(Link)
  BY <1>5, <1>6, <1>7 DEF LinksOK
<1> QED
  BY <1>3, <1>4, <1>8 DEF m, near, far

LEMMA NewLinks ==
    ASSUME LinksOK, NEW c \in Clients, NEW d \in Clients,
           links' = Append(links, NewLink(c, d))
    PROVE  /\ links' \in Seq(Link)
           /\ Ids \subseteq Ids'
           /\ \A k \in Ids : links'[k] = links[k]
           /\ \A k \in Ids' \ Ids : links'[k] = NewLink(c, d)
<1>1. NewLink(c, d) \in Link
  BY DEF NewLink, Link
<1> QED
  BY <1>1 DEF LinksOK, Ids

(* The same, field by field.                                                 *)
LEMMA EndedLinksHave ==
    ASSUME LinksOK, NEW c \in Clients, links' = EndAll(c)
    PROVE  /\ Ids' = Ids
           /\ \A k \in Ids :
                /\ links'[k].from = links[k].from /\ links'[k].to = links[k].to
                /\ links'[k].near \in {links[k].near, "gone"}
                /\ links'[k].far \in {links[k].far, "gone"}
<1>1. ASSUME NEW k \in Ids
      PROVE  /\ links'[k].from = links[k].from /\ links'[k].to = links[k].to
             /\ links'[k].near \in {links[k].near, "gone"}
             /\ links'[k].far \in {links[k].far, "gone"}
  <2> DEFINE l == links[k]
  <2>1. links'[k] = With(l, IF l.from = c THEN "gone" ELSE l.near,
                            IF l.to = c THEN "gone" ELSE l.far, l.hello, l.reply)
    BY EndedLinks
  <2> QED
    BY <2>1 DEF With
<1> QED
  BY <1>1, EndedLinks

LEMMA NewLinksHave ==
    ASSUME LinksOK, NEW c \in Clients, NEW d \in Clients,
           links' = Append(links, NewLink(c, d))
    PROVE  \A k \in Ids' \ Ids :
                links'[k].from = c /\ links'[k].near = "fresh" /\ links'[k].far = "queued"
<1> SUFFICES ASSUME NEW k \in Ids' \ Ids
             PROVE  links'[k].from = c /\ links'[k].near = "fresh" /\ links'[k].far = "queued"
  OBVIOUS
<1>1. links'[k] = NewLink(c, d)
  BY NewLinks
<1> DEFINE new == NewLink(c, d)
<1>2. new.from = c /\ new.near = "fresh" /\ new.far = "queued"
  BY DEF NewLink
<1>3. links'[k] = new
  BY <1>1
<1> HIDE DEF new
<1> QED
  BY <1>2, <1>3

(* Types.                                                                   *)
LEMMA LinksOKStep == LinksOK /\ [Next]_vars => LinksOK'
<1> SUFFICES ASSUME LinksOK, [Next]_vars PROVE LinksOK'
  OBVIOUS
<1>1. CASE UNCHANGED vars
  BY <1>1 DEF vars, LinksOK
<1>2. CASE Next
  <2>1. PICK c \in Clients : StepsLinks(c) /\ alive' \subseteq alive
    BY <1>2, Steps DEF Next, Does
  <2>2. links' \in Seq(Link)
    BY <2>1, NewLinks, EndedLinks DEF StepsLinks, Becomes, LinksOK
  <2> QED
    BY <2>1, <2>2 DEF LinksOK
<1> QED
  BY <1>1, <1>2

LEMMA ShakenStep == LinksOK /\ Shaken /\ [Next]_vars => Shaken'
<1> SUFFICES ASSUME LinksOK, Shaken, [Next]_vars PROVE Shaken'
  OBVIOUS
<1>1. CASE UNCHANGED vars
  BY <1>1 DEF vars, Shaken, ShakenLink, SameTorrent, Ids
<1>2. CASE Next
  <2>1. PICK c \in Clients : StepsLinks(c) /\ torrent' = torrent
    BY <1>2, Steps DEF Next, Does
  <2>2. \A k \in Ids : links[k] \in Link
    BY DEF LinksOK, Ids
  <2>3. \A k \in Ids : k \in Ids' /\ links'[k] = links[k] => ShakenLink(k)'
    BY <2>1 DEF Shaken, ShakenLink, SameTorrent
  <2>4. CASE UNCHANGED links
    BY <2>3, <2>4 DEF Shaken, Ids
  <2>5. ASSUME NEW k \in Ids, NEW m, Handles(c, k, m), Becomes(k, m)
        PROVE  Shaken'
    <3>1. ShakenLink(k) /\ links[k] \in Link
      BY <2>2 DEF Shaken
    <3>2. ShakenLink(k)'
      <4> DEFINE l == links[k]
      <4>1. links'[k] = m
        BY <2>5 DEF Becomes
      <4>2. m.from = l.from /\ m.to = l.to
        BY <2>5 DEF Handles, Calls, Answers, Closes, With
      <4>3. SameTorrent(k)' = SameTorrent(k)
        BY <2>1, <4>1, <4>2 DEF SameTorrent
      <4>4. CASE Calls(c, k, m)
        BY <3>1, <4>1, <4>3, <4>4 DEF Calls, With, ShakenLink
      <4>5. CASE Answers(c, k, m)
        BY <3>1, <4>1, <4>3, <4>5 DEF Answers, With, ShakenLink
      <4>6. CASE Closes(c, k, m)
        BY <3>1, <4>1, <4>3, <4>6 DEF Closes, With, ShakenLink
      <4> QED
        BY <2>5, <4>4, <4>5, <4>6 DEF Handles
    <3> QED
      BY <2>3, <2>5, <3>2 DEF Shaken, Becomes
  <2>6. ASSUME NEW d \in Clients, links' = Append(links, NewLink(c, d))
        PROVE  Shaken'
    <3>1. ASSUME NEW k \in Ids' \ Ids PROVE ShakenLink(k)'
      <4>1. links'[k] = NewLink(c, d)
        BY <2>6, NewLinks
      <4>2. ~links'[k].reply /\ links'[k].near = "fresh" /\ links'[k].far = "queued"
        BY <4>1 DEF NewLink
      <4> QED
        BY <4>2 DEF ShakenLink
    <3> QED
      BY <2>3, <2>6, <3>1, NewLinks DEF Shaken
  <2>7. CASE links' = EndAll(c)
    <3> SUFFICES ASSUME NEW k \in Ids PROVE ShakenLink(k)'
      BY <2>7, EndedLinks DEF Shaken
    <3> DEFINE l == links[k]
               m == links'[k]
    <3>1. /\ m = With(l, IF l.from = c THEN "gone" ELSE l.near,
                         IF l.to = c THEN "gone" ELSE l.far, l.hello, l.reply)
      BY <2>7, EndedLinks
    <3>2. /\ m.from = l.from /\ m.to = l.to /\ m.hello = l.hello /\ m.reply = l.reply
          /\ m.near = l.near \/ m.near = "gone"
          /\ m.far = l.far \/ m.far = "gone"
      BY <3>1 DEF With
    <3>3. SameTorrent(k)' = SameTorrent(k)
      BY <2>1, <3>2 DEF SameTorrent
    <3>4. ShakenLink(k)
      BY DEF Shaken
    <3>5. l.reply => l.hello /\ SameTorrent(k) /\ m.far \in {"up", "gone"}
      BY <3>2, <3>4 DEF ShakenLink
    <3>6. (m.far = "up" => l.reply) /\ (m.near = "up" => m.far \in {"up", "gone"})
      BY <3>2, <3>4 DEF ShakenLink
    <3> QED
      BY <3>2, <3>3, <3>5, <3>6, Zenon DEF ShakenLink
  <2> QED
    BY <2>1, <2>4, <2>5, <2>6, <2>7 DEF StepsLinks
<1> QED
  BY <1>1, <1>2

(* What c does to a link does not bring another client into a call.          *)
LEMMA OthersCalls ==
    ASSUME LinksOK, NEW c \in Clients, StepsLinks(c), NEW d \in Clients, d # c
    PROVE  InCall(d)' \subseteq InCall(d)
<1> USE DEF InCall, Out, In
<1>1. CASE UNCHANGED links
  BY <1>1 DEF Ids
<1>2. ASSUME NEW k \in Ids, NEW m, Handles(c, k, m), Becomes(k, m)
      PROVE  InCall(d)' \subseteq InCall(d)
  <2> DEFINE l == links[k]
  <2>1. /\ m.from = l.from /\ m.to = l.to
        /\ l.from = c \/ m.near = l.near
        /\ l.to = c \/ m.far = l.far
    BY <1>2 DEF Handles, Calls, Answers, Closes, With
  <2> QED
    BY <1>2, <2>1 DEF Becomes
<1>3. ASSUME NEW e \in Clients, links' = Append(links, NewLink(c, e))
      PROVE  InCall(d)' \subseteq InCall(d)
  <2>1. \A k \in Ids' \ Ids : links'[k].from = c /\ links'[k].far = "queued"
    BY <1>3, NewLinksHave
  <2>2. \A k \in Ids' \cap Ids : links'[k] = links[k]
    BY <1>3, NewLinks
  <2> QED
    BY <2>1, <2>2
<1>4. CASE links' = EndAll(c)
  <2>1. \A k \in Ids :
          /\ links'[k].from = links[k].from /\ links'[k].to = links[k].to
          /\ links'[k].near \in {links[k].near, "gone"}
          /\ links'[k].far \in {links[k].far, "gone"}
    BY <1>4, EndedLinksHave
  <2> QED
    BY <1>4, <2>1, EndedLinks
<1> QED
  BY <1>1, <1>2, <1>3, <1>4 DEF StepsLinks

(* The client itself enters a call from none, with one link.                  *)
LEMMA OwnCalls ==
    ASSUME LinksOK, NEW c \in Clients, StepsLinks(c)
    PROVE  \/ InCall(c)' \subseteq InCall(c)
           \/ InCall(c) = {} /\ \E k : InCall(c)' \subseteq {k}
<1> USE DEF InCall, Out, In
<1>1. CASE UNCHANGED links
  BY <1>1 DEF Ids
<1>2. ASSUME NEW k \in Ids, NEW m, Handles(c, k, m), Becomes(k, m)
      PROVE  \/ InCall(c)' \subseteq InCall(c)
             \/ InCall(c) = {} /\ InCall(c)' \subseteq {k}
  <2> DEFINE l == links[k]
  <2>1. InCall(c)' \subseteq InCall(c) \cup {k}
    BY <1>2 DEF Becomes
  <2>2. m = links'[k] /\ Ids' = Ids
    BY <1>2 DEF Becomes
  <2>3. \/ InCall(c) = {}
        \/ k \in InCall(c)
        \/ k \notin InCall(c)'
    BY <1>2, <2>2 DEF Handles, Calls, Answers, Closes, With, Idle
  <2> QED
    BY <2>1, <2>3
<1>3. ASSUME NEW e \in Clients, InCall(c) = {}, links' = Append(links, NewLink(c, e))
      PROVE  \E k : InCall(c)' \subseteq {k}
  <2>1. InCall(c)' \subseteq {Len(links) + 1}
    <3>1. Ids = 1 .. Len(links) /\ Ids' = 1 .. Len(links) + 1
      BY <1>3 DEF LinksOK, Ids, NewLink, Link
    <3> QED
      BY <1>3, <3>1, NewLinks
  <2> QED
    BY <2>1
<1>4. CASE links' = EndAll(c)
  <2>1. \A k \in Ids :
          /\ links'[k].from = links[k].from /\ links'[k].to = links[k].to
          /\ links'[k].near \in {links[k].near, "gone"}
          /\ links'[k].far \in {links[k].far, "gone"}
    BY <1>4, EndedLinksHave
  <2> QED
    BY <1>4, <2>1, EndedLinks
<1> QED
  BY <1>1, <1>2, <1>3, <1>4 DEF StepsLinks

LEMMA OneCallStep == LinksOK /\ Shaken /\ OneCall /\ [Next]_vars => OneCall'
<1> SUFFICES ASSUME LinksOK, Shaken, OneCall, [Next]_vars PROVE OneCall'
  OBVIOUS
<1>1. CASE UNCHANGED vars
  BY <1>1 DEF vars, OneCall, InCall, Out, In, Ids
<1>2. CASE Next
  <2>1. PICK c \in Clients : StepsLinks(c)
    BY <1>2, Steps DEF Next, Does
  <2>2. \A d \in Clients : \A k, m \in InCall(d)' : k = m
    BY <2>1, OthersCalls, OwnCalls DEF OneCall
  <2> DEFINE Apart(l) == l.from = l.to /\ l.far = "hearing" => l.near \notin {"fresh", "greeted"}
  <2>3. \A k \in Ids : Apart(links[k]) /\ ShakenLink(k) /\ links[k] \in Link
    BY DEF OneCall, Shaken, LinksOK, Ids
  <2>4. \A k \in Ids' : Apart(links'[k])
    <3>1. CASE UNCHANGED links
      BY <2>3, <3>1 DEF Ids
    <3>2. ASSUME NEW k \in Ids, NEW m, Handles(c, k, m), Becomes(k, m)
          PROVE  \A j \in Ids' : Apart(links'[j])
      <4> DEFINE l == links[k]
      <4>1. Apart(m)
        <5>1. Apart(l)
          BY <2>3
        <5>2. CASE Calls(c, k, m) \/ Closes(c, k, m)
          BY <5>1, <5>2 DEF Calls, Closes, With
        <5>3. CASE Answers(c, k, m)
          BY <5>1, <5>3 DEF Answers, With, Idle, InCall, Out
        <5> QED
          BY <3>2, <5>2, <5>3 DEF Handles
      <4> QED
        BY <2>3, <3>2, <4>1 DEF Becomes
    <3>3. ASSUME NEW d \in Clients, links' = Append(links, NewLink(c, d))
          PROVE  \A j \in Ids' : Apart(links'[j])
      <4>1. \A j \in Ids' \ Ids : links'[j].far = "queued"
        BY <3>3, NewLinksHave
      <4> QED
        BY <2>3, <3>3, <4>1, NewLinks
    <3>4. CASE links' = EndAll(c)
      <4>1. Ids' = Ids /\ \A k \in Ids :
              /\ links'[k].from = links[k].from /\ links'[k].to = links[k].to
              /\ links'[k].near \in {links[k].near, "gone"}
              /\ links'[k].far \in {links[k].far, "gone"}
        BY <3>4, EndedLinksHave
      <4> QED
        BY <2>3, <4>1
    <3> QED
      BY <2>1, <3>1, <3>2, <3>3, <3>4 DEF StepsLinks
  <2> QED
    BY <2>2, <2>4 DEF OneCall
<1> QED
  BY <1>1, <1>2

(* What c does leaves the open ends of the others open.                      *)
LEMMA OthersEnds ==
    ASSUME LinksOK, NEW c \in Clients, StepsLinks(c), NEW d \in Clients, d # c,
           NEW k, OwnEndUp(d, k)
    PROVE  OwnEndUp(d, k)'
<1> USE DEF OwnEndUp
<1>1. CASE UNCHANGED links
  BY <1>1 DEF Ids
<1>2. ASSUME NEW j \in Ids, NEW m, Handles(c, j, m), Becomes(j, m)
      PROVE  OwnEndUp(d, k)'
  <2> DEFINE l == links[j]
  <2>1. /\ m.from = l.from /\ m.to = l.to
        /\ l.from = c \/ m.near = l.near
        /\ l.to = c \/ m.far = l.far
    BY <1>2 DEF Handles, Calls, Answers, Closes, With
  <2> QED
    BY <1>2, <2>1 DEF Becomes
<1>3. ASSUME NEW e \in Clients, links' = Append(links, NewLink(c, e))
      PROVE  OwnEndUp(d, k)'
  BY <1>3, NewLinks
<1>4. CASE links' = EndAll(c)
  <2>1. links'[k] = With(links[k], IF links[k].from = c THEN "gone" ELSE links[k].near,
                            IF links[k].to = c THEN "gone" ELSE links[k].far,
                            links[k].hello, links[k].reply)
    BY <1>4, EndedLinks
  <2>2. Ids' = Ids
    BY <1>4, EndedLinks
  <2> QED
    BY <2>1, <2>2 DEF With
<1> QED
  BY <1>1, <1>2, <1>3, <1>4 DEF StepsLinks

(* What a step of c does to where the clients are: it leaves c at its loop, or  *)
(* takes it from there to the tracker or into a handler.  A client that is     *)
(* held up only goes on or ends.                                            *)
StepsPlace(c) ==
    /\ place' \in [Clients -> Int] /\ DOMAIN todo' = Clients
    /\ \A d \in Clients \ {c} : place'[d] = place[d] /\ todo'[d] = todo[d]
    /\ \/ place'[c] = Elsewhere
       \/ /\ Idle(c) /\ UNCHANGED <<links, todo>>
          /\ place'[c] = AtTracker \/ OwnEndUp(c, place'[c])
    /\ place[c] \in Ids => c \notin alive' \/ GoesOn(c) \/ LetGo(c)

LEMMA PlaceSteps ==
    ASSUME LinksOK, Placed, NEW c \in Clients, Does(c)
    PROVE  StepsPlace(c)
<1> USE DEF Placed, Elsewhere, AtTracker
<1>0. Ids = 1 .. Len(links) /\ Elsewhere \notin Ids /\ AtTracker \notin Ids
  BY DEF LinksOK, Ids
<1>1. CASE AskTracker(c)
  BY <1>0, <1>1 DEF AskTracker, Idle, StepsPlace
<1>2. CASE LeaveTracker(c)
  BY <1>0, <1>2 DEF LeaveTracker, StepsPlace
<1>3. CASE HeldUp(c)
  <2>1. PICK k \in Ids : OwnEndUp(c, k) /\ place' = [place EXCEPT ![c] = k]
    BY <1>3 DEF HeldUp, Out, In, OwnEndUp
  <2>2. Idle(c) /\ UNCHANGED <<links, todo>> /\ place[c] = Elsewhere
    BY <1>3 DEF HeldUp, Idle
  <2> QED
    BY <1>0, <2>1, <2>2 DEF StepsPlace
<1>4. CASE GoesOn(c) \/ LetGo(c)
  <2>1. place' = [place EXCEPT ![c] = Elsewhere] /\ UNCHANGED todo
    BY <1>4 DEF GoesOn, LetGo
  <2> QED
    BY <1>4, <2>1 DEF StepsPlace
<1>5. CASE End(c) \/ Overrun(c)
  <2>1. /\ place' = [place EXCEPT ![c] = Elsewhere] /\ UNCHANGED todo
        /\ c \notin alive'
    BY <1>5 DEF End, Overrun
  <2> QED
    BY <2>1 DEF StepsPlace
<1>6. CASE Connect(c) \/ ConnectFails(c) \/ Greet(c) \/ Await(c) \/ Accept(c)
           \/ Hear(c) \/ Close(c) \/ Drop(c)
  <2>1. /\ UNCHANGED place
        /\ UNCHANGED todo \/ todo' = [todo EXCEPT ![c] = Tail(todo[c])]
    BY <1>6 DEF Connect, ConnectFails, Greet, Await, Accept, Hear, Close, Drop
  <2>2. todo[c] # <<>> \/ InCall(c) # {} \/ Idle(c)
    BY <1>6 DEF Connect, ConnectFails, NextPeer, Greet, Await, Accept, Hear, Close, Drop,
                InCall, Out, In
  <2>3. place[c] = Elsewhere
    BY <2>2 DEF Idle
  <2> QED
    BY <1>0, <2>1, <2>3 DEF StepsPlace
<1> QED
  BY <1>1, <1>2, <1>3, <1>4, <1>5, <1>6 DEF Does, Proceed

LEMMA PlacedStep == LinksOK /\ Placed /\ [Next]_vars => Placed'
<1> SUFFICES ASSUME LinksOK, Placed, [Next]_vars PROVE Placed'
  OBVIOUS
<1>1. CASE UNCHANGED vars
  BY <1>1 DEF vars, Placed, OwnEndUp, InCall, Out, In, Ids
<1>2. CASE Next
  <2>1. PICK c \in Clients : StepsLinks(c) /\ StepsPlace(c)
    BY <1>2, Steps, PlaceSteps DEF Next, Does
  <2> DEFINE Good(d) == place[d] # Elsewhere =>
                /\ todo[d] = <<>> /\ InCall(d) = {}
                /\ place[d] = AtTracker \/ OwnEndUp(d, place[d])
  <2>2. ASSUME NEW d \in Clients, d # c PROVE Good(d)'
    <3>1. place'[d] = place[d] /\ todo'[d] = todo[d]
      BY <2>1, <2>2 DEF StepsPlace
    <3>2. InCall(d)' \subseteq InCall(d)
      BY <2>1, <2>2, OthersCalls
    <3>3. \A k \in Ids : OwnEndUp(d, k) => OwnEndUp(d, k)'
      BY <2>1, <2>2, OthersEnds
    <3>4. ASSUME place[d] # Elsewhere, OwnEndUp(d, place[d])
          PROVE  OwnEndUp(d, place[d])'
      <4>1. PICK k \in Ids : k = place[d] /\ OwnEndUp(d, k)
        BY <3>4 DEF OwnEndUp
      <4>2. place'[d] = k
        BY <3>1, <4>1
      <4> QED
        BY <3>3, <4>1, <4>2 DEF OwnEndUp
    <3> QED
      BY <3>1, <3>2, <3>4 DEF Placed
  <2>3. Good(c)'
    <3>1. CASE place'[c] = Elsewhere
      BY <3>1
    <3>2. CASE /\ Idle(c) /\ UNCHANGED <<links, todo>>
               /\ place'[c] = AtTracker \/ OwnEndUp(c, place'[c])
      BY <3>2 DEF Idle, InCall, Out, In, OwnEndUp, Ids
    <3> QED
      BY <2>1, <3>1, <3>2 DEF StepsPlace
  <2>4. place' \in [Clients -> Int] /\ DOMAIN todo' = Clients
    BY <2>1 DEF StepsPlace
  <2> QED
    BY <2>2, <2>3, <2>4 DEF Placed
<1> QED
  BY <1>1, <1>2

LEMMA HandshakeStarts == Init => HandshakeInv
BY DEF Init, HandshakeInv, LinksOK, Shaken, OneCall, Placed, InCall, Out, In, Ids, Elsewhere

LEMMA HandshakeStep == HandshakeInv /\ [Next]_vars => HandshakeInv'
BY LinksOKStep, ShakenStep, OneCallStep, PlacedStep DEF HandshakeInv

(* The invariant of the links holds always.                                  *)
THEOREM HandshakeInvariance == Spec => []HandshakeInv
BY HandshakeStarts, HandshakeStep, PTL DEF Spec

(* An end that takes a link for open is right: whatever clients there are and  *)
(* whatever ends and handshakes fail, the other end has taken the handshake,  *)
(* for the same torrent, or has closed.                                     *)
THEOREM OpenLinksAreShaken == Spec => []UpMeansShaken
<1>1. HandshakeInv => UpMeansShaken
  BY DEF HandshakeInv, Shaken, ShakenLink, UpMeansShaken, SameTorrent
<1> QED
  BY <1>1, HandshakeInvariance, PTL

-----------------------------------------------------------------------------
(* Rings                                                                    *)

(* The only call of a client that waits is the one it waits in.              *)
Waits(c, d, k) ==
    /\ k \in Ids /\ links[k].from = c /\ links[k].to = d
    /\ links[k].near = "greeted" /\ ~links[k].reply /\ links[k].far # "gone"

(* A client of a ring is not at its loop.                                    *)
LEMMA RingIsBusy ==
    ASSUME HandshakeInv, NEW c \in Clients, NEW d, WaitsFor(c, d) \/ HeldBy(c, d)
    PROVE  ~Idle(c)
<1>1. CASE WaitsFor(c, d)
  BY <1>1 DEF WaitsFor, Idle, InCall, Out
<1>2. CASE HeldBy(c, d)
  BY <1>2 DEF HeldBy, Idle, Elsewhere, HandshakeInv, LinksOK, Ids
<1> QED
  BY <1>1, <1>2

(* A wait for the answer of a client that is not at its loop goes on.          *)
LEMMA WaitStays ==
    ASSUME HandshakeInv, NEW c \in Clients, StepsLinks(c),
           NEW e \in Clients, NEW d \in Clients, NEW j, Waits(e, d, j),
           {d, e} \subseteq alive', ~Idle(d),
           InCall(d) # {} => \E f \in Clients : WaitsFor(d, f)
    PROVE  Waits(e, d, j)'
<1> DEFINE l == links[j]
<1>1. /\ j \in InCall(e)
      /\ j \in Ids /\ l.from = e /\ l.to = d
      /\ l.near = "greeted" /\ ~l.reply /\ l.far \notin {"gone", "up"}
  BY DEF Waits, InCall, Out, HandshakeInv, Shaken, ShakenLink
<1>2. l.far # "hearing"
  <2> SUFFICES ASSUME l.far = "hearing" PROVE FALSE
    OBVIOUS
  <2>1. j \in InCall(d)
    BY <1>1 DEF InCall, In
  <2>2. PICK f \in Clients : WaitsFor(d, f)
    BY <2>1
  <2>3. PICK i : Waits(d, f, i)
    BY <2>2 DEF Waits, WaitsFor, Out
  <2>4. i \in InCall(d)
    BY <2>3 DEF Waits, InCall, Out
  <2>5. i = j
    BY <2>1, <2>4 DEF HandshakeInv, OneCall
  <2>6. l.from = d
    BY <2>3, <2>5 DEF Waits
  <2> QED
    BY <1>1, <2>6 DEF HandshakeInv, OneCall
<1>3. ASSUME j \in Ids', links'[j].from = l.from, links'[j].to = l.to,
             links'[j].near = l.near, links'[j].far = l.far, links'[j].reply = l.reply
      PROVE  Waits(e, d, j)'
  BY <1>1, <1>3 DEF Waits
<1>4. CASE UNCHANGED links
  BY <1>4 DEF Waits, Ids
<1>5. ASSUME NEW k \in Ids, NEW m, Handles(c, k, m), Becomes(k, m)
      PROVE  Waits(e, d, j)'
  <2>1. CASE k # j
    BY <1>5, <2>1 DEF Waits, Becomes
  <2>2. CASE k = j
    <3>1. ~Calls(c, k, m)
      BY <1>1, <2>2 DEF Calls
    <3>2. ~Closes(c, k, m)
      BY <1>1, <2>2 DEF Closes
    <3>3. ~Answers(c, k, m)
      BY <1>1, <1>2, <2>2 DEF Answers
    <3> QED
      BY <1>5, <3>1, <3>2, <3>3 DEF Handles
  <2> QED
    BY <2>1, <2>2
<1>6. ASSUME NEW f \in Clients, links' = Append(links, NewLink(c, f))
      PROVE  Waits(e, d, j)'
  <2>1. j \in Ids' /\ links'[j] = links[j]
    BY <1>1, <1>6, NewLinks DEF HandshakeInv
  <2> QED
    BY <2>1 DEF Waits
<1>7. CASE c \notin alive' /\ links' = EndAll(c)
  <2>1. e # c /\ d # c
    BY <1>7
  <2>2. /\ j \in Ids'
        /\ links'[j] = With(l, IF l.from = c THEN "gone" ELSE l.near,
                               IF l.to = c THEN "gone" ELSE l.far, l.hello, l.reply)
    BY <1>1, <1>7, EndedLinks DEF HandshakeInv
  <2>3. links'[j] = With(l, l.near, l.far, l.hello, l.reply)
    BY <1>1, <2>1, <2>2
  <2> QED
    BY <1>3, <2>2, <2>3 DEF With
<1> QED
  BY <1>4, <1>5, <1>6, <1>7 DEF StepsLinks

(* So does being held up by one.                                             *)
LEMMA HoldStays ==
    ASSUME HandshakeInv, NEW c \in Clients, StepsLinks(c), StepsPlace(c),
           NEW e \in Clients, NEW d \in Clients, HeldBy(e, d),
           {d, e} \subseteq alive', ~Idle(d)
    PROVE  HeldBy(e, d)'
<1> DEFINE k == place[e]
           l == links[k]
<1>1. /\ k \in Ids /\ ~Closed(k)
      /\ d = OtherEnd(e, k)
      /\ d = e \/ place[d] # k
  BY DEF HeldBy
<1>2. k # Elsewhere /\ k # AtTracker /\ Elsewhere \notin Ids
  BY <1>1 DEF HandshakeInv, LinksOK, Ids, Elsewhere, AtTracker
<1>3. ~Idle(e)
  BY <1>2 DEF Idle
<1>4. OwnEndUp(e, k) /\ l \in Link
  BY <1>1, <1>2 DEF HandshakeInv, Placed, LinksOK, Ids
<1>5. l.near = "up" \/ l.far = "up"
  BY <1>4 DEF OwnEndUp
<1>6. l.near # "gone" /\ l.far \notin {"gone", "hearing"}
  <2>1. ShakenLink(k)
    BY <1>1 DEF HandshakeInv, Shaken
  <2> QED
    BY <1>1, <1>5, <2>1 DEF Closed, ShakenLink
<1>7. /\ k \in Ids'
      /\ links'[k].from = l.from /\ links'[k].to = l.to
      /\ links'[k].near # "gone" /\ links'[k].far # "gone"
  <2>1. CASE UNCHANGED links
    BY <1>1, <1>6, <2>1 DEF Ids
  <2>2. ASSUME NEW j \in Ids, NEW m, Handles(c, j, m), Becomes(j, m)
        PROVE  /\ k \in Ids'
               /\ links'[k].from = l.from /\ links'[k].to = l.to
               /\ links'[k].near # "gone" /\ links'[k].far # "gone"
    <3>1. CASE j # k
      BY <1>1, <1>6, <2>2, <3>1 DEF Becomes
    <3>2. CASE j = k
      <4>1. ~Closes(c, k, m)
        BY <1>1, <1>3, <1>4 DEF Closes, OtherEnd, OwnEndUp
      <4>2. \/ Calls(c, k, m) /\ m.near # "gone" /\ m.far = l.far
            \/ Answers(c, k, m) /\ m.far # "gone" /\ m.near = l.near
        BY <1>6, <2>2, <3>2, <4>1 DEF Handles, Calls, Answers, With
      <4>3. m.from = l.from /\ m.to = l.to
        BY <4>2 DEF Calls, Answers, With
      <4> QED
        BY <1>1, <1>6, <2>2, <3>2, <4>2, <4>3 DEF Becomes
    <3> QED
      BY <3>1, <3>2
  <2>3. ASSUME NEW f \in Clients, links' = Append(links, NewLink(c, f))
        PROVE  /\ k \in Ids'
               /\ links'[k].from = l.from /\ links'[k].to = l.to
               /\ links'[k].near # "gone" /\ links'[k].far # "gone"
    BY <1>1, <1>6, <2>3, NewLinks DEF HandshakeInv
  <2>4. CASE c \notin alive' /\ links' = EndAll(c)
    <3>1. e # c /\ d # c
      BY <2>4
    <3>2. l.from # c /\ l.to # c
      BY <1>1, <1>4, <3>1 DEF OtherEnd, OwnEndUp
    <3>3. k \in Ids' /\ links'[k] = With(l, l.near, l.far, l.hello, l.reply)
      BY <1>1, <2>4, <3>2, EndedLinks DEF HandshakeInv
    <3> QED
      BY <1>6, <3>3 DEF With
  <2> QED
    BY <2>1, <2>2, <2>3, <2>4 DEF StepsLinks
<1>8. place'[e] = k
  <2>1. CASE c # e
    BY <2>1 DEF StepsPlace
  <2>2. CASE c = e
    <3>1. ~GoesOn(e)
      BY <1>1 DEF GoesOn
    <3>2. ~LetGo(e)
      BY <1>1 DEF LetGo
    <3> QED
      BY <1>1, <2>2, <3>1, <3>2 DEF StepsPlace
  <2> QED
    BY <2>1, <2>2
<1>9. d = e \/ place'[d] # k
  <2>1. CASE c # d
    BY <1>1, <2>1 DEF StepsPlace
  <2>2. CASE c = d
    BY <1>1, <1>2, <2>2 DEF StepsPlace
  <2> QED
    BY <2>1, <2>2
<1> QED
  BY <1>1, <1>7, <1>8, <1>9 DEF HeldBy, Closed, OtherEnd

LEMMA RingStep == HandshakeInv /\ [Next]_vars =>
    \A X \in SUBSET Clients : X # {} /\ Ring(X) => Ring(X)' \/ ~(X \subseteq alive')
<1> SUFFICES ASSUME HandshakeInv, [Next]_vars, NEW X \in SUBSET Clients,
                    Ring(X), X \subseteq alive'
             PROVE  Ring(X)'
  OBVIOUS
<1>1. CASE UNCHANGED vars
  BY <1>1 DEF vars, Ring, WaitsFor, HeldBy, Closed, OtherEnd, Out, Ids
<1>2. CASE Next
  <2>1. PICK c \in Clients : StepsLinks(c) /\ StepsPlace(c)
    BY <1>2, Steps, PlaceSteps DEF Next, Does, HandshakeInv
  <2> SUFFICES ASSUME NEW e \in X
               PROVE  \E d \in X : WaitsFor(e, d)' \/ HeldBy(e, d)'
    BY DEF Ring
  <2>2. PICK d \in X : WaitsFor(e, d) \/ HeldBy(e, d)
    BY DEF Ring
  <2>3. PICK f \in X : WaitsFor(d, f) \/ HeldBy(d, f)
    BY DEF Ring
  <2>4. ~Idle(d)
    BY <2>3, RingIsBusy
  <2>5. CASE HeldBy(e, d)
    BY <2>1, <2>4, <2>5, HoldStays
  <2>6. CASE WaitsFor(e, d)
    <3>1. InCall(d) # {} => WaitsFor(d, f)
      BY <2>3 DEF HeldBy, HandshakeInv, Placed, LinksOK, Ids, Elsewhere
    <3>2. PICK k : Waits(e, d, k)
      BY <2>6 DEF Waits, WaitsFor, Out
    <3>3. Waits(e, d, k)'
      BY <2>1, <2>4, <3>1, <3>2, WaitStays
    <3>4. WaitsFor(e, d)'
      BY <3>3 DEF Waits, WaitsFor, Out
    <3> QED
      BY <3>4
  <2> QED
    BY <2>2, <2>5, <2>6
<1> QED
  BY <1>1, <1>2

(* Clients that wait for each other in a ring, of any number, for handshakes or  *)
(* in handlers, do so until one of them ends.                                *)
THEOREM RingsStay == Spec => RingsLast
BY HandshakeInvariance, RingStep, PTL DEF Spec, RingsLast
=============================================================================
