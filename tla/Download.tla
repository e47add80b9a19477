------------------------------ MODULE Download ------------------------------
(***************************************************************************)
(* What the download half of a client promises: every piece is asked for at  *)
(* most once, of one peer, and is then received or lost for the rest of the   *)
(* run; one that was lost or received is not asked for again.  Leecher       *)
(* implements this specification, see ImplementsDownload there.              *)
(***************************************************************************)
CONSTANT Pieces

VARIABLES
    wanted,     \* pieces nobody was asked for
    asked,      \* pieces that are on their way
    got         \* pieces that were received and verified

vars == <<wanted, asked, got>>

Init ==
    /\ wanted = Pieces
    /\ asked = {}
    /\ got = {}

(* A request for p joins the requests S that are left, or is lost at once.    *)
Request(p, S) ==
    /\ p \in wanted
    /\ wanted' = wanted \ {p}
    /\ asked' \in {S, S \cup {p}}

Ask(p) == Request(p, asked) /\ got' = got

(* The handler that takes a piece may ask for the next one.                  *)
Receive(p) ==
    /\ p \in asked
    /\ got' = got \cup {p}
    /\ \/ wanted' = wanted /\ asked' = asked \ {p}
       \/ \E q \in Pieces : Request(q, asked \ {p})

(* The connection is closed or choked, or what came was not the piece.        *)
Lose(p) ==
    /\ p \in asked
    /\ asked' = asked \ {p}
    /\ UNCHANGED <<wanted, got>>

Next == \E p \in Pieces : Ask(p) \/ Receive(p) \/ Lose(p)

Spec == Init /\ [][Next]_vars
=============================================================================
