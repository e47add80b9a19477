------------------------------- MODULE Storage -------------------------------
(***************************************************************************)
(* The file of one client over several runs of the program: how a run starts *)
(* from what the last one left (check_seeder_status), how verified pieces get  *)
(* into the file (the end of read_peice), and what remains when the program   *)
(* is killed.                                                              *)
(*                                                                         *)
(* The file is written through a stdio stream: a piece is in the file when    *)
(* the stream is moved on or closed, at the latest.  The file has its full    *)
(* size when its last piece is in it, whatever else is missing.              *)
(***************************************************************************)
EXTENDS Integers

CONSTANT no_of_peices

ASSUME PiecesAssumption == no_of_peices \in Nat \ {0}

Pieces == 0 .. no_of_peices - 1

VARIABLES
    mode,       \* "down", "refused" at the start, "leecher" or "seeder"
    exists,     \* there is a file
    written,    \* the pieces that are in the file
    buffered,   \* the pieces of which a part is still in the stream's buffer
    verified,   \* the pieces the run that made the file has counted as its own
    finished    \* that run had every piece and was ended by quit

vars == <<mode, exists, written, buffered, verified, finished>>

-----------------------------------------------------------------------------
(* What a start may meet: no program running, whatever the last one printed.  *)
NotRunning == mode \in {"down", "refused"}

(* The test of st_size, for a file that was made by this program.            *)
SizeMatches == no_of_peices - 1 \in written

(* Mutant: a file of another size is made anew.                              *)
IsMadeAnew == ~exists \/ ~SizeMatches

(* fopen for reading fails.                                                 *)
IsMade == ~exists

(* The file is made, empty.                                                 *)
StartLeecher ==
    /\ NotRunning
    /\ IsMade
    /\ mode' = "leecher"
    /\ exists' = TRUE
    /\ written' = {} /\ buffered' = {} /\ verified' = {}
    /\ finished' = FALSE

(* The client announces and serves every piece.                              *)
StartSeeder ==
    /\ NotRunning
    /\ exists
    /\ SizeMatches
    /\ mode' = "seeder"
    /\ UNCHANGED <<exists, written, buffered, verified, finished>>

(* "Remove the file and then start the ubtorrent again"                      *)
StartRefused ==
    /\ NotRunning
    /\ exists
    /\ ~SizeMatches
    /\ mode' = "refused"
    /\ UNCHANGED <<exists, written, buffered, verified, finished>>

(* Mutant: the stream is not moved, and keeps what it has.                    *)
KeepsBuffer == written

(* fseek writes what is in the buffer.                                       *)
AfterSeek == written \cup buffered

(* read_peice, for a piece with the right hash.  fwrite has put all of it     *)
(* into the file, or a part of it is in the buffer.                          *)
AcceptPeice(p) ==
    /\ mode = "leecher"
    /\ p \notin verified
    /\ verified' = verified \cup {p}
    /\ \/ written' = AfterSeek \cup {p} /\ buffered' = {}
       \/ written' = AfterSeek /\ buffered' = (buffered \ AfterSeek) \cup {p}
    /\ UNCHANGED <<mode, exists, finished>>

(* A write fails, and what the buffer holds gets into the file or not.        *)
WriteFails ==
    /\ mode = "leecher"
    /\ mode' = "down"
    /\ written' \in {written, AfterSeek}
    /\ buffered' = {}
    /\ UNCHANGED <<exists, verified, finished>>

(* Mutant: the program leaves without closing the stream.                    *)
AfterNoExit == written

(* exit closes the stream.                                                  *)
AfterExit == written \cup buffered

Quit ==
    /\ mode \in {"leecher", "seeder"}
    /\ mode' = "down"
    /\ written' = AfterExit
    /\ buffered' = {}
    /\ finished' = (finished \/ (mode = "leecher" /\ verified = Pieces))
    /\ UNCHANGED <<exists, verified>>

(* A signal ends the program.                                               *)
Kill ==
    /\ mode \in {"leecher", "seeder"}
    /\ mode' = "down"
    /\ buffered' = {}
    /\ UNCHANGED <<exists, written, verified, finished>>

(* The user does as told.                                                   *)
RemoveFile ==
    /\ mode = "refused"
    /\ mode' = "down"
    /\ exists' = FALSE
    /\ written' = {} /\ verified' = {}
    /\ finished' = FALSE
    /\ UNCHANGED buffered

-----------------------------------------------------------------------------
(* There is no file, or one that somebody has published.                     *)
Init ==
    /\ mode = "down"
    /\ exists \in BOOLEAN
    /\ written = IF exists THEN Pieces ELSE {}
    /\ verified = written
    /\ finished = exists
    /\ buffered = {}

Next ==
    \/ StartLeecher
    \/ StartSeeder
    \/ StartRefused
    \/ \E p \in Pieces : AcceptPeice(p)
    \/ WriteFails
    \/ Quit
    \/ Kill
    \/ RemoveFile

Spec == Init /\ [][Next]_vars

-----------------------------------------------------------------------------
AtMostOne(S) == \A p, q \in S : p = q

(* With the types: the buffer holds a part of one piece, not of two.         *)
TypeOK ==
    /\ mode \in {"down", "refused", "leecher", "seeder"}
    /\ exists \in BOOLEAN
    /\ written \subseteq Pieces
    /\ buffered \subseteq Pieces /\ AtMostOne(buffered)
    /\ verified \subseteq Pieces
    /\ finished \in BOOLEAN

(* Of the pieces a run has verified, counted in downloaded and announced to    *)
(* its peers, at most one is missing in the file, and none that was never     *)
(* verified is in it, however the program ends.                             *)
AtMostOneLost ==
    /\ written \subseteq verified
    /\ AtMostOne(verified \ written)

(* A seeder has every piece it serves if the run that made its file had them   *)
(* all and was ended by quit.  The test of the size alone does not say so:    *)
(* a run that was ended early, or killed, may leave the last piece and not    *)
(* the others.                                                              *)
SeederHasFile == mode = "seeder" /\ finished => written = Pieces

(* A client that is to start on what an interrupted download has left short.  *)
Short == NotRunning /\ exists /\ ~SizeMatches

(* A download that was interrupted before its last piece got into the file is  *)
(* never taken up again: every start is refused until the file is removed,    *)
(* and with it all that was verified.                                       *)
ShortIsNeverResumed == [][Short => Short' \/ (~exists' /\ verified' = {})]_vars
=============================================================================
