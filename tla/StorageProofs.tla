---------------------------- MODULE StorageProofs ----------------------------
(***************************************************************************)
(* Storage for every number of pieces.  The invariant adds facts that the     *)
(* properties do not state: the buffer holds nothing but a verified piece;    *)
(* while a run downloads, what it has verified and is not in the file is in   *)
(* the buffer; a finished file has all its pieces and is not written again.   *)
(***************************************************************************)
EXTENDS Storage, TLAPS

Kept ==
    /\ buffered \subseteq verified
    /\ mode = "leecher" => verified \subseteq written \cup buffered
    /\ mode # "leecher" => buffered = {}
    /\ finished => written = Pieces /\ mode # "leecher"

FileInv == TypeOK /\ AtMostOneLost /\ Kept

(* The file of the first run satisfies FileInv.                              *)
LEMMA InitFile == Init => FileInv
BY DEF Init, FileInv, TypeOK, AtMostOneLost, AtMostOne, Kept

(* One step of the file or of the program preserves FileInv.                 *)
LEMMA NextFile == FileInv /\ [Next]_vars => FileInv'
<1> SUFFICES ASSUME FileInv, [Next]_vars
             PROVE  FileInv'
    OBVIOUS
<1> USE DEF FileInv, TypeOK, AtMostOneLost, AtMostOne, Kept
<1>1. CASE StartLeecher
    BY <1>1 DEF StartLeecher
<1>2. CASE StartSeeder
    BY <1>2 DEF StartSeeder, NotRunning
<1>3. CASE StartRefused
    BY <1>3 DEF StartRefused, NotRunning
<1>4. ASSUME NEW p \in Pieces, AcceptPeice(p)
      PROVE  FileInv'
    <2> USE <1>4 DEF AcceptPeice
    <2>1. ~finished /\ mode = "leecher" /\ mode' = mode /\ finished' = finished
        OBVIOUS
    <2>2. AfterSeek = written \cup buffered
        BY DEF AfterSeek
    <2>3. verified \subseteq AfterSeek
        BY <2>1, <2>2
    <2>4. CASE written' = AfterSeek \cup {p} /\ buffered' = {}
        BY <2>1, <2>2, <2>3, <2>4
    <2>5. CASE written' = AfterSeek /\ buffered' = (buffered \ AfterSeek) \cup {p}
        <3>1. buffered' = {p}
            BY <2>2, <2>5
        <3>2. verified' = verified \cup {p}
            OBVIOUS
        <3>3. QED
            BY <2>1, <2>2, <2>3, <2>5, <3>1, <3>2
    <2>6. QED
        BY <2>4, <2>5
<1>5. CASE WriteFails
    BY <1>5 DEF WriteFails, AfterSeek
<1>6. CASE Quit
    BY <1>6 DEF Quit, AfterExit
<1>7. CASE Kill
    BY <1>7 DEF Kill
<1>8. CASE RemoveFile
    BY <1>8 DEF RemoveFile
<1>9. CASE UNCHANGED vars
    BY <1>9 DEF vars
<1>10. QED
    BY <1>1, <1>2, <1>3, <1>4, <1>5, <1>6, <1>7, <1>8, <1>9 DEF Next

(* Whatever ends the runs of the program, at most one verified piece is lost,  *)
(* and a file that was finished and closed is served whole.                  *)
THEOREM FileSafe == Spec => [](TypeOK /\ AtMostOneLost /\ SeederHasFile)
<1>1. FileInv => TypeOK /\ AtMostOneLost /\ SeederHasFile
    BY DEF FileInv, Kept, SeederHasFile
<1>2. QED
    BY InitFile, NextFile, <1>1, PTL DEF Spec

(* The same of AtMostOneLost alone: the buffer of the stdio stream is all that  *)
(* a kill can cost.                                                         *)
THEOREM KillCostsOne == Spec => []AtMostOneLost
BY FileSafe, PTL

(* No start takes up what an interrupted download has left short: only the    *)
(* removal of the file ends that state.                                     *)
THEOREM NeverResumed == Spec => ShortIsNeverResumed
<1>1. [Next]_vars => [Short => Short' \/ (~exists' /\ verified' = {})]_vars
    <2> SUFFICES ASSUME [Next]_vars, Short
                 PROVE  Short' \/ (~exists' /\ verified' = {})
        OBVIOUS
    <2> USE DEF Short, NotRunning, SizeMatches
    <2>1. CASE StartLeecher
        BY <2>1 DEF StartLeecher, IsMade
    <2>2. CASE StartSeeder
        BY <2>2 DEF StartSeeder
    <2>3. CASE StartRefused
        BY <2>3 DEF StartRefused
    <2>4. CASE \E p \in Pieces : AcceptPeice(p)
        BY <2>4 DEF AcceptPeice
    <2>5. CASE WriteFails \/ Quit \/ Kill
        BY <2>5 DEF WriteFails, Quit, Kill
    <2>6. CASE RemoveFile
        BY <2>6 DEF RemoveFile
    <2>7. CASE UNCHANGED vars
        BY <2>7 DEF vars
    <2>8. QED
        BY <2>1, <2>2, <2>3, <2>4, <2>5, <2>6, <2>7 DEF Next
<1>2. QED
    BY <1>1, PTL DEF Spec, ShortIsNeverResumed
=============================================================================
