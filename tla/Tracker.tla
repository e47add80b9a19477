------------------------------- MODULE Tracker -------------------------------
(***************************************************************************)
(* The announce command and the tracker: read_from_tracker reads the response *)
(* line by line through readline, whose buffer is static and outlives the     *)
(* connection it was filled from, and populate_tracker_struct keeps the list  *)
(* of peers.                                                               *)
(*                                                                         *)
(* A response is a sequence of lines, and what one read of the socket brings  *)
(* ends where a line ends.  The tracker closes the connection after it.      *)
(***************************************************************************)
EXTENDS Integers, Sequences

CONSTANTS
    ListSizes,      \* numbers of peers a response may list, the client included
    Codes,          \* status codes of responses without a list
    MaxDescriptors, \* descriptors the program may have for announces
    MaxAnnounces    \* bound: announce commands of a run

ASSUME ConstantsAssumption ==
    /\ ListSizes \subseteq Nat
    /\ Codes \subseteq Nat
    /\ MaxDescriptors \in Nat \ {0}
    /\ MaxAnnounces \in Nat

VARIABLES
    proc,           \* "up", or how the process ended: "crashed", "overrun", "hung",
                    \* "exited"
    pc,             \* "select", or where read_from_tracker is
    announces,      \* announce commands so far
    stream,         \* what the tracker has sent and the client has not read
    read_buf,       \* what is left in the buffer of my_read
    content_length, \* of the response: 0 until its header is read
    no_of_peers,
    peers,          \* the allocated array: its response and its size
    descriptors,    \* sockets of announces that were not closed
    completed,      \* the end of the download has been announced
    astray,         \* the array of the last list was not allocated
    clean           \* every response so far was a list, whole, in one line and
                    \* with the client in it, and was stored without a fault

vars == <<proc, pc, announces, stream, read_buf, content_length, no_of_peers,
          peers, descriptors, completed, astray, clean>>

ofRun == <<descriptors, completed, astray, clean>>
responseVars == <<read_buf, content_length, no_of_peers, peers>>

-----------------------------------------------------------------------------
(* Responses (external)                                                     *)

StatusLine(code) == [type |-> "status", n |-> code]
LengthLine       == [type |-> "length", n |-> 1]
EmptyLine        == [type |-> "empty", n |-> 0]
List(n)          == [type |-> "list", n |-> n]   \* a dictionary with "peers"
Failure          == [type |-> "failure", n |-> 0] \* one without
Text             == [type |-> "text", n |-> 0]   \* no bencoding
CutList          == [type |-> "cut", n |-> 0]    \* a byte of the list is '\n'

LineTypes == {"status", "length", "empty", "list", "failure", "text", "cut"}

Line == [type: LineTypes, n: Nat]

GoodResponse(n) == <<StatusLine(200), LengthLine, EmptyLine, List(n)>>

(* A list with a line end in it, for instance in the address 10.0.0.1; one     *)
(* without a length; and the ways to say that there is none.                 *)
OtherResponses ==
    { <<StatusLine(200), LengthLine, EmptyLine, CutList, Text>>,
      <<StatusLine(200), EmptyLine, List(2)>> }
    \cup { <<StatusLine(code), LengthLine, EmptyLine, body>> :
                code \in Codes, body \in {Failure, Text} }
    \cup { <<StatusLine(code), EmptyLine>> : code \in Codes }

(* A body is followed by the end of the stream, not by a line end.           *)
Unterminated(line) == line.type \in {"list", "failure", "text"}

-----------------------------------------------------------------------------
NoArray == [from |-> 0, size |-> 0]

(* download_from_peers writes to as many entries of the array as there are     *)
(* peers.                                                                   *)
Downloads ==
    proc' \in {"up"} \cup (IF no_of_peers > peers.size THEN {"overrun", "crashed"} ELSE {})

(* The program leaves the announce command, which ends with                   *)
(* download_from_peers.  What is in read_buf stays.                          *)
Return ==
    /\ pc' = "select"
    /\ stream' = <<>>
    /\ Downloads

Announce ==
    /\ proc = "up" /\ pc = "select"
    /\ announces < MaxAnnounces /\ descriptors < MaxDescriptors
    /\ announces' = announces + 1
    /\ descriptors' = descriptors + 1
    /\ \/ \E n \in ListSizes : stream' = GoodResponse(n) /\ clean' = clean
       \/ stream' \in OtherResponses /\ clean' = FALSE
    /\ pc' = "head"
    /\ content_length' = 0
    /\ UNCHANGED <<proc, read_buf, no_of_peers, peers, completed, astray>>

(* The tracker is not found or there is no descriptor; or it is not reached,   *)
(* and the socket stays open.  The list of the last response stays.          *)
AnnounceFails ==
    /\ proc = "up" /\ pc = "select"
    /\ announces < MaxAnnounces
    /\ announces' = announces + 1
    /\ \/ descriptors' = descriptors
       \/ descriptors < MaxDescriptors /\ descriptors' = descriptors + 1
    /\ clean' = FALSE
    /\ Downloads
    /\ UNCHANGED <<pc, stream, responseVars, completed, astray>>

(* The download half announces its end, once.  What the tracker answers is     *)
(* not read, and the socket is not closed.                                  *)
AnnounceCompleted ==
    /\ proc = "up" /\ pc = "select"
    /\ ~completed /\ completed' = TRUE
    /\ descriptors' = IF descriptors < MaxDescriptors THEN descriptors + 1 ELSE descriptors
    /\ UNCHANGED <<proc, pc, announces, stream, responseVars, astray, clean>>

(* The end of the program is announced, too; then it ends.                   *)
Quit ==
    /\ proc = "up" /\ pc = "select"
    /\ proc' = "exited"
    /\ UNCHANGED <<pc, announces, stream, responseVars, ofRun>>

(* my_read reads the socket only when its buffer is empty.                   *)
Fill ==
    /\ proc = "up" /\ pc # "select"
    /\ read_buf = <<>>
    /\ \E k \in 1 .. Len(stream) :
        /\ read_buf' = SubSeq(stream, 1, k)
        /\ stream' = SubSeq(stream, k + 1, Len(stream))
    /\ UNCHANGED <<proc, pc, announces, content_length, no_of_peers, peers,
                   ofRun>>

(* read_from_tracker is at `where` and readline returns a line of that type.  *)
Reads(where, types) ==
    /\ proc = "up" /\ pc = where
    /\ read_buf # <<>>
    /\ Head(read_buf).type \in types
    /\ read_buf' = Tail(read_buf)

(* The test of the status, which takes 400 and 500 for success.              *)
Refused(code) == code % 100 > 2

(* An error: the rest of the response is left where it is, in read_buf or on   *)
(* a socket that nobody will close.                                         *)
ReadStatus ==
    /\ Reads("head", {"status"})
    /\ IF Refused(Head(read_buf).n) THEN Return ELSE UNCHANGED <<proc, pc, stream>>
    /\ UNCHANGED <<announces, content_length, no_of_peers, peers, ofRun>>

ReadLength ==
    /\ Reads("head", {"length"})
    /\ content_length' = Head(read_buf).n
    /\ UNCHANGED <<proc, pc, announces, stream, no_of_peers, peers, ofRun>>

ReadEmpty ==
    /\ Reads("head", {"empty"})
    /\ pc' = "body"
    /\ UNCHANGED <<proc, announces, stream, content_length, no_of_peers, peers, ofRun>>

(* What the decoder makes of the line after the empty one: NULL, which is     *)
(* dereferenced, for no length or another first letter; a dictionary without  *)
(* end, which it never leaves; or a dictionary.                              *)
Decoded(line) ==
    IF content_length = 0 \/ line.type \notin {"list", "failure", "cut"} THEN "crashed"
    ELSE IF line.type = "cut" THEN "hung"
    ELSE "up"

(* What the system may refuse while the list is stored.                      *)
Faults == {"none", "getsockname", "malloc"}

(* Mutant: the size of the array is taken for the whole list.                *)
TakeWholeList(line, fault) ==
    [count |-> line.n - 1,
     array |-> IF line.n = 1 \/ fault = "getsockname" THEN peers
               ELSE IF line.n = 0 \/ fault = "malloc" THEN NoArray
               ELSE [from |-> announces, size |-> line.n]]

(* populate_tracker_struct for a list: one entry less than it has.  The array  *)
(* of the last list stays when there is nobody else, and when getsockname     *)
(* fails; it is freed before malloc fails.  A list of none asks for an array  *)
(* of -1 entries, which is not given.                                       *)
TakeList(line, fault) ==
    [count |-> line.n - 1,
     array |-> IF line.n = 1 \/ fault = "getsockname" THEN peers
               ELSE IF line.n = 0 \/ fault = "malloc" THEN NoArray
               ELSE [from |-> announces, size |-> line.n - 1]]

(* The loop that fills the array writes one entry behind it unless it finds    *)
(* the client in the list; display_tracker_info, which follows, reads as many *)
(* entries as there are peers.                                              *)
Stored(line, fault, found) ==
    LET list == TakeList(line, fault)
    IN {"up"} \cup (IF line.n > 1 /\ fault = "none" /\ ~found THEN {"overrun"} ELSE {})
              \cup (IF list.count > list.array.size THEN {"crashed"} ELSE {})

StoreList(line) ==
    \E fault \in Faults, found \in BOOLEAN :
        /\ proc' \in Stored(line, fault, found)
        /\ no_of_peers' = TakeList(line, fault).count
        /\ peers' = TakeList(line, fault).array
        /\ astray' = (line.n > 1 /\ fault # "none")
        /\ clean' = (clean /\ (line.n > 1 => fault = "none" /\ found))

ReadBody ==
    /\ Reads("body", LineTypes)
    /\ LET line == Head(read_buf)
       IN /\ pc' = IF Unterminated(line) THEN "rest" ELSE "head"
          /\ IF Decoded(line) = "up" /\ line.type = "list"
             THEN StoreList(line)
             ELSE /\ proc' = Decoded(line)
                  /\ UNCHANGED <<no_of_peers, peers, astray, clean>>
    /\ UNCHANGED <<announces, stream, content_length, descriptors, completed>>

(* readline has not found the end of the body and goes on: the next line, if  *)
(* there is one, belongs to it.                                             *)
ReadRest ==
    /\ Reads("rest", LineTypes)
    /\ pc' = IF Unterminated(Head(read_buf)) THEN "rest" ELSE "head"
    /\ UNCHANGED <<proc, announces, stream, content_length, no_of_peers, peers, ofRun>>

(* update_tracker_response returns no value: what is read in its place may be  *)
(* negative, and counts as an error.                                        *)
TakenForError == IF pc = "rest" THEN BOOLEAN ELSE {FALSE}

Leave == IF pc = "body" THEN proc' = "crashed" /\ pc' = "select" /\ stream' = <<>> ELSE Return

(* Mutants: the socket is not closed; readline does not return a body that     *)
(* has no line end.                                                         *)
EndOfStreamUnclosed ==
    /\ proc = "up" /\ pc # "select"
    /\ read_buf = <<>> /\ stream = <<>>
    /\ Leave
    /\ UNCHANGED <<announces, responseVars, ofRun>>

EndOfStreamAfterLine ==
    /\ proc = "up" /\ pc \in {"head", "body"}
    /\ read_buf = <<>> /\ stream = <<>>
    /\ Leave
    /\ descriptors' = descriptors - 1
    /\ UNCHANGED <<announces, responseVars, completed, astray, clean>>

(* The tracker has closed the connection: the only way that the socket is      *)
(* closed.  In place of a body, NULL.                                       *)
EndOfStream ==
    /\ proc = "up" /\ pc # "select"
    /\ read_buf = <<>> /\ stream = <<>>
    /\ Leave
    /\ \E error \in TakenForError :
        /\ descriptors' = IF error THEN descriptors ELSE descriptors - 1
        /\ clean' = (clean /\ ~error)
    /\ UNCHANGED <<announces, responseVars, completed, astray>>

-----------------------------------------------------------------------------
Init ==
    /\ proc = "up"
    /\ pc = "select"
    /\ announces = 0
    /\ stream = <<>> /\ read_buf = <<>>
    /\ content_length = 0
    /\ no_of_peers = 0
    /\ peers = NoArray
    /\ descriptors = 0
    /\ completed = FALSE
    /\ astray = FALSE
    /\ clean = TRUE

ReadFromTracker ==
    \/ Fill
    \/ ReadStatus
    \/ ReadLength
    \/ ReadEmpty
    \/ ReadBody
    \/ ReadRest
    \/ EndOfStream

Next ==
    \/ Announce
    \/ AnnounceFails
    \/ AnnounceCompleted
    \/ Quit
    \/ ReadFromTracker

(* The program does nothing else while it reads a response.                  *)
Spec == Init /\ [][Next]_vars /\ WF_vars(ReadFromTracker)

-----------------------------------------------------------------------------
(* download_from_peers indexes the array with the number of peers: the two     *)
(* stay in step over responses that list somebody, nobody else or nobody,     *)
(* errors, announces that fail, and lists that could not be stored, as soon   *)
(* as one after them is.                                                    *)
CountMatchesArray == ~astray /\ no_of_peers > 0 => no_of_peers = peers.size

(* As long as the tracker has always answered with a list that is whole, in    *)
(* one line and has the client in it, and the list was stored, the program     *)
(* does not end by itself, and after an announce the buffer is empty, the     *)
(* number of peers is the one of that announce, and no socket is open but the *)
(* one that the end of the download was announced on.                       *)
WellAnswered ==
    clean =>
        /\ proc \in {"up", "exited"}
        /\ pc = "select" =>
            /\ read_buf = <<>>
            /\ no_of_peers > 0 => peers.from = announces
            /\ descriptors = IF completed THEN 1 ELSE 0

(* An announce comes to an end, or the program does, whatever is left from     *)
(* the last one.                                                           *)
AnnounceEnds == (pc # "select") ~> (pc = "select" \/ proc # "up")
=============================================================================
