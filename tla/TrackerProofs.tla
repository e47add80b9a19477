---------------------------- MODULE TrackerProofs ----------------------------
(***************************************************************************)
(* The list of peers and its number stay in step whatever trackers answer,    *)
(* and a tracker that answers well is understood, for every list, every       *)
(* number of announces and every way the responses are cut into reads.       *)
(***************************************************************************)
EXTENDS Tracker, SequenceTheorems, TLAPS

-----------------------------------------------------------------------------
(* Types, and the list                                                      *)

LinesOK == stream \in Seq(Line) /\ read_buf \in Seq(Line)

NumbersOK ==
    /\ announces \in Nat
    /\ no_of_peers \in Int
    /\ peers \in [from: Nat, size: Nat]
    /\ descriptors \in Int

ListInv == LinesOK /\ NumbersOK /\ CountMatchesArray

(* Everything that a tracker may answer is a sequence of lines.              *)
LEMMA ResponsesAreLines ==
    /\ \A n \in ListSizes : GoodResponse(n) \in Seq(Line)
    /\ OtherResponses \subseteq Seq(Line)
<1>1. /\ \A code \in Codes \cup {200} : StatusLine(code) \in Line
      /\ \A n \in ListSizes \cup {2} : List(n) \in Line
      /\ LengthLine \in Line /\ EmptyLine \in Line
      /\ Failure \in Line /\ Text \in Line /\ CutList \in Line
  BY ConstantsAssumption
     DEF StatusLine, List, LengthLine, EmptyLine, Failure, Text, CutList, Line, LineTypes
<1>2. \A n \in ListSizes : GoodResponse(n) \in Seq(Line)
  BY <1>1 DEF GoodResponse
<1>3. ASSUME NEW r \in OtherResponses
      PROVE  r \in Seq(Line)
  <2>1. CASE r \in { <<StatusLine(200), LengthLine, EmptyLine, CutList, Text>>,
                     <<StatusLine(200), EmptyLine, List(2)>> }
    <3>1. \A x \in Line, y \in Line, z \in Line : <<x, y, z>> \in Seq(Line)
      OBVIOUS
    <3>2. \A x \in Line, y \in Line, z \in Line, u \in Line, v \in Line :
            <<x, y, z, u, v>> \in Seq(Line)
      OBVIOUS
    <3>3. <<StatusLine(200), LengthLine, EmptyLine, CutList, Text>> \in Seq(Line)
      BY <1>1, <3>2
    <3>4. <<StatusLine(200), EmptyLine, List(2)>> \in Seq(Line)
      BY <1>1, <3>1
    <3> QED
      BY <2>1, <3>3, <3>4
  <2>2. CASE \E code \in Codes, body \in {Failure, Text} :
                r = <<StatusLine(code), LengthLine, EmptyLine, body>>
    BY <1>1, <2>2
  <2>3. CASE \E code \in Codes : r = <<StatusLine(code), EmptyLine>>
    BY <1>1, <2>3
  <2> QED
    BY <1>3, <2>1, <2>2, <2>3 DEF OtherResponses
<1> QED
  BY <1>2, <1>3

(* A list that is stored changes number and array together; one that is not    *)
(* leaves a note of it.                                                      *)
LEMMA StoreListFacts ==
    ASSUME NEW line \in Line, NumbersOK, StoreList(line)
    PROVE  /\ no_of_peers' \in Int
           /\ peers' \in [from: Nat, size: Nat]
           /\ ~astray' /\ no_of_peers' > 0 =>
                /\ no_of_peers' = peers'.size
                /\ peers'.from = announces
           /\ clean' => clean /\ ~astray' /\ proc' = "up"
<1>1. PICK fault \in Faults, found \in BOOLEAN :
        /\ proc' \in Stored(line, fault, found)
        /\ no_of_peers' = TakeList(line, fault).count
        /\ peers' = TakeList(line, fault).array
        /\ astray' = (line.n > 1 /\ fault # "none")
        /\ clean' = (clean /\ (line.n > 1 => fault = "none" /\ found))
  BY DEF StoreList
<1>2. line.n \in Nat
  BY DEF Line
<1>3. no_of_peers' = line.n - 1
  BY <1>1 DEF TakeList
<1>4. ASSUME line.n > 1, fault = "none"
      PROVE  peers' = [from |-> announces, size |-> line.n - 1]
  BY <1>1, <1>2, <1>4 DEF TakeList
<1>5. peers' \in [from: Nat, size: Nat]
  BY <1>1, <1>2 DEF TakeList, NoArray, NumbersOK
<1>6. ~astray' /\ no_of_peers' > 0 =>
        no_of_peers' = peers'.size /\ peers'.from = announces
  <2>1. ~astray' => (line.n > 1 => fault = "none")
    BY <1>1
  <2> QED
    BY <1>2, <1>3, <1>4, <2>1
<1>7. ASSUME clean'
      PROVE  clean /\ ~astray' /\ proc' = "up"
  <2>1. clean /\ ~astray' /\ (line.n > 1 => fault = "none" /\ found)
    BY <1>1, <1>7
  <2>2. ~(TakeList(line, fault).count > TakeList(line, fault).array.size)
    BY <1>1, <1>2, <1>3, <1>4, <1>5, <2>1
  <2> QED
    BY <1>1, <2>1, <2>2 DEF Stored
<1> QED
  BY <1>2, <1>3, <1>5, <1>6, <1>7

(* A read moves lines from the stream to the buffer, in their order.          *)
LEMMA FillFacts ==
    ASSUME LinesOK, Fill
    PROVE  /\ read_buf' \in Seq(Line) /\ stream' \in Seq(Line)
           /\ read_buf' \o stream' = read_buf \o stream
<1>1. PICK k \in 1 .. Len(stream) : /\ read_buf' = SubSeq(stream, 1, k)
                                    /\ stream' = SubSeq(stream, k + 1, Len(stream))
  BY DEF Fill
<1>2. stream \in Seq(Line) /\ read_buf = <<>>
  BY DEF LinesOK, Fill
<1>3. read_buf' \in Seq(Line) /\ stream' \in Seq(Line)
  BY <1>1, <1>2
<1>4. read_buf' \o stream' = stream
  BY <1>1, <1>2
<1>5. read_buf \o stream = stream
  BY <1>2, ConcatEmptySeq
<1> QED
  BY <1>3, <1>4, <1>5

(* The client starts with nothing from a tracker.                            *)
LEMMA ListStarts == Init => ListInv
BY DEF Init, ListInv, LinesOK, NumbersOK, CountMatchesArray, NoArray

(* Every step keeps types, and number and array in step.                     *)
LEMMA ListStep == ListInv /\ [Next]_vars => ListInv'
<1> SUFFICES ASSUME ListInv, [Next]_vars PROVE ListInv'
  OBVIOUS
<1> USE DEF ListInv, LinesOK, NumbersOK, CountMatchesArray, ofRun, responseVars
<1>1. CASE UNCHANGED vars
  BY <1>1 DEF vars
<1>2. CASE Announce
  <2>1. stream' \in Seq(Line)
    BY <1>2, ResponsesAreLines DEF Announce
  <2> QED
    BY <1>2, <2>1 DEF Announce
<1>3. CASE AnnounceFails \/ AnnounceCompleted \/ Quit
  BY <1>3, ConstantsAssumption DEF AnnounceFails, AnnounceCompleted, Quit
<1>4. CASE Fill
  <2>1. read_buf' \in Seq(Line) /\ stream' \in Seq(Line)
    BY <1>4, FillFacts
  <2> QED
    BY <1>4, <2>1 DEF Fill
<1>5. CASE ReadStatus \/ ReadLength \/ ReadEmpty \/ ReadRest
  <2>1. read_buf # <<>> /\ read_buf' = Tail(read_buf)
    BY <1>5 DEF ReadStatus, ReadLength, ReadEmpty, ReadRest, Reads
  <2>2. stream' \in {stream, <<>>}
    BY <1>5 DEF ReadStatus, ReadLength, ReadEmpty, ReadRest, Return
  <2>3. LinesOK'
    <3>1. Tail(read_buf) \in Seq(Line) /\ stream \in Seq(Line) /\ <<>> \in Seq(Line)
      BY <2>1
    <3> QED
      BY <2>1, <2>2, <3>1
  <2> QED
    BY <1>5, <2>3 DEF ReadStatus, ReadLength, ReadEmpty, ReadRest
<1>6. CASE ReadBody
  <2> DEFINE line == Head(read_buf)
  <2>1. line \in Line /\ read_buf' = Tail(read_buf) /\ read_buf # <<>>
    BY <1>6 DEF ReadBody, Reads
  <2>2. \/ StoreList(line)
        \/ UNCHANGED <<no_of_peers, peers, astray, clean>>
    BY <1>6 DEF ReadBody
  <2>3. UNCHANGED <<announces, stream, content_length, descriptors, completed>>
    BY <1>6 DEF ReadBody
  <2> HIDE DEF line
  <2>4. /\ no_of_peers' \in Int /\ peers' \in [from: Nat, size: Nat]
        /\ ~astray' /\ no_of_peers' > 0 => no_of_peers' = peers'.size
    BY <2>1, <2>2, StoreListFacts
  <2> QED
    BY <2>1, <2>3, <2>4
<1>7. CASE EndOfStream
  <2>1. read_buf' = <<>> /\ stream' = <<>>
    BY <1>7 DEF EndOfStream, Leave, Return
  <2> QED
    BY <1>7, <2>1 DEF EndOfStream
<1> QED
  BY <1>1, <1>2, <1>3, <1>4, <1>5, <1>6, <1>7 DEF Next, ReadFromTracker

(* Whatever trackers answer, and whatever the system refuses in between, the   *)
(* list and its number are in step unless the last list could not be stored.  *)
THEOREM ListInStep == Spec => []CountMatchesArray
BY ListStarts, ListStep, PTL DEF Spec, ListInv

-----------------------------------------------------------------------------
(* A tracker that answers well                                              *)

(* Where read_from_tracker is in a response with the list of n peers.        *)
ReadsWell(at, length, rest) ==
    \E n \in ListSizes :
        \/ at = "head" /\ rest = GoodResponse(n)
        \/ at = "head" /\ rest = <<LengthLine, EmptyLine, List(n)>>
        \/ at = "head" /\ rest = <<EmptyLine, List(n)>> /\ length = 1
        \/ at = "body" /\ rest = <<List(n)>> /\ length = 1
        \/ at = "rest" /\ rest = <<>>

(* As long as trackers have answered well: what is left of a response is what *)
(* the place in read_from_tracker expects, nothing is left between announces, *)
(* and no socket but those of this announce and of the completion is open.    *)
WellInv ==
    clean =>
        /\ ~astray
        /\ proc \in {"up", "exited"}
        /\ pc = "select" =>
            /\ read_buf = <<>> /\ stream = <<>>
            /\ descriptors = IF completed THEN 1 ELSE 0
        /\ pc # "select" =>
            /\ proc = "up"
            /\ ReadsWell(pc, content_length, read_buf \o stream)
            /\ descriptors = IF completed THEN 2 ELSE 1
        /\ pc \in {"select", "rest"} => (no_of_peers > 0 => peers.from = announces)

TrackerInv == ListInv /\ WellInv

(* What is left after the first line, in each place.                         *)
LEMMA GoodLines ==
    ASSUME NEW n \in ListSizes
    PROVE  /\ Head(GoodResponse(n)) = StatusLine(200)
           /\ Tail(GoodResponse(n)) = <<LengthLine, EmptyLine, List(n)>>
           /\ Head(<<LengthLine, EmptyLine, List(n)>>) = LengthLine
           /\ Tail(<<LengthLine, EmptyLine, List(n)>>) = <<EmptyLine, List(n)>>
           /\ Head(<<EmptyLine, List(n)>>) = EmptyLine
           /\ Tail(<<EmptyLine, List(n)>>) = <<List(n)>>
           /\ Head(<<List(n)>>) = List(n)
           /\ Tail(<<List(n)>>) = <<>>
BY DEF GoodResponse

(* The lines are told apart by their types.                                  *)
LEMMA LineFacts ==
    /\ StatusLine(200).type = "status" /\ ~Refused(StatusLine(200).n)
    /\ LengthLine.type = "length" /\ LengthLine.n = 1
    /\ EmptyLine.type = "empty"
    /\ \A n : List(n).type = "list" /\ List(n).n = n
BY DEF StatusLine, LengthLine, EmptyLine, List, Refused

(* The line that is read while all is well, and what is left then.            *)
LEMMA WellRead ==
    ASSUME TrackerInv, clean, NEW where, where # "select", NEW types, Reads(where, types)
    PROVE  \E n \in ListSizes :
        LET line == Head(read_buf)
            rest == Tail(read_buf) \o stream
        IN \/ /\ where = "head" /\ line = StatusLine(200)
              /\ rest = <<LengthLine, EmptyLine, List(n)>>
           \/ where = "head" /\ line = LengthLine /\ rest = <<EmptyLine, List(n)>>
           \/ /\ where = "head" /\ line = EmptyLine /\ rest = <<List(n)>>
              /\ content_length = 1
           \/ /\ where = "body" /\ line = List(n) /\ rest = <<>>
              /\ content_length = 1
<1>1. /\ pc = where /\ read_buf # <<>>
      /\ read_buf \in Seq(Line) /\ stream \in Seq(Line)
  BY DEF Reads, TrackerInv, ListInv, LinesOK
<1> DEFINE left == read_buf \o stream
<1>2. left # <<>> /\ Head(left) = Head(read_buf) /\ Tail(left) = Tail(read_buf) \o stream
  BY <1>1
<1>3. ReadsWell(where, content_length, left)
  BY <1>1 DEF TrackerInv, WellInv
<1> HIDE DEF left
<1>4. PICK n \in ListSizes :
        \/ where = "head" /\ left = GoodResponse(n)
        \/ where = "head" /\ left = <<LengthLine, EmptyLine, List(n)>>
        \/ where = "head" /\ left = <<EmptyLine, List(n)>> /\ content_length = 1
        \/ where = "body" /\ left = <<List(n)>> /\ content_length = 1
  BY <1>2, <1>3 DEF ReadsWell
<1> QED
  BY <1>2, <1>4, GoodLines

(* download_from_peers stays in the array while all is well.                  *)
LEMMA DownloadsWell ==
    ASSUME ListInv, ~astray, Downloads
    PROVE  proc' = "up"
BY DEF ListInv, NumbersOK, CountMatchesArray, Downloads

(* The handler of each line keeps the invariant.                             *)
LEMMA ReadKeepsWell ==
    ASSUME TrackerInv, ReadStatus \/ ReadLength \/ ReadEmpty \/ ReadBody \/ ReadRest
    PROVE  WellInv'
<1>0. clean' => clean
  <2>1. ASSUME ReadBody PROVE clean' => clean
    BY <2>1 DEF ReadBody, StoreList
  <2> QED
    BY <2>1 DEF ReadStatus, ReadLength, ReadEmpty, ReadRest, ofRun
<1> SUFFICES ASSUME clean, clean' PROVE WellInv'
  BY <1>0 DEF WellInv
<1>1. pc # "select" /\ proc = "up" /\ ~astray /\ descriptors = IF completed THEN 2 ELSE 1
  BY DEF TrackerInv, WellInv, ReadStatus, ReadLength, ReadEmpty, ReadBody, ReadRest, Reads
<1>2. CASE ReadStatus
  <2>1. PICK n \in ListSizes :
          \/ /\ Head(read_buf) = StatusLine(200)
             /\ Tail(read_buf) \o stream = <<LengthLine, EmptyLine, List(n)>>
          \/ Head(read_buf).type # "status"
    BY <1>2, WellRead, LineFacts DEF ReadStatus
  <2>2. Head(read_buf).type = "status" /\ read_buf' = Tail(read_buf)
    BY <1>2 DEF ReadStatus, Reads
  <2>3. pc' = pc /\ stream' = stream /\ proc' = proc /\ pc = "head"
    BY <1>2, <2>1, <2>2, LineFacts DEF ReadStatus, Reads
  <2>4. ReadsWell(pc', content_length', read_buf' \o stream')
    BY <2>1, <2>2, <2>3 DEF ReadsWell
  <2> QED
    BY <1>1, <1>2, <2>3, <2>4 DEF WellInv, ReadStatus, ofRun
<1>3. CASE ReadLength
  <2>1. PICK n \in ListSizes :
          \/ /\ Head(read_buf) = LengthLine
             /\ Tail(read_buf) \o stream = <<EmptyLine, List(n)>>
          \/ Head(read_buf).type # "length"
    BY <1>3, WellRead, LineFacts DEF ReadLength
  <2>2. /\ Head(read_buf).type = "length" /\ read_buf' = Tail(read_buf)
        /\ pc' = pc /\ stream' = stream /\ pc = "head"
        /\ content_length' = Head(read_buf).n
    BY <1>3 DEF ReadLength, Reads
  <2>3. ReadsWell(pc', content_length', read_buf' \o stream')
    BY <2>1, <2>2, LineFacts DEF ReadsWell
  <2> QED
    BY <1>1, <1>3, <2>2, <2>3 DEF WellInv, ReadLength, ofRun
<1>4. CASE ReadEmpty
  <2>1. PICK n \in ListSizes :
          \/ /\ Head(read_buf) = EmptyLine /\ content_length = 1
             /\ Tail(read_buf) \o stream = <<List(n)>>
          \/ Head(read_buf).type # "empty"
    BY <1>4, WellRead, LineFacts DEF ReadEmpty
  <2>2. /\ Head(read_buf).type = "empty" /\ read_buf' = Tail(read_buf)
        /\ pc' = "body" /\ stream' = stream /\ content_length' = content_length
    BY <1>4 DEF ReadEmpty, Reads
  <2>3. ReadsWell(pc', content_length', read_buf' \o stream')
    BY <2>1, <2>2 DEF ReadsWell
  <2> QED
    BY <1>1, <1>4, <2>2, <2>3 DEF WellInv, ReadEmpty, ofRun
<1>5. CASE ReadBody
  <2> DEFINE line == Head(read_buf)
  <2>0. Reads("body", LineTypes)
    BY <1>5 DEF ReadBody
  <2>1. PICK n \in ListSizes :
          line = List(n) /\ content_length = 1 /\ Tail(read_buf) \o stream = <<>>
    <3>1. \E n \in ListSizes :
            Head(read_buf) = List(n) /\ content_length = 1 /\ Tail(read_buf) \o stream = <<>>
      <4>1. "body" # "select" /\ "body" # "head"
        OBVIOUS
      <4> QED
        BY <2>0, <4>1, WellRead, Zenon
    <3> QED
      BY <3>1
  <2>2. /\ read_buf' = Tail(read_buf) /\ stream' = stream
        /\ pc' = IF Unterminated(line) THEN "rest" ELSE "head"
        /\ Decoded(line) = "up" /\ line.type = "list" => StoreList(line)
        /\ announces' = announces
    BY <1>5 DEF ReadBody, Reads
  <2>3. line \in Line
    BY <1>5 DEF TrackerInv, ListInv, LinesOK, ReadBody, Reads
  <2>4. line.type = "list"
    BY <2>1, LineFacts
  <2>5. Decoded(line) = "up" /\ pc' = "rest"
    BY <2>1, <2>2, <2>4 DEF Decoded, Unterminated
  <2>6. /\ proc' = "up" /\ ~astray'
        /\ no_of_peers' > 0 => peers'.from = announces
    BY <2>2, <2>3, <2>4, <2>5, StoreListFacts DEF TrackerInv, ListInv
  <2>7. ReadsWell(pc', content_length', read_buf' \o stream')
    BY <2>1, <2>2, <2>5 DEF ReadsWell
  <2> QED
    BY <1>1, <1>5, <2>2, <2>5, <2>6, <2>7 DEF WellInv, ReadBody, ofRun
<1>6. CASE ReadRest
  <2>1. Reads("rest", LineTypes)
    BY <1>6 DEF ReadRest
  <2>2. "rest" # "select" /\ "rest" # "head" /\ "rest" # "body"
    OBVIOUS
  <2> QED
    BY <2>1, <2>2, WellRead, Zenon
<1> QED
  BY <1>2, <1>3, <1>4, <1>5, <1>6

(* A response that is well is read to its end before its connection is closed. *)
LEMMA EndKeepsWell ==
    ASSUME TrackerInv, EndOfStream
    PROVE  WellInv'
<1> SUFFICES ASSUME clean' PROVE WellInv'
  BY DEF WellInv
<1>1. /\ read_buf = <<>> /\ stream = <<>> /\ pc # "select"
      /\ Leave /\ read_buf' = <<>>
      /\ UNCHANGED <<announces, no_of_peers, peers, completed, astray>>
  BY DEF EndOfStream, responseVars
<1>2. clean /\ descriptors' = descriptors - 1
  <2>1. PICK error \in TakenForError :
          /\ descriptors' = IF error THEN descriptors ELSE descriptors - 1
          /\ clean' = (clean /\ ~error)
    BY DEF EndOfStream
  <2>2. error \in BOOLEAN
    BY DEF TakenForError
  <2> QED
    BY <2>1, <2>2
<1>3. read_buf \o stream = <<>>
  BY <1>1
<1>4. pc = "rest"
  BY <1>1, <1>2, <1>3 DEF TrackerInv, WellInv, ReadsWell, GoodResponse
<1>5. Return /\ ~astray
  BY <1>1, <1>2, <1>4 DEF Leave, TrackerInv, WellInv
<1>6. pc' = "select" /\ stream' = <<>> /\ proc' = "up"
  BY <1>5, DownloadsWell DEF Return, TrackerInv
<1>7. descriptors = IF completed THEN 2 ELSE 1
  BY <1>1, <1>2 DEF TrackerInv, WellInv
<1>8. descriptors' = IF completed' THEN 1 ELSE 0
  BY <1>1, <1>2, <1>7
<1>9. no_of_peers' > 0 => peers'.from = announces'
  BY <1>1, <1>2, <1>4 DEF TrackerInv, WellInv
<1> QED
  BY <1>1, <1>5, <1>6, <1>8, <1>9 DEF WellInv

(* So does every other step.                                                 *)
LEMMA WellStep == TrackerInv /\ [Next]_vars => WellInv'
<1> SUFFICES ASSUME TrackerInv, [Next]_vars PROVE WellInv'
  OBVIOUS
<1>1. CASE UNCHANGED vars
  BY <1>1 DEF vars, TrackerInv, WellInv
<1>2. CASE Announce
  <2> SUFFICES ASSUME clean' PROVE WellInv'
    BY DEF WellInv
  <2>1. PICK n \in ListSizes : stream' = GoodResponse(n)
    BY <1>2 DEF Announce
  <2>2. clean
    BY <1>2 DEF Announce
  <2>3. /\ proc = "up" /\ pc = "select" /\ read_buf = <<>> /\ ~astray
        /\ descriptors = IF completed THEN 1 ELSE 0
    BY <1>2, <2>2 DEF Announce, TrackerInv, WellInv
  <2>4. GoodResponse(n) \in Seq(Line)
    BY ResponsesAreLines
  <2>5. /\ proc' = "up" /\ pc' = "head" /\ UNCHANGED <<completed, astray>>
        /\ descriptors' = descriptors + 1 /\ read_buf' = <<>>
    BY <1>2, <2>3 DEF Announce
  <2>6. read_buf' \o stream' = GoodResponse(n)
    BY <2>1, <2>4, <2>5
  <2>7. ReadsWell(pc', content_length', read_buf' \o stream')
    BY <2>5, <2>6 DEF ReadsWell
  <2> QED
    BY <2>3, <2>5, <2>7 DEF WellInv
<1>3. CASE AnnounceFails
  BY <1>3 DEF AnnounceFails, WellInv
<1>4. CASE AnnounceCompleted
  <2>1. clean => descriptors' = 1
    BY <1>4, ConstantsAssumption DEF AnnounceCompleted, TrackerInv, WellInv
  <2> QED
    BY <1>4, <2>1 DEF AnnounceCompleted, TrackerInv, WellInv, responseVars
<1>5. CASE Quit
  BY <1>5 DEF Quit, TrackerInv, WellInv, responseVars, ofRun
<1>6. CASE Fill
  <2>1. read_buf' \o stream' = read_buf \o stream
    BY <1>6, FillFacts DEF TrackerInv, ListInv
  <2> QED
    BY <1>6, <2>1 DEF Fill, TrackerInv, WellInv, ofRun
<1> QED
  BY <1>1, <1>2, <1>3, <1>4, <1>5, <1>6, ReadKeepsWell, EndKeepsWell DEF Next, ReadFromTracker

(* The client starts with all well.                                          *)
LEMMA WellStarts == Init => WellInv
BY DEF Init, WellInv

(* The invariant of the announces holds always.                              *)
THEOREM TrackerInvariance == Spec => []TrackerInv
<1>1. Init => TrackerInv
  BY ListStarts, WellStarts DEF TrackerInv
<1>2. TrackerInv /\ [Next]_vars => TrackerInv'
  BY ListStep, WellStep DEF TrackerInv
<1> QED
  BY <1>1, <1>2, PTL DEF Spec

(* A tracker that always answers with a whole list in one line is understood,  *)
(* for all such lists and however they are cut into reads, and costs no socket. *)
THEOREM GoodTrackersAreUnderstood == Spec => []WellAnswered
<1>1. TrackerInv => WellAnswered
  BY DEF TrackerInv, WellInv, WellAnswered
<1> QED
  BY <1>1, TrackerInvariance, PTL
=============================================================================
