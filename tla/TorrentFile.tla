----------------------------- MODULE TorrentFile -----------------------------
(***************************************************************************)
(* read_torrent_file: the file is read, decoded (Bencode), walked (Metainfo), *)
(* and the octets the walk wrote are hashed (SHA1).  The files are torrents   *)
(* as they should be written, torrents of which the end is missing, and      *)
(* scraps of octets.                                                       *)
(***************************************************************************)
EXTENDS Metainfo, SHA1

CONSTANTS
    Torrents,       \* the values that are written to a file
    Scraps,         \* other files
    MAX_FILE,       \* octets the client reads of a file, 8 * 1024
    Leftovers,      \* octets the stack may hold where the context will be
    Digest          \* the SHA-1 hash of some sequences of octets

ASSUME ConstantsAssumption ==
    /\ MAX_FILE \in Nat \ {0}
    /\ Leftovers \subseteq 0 .. 255

VARIABLES
    file,           \* its octets
    source,         \* the value it was written from, if it is whole
    cut,            \* its end is missing
    pc,             \* the next step of read_torrent_file, or how it ended
    decoding,       \* of be_decoden
    walk,           \* what populate_struct has set
    context,        \* of calculate_info_hash
    next,           \* octet of the buffer that is hashed next
    info_hash

vars == <<file, source, cut, pc, decoding, walk, context, next, info_hash>>

NoHash == <<>>

-----------------------------------------------------------------------------
Init ==
    /\ \/ \E v \in Torrents : source = v /\ file = Encode(v) /\ cut = FALSE
       \/ \E v \in Torrents, k \in 0 .. MAX_FILE :
            /\ k < Len(Encode(v))
            /\ source = NoNode /\ file = SubSeq(Encode(v), 1, k) /\ cut = TRUE
       \/ file \in Scraps /\ source = NoNode /\ cut = FALSE
    /\ pc = "read"
    /\ decoding = Decoding(NoNode, 1)
    /\ walk = NewWalk
    /\ context \in { SHA1Reset(octet) : octet \in Leftovers }
    /\ next = 1
    /\ info_hash = NoHash

(* Too large a file ends the program, and so does one that cannot be opened.  *)
ReadFile ==
    /\ pc = "read"
    /\ pc' \in {"exited", IF Len(file) > MAX_FILE THEN "exited" ELSE "decode"}
    /\ UNCHANGED <<file, source, cut, decoding, walk, context, next, info_hash>>

DecodeFile ==
    /\ pc = "decode"
    /\ decoding' = be_decoden(file)
    /\ pc' = IF decoding'.end = "ok" THEN "walk" ELSE decoding'.end
    /\ UNCHANGED <<file, source, cut, walk, context, next, info_hash>>

WalkTree ==
    /\ pc = "walk"
    /\ walk' = populate_struct(NewWalk, decoding.node)
    /\ pc' = IF walk'.end = "ok" THEN "hash" ELSE walk'.end
    /\ UNCHANGED <<file, source, cut, decoding, context, next, info_hash>>

HashOctet ==
    /\ pc = "hash" /\ next <= Len(walk.buffer)
    /\ context' = SHA1Input(context, walk.buffer[next])
    /\ next' = next + 1
    /\ UNCHANGED <<file, source, cut, pc, decoding, walk, info_hash>>

TakeHash ==
    /\ pc = "hash" /\ next > Len(walk.buffer)
    /\ LET result == SHA1Result(context)
       IN context' = result.context /\ info_hash' = result.digest
    /\ pc' = "ready"
    /\ UNCHANGED <<file, source, cut, decoding, walk, next>>

Next ==
    \/ ReadFile
    \/ DecodeFile
    \/ WalkTree
    \/ HashOctet
    \/ TakeHash

Running == pc \in {"read", "decode", "walk", "hash"}

(* One thread, which is never stopped: weak fairness of Next, which is enabled  *)
(* when Running, written out to spare TLC the hash in ENABLED.               *)
Spec ==
    /\ Init
    /\ [][Next]_vars
    /\ <>[]Running => []<><<Next>>_vars

-----------------------------------------------------------------------------
Whole == source # NoNode

\* The entries of a dictionary under a key.
Under(v, key) == { k \in DOMAIN v.d : v.d[k].key = key }
ValueAt(v, key) == v.d[CHOOSE k \in Under(v, key) : TRUE].val

RECURSIVE HasEmpty(_), ListsOfOne(_), HasInfoInside(_)

HasEmpty(v) ==
    CASE v.type = "list" -> v.l = <<>> \/ \E k \in DOMAIN v.l : HasEmpty(v.l[k])
      [] v.type = "dict" -> v.d = <<>> \/ \E k \in DOMAIN v.d : HasEmpty(v.d[k].val)
      [] OTHER -> FALSE

ListsOfOne(v) ==
    CASE v.type = "list" -> Len(v.l) = 1 /\ ListsOfOne(v.l[1])
      [] v.type = "dict" -> \A k \in DOMAIN v.d : ListsOfOne(v.d[k].val)
      [] OTHER -> TRUE

HasInfoInside(v) ==
    CASE v.type = "list" -> \E k \in DOMAIN v.l : HasInfoInside(v.l[k])
      [] v.type = "dict" ->
            Under(v, info) # {} \/ \E k \in DOMAIN v.d : HasInfoInside(v.d[k].val)
      [] OTHER -> FALSE

IsTorrent(v) == v.type = "dict" /\ Under(v, announce) # {} /\ Under(v, info) # {}

(* A torrent of one file, its keys in the order that the format asks for.     *)
IsSingleFile(v) ==
    /\ IsTorrent(v) /\ ~HasEmpty(v)
    /\ \A k \in Under(v, announce), m \in Under(v, info) : k < m
    /\ [k \in DOMAIN ValueAt(v, info).d |-> ValueAt(v, info).d[k].key] =
            <<length, name, piece_length, pieces>>

-----------------------------------------------------------------------------
(* The decoder undoes the encoding of every value without an empty list or     *)
(* dictionary in it; one with is the end of the program.                     *)
DecodesWhatIsWritten ==
    Whole /\ pc \in {"walk", "hash", "ready", "crashed", "endless"} =>
        IF HasEmpty(source) THEN pc = "crashed" /\ decoding.end = "crashed"
        ELSE decoding = Decoding(source, Len(file) + 1)

(* The info hash is the one that the tracker and the other clients know: the   *)
(* octets that are hashed are those of the value of "info" in the file.  The  *)
(* walk reproduces them if every list in there has one element and no key in  *)
(* there is "info", and only then.                                          *)
HashesInfo ==
    Whole /\ IsTorrent(source) /\ pc \in {"hash", "ready"} =>
        LET v == ValueAt(source, info)
        IN walk.buffer = Encode(v) <=> ListsOfOne(v) /\ ~HasInfoInside(v)

(* The hash is SHA-1, for messages that end at either side of the boundaries   *)
(* of the padding, whatever was on the stack.                               *)
DigestIsStandard ==
    pc = "ready" /\ walk.buffer \in DOMAIN Digest => info_hash = Digest[walk.buffer]

(* A torrent file of which the end is missing does not become a torrent.      *)
CutIsNotLoaded == cut => pc # "ready"

(* What the download works with is what a torrent of one file says: all its    *)
(* bytes are in pieces, no piece is empty, and each has its hash.            *)
FieldsAreTheFiles ==
    LET v == ValueAt(source, info)
    IN /\ walk.announce_url = ValueAt(source, announce).s
       /\ walk.file_name = ValueAt(v, name).s
       /\ walk.file_size = ValueAt(v, length).i
       /\ walk.file_size <= walk.no_of_peices * walk.peice_size
       /\ (walk.no_of_peices - 1) * walk.peice_size < walk.file_size
       /\ Concat(walk.peice_hashes) = ValueAt(v, pieces).s

Opened == IF Whole THEN pc = "decode" /\ IsSingleFile(source) ELSE FALSE
Loaded ==
    IF Whole /\ pc = "ready" THEN IF IsSingleFile(source) THEN FieldsAreTheFiles ELSE FALSE
    ELSE FALSE

(* A torrent of one file that is opened and not too large is loaded, with its  *)
(* fields.                                                                 *)
SingleFilesLoad == Opened ~> Loaded
=============================================================================
