------------------------------ MODULE Metainfo ------------------------------
(***************************************************************************)
(* populate_struct of metainfo.c: one walk over the decoded torrent file that *)
(* takes the fields of the client and writes what is inside "info" again,    *)
(* for its hash.                                                           *)
(*                                                                         *)
(* A known key is taken to have a value of its type, and "pieces" to hold a   *)
(* hash for every piece; the buffer is as long as it takes.                 *)
(***************************************************************************)
EXTENDS Bencode

HASH_SIZE == 20

\* The keys the walk knows, in ASCII.
announce     == <<97, 110, 110, 111, 117, 110, 99, 101>>
info         == <<105, 110, 102, 111>>
length       == <<108, 101, 110, 103, 116, 104>>
name         == <<110, 97, 109, 101>>
piece_length == <<112, 105, 101, 99, 101, 32, 108, 101, 110, 103, 116, 104>>
pieces       == <<112, 105, 101, 99, 101, 115>>

(* The global variables the walk sets, and how it ends.                      *)
NewWalk ==
    [announce_url |-> NoString, file_name |-> NoString, file_size |-> 0, peice_size |-> 0,
     no_of_peices |-> 0, peice_hashes |-> <<>>,
     inside_info |-> FALSE, buffer |-> <<>>, end |-> "ok"]

Write(w, octets) == IF w.inside_info THEN [w EXCEPT !.buffer = @ \o octets] ELSE w

PieceCount(file_size, peice_size) ==
    IF file_size % peice_size # 0 THEN file_size \div peice_size + 1
    ELSE file_size \div peice_size

populate_peices(w, hashes) ==
    LET count == PieceCount(w.file_size, w.peice_size)
    IN [w EXCEPT !.no_of_peices = count,
                 !.peice_hashes = [k \in 1 .. count |->
                    SubSeq(hashes, HASH_SIZE * (k - 1) + 1, HASH_SIZE * k)]]

(* Mutant: the announce URL tests the pointer of the name.                    *)
MissingNameFirst(w, key) == key = announce /\ w.file_name = NoString

(* The test after the malloc of the name looks at the announce URL.           *)
Missing(w, key) == key = name /\ w.announce_url = NoString

(* What an entry sets before the walk goes into it.  A null string is not      *)
(* copied, and no number is divided by 0: the program is ended.              *)
Taken(w, key, val) ==
    CASE Missing(w, key) -> [w EXCEPT !.end = "exited"]
      [] key \in {announce, name, pieces} /\ val.s = NoString -> [w EXCEPT !.end = "crashed"]
      [] key = pieces /\ w.peice_size = 0 -> [w EXCEPT !.end = "crashed"]
      [] key = announce     -> [w EXCEPT !.announce_url = val.s]
      [] key = name         -> [w EXCEPT !.file_name = val.s]
      [] key = info         -> [w EXCEPT !.inside_info = TRUE]
      [] key = length       -> [w EXCEPT !.file_size = val.i]
      [] key = piece_length -> [w EXCEPT !.peice_size = val.i]
      [] key = pieces       -> populate_peices(w, val.s)
      [] OTHER -> w

(* Mutant: "info" is entered before its key is written.                      *)
KeyInside(w, key) ==
    Write(IF key = info THEN [w EXCEPT !.inside_info = TRUE] ELSE w, EncodeStr(key))

Key(w, key) == Write(w, EncodeStr(key))

(* Behind the value of "info", wherever it stood.                            *)
Leave(w, key) == IF key = info THEN [w EXCEPT !.inside_info = FALSE] ELSE w

RECURSIVE populate_struct(_, _), InList(_, _, _), InDict(_, _, _)

(* Each element is written as a list of its own.                             *)
InList(w, nodes, k) ==
    IF k > Len(nodes) \/ w.end # "ok" THEN w
    ELSE InList(Write(populate_struct(Write(w, <<l_>>), nodes[k]), <<e_>>), nodes, k + 1)

InDict(w, entries, k) ==
    IF k > Len(entries) \/ w.end # "ok" THEN w
    ELSE LET key == entries[k].key
             val == entries[k].val
             in  == Taken(Key(w, key), key, val)
         IN IF key = NoString THEN [w EXCEPT !.end = "crashed"]
            ELSE InDict(IF in.end # "ok" THEN in ELSE Leave(populate_struct(in, val), key),
                        entries, k + 1)

populate_struct(w, node) ==
    CASE node.type = "none" -> [w EXCEPT !.end = "crashed"]
      [] node.type = "str"  ->
            Write(w, IF node.s = NoString THEN EncodeStr(<<>>) ELSE EncodeStr(node.s))
      [] node.type = "int"  -> Write(w, EncodeInt(node.i))
      [] node.type = "list" ->
            InList(w, BeforeNull(node.l, { k \in DOMAIN node.l : node.l[k] = NoNode }), 1)
      [] node.type = "dict" ->
            LET entries == BeforeNull(node.d, { k \in DOMAIN node.d : node.d[k].val = NoNode })
                in == InDict(Write(w, <<d_>>), entries, 1)
            IN IF in.end = "ok" THEN Write(in, <<e_>>) ELSE in
=============================================================================
