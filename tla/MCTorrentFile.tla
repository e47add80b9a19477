--------------------------- MODULE MCTorrentFile ---------------------------
(* Torrents of one file with two pieces of two bytes, whose info dictionaries *)
(* end before, at and behind the places where the padding needs a block more; *)
(* torrents that are unusual in one respect; values that are no torrents; and *)
(* every file of up to two octets of bencoding, and every list and          *)
(* dictionary of five, the end missing or not.                              *)
EXTENDS TorrentFile, TLC

A(n) == [k \in 1 .. n |-> 97]                      \* a name of n letters
Hashes(n) == [k \in 1 .. HASH_SIZE * n |-> (7 * k) % 256]

Single(n) ==
    << Entry(length, Number(3)), Entry(name, Str(A(n))), Entry(piece_length, Number(2)),
       Entry(pieces, Str(Hashes(2))) >>

Torrent(d) == Dict(<< Entry(announce, Str(A(3))), Entry(info, Dict(d)) >>)

\* Info dictionaries of 119, 120, 127 and 128 octets, and of 148.
SingleFiles == { Torrent(Single(n)) : n \in {28, 29, 36, 37, 57} }

Files(paths) == Entry(A(5), List([k \in 1 .. paths |-> Dict(<< Entry(length, Number(3)) >>)]))

Unusual ==
    { Torrent(<<Files(paths)>> \o Single(1)) : paths \in 0 .. 2 }
    \cup { Torrent(<<Entry(A(1), v)>> \o Single(1)) :
            v \in {List(<<List(<<Str(A(1))>>)>>), List(<<Number(-12), Str(<<>>)>>),
                   Dict(<<Entry(info, Number(0))>>), Dict(<<>>)} }
    \* the info before the announce URL; no URL; the pieces before their length
    \cup { Dict(<<Entry(info, Dict(Single(1))), Entry(announce, Str(A(3)))>>),
           Dict(<<Entry(info, Dict(Single(1)))>>),
           Torrent(<<Single(1)[4], Single(1)[2], Single(1)[3], Single(1)[1]>>) }
    \* another entry around the two, and a file of two whole pieces
    \cup { Dict(<<Entry(announce, Str(A(3))), Entry(A(1), List(<<Number(10), Number(0)>>)),
                  Entry(info, Dict(Single(2))), Entry(A(2), Number(1))>>),
           Torrent([Single(1) EXCEPT ![1] = Entry(length, Number(4))]) }
    \* larger than the client reads
    \cup { Torrent(Single(120)) }

Simple == {Number(0), Number(-12), Str(<<>>), Str(A(1)), Str(<<e_>>), Str(A(11))}
Lists(V) == { List(<<v>>) : v \in V } \cup { List(<<v, w>>) : v, w \in V }
Dicts(V) == { Dict(<<Entry(key, v)>>) : key \in {<<>>, <<e_>>}, v \in V }
Nested == Lists(Simple) \cup Dicts(Simple) \cup {List(<<>>), Dict(<<>>)}

MCTorrents ==
    SingleFiles \cup Unusual
        \cup { Dict(<<Entry(A(1), v), Entry(A(2), w)>>) :
                v \in Nested, w \in {Number(0), List(<<Dict(<<Entry(<<>>, Str(<<i_>>))>>)>>)} }

Bencoding == {d_, e_, i_, l_, COLON, MINUS, 48, 49}
Octets_(n) == [1 .. n -> Bencoding]
MCScraps ==
    UNION { Octets_(n) : n \in 0 .. 2 }
        \cup { <<start>> \o scrap : start \in {d_, l_}, scrap \in Octets_(4) }

MCLeftovers == {0, 255}

\* Computed by another implementation of SHA-1.
MCDigest ==
    Encode(Dict(Single(28))) :>
        <<Word(54730, 56790), Word(40485, 31701), Word(24310, 18711), Word(33901, 53688), Word(38302, 35183)>>
    @@ Encode(Dict(Single(29))) :>
        <<Word(52297, 13096), Word(30843, 63664), Word(13343, 45916), Word(58709, 19612), Word(11047, 38168)>>
    @@ Encode(Dict(Single(36))) :>
        <<Word(56470, 19919), Word(29091, 7637), Word(64921, 527), Word(4761, 61342), Word(4570, 10742)>>
    @@ Encode(Dict(Single(37))) :>
        <<Word(13639, 48916), Word(9367, 24431), Word(27662, 65022), Word(14369, 52338), Word(63557, 44923)>>
    @@ <<>> :>
        <<Word(55865, 41966), Word(24171, 19213), Word(12885, 49135), Word(38240, 6288), Word(45016, 1801)>>
=============================================================================
