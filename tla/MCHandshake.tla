---------------------------- MODULE MCHandshake ----------------------------
(* Three clients and three announces among them, of one client again or of     *)
(* each once.  s has the file, b does not recognise its own address; all are   *)
(* for one torrent, or a is for another one, as when the tracker still lists   *)
(* an address that was started again.                                        *)
EXTENDS Handshake

CONSTANTS a, b, s

MCClients  == {a, b, s}
MCSeeders  == {s}
MCHidden   == {b}
MCTorrents == { [c \in Clients |-> 1], [c \in Clients |-> IF c = a THEN 2 ELSE 1] }
MCLists    == { <<a, b, s>>, <<b, s, a>> }
=============================================================================
