------------------------------ MODULE MCSwarm ------------------------------
(* One client with the file and two without, and three pieces; machines that   *)
(* swap bytes and machines that do not, mixed or not.                       *)
EXTENDS Swarm

CONSTANTS peer1, peer2, seed

MCClients    == {peer1, peer2, seed}
MCSeeders    == {seed}
AnyMix       == { {}, {peer1}, {seed, peer1}, MCClients }
All          == { MCClients }
=============================================================================
