--------------------------- MODULE MCBitFieldLoop ---------------------------
(* Three bytes and a half of positions, and the position -1 that            *)
(* find_rarest_peice_and_send_request asks for after a request.            *)
EXTENDS BitFieldLoop

MCPositions == -1 .. 28
=============================================================================
