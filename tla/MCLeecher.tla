----------------------------- MODULE MCLeecher -----------------------------
(* Small instances of Leecher: three bytes in pieces of two make two pieces,  *)
(* the last of which is short.                                              *)
EXTENDS Leecher

AnyHolding   == SUBSET Pieces
WholeFile    == { Pieces }
EightOrNine  == { 0 .. 7, 0 .. 8 }

AnyWord   == {NOT_DOWNLOADED, DOWNLOADING}
Word64Bit == {NOT_DOWNLOADED}

AllButQuit == AllBehaviours \ {"quit"}
Polite     == AllBehaviours \ {"skip", "show", "crowd", "quit", "disk"}
Growing    == {"have", "close", "quit"}
NoFaults   == {}
=============================================================================
