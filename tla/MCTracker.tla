----------------------------- MODULE MCTracker -----------------------------
(* Lists of nobody, of the client alone and of two, and three status codes:   *)
(* one the test takes for an error and two it does not.                     *)
EXTENDS Tracker

MCListSizes == {0, 1, 2, 3}
MCCodes     == {200, 400, 404}
=============================================================================
