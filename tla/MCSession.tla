------------------------------ MODULE MCSession ------------------------------
(* Session with small bounds; the .cfg files choose which faults may happen. *)
EXTENDS Session

HorizonOrNone == {NoHorizon, 2}
==============================================================================
