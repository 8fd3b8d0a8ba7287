---------------------------- MODULE MCSessionPair ----------------------------
(***************************************************************************)
(* Model checking of a pair of sessions.  The system stops once both       *)
(* owners have nothing left to do.                                         *)
(***************************************************************************)
EXTENDS SessionProperties

BothVersions == {12, 13}
AllFaults == {"Cut", "Corrupt"}

=============================================================================
