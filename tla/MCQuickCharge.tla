---------------------------- MODULE MCQuickCharge ----------------------------
(***************************************************************************)
(* Model-checking instances of QuickCharge.                                *)
(***************************************************************************)
EXTENDS QuickCharge

\* Below the range of durations and above it.
MCRequested == {0, 3}
OneRest     == {"rest0"}
TwoRests    == {"rest0", "rest1"}
AllFaults   == FaultKinds
NoFaults    == {}
EchoOnly    == {"echo"}
=============================================================================
