------------------------------ MODULE MCDongle ------------------------------
(***************************************************************************)
(* Model-checking instances of DongleConnection.                           *)
(***************************************************************************)
EXTENDS DongleConnection

OneBatch  == <<"input0">>
NoCommands == {}
OneCommand == {"hold233"}
OnlyValue  == {"v1"}
=============================================================================
