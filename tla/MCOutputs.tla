------------------------------ MODULE MCOutputs ------------------------------
(***************************************************************************)
(* Model-checking instances of Outputs.                                    *)
(***************************************************************************)
EXTENDS Outputs

LowFires == [n \in {"battery_soc_low"} |-> {"low"}]
=============================================================================
