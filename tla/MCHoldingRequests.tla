-------------------------- MODULE MCHoldingRequests --------------------------
(***************************************************************************)
(* Model-checking instance of HoldingRequests.  Register 1 counts in       *)
(* halves and allows a negative value, which no request can carry;         *)
(* register 2 has one value; register 3 is not supported by the model.     *)
(* Two different multi-writes begin at register 1.                         *)
(***************************************************************************)
EXTENDS HoldingRequests, TLC

Table ==
  << [min |-> -1, max |-> 1, scale |-> 5,  capabilities |-> {}],
     [min |-> 2,  max |-> 2, scale |-> 10, capabilities |-> {}],
     [min |-> 0,  max |-> 0, scale |-> 10, capabilities |-> {"generator"}] >>

TwoBlocks  == << <<1, 1>>, <<2, 1>> >>
PutBodies  == {[form |-> "raw", amount |-> 1], [form |-> "value", amount |-> 10],
               [form |-> "value", amount |-> -5], [form |-> "none", amount |-> 0]}
TwoLists   == {<<0>>, <<1, 2>>}
Symmetry   == Permutations(Handlers)
==============================================================================
