---------------------------- MODULE MCAutomation ----------------------------
(***************************************************************************)
(* Model-checking instances of Automation.                                 *)
(***************************************************************************)
EXTENDS Automation

At(h) == [on |-> "time", in |-> {h}]
Low   == [on |-> "sensor", in |-> {"low"}]

\* By day a low battery asks for v1, at night everything does.
Table ==
  [type |-> "rule_table", setting |-> "s", restore |-> "v0",
   groups |-> <<[when |-> At("day"),
                 ranges |-> <<[when |-> Low, act |-> "v1"]>>],
                [when |-> At("night"),
                 ranges |-> <<[when |-> At("day"), act |-> "v0"],
                              [when |-> At("night"), act |-> "v1"]>>]>>]

\* A table of a single range, open by day.
Simple ==
  [type |-> "rule_table", setting |-> "s", restore |-> "v0",
   groups |-> <<[when |-> At("day"),
                 ranges |-> <<[when |-> At("day"), act |-> "v1"]>>]>>]

Protection ==
  [type |-> "battery_protection", setting |-> "s", restore |-> "v0",
   low |-> {"low"}, act |-> "v1"]

OneSimple  == [i \in {"t"} |-> Simple]
OneTable   == [i \in {"t"} |-> Table]
Protecting == [i \in {"p"} |-> Protection]

On(i) == [id |-> i, on |-> TRUE, until |-> 0]
TableOnly  == {<<On("t")>>}
ProtectionOnly == {<<On("p")>>}

AllFaults  == FaultKinds
NoReadings == {}
NoFaults   == {}
Refused    == {"refused"}
Writing    == {"echo", "lost", "refused", "read", "raise"}
=============================================================================
