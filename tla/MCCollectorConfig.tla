-------------------------- MODULE MCCollectorConfig --------------------------
(***************************************************************************)
(* Model-checking instances of CollectorConfig: one or two values for each *)
(* kind of setting.                                                        *)
(***************************************************************************)
EXTENDS CollectorConfig

MCChoices ==
  [k \in Keys |-> CASE k = "inverter_serial" -> {}
                    [] k = "alerts_soc_low"  -> {"a1", "x"}
                    [] k = "dongle_host"     -> {"h1"}
                    [] k = "transport"       -> {"tcp_passive", "replay"}
                    [] k = "inverter_model"  -> {"m1"}]

\* "x" stands for a text that is no number.
MCConvertible == {"a0", "a1"}

MCEnv ==
  [k \in Keys |-> CASE k = "inverter_serial" -> "s1"
                    [] k = "dongle_host"     -> "h0"
                    [] k = "transport"       -> "tcp_active"
                    [] OTHER                 -> ""]

MCFallback ==
  [k \in Keys |-> CASE k = "inverter_serial" -> ""
                    [] k = "alerts_soc_low"  -> "a0"
                    [] k = "dongle_host"     -> "d0"
                    [] k = "transport"       -> "tcp_active"
                    [] k = "inverter_model"  -> "m0"]
=============================================================================
