---------------------------- MODULE MCRs485 ----------------------------
(* Instance of Rs485: a JK battery of four cells that discharges, then     *)
(* charges, with and without a byte for the direction, and last sends an   *)
(* answer that ends within a value; an A5 battery whose current is         *)
(* negative, then positive.                                                *)
EXTENDS Rs485

JkDischarging ==
    [cells |-> <<3301, 3290, 3355, 3290>>, mosfet_temperature |-> 31, battery_box_temperature |-> 25,
     battery_temperature_1 |-> -3, total_voltage |-> 5280, current |-> -1250, direction |-> << >>,
     soc |-> 78, cycle_count |-> 53, total_cycle_capacity |-> 65541, warning_bitmask |-> 4,
     operation_mode_bitmask |-> 3, full_charge_capacity |-> 280, ends_at_soc |-> FALSE]
JkCharging ==
    [JkDischarging EXCEPT !.cells = <<3401, 3390, 3455, 3399>>, !.current = 900, !.direction = <<0>>,
                          !.battery_temperature_1 = 4, !.full_charge_capacity = 279]
JkUndirected == [JkCharging EXCEPT !.current = 450, !.direction = << >>]
JkShort == [JkUndirected EXCEPT !.ends_at_soc = TRUE]
MCJkBattery == <<JkDischarging, JkCharging, JkUndirected, JkShort>>

A5Discharging ==
    [voltage |-> 5312, current |-> -300, words |-> [i \in 1..15 |-> 90 + i],
     cells |-> [i \in 1..16 |-> 3300 + i]]
A5Charging ==
    [A5Discharging EXCEPT !.voltage = 5290, !.current = 40, !.words[11] = 42330,
                          !.cells = [i \in 1..16 |-> 3330 - i]]
MCA5Battery == <<A5Discharging, A5Charging>>

MCModbusBattery == <<[register_0 |-> 5300, register_1 |-> 65236],
                     [register_0 |-> 5301, register_1 |-> 12]>>

(* The length, a byte of the voltage. *)
MCA5Flips == {<<2, 1>>, <<7, 1>>}
MCFlips == {0, 8, 10, 11, 13, 17, 40, 60, 75, 76} \X {1, 2, 4, 64, 128}
=============================================================================
