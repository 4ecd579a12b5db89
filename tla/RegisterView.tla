------------------------- MODULE RegisterView -------------------------
(***************************************************************************)
(* What the collector keeps of the frames handed to it: the registers of   *)
(* read answers and the frame handed over last (collector/collector.py     *)
(* _handle_frame).  A report is a record of function, first register and   *)
(* values.                                                                 *)
(***************************************************************************)
EXTENDS Integers, Sequences

NoRegisters == [r \in {} |-> 0]
Nothing == [function |-> 0, register |-> 0, values |-> << >>]
Blank == [input |-> NoRegisters, hold |-> NoRegisters, last |-> Nothing]

Span(report) == report.register..(report.register + Len(report.values) - 1)
ValueAt(report, r) == report.values[r - report.register + 1]

(* One report: its registers take its values. *)
Overlaid(registers, report) ==
    [r \in Span(report) \cup DOMAIN registers |->
        IF r \in Span(report) THEN ValueAt(report, r) ELSE registers[r]]

(* Many reports: each register has the value of the last one of this       *)
(* function that carries it.                                               *)
Carriers(reports, function, r) ==
    {i \in 1..Len(reports) : reports[i].function = function /\ r \in Span(reports[i])}

Carried(reports, function) ==
    UNION {Span(reports[i]) : i \in {j \in 1..Len(reports) : reports[j].function = function}}

Latest(indices) == CHOOSE i \in indices : \A j \in indices : j <= i

Shown(registers, reports, function) ==
    [r \in Carried(reports, function) \cup DOMAIN registers |->
        IF r \in Carried(reports, function)
        THEN ValueAt(reports[Latest(Carriers(reports, function, r))], r)
        ELSE registers[r]]

After(view, reports) ==
    [input |-> Shown(view.input, reports, 4),
     hold  |-> Shown(view.hold, reports, 3),
     last  |-> IF reports = << >> THEN view.last ELSE reports[Len(reports)]]

=============================================================================
