------------------------- MODULE FrameDelivery -------------------------
(***************************************************************************)
(* What a listening transport promises the collector: the packets put on   *)
(* one connection take effect in order, each batch as a whole and nothing  *)
(* else, and what is not delivered goes only with its connection.          *)
(* A packet is a record of its function, first register and values.        *)
(***************************************************************************)
EXTENDS RegisterView

CONSTANT Packets

VARIABLES link,     \* whether there is a connection
          queue,    \* packets sent whose last byte the transport has not read
          latest    \* the collector's view: input and hold registers, last frame

vars == <<link, queue, latest>>

(* What a reader can know of a packet: of a multiple write only how many   *)
(* values it carries, of an error not the register.                        *)
Visible(p) ==
    [function |-> p.function,
     register |-> IF p.function >= 128 THEN 0 ELSE p.register,
     values   |-> IF p.function = 16 THEN <<Len(p.values)>> ELSE p.values]

Init ==
    /\ link \in BOOLEAN
    /\ queue \in Seq(Packets) /\ (~link => queue = << >>)
    /\ latest = Blank

Send(p) ==
    /\ link
    /\ queue' = Append(queue, p)
    /\ UNCHANGED <<link, latest>>

Deliver(k) ==
    /\ latest' = After(latest, [i \in 1..k |-> Visible(queue[i])])
    /\ queue' = SubSeq(queue, k + 1, Len(queue))
    /\ UNCHANGED link

Open ==
    /\ ~link
    /\ link' = TRUE
    /\ UNCHANGED <<queue, latest>>

(* Only the end of the connection loses packets, and all of them. *)
Lose ==
    /\ link' = FALSE
    /\ queue' = << >>
    /\ UNCHANGED latest

Hand == \E k \in 1..Len(queue) : Deliver(k)

Next == Open \/ Hand \/ Lose \/ \E p \in Packets : Send(p)

Spec == Init /\ [][Next]_vars

(* What was sent does not wait for ever: it is delivered, or goes with its *)
(* connection.                                                             *)
Drained == []<>(queue = << >>)

=============================================================================
