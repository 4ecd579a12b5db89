----------------------------- MODULE QuickCharge -----------------------------
(***************************************************************************)
(* The quick-charge manager (collector/quick_charge.py) as its two users   *)
(* run it: the API's handler threads, which start and stop a charge, and   *)
(* the collector's writer loop, which stops an expired one.  They live in  *)
(* two processes, each with its own dongle connection, and share the       *)
(* inverter's registers and one row of lux_settings; there is no lock      *)
(* between them.  The API's PUT of a holding register                      *)
(* (api/__init__.py: api_holding_put) joins in on register 233.            *)
(*                                                                         *)
(* Every access to a register and to the settings row is a step of its     *)
(* own.  A deadline is abstracted to whether it has passed (due).          *)
(***************************************************************************)
EXTENDS Integers

CONSTANTS
  Users,        \* handler threads of the API
  Collector,    \* the collector's writer thread
  Requested,    \* minutes a request may ask for
  MinMinutes,   \* QC_MIN_MINUTES (1)
  MaxMinutes,   \* QC_MAX_MINUTES (1440)
  RestBits,     \* values of bits 1-15 of register 233
  Puts,         \* RestBits a PUT of function_enable_5 may ask for
  MaxTries,     \* reads of a verification, writes of a PUT (4)
  Faults,       \* the kinds of fault that may happen
  MaxFaults     \* bound: how many faults happen

FaultKinds == {"echo", "lost", "refused", "read", "abort"}

ASSUME ConstantsAssumption ==
  /\ Collector \notin Users
  /\ Requested \subseteq Int
  /\ MinMinutes \in Nat \ {0} /\ MaxMinutes \in Nat
  /\ MinMinutes <= MaxMinutes
  /\ RestBits # {} /\ Puts \subseteq RestBits
  /\ MaxTries \in Nat \ {0}
  /\ Faults \subseteq FaultKinds
  /\ MaxFaults \in Nat

Procs == Users \cup {Collector}

VARIABLES
  dur,      \* register 234, quick_charge_duration
  en,       \* register 233, function_enable_5: bit 0 and the other bits
  db,       \* the row quick_charge_state of lux_settings
  pc,       \* the next step of each thread
  op,       \* what the thread is doing: "start", "stop", "put" or nothing
  mins,     \* start: the clamped duration
  cur,      \* the value of register 233 the thread has read, or will put
  st,       \* stop: the state it loaded first
  tries     \* reads of the verification, or writes of the PUT, so far

(***************************************************************************)
(* Observation variables: faults left and faults that happened, and        *)
(* whether two operations have ever been under way at the same time.       *)
(***************************************************************************)
VARIABLES budget, hit, overlapped

regs   == <<dur, en>>
locals == <<op, mins, cur, st, tries>>
obs    == <<budget, hit, overlapped>>
vars   == <<regs, db, pc, locals, obs>>

Minutes  == MinMinutes .. MaxMinutes
EnableReg == [on : BOOLEAN, rest : RestBits]
NoReg    == [on |-> FALSE, rest |-> CHOOSE r \in RestBits : TRUE]
State    == [active : BOOLEAN, minutes : Minutes \cup {0}, due : BOOLEAN]
Labels   == {"idle", "duration", "read", "write", "verify", "saveStarted",
             "load", "clear", "saveStopped", "put", "putVerify"}

NoState == [active |-> FALSE, minutes |-> 0, due |-> TRUE]

\* Mutant of Clamp: the upper limit is forgotten.
ClampBelow(m) == IF m < MinMinutes THEN MinMinutes ELSE m

\* start(): minutes = max(QC_MIN_MINUTES, min(QC_MAX_MINUTES, minutes))
Clamp(m) == IF m < MinMinutes THEN MinMinutes
            ELSE IF m > MaxMinutes THEN MaxMinutes ELSE m

-----------------------------------------------------------------------------
(***************************************************************************)
(* Faults, and the end of an operation.                                    *)
(***************************************************************************)
NoFault == UNCHANGED <<budget, hit>>

Fault(kind) ==
  /\ kind \in Faults /\ budget > 0
  /\ budget' = budget - 1
  /\ hit' = hit \cup {kind}

\* _write_holding_register as the caller sees it: the write is forwarded and
\* acknowledged; acknowledged by the dongle but never forwarded; forwarded
\* with its answer lost in every attempt; or neither.
WriteOK(applied) ==
  \/ applied /\ NoFault
  \/ ~applied /\ Fault("echo")

WriteFails(applied) ==
  \/ applied /\ Fault("lost")
  \/ ~applied /\ Fault("refused")

\* The call returns (or raises) and its local variables are gone.
Return(p) ==
  /\ pc' = [pc EXCEPT ![p] = "idle"]
  /\ op' = [op EXCEPT ![p] = "none"]
  /\ mins' = [mins EXCEPT ![p] = 0]
  /\ cur' = [cur EXCEPT ![p] = NoReg]
  /\ st' = [st EXCEPT ![p] = NoState]
  /\ tries' = [tries EXCEPT ![p] = 0]

\* The call goes on at label, with what it has read (or will put) and how
\* often it has tried.
Goto(p, label, value, count) ==
  /\ pc' = [pc EXCEPT ![p] = label]
  /\ cur' = [cur EXCEPT ![p] = value]
  /\ tries' = [tries EXCEPT ![p] = count]
  /\ UNCHANGED <<op, mins, st>>

\* A call begins.
Enter(p, what, label) ==
  /\ pc[p] = "idle"
  /\ pc' = [pc EXCEPT ![p] = label]
  /\ op' = [op EXCEPT ![p] = what]
  /\ overlapped' = (overlapped \/ \E q \in Procs \ {p} : pc[q] # "idle")
  /\ UNCHANGED <<regs, db, st, tries, budget, hit>>

\* An exception that no handler on the way catches (a refused connection, a
\* failed database statement of _log or _save_state) or the end of the
\* process: the operation stops where it is.
Abort(p) ==
  /\ pc[p] # "idle"
  /\ Fault("abort")
  /\ Return(p)
  /\ UNCHANGED <<regs, db, overlapped>>

-----------------------------------------------------------------------------
(***************************************************************************)
(* start()                                                                 *)
(***************************************************************************)
\* Mutant of Start: the bit is set before the duration is written.
StartWithBit(p, m) ==
  /\ Enter(p, "start", "read")
  /\ mins' = [mins EXCEPT ![p] = Clamp(m)]
  /\ UNCHANGED cur

Start(p, m) ==
  /\ Enter(p, "start", "duration")
  /\ mins' = [mins EXCEPT ![p] = Clamp(m)]
  /\ UNCHANGED cur

\* 1) Write the duration.  The acknowledgement is believed.
WriteDuration(p) ==
  /\ pc[p] = "duration"
  /\ \E applied \in BOOLEAN :
       /\ dur' = IF applied THEN mins[p] ELSE dur
       /\ \/ WriteOK(applied) /\ Goto(p, "read", cur[p], 0)
          \/ WriteFails(applied) /\ Return(p)
  /\ UNCHANGED <<en, db, overlapped>>

(***************************************************************************)
(* _set_enable_bit(): read register 233, write it back with bit 0 changed, *)
(* and read until the value written is seen.                               *)
(***************************************************************************)
ReadEnable(p) ==
  /\ pc[p] = "read"
  /\ \/ NoFault /\ Goto(p, "write", en, 0)
     \/ Fault("read") /\ Return(p)
  /\ UNCHANGED <<regs, db, overlapped>>

\* Mutant of WithBit: the register is written without what was read.
OnlyBit(p) == [NoReg EXCEPT !.on = (op[p] = "start")]

WithBit(p) == [cur[p] EXCEPT !.on = (op[p] = "start")]

WriteEnable(p) ==
  /\ pc[p] = "write"
  /\ \E applied \in BOOLEAN :
       /\ en' = IF applied THEN WithBit(p) ELSE en
       /\ \/ WriteOK(applied) /\ Goto(p, "verify", cur[p], 0)
          \/ WriteFails(applied) /\ Return(p)
  /\ UNCHANGED <<dur, db, overlapped>>

\* One more unsuccessful round of a loop of at most MaxTries rounds.
Again(p, label) ==
  IF tries[p] + 1 < MaxTries
  THEN Goto(p, label, cur[p], tries[p] + 1) ELSE Return(p)

\* Mutant of AfterVerify: stop() forgets the duration register.
AfterVerifyKeepDuration(p) ==
  IF op[p] = "start" THEN "saveStarted" ELSE "saveStopped"

AfterVerify(p) == IF op[p] = "start" THEN "saveStarted" ELSE "clear"

\* One read of the verification: the value written is seen, or another one
\* is, or the read fails.
VerifyEnable(p) ==
  /\ pc[p] = "verify"
  /\ \/ en = WithBit(p) /\ NoFault /\ Goto(p, AfterVerify(p), cur[p], 0)
     \/ en # WithBit(p) /\ NoFault /\ Again(p, "verify")
     \/ Fault("read") /\ Again(p, "verify")
  /\ UNCHANGED <<regs, db, overlapped>>

SaveStarted(p) ==
  /\ pc[p] = "saveStarted"
  /\ db' = [active |-> TRUE, minutes |-> mins[p], due |-> FALSE]
  /\ Return(p)
  /\ UNCHANGED <<regs, obs>>

-----------------------------------------------------------------------------
(***************************************************************************)
(* stop() and tick()                                                       *)
(***************************************************************************)
Stop(p) ==
  /\ Enter(p, "stop", "load")
  /\ UNCHANGED <<mins, cur>>

\* tick() loads the state; an inactive charge, or one before its deadline,
\* ends it there.  Otherwise it calls stop(), which loads the state again.
TickDue == db.active /\ db.due

Tick == TickDue /\ Stop(Collector)

LoadState(p) ==
  /\ pc[p] = "load"
  /\ st' = [st EXCEPT ![p] = db]
  /\ pc' = [pc EXCEPT ![p] = "read"]
  /\ UNCHANGED <<regs, db, op, mins, cur, tries, obs>>

\* 2) Clear the duration.  Again the acknowledgement is believed.
ClearDuration(p) ==
  /\ pc[p] = "clear"
  /\ \E applied \in BOOLEAN :
       /\ dur' = IF applied THEN 0 ELSE dur
       /\ \/ WriteOK(applied) /\ Goto(p, "saveStopped", cur[p], 0)
          \/ WriteFails(applied) /\ Return(p)
  /\ UNCHANGED <<en, db, overlapped>>

\* Mutant of SaveStopped: the state is not marked inactive.
SaveStoppedActive(p) ==
  /\ pc[p] = "saveStopped"
  /\ db' = st[p]
  /\ Return(p)
  /\ UNCHANGED <<regs, obs>>

SaveStopped(p) ==
  /\ pc[p] = "saveStopped"
  /\ db' = [st[p] EXCEPT !.active = FALSE]
  /\ Return(p)
  /\ UNCHANGED <<regs, obs>>

-----------------------------------------------------------------------------
(***************************************************************************)
(* api_holding_put() of function_enable_5: the client changes other bits   *)
(* of the value it was shown.  Up to MaxTries writes, then a verification. *)
(***************************************************************************)
Put(p, rest) ==
  /\ Enter(p, "put", "put")
  /\ cur' = [cur EXCEPT ![p] = [on |-> en.on, rest |-> rest]]
  /\ UNCHANGED mins

PutWrite(p) ==
  /\ pc[p] = "put"
  /\ \E applied \in BOOLEAN :
       /\ en' = IF applied THEN cur[p] ELSE en
       /\ \/ WriteOK(applied) /\ Goto(p, "putVerify", cur[p], 0)
          \/ WriteFails(applied) /\ Again(p, "put")
  /\ UNCHANGED <<dur, db, overlapped>>

PutVerify(p) ==
  /\ pc[p] = "putVerify"
  /\ \/ en = cur[p] /\ NoFault /\ Return(p)
     \/ en # cur[p] /\ NoFault /\ Again(p, "putVerify")
     \/ Fault("read") /\ Again(p, "putVerify")
  /\ UNCHANGED <<regs, db, overlapped>>

-----------------------------------------------------------------------------
\* Time passes the deadline of the stored charge.
Expire ==
  /\ db.active /\ ~db.due
  /\ db' = [db EXCEPT !.due = TRUE]
  /\ UNCHANGED <<regs, pc, locals, obs>>

Step(p) ==
  \/ WriteDuration(p) \/ ReadEnable(p) \/ WriteEnable(p) \/ VerifyEnable(p)
  \/ SaveStarted(p) \/ LoadState(p) \/ ClearDuration(p) \/ SaveStopped(p)
  \/ PutWrite(p) \/ PutVerify(p)

Call(p) ==
  \/ \E m \in Requested : Start(p, m)
  \/ Stop(p)
  \/ \E rest \in Puts : Put(p, rest)

Next ==
  \/ \E p \in Users : Call(p)
  \/ Tick
  \/ \E p \in Procs : Step(p) \/ Abort(p)
  \/ Expire

Init ==
  /\ dur = 0
  /\ en \in {[on |-> FALSE, rest |-> r] : r \in RestBits}
  /\ db = NoState
  /\ pc = [p \in Procs |-> "idle"]
  /\ op = [p \in Procs |-> "none"]
  /\ mins = [p \in Procs |-> 0]
  /\ cur = [p \in Procs |-> NoReg]
  /\ st = [p \in Procs |-> NoState]
  /\ tries = [p \in Procs |-> 0]
  /\ budget = MaxFaults /\ hit = {} /\ overlapped = FALSE

Spec == Init /\ [][Next]_vars

(***************************************************************************)
(* The writer loop calls tick() in every round and every operation that    *)
(* has begun goes on, because each register access returns within its      *)
(* timeouts.  Users need not do anything.                                  *)
(***************************************************************************)
FairSpec ==
  /\ Spec
  /\ WF_vars(Tick)
  /\ \A p \in Procs : WF_vars(Step(p))

-----------------------------------------------------------------------------
TypeOK ==
  /\ dur \in Minutes \cup {0}
  /\ en \in EnableReg
  /\ db \in State
  /\ pc \in [Procs -> Labels]
  /\ op \in [Procs -> {"none", "start", "stop", "put"}]
  /\ mins \in [Procs -> Minutes \cup {0}]
  /\ cur \in [Procs -> EnableReg]
  /\ st \in [Procs -> State]
  /\ tries \in [Procs -> 0 .. MaxTries]
  /\ budget \in 0 .. MaxFaults
  /\ hit \in SUBSET FaultKinds
  /\ overlapped \in BOOLEAN

AllIdle == \A p \in Procs : pc[p] = "idle"

\* While the dongle behaves and operations do not overlap, the stored state
\* is the truth about the inverter between operations: a charge is recorded
\* as active, with its duration, exactly when bit 0 is set and the duration
\* register holds it; otherwise both registers are clear.
Match ==
  IF db.active THEN en.on /\ dur = db.minutes ELSE ~en.on /\ dur = 0

StateMatchesInverter == AllIdle /\ hit = {} /\ ~overlapped => Match

\* Bit 0 is set only over a positive duration, through lost answers, failed
\* reads and aborted operations alike, as long as the dongle forwards what
\* it acknowledges and operations do not overlap.
EnableNeedsDuration ==
  [][~en.on /\ en'.on /\ ~overlapped /\ "echo" \notin hit => dur > 0]_vars

\* The read-modify-write of bit 0 keeps the other bits of register 233, as
\* long as no other operation runs at the same time.
OtherBitsKept ==
  [][\A p \in Procs : WriteEnable(p) /\ ~overlapped
       => en'.rest = en.rest]_vars

(***************************************************************************)
(* The inductive invariant behind these three: what a thread may rely on   *)
(* at each of its steps while it is alone.                                 *)
(***************************************************************************)

\* Which operation a step belongs to.
OpInv ==
  \A p \in Procs :
    /\ pc[p] \in {"duration", "saveStarted"} => op[p] = "start"
    /\ pc[p] \in {"load", "clear", "saveStopped"} => op[p] = "stop"
    /\ pc[p] \in {"read", "write", "verify"} => op[p] \in {"start", "stop"}
    /\ op[p] = "start" => mins[p] \in Minutes

\* Without an overlap at most one operation is under way.
AloneInv ==
  ~overlapped =>
    \A p, q \in Procs : pc[p] # "idle" /\ pc[q] # "idle" => p = q

\* What was read from register 233 is still there.
ReadInv ==
  ~overlapped =>
    \A p \in Procs :
      /\ pc[p] = "write" => cur[p] = en
      /\ pc[p] \in {"put", "putVerify"} => cur[p].on = en.on

\* The duration was written before the bit.
DurationInv ==
  ~overlapped /\ "echo" \notin hit =>
    \A p \in Procs :
      op[p] = "start" /\ pc[p] \in {"read", "write", "verify", "saveStarted"}
        => dur = mins[p]

\* How far an operation has taken the inverter from the stored state.
MatchInv ==
  ~overlapped /\ hit = {} =>
    /\ AllIdle => Match
    /\ \A p \in Procs :
         /\ pc[p] \in {"duration", "load", "put", "putVerify"} => Match
         /\ pc[p] \in {"read", "write"} /\ op[p] = "stop" => Match
         /\ pc[p] = "verify" => en = WithBit(p)
         /\ pc[p] = "saveStarted" => en.on
         /\ pc[p] = "clear" => ~en.on
         /\ pc[p] = "saveStopped" => ~en.on /\ dur = 0

QuickChargeInv ==
  TypeOK /\ OpInv /\ AloneInv /\ ReadInv /\ DurationInv /\ MatchInv

\* An expired charge does not stay recorded as active: tick() comes back to
\* it after every failure until stop() succeeds or a new charge replaces it,
\* once the users leave it alone.
ExpiredIsStopped ==
  <>[](\A u \in Users : pc[u] = "idle") => (TickDue ~> ~TickDue)

(***************************************************************************)
(* What the documentation says and the code does not do.                   *)
(***************************************************************************)

\* quick_charge.py:33: "A positive duration is REQUIRED before enabling --
\* never enable with 0."
NeverEnableWithZero ==
  [][\A p \in Procs : WriteEnable(p) /\ en'.on => dur > 0]_vars

\* quick_charge.py:349-351: tick() stops a quick charge that "is past its
\* deadline".
TickStopsOnlyExpired ==
  [][ClearDuration(Collector) /\ db.active => db.due]_vars
=============================================================================
