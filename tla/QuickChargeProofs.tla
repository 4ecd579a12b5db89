-------------------------- MODULE QuickChargeProofs --------------------------
(***************************************************************************)
(* Machine-checked safety of QuickCharge, for any number of API threads,   *)
(* any range of durations and any faults.                                  *)
(***************************************************************************)
EXTENDS QuickCharge, TLAPS

LEMMA ConstantFacts ==
  /\ Minutes \subseteq Nat \ {0}
  /\ NoReg \in EnableReg
  /\ NoState \in State
  /\ \A m \in Requested : Clamp(m) \in Minutes
<1>1. Minutes \subseteq Nat \ {0}
  BY ConstantsAssumption DEF Minutes
<1>2. NoReg \in EnableReg
  BY ConstantsAssumption DEF NoReg, EnableReg
<1>3. NoState \in State
  BY DEF NoState, State
<1>4. \A m \in Requested : Clamp(m) \in Minutes
  BY ConstantsAssumption DEF Clamp, Minutes
<1>5. QED
  BY <1>1, <1>2, <1>3, <1>4

-----------------------------------------------------------------------------
(***************************************************************************)
(* Type correctness.                                                       *)
(***************************************************************************)

LEMMA InitType == Init => TypeOK
<1> SUFFICES ASSUME Init PROVE TypeOK
  OBVIOUS
<1>1. en \in EnableReg
  <2>1. PICK r \in RestBits : en = [on |-> FALSE, rest |-> r]
    BY DEF Init
  <2>2. QED
    BY <2>1 DEF EnableReg
<1>2. /\ cur \in [Procs -> EnableReg] /\ st \in [Procs -> State]
      /\ db \in State
  BY ConstantFacts DEF Init
<1>3. /\ pc \in [Procs -> Labels] /\ mins \in [Procs -> Minutes \cup {0}]
      /\ op \in [Procs -> {"none", "start", "stop", "put"}]
  BY DEF Init, Labels
<1>4. tries \in [Procs -> 0 .. MaxTries] /\ budget \in 0 .. MaxFaults
  BY ConstantsAssumption DEF Init
<1>5. QED
  BY <1>1, <1>2, <1>3, <1>4 DEF Init, TypeOK

LEMMA ReturnType ==
  ASSUME TypeOK, NEW p \in Procs, Return(p)
  PROVE  /\ pc' \in [Procs -> Labels]
         /\ op' \in [Procs -> {"none", "start", "stop", "put"}]
         /\ mins' \in [Procs -> Minutes \cup {0}]
         /\ cur' \in [Procs -> EnableReg]
         /\ st' \in [Procs -> State]
         /\ tries' \in [Procs -> 0 .. MaxTries]
<1>1. 0 \in 0 .. MaxTries /\ "idle" \in Labels
  BY ConstantsAssumption DEF Labels
<1>2. QED
  BY <1>1, ConstantFacts DEF Return, TypeOK

LEMMA GotoType ==
  ASSUME TypeOK, NEW p \in Procs, NEW label \in Labels,
         NEW value \in EnableReg, NEW count \in 0 .. MaxTries,
         Goto(p, label, value, count)
  PROVE  /\ pc' \in [Procs -> Labels]
         /\ op' \in [Procs -> {"none", "start", "stop", "put"}]
         /\ mins' \in [Procs -> Minutes \cup {0}]
         /\ cur' \in [Procs -> EnableReg]
         /\ st' \in [Procs -> State]
         /\ tries' \in [Procs -> 0 .. MaxTries]
  BY DEF Goto, TypeOK

\* Every way a step of an operation may leave the thread's variables, and
\* the types they have afterwards.
Moves(p) ==
  \/ Return(p)
  \/ \E label \in Labels, value \in EnableReg, count \in 0 .. MaxTries :
       Goto(p, label, value, count)

LEMMA MovesType ==
  ASSUME TypeOK, NEW p \in Procs, Moves(p)
  PROVE  /\ pc' \in [Procs -> Labels]
         /\ op' \in [Procs -> {"none", "start", "stop", "put"}]
         /\ mins' \in [Procs -> Minutes \cup {0}]
         /\ cur' \in [Procs -> EnableReg]
         /\ st' \in [Procs -> State]
         /\ tries' \in [Procs -> 0 .. MaxTries]
<1>1. CASE Return(p)
  BY <1>1, ReturnType
<1>2. ASSUME NEW label \in Labels, NEW value \in EnableReg,
             NEW count \in 0 .. MaxTries, Goto(p, label, value, count)
      PROVE  /\ pc' \in [Procs -> Labels]
             /\ op' \in [Procs -> {"none", "start", "stop", "put"}]
             /\ mins' \in [Procs -> Minutes \cup {0}]
             /\ cur' \in [Procs -> EnableReg]
             /\ st' \in [Procs -> State]
             /\ tries' \in [Procs -> 0 .. MaxTries]
  BY <1>2, GotoType
<1>3. QED
  BY <1>1, <1>2 DEF Moves

LEMMA FaultType ==
  ASSUME TypeOK,
         NoFault \/ \E kind : Fault(kind)
  PROVE  budget' \in 0 .. MaxFaults /\ hit' \in SUBSET FaultKinds
  BY ConstantsAssumption DEF NoFault, Fault, TypeOK

LEMMA StepMoves ==
  ASSUME TypeOK, NEW p \in Procs,
         \/ WriteDuration(p) \/ ReadEnable(p) \/ WriteEnable(p)
         \/ VerifyEnable(p) \/ ClearDuration(p) \/ PutWrite(p) \/ PutVerify(p)
         \/ SaveStarted(p) \/ SaveStopped(p) \/ Abort(p)
  PROVE  /\ Moves(p)
         /\ (NoFault \/ \E kind : Fault(kind))
         /\ overlapped' = overlapped
<1>0. /\ cur[p] \in EnableReg /\ en \in EnableReg
      /\ 0 \in 0 .. MaxTries
      /\ tries[p] + 1 < MaxTries => tries[p] + 1 \in 0 .. MaxTries
      /\ AfterVerify(p) \in Labels
      /\ {"read", "write", "verify", "saveStopped", "putVerify", "put"}
           \subseteq Labels
  BY ConstantsAssumption DEF TypeOK, Labels, AfterVerify
<1>1. ASSUME NEW label \in Labels, Again(p, label) PROVE Moves(p)
  BY <1>0, <1>1 DEF Again, Moves
<1>2. CASE WriteDuration(p)
  BY <1>0, <1>2 DEF WriteDuration, Moves, WriteOK, WriteFails
<1>3. CASE ReadEnable(p)
  BY <1>0, <1>3 DEF ReadEnable, Moves
<1>4. CASE WriteEnable(p)
  BY <1>0, <1>4 DEF WriteEnable, Moves, WriteOK, WriteFails
<1>5. CASE VerifyEnable(p)
  <2>1. Moves(p)
    BY <1>0, <1>1, <1>5 DEF VerifyEnable, Moves
  <2>2. QED
    BY <1>5, <2>1 DEF VerifyEnable
<1>6. CASE ClearDuration(p)
  BY <1>0, <1>6 DEF ClearDuration, Moves, WriteOK, WriteFails
<1>7. CASE PutWrite(p)
  <2>1. Moves(p)
    BY <1>0, <1>1, <1>7 DEF PutWrite, Moves
  <2>2. QED
    BY <1>7, <2>1 DEF PutWrite, WriteOK, WriteFails
<1>8. CASE PutVerify(p)
  <2>1. Moves(p)
    BY <1>0, <1>1, <1>8 DEF PutVerify, Moves
  <2>2. QED
    BY <1>8, <2>1 DEF PutVerify
<1>9. CASE SaveStarted(p) \/ SaveStopped(p)
  BY <1>9 DEF SaveStarted, SaveStopped, Moves, NoFault, obs
<1>10. CASE Abort(p)
  BY <1>10 DEF Abort, Moves
<1>11. QED
  BY <1>2, <1>3, <1>4, <1>5, <1>6, <1>7, <1>8, <1>9, <1>10

LEMMA RegisterType ==
  ASSUME TypeOK, NEW p \in Procs, Step(p) \/ Abort(p), OpInv
  PROVE  dur' \in Minutes \cup {0} /\ en' \in EnableReg /\ db' \in State
<1>1. WithBit(p) \in EnableReg
  BY DEF WithBit, TypeOK, EnableReg
<1>2. CASE WriteDuration(p)
  BY <1>2 DEF WriteDuration, TypeOK
<1>3. CASE WriteEnable(p)
  BY <1>1, <1>3 DEF WriteEnable, TypeOK
<1>4. CASE ClearDuration(p)
  BY <1>4 DEF ClearDuration, TypeOK
<1>5. CASE PutWrite(p)
  BY <1>5 DEF PutWrite, TypeOK
<1>6. CASE SaveStarted(p)
  BY <1>6 DEF SaveStarted, TypeOK, State, regs
<1>7. CASE SaveStopped(p)
  BY <1>7 DEF SaveStopped, TypeOK, State, regs
<1>8. CASE ReadEnable(p) \/ VerifyEnable(p) \/ LoadState(p) \/ PutVerify(p)
           \/ Abort(p)
  BY <1>8 DEF ReadEnable, VerifyEnable, LoadState, PutVerify, Abort, TypeOK,
       regs
<1>9. QED
  BY <1>2, <1>3, <1>4, <1>5, <1>6, <1>7, <1>8 DEF Step

LEMMA NextType == TypeOK /\ OpInv /\ [Next]_vars => TypeOK'
<1> SUFFICES ASSUME TypeOK, OpInv, [Next]_vars PROVE TypeOK'
  OBVIOUS
<1>1. ASSUME NEW p \in Procs, Step(p) \/ Abort(p) PROVE TypeOK'
  <2>1. CASE LoadState(p)
    <3>1. pc' \in [Procs -> Labels] /\ st' \in [Procs -> State]
      BY <2>1 DEF LoadState, TypeOK, Labels
    <3>2. QED
      BY <2>1, <3>1 DEF LoadState, TypeOK, regs, obs
  <2>2. CASE ~LoadState(p)
    <3>1. /\ Moves(p) /\ (NoFault \/ \E kind : Fault(kind))
          /\ overlapped' = overlapped
      BY <1>1, <2>2, StepMoves DEF Step
    <3>2. budget' \in 0 .. MaxFaults /\ hit' \in SUBSET FaultKinds
      BY <3>1, FaultType
    <3>3. /\ pc' \in [Procs -> Labels]
          /\ op' \in [Procs -> {"none", "start", "stop", "put"}]
          /\ mins' \in [Procs -> Minutes \cup {0}]
          /\ cur' \in [Procs -> EnableReg]
          /\ st' \in [Procs -> State]
          /\ tries' \in [Procs -> 0 .. MaxTries]
      BY <3>1, MovesType
    <3>4. QED
      BY <1>1, <3>1, <3>2, <3>3, RegisterType DEF TypeOK
  <2>3. QED
    BY <2>1, <2>2
<1>2. ASSUME NEW p \in Procs, NEW what \in {"start", "stop", "put"},
             NEW label \in Labels, Enter(p, what, label),
             mins' \in [Procs -> Minutes \cup {0}],
             cur' \in [Procs -> EnableReg]
      PROVE  TypeOK'
  BY <1>2 DEF Enter, TypeOK, regs
<1>3. ASSUME NEW p \in Procs, NEW m \in Requested, Start(p, m) PROVE TypeOK'
  <2>1. mins' \in [Procs -> Minutes \cup {0}] /\ cur' \in [Procs -> EnableReg]
    BY <1>3, ConstantFacts DEF Start, TypeOK
  <2>2. QED
    BY <1>2, <1>3, <2>1 DEF Start, Labels
<1>4. ASSUME NEW p \in Procs, Stop(p) PROVE TypeOK'
  BY <1>2, <1>4 DEF Stop, Labels, TypeOK
<1>5. ASSUME NEW p \in Procs, NEW rest \in Puts, Put(p, rest) PROVE TypeOK'
  <2>1. [on |-> en.on, rest |-> rest] \in EnableReg
    BY ConstantsAssumption DEF TypeOK, EnableReg
  <2>2. mins' \in [Procs -> Minutes \cup {0}] /\ cur' \in [Procs -> EnableReg]
    BY <1>5, <2>1 DEF Put, TypeOK
  <2>3. QED
    BY <1>2, <1>5, <2>2 DEF Put, Labels
<1>6. CASE Expire
  BY <1>6 DEF Expire, TypeOK, State, regs, locals, obs
<1>7. CASE UNCHANGED vars
  BY <1>7 DEF vars, regs, locals, obs, TypeOK
<1>8. QED
  BY <1>1, <1>3, <1>4, <1>5, <1>6, <1>7 DEF Next, Call, Tick, Procs

-----------------------------------------------------------------------------
(***************************************************************************)
(* The other threads do not move in a step of p.                           *)
(***************************************************************************)

LEMMA OthersStay ==
  ASSUME TypeOK, NEW p \in Procs, Moves(p), NEW q \in Procs, q # p
  PROVE  /\ pc'[q] = pc[q] /\ op'[q] = op[q] /\ mins'[q] = mins[q]
         /\ cur'[q] = cur[q]
  BY DEF Moves, Return, Goto, TypeOK

LEMMA NextOp == TypeOK /\ OpInv /\ [Next]_vars => OpInv'
<1> SUFFICES ASSUME TypeOK, OpInv, [Next]_vars PROVE OpInv'
  OBVIOUS
<1> USE DEF OpInv
<1>1. ASSUME NEW p \in Procs, Return(p) PROVE OpInv'
  BY <1>1 DEF Return, TypeOK
<1>2. ASSUME NEW p \in Procs, NEW label, NEW value, NEW count,
             Goto(p, label, value, count),
             label \in {"duration", "saveStarted"} => op[p] = "start",
             label \in {"load", "clear", "saveStopped"} => op[p] = "stop",
             label \in {"read", "write", "verify"}
               => op[p] \in {"start", "stop"}
      PROVE  OpInv'
  BY <1>2 DEF Goto, TypeOK
<1>3. ASSUME NEW p \in Procs, Step(p) \/ Abort(p) PROVE OpInv'
  <2>1. CASE WriteDuration(p)
    BY <1>1, <1>2, <2>1 DEF WriteDuration
  <2>2. CASE ReadEnable(p)
    BY <1>1, <1>2, <2>2 DEF ReadEnable
  <2>3. CASE WriteEnable(p)
    BY <1>1, <1>2, <2>3 DEF WriteEnable
  <2>4. CASE VerifyEnable(p)
    <3>1. ASSUME Again(p, "verify") PROVE OpInv'
      BY <1>1, <1>2, <2>4, <3>1 DEF Again, VerifyEnable
    <3>2. ASSUME Goto(p, AfterVerify(p), cur[p], 0) PROVE OpInv'
      BY <1>2, <2>4, <3>2 DEF AfterVerify, VerifyEnable
    <3>3. QED
      BY <2>4, <3>1, <3>2 DEF VerifyEnable
  <2>5. CASE LoadState(p)
    BY <2>5 DEF LoadState, TypeOK
  <2>6. CASE ClearDuration(p)
    BY <1>1, <1>2, <2>6 DEF ClearDuration
  <2>7. CASE PutWrite(p) \/ PutVerify(p)
    BY <1>1, <1>2, <2>7 DEF PutWrite, PutVerify, Again
  <2>8. CASE SaveStarted(p) \/ SaveStopped(p) \/ Abort(p)
    BY <1>1, <2>8 DEF SaveStarted, SaveStopped, Abort
  <2>9. QED
    BY <1>3, <2>1, <2>2, <2>3, <2>4, <2>5, <2>6, <2>7, <2>8 DEF Step
<1>4. ASSUME NEW p \in Procs, NEW m \in Requested, Start(p, m) PROVE OpInv'
  BY <1>4, ConstantFacts DEF Start, Enter, TypeOK
<1>5. ASSUME NEW p \in Procs, Stop(p) PROVE OpInv'
  BY <1>5 DEF Stop, Enter, TypeOK
<1>6. ASSUME NEW p \in Procs, NEW rest \in Puts, Put(p, rest) PROVE OpInv'
  BY <1>6 DEF Put, Enter, TypeOK
<1>7. CASE UNCHANGED <<pc, op, mins>>
  BY <1>7
<1>8. QED
  BY <1>3, <1>4, <1>5, <1>6, <1>7
     DEF Next, Call, Tick, Procs, Expire, vars, locals

LEMMA NextAlone == TypeOK /\ AloneInv /\ [Next]_vars => AloneInv'
<1> SUFFICES ASSUME TypeOK, AloneInv, [Next]_vars PROVE AloneInv'
  OBVIOUS
<1> USE DEF AloneInv
<1>1. ASSUME NEW p \in Procs, Step(p) \/ Abort(p) PROVE AloneInv'
  <2>1. pc[p] # "idle"
    BY <1>1 DEF Step, WriteDuration, ReadEnable, WriteEnable, VerifyEnable,
         LoadState, ClearDuration, PutWrite, PutVerify, SaveStarted,
         SaveStopped, Abort
  <2>2. /\ overlapped' = overlapped
        /\ \A q \in Procs \ {p} : pc'[q] = pc[q]
    <3>1. CASE LoadState(p)
      BY <3>1 DEF LoadState, TypeOK, obs
    <3>2. CASE ~LoadState(p)
      BY <1>1, <3>2, StepMoves, OthersStay DEF Step
    <3>3. QED
      BY <3>1, <3>2
  <2>3. QED
    BY <2>1, <2>2
<1>2. ASSUME NEW p \in Procs, NEW what, NEW label, Enter(p, what, label)
      PROVE  AloneInv'
  BY <1>2 DEF Enter, TypeOK
<1>3. CASE UNCHANGED <<pc, overlapped>>
  BY <1>3
<1>4. QED
  BY <1>1, <1>2, <1>3
     DEF Next, Call, Tick, Start, Stop, Put, Procs, Expire, vars, obs

\* Type correctness and what each step belongs to, in every behaviour.
THEOREM TypeCorrect == Spec => [](TypeOK /\ OpInv)
<1>1. Init => TypeOK /\ OpInv
  BY InitType DEF Init, OpInv
<1>2. QED
  BY <1>1, NextType, NextOp, PTL DEF Spec

-----------------------------------------------------------------------------
(***************************************************************************)
(* Without an overlap, the thread that takes a step is the only one that   *)
(* is not idle, before and after.                                          *)
(***************************************************************************)

LEMMA StepAlone ==
  ASSUME TypeOK, AloneInv, NEW p \in Procs, Step(p) \/ Abort(p)
  PROVE  /\ overlapped' = overlapped
         /\ pc[p] # "idle"
         /\ ~overlapped => \A q \in Procs : q # p =>
                             pc[q] = "idle" /\ pc'[q] = "idle"
<1>1. pc[p] # "idle"
  BY DEF Step, WriteDuration, ReadEnable, WriteEnable, VerifyEnable,
       LoadState, ClearDuration, PutWrite, PutVerify, SaveStarted,
       SaveStopped, Abort
<1>2. /\ overlapped' = overlapped
      /\ \A q \in Procs \ {p} : pc'[q] = pc[q]
  <2>1. CASE LoadState(p)
    BY <2>1 DEF LoadState, TypeOK, obs
  <2>2. CASE ~LoadState(p)
    BY <2>2, StepMoves, OthersStay DEF Step
  <2>3. QED
    BY <2>1, <2>2
<1>3. QED
  BY <1>1, <1>2 DEF AloneInv

LEMMA EnterAlone ==
  ASSUME TypeOK, NEW p \in Procs, NEW what, NEW label, Enter(p, what, label)
  PROVE  /\ pc'[p] = label /\ op'[p] = what
         /\ ~overlapped' => /\ ~overlapped /\ AllIdle
                            /\ \A q \in Procs : q # p => pc'[q] = "idle"
         /\ UNCHANGED <<dur, en, db, budget, hit>>
<1>1. pc'[p] = label /\ op'[p] = what
  BY DEF Enter, TypeOK
<1>2. ASSUME ~overlapped'
      PROVE  /\ ~overlapped /\ AllIdle
             /\ \A q \in Procs : q # p => pc'[q] = "idle"
  BY <1>2 DEF Enter, TypeOK, AllIdle
<1>3. UNCHANGED <<dur, en, db, budget, hit>>
  BY DEF Enter, regs
<1>4. QED
  BY <1>1, <1>2, <1>3

LEMMA NextRead ==
  TypeOK /\ AloneInv /\ ReadInv /\ [Next]_vars => ReadInv'
<1> SUFFICES ASSUME TypeOK, AloneInv, ReadInv, [Next]_vars, ~overlapped'
             PROVE  ReadInv'
  BY DEF ReadInv
<1> DEFINE R(p) == /\ pc[p] = "write" => cur[p] = en
                   /\ pc[p] \in {"put", "putVerify"} => cur[p].on = en.on
<1>1. ASSUME NEW p \in Procs, Step(p) \/ Abort(p) PROVE ReadInv'
  <2>1. /\ ~overlapped
        /\ \A q \in Procs : q # p => pc'[q] = "idle"
    BY <1>1, StepAlone
  <2>2. R(p)
    BY <2>1 DEF ReadInv
  <2>3. ASSUME Return(p) PROVE R(p)'
    BY <2>3 DEF Return, TypeOK
  <2>4. R(p)'
    <3>1. CASE WriteDuration(p)
      BY <2>3, <3>1 DEF WriteDuration, Goto, TypeOK
    <3>2. CASE ReadEnable(p)
      BY <2>3, <3>2 DEF ReadEnable, Goto, TypeOK, regs
    <3>3. CASE WriteEnable(p)
      BY <2>3, <3>3 DEF WriteEnable, Goto, TypeOK
    <3>4. CASE VerifyEnable(p)
      BY <2>3, <3>4 DEF VerifyEnable, Again, AfterVerify, Goto, TypeOK
    <3>5. CASE LoadState(p)
      BY <3>5 DEF LoadState, TypeOK
    <3>6. CASE ClearDuration(p)
      BY <2>3, <3>6 DEF ClearDuration, Goto, TypeOK
    <3>7. CASE PutWrite(p)
      <4>1. ASSUME NEW label, NEW count, Goto(p, label, cur[p], count),
                   label \in {"put", "putVerify"}
            PROVE  R(p)'
        <5>1. en'.on = en.on
          BY <2>2, <3>7 DEF PutWrite
        <5>2. cur'[p] = cur[p] /\ pc'[p] = label
          BY <4>1 DEF Goto, TypeOK
        <5>3. QED
          BY <2>2, <3>7, <4>1, <5>1, <5>2 DEF PutWrite
      <4>2. QED
        BY <2>3, <3>7, <4>1 DEF PutWrite, Again
    <3>8. CASE PutVerify(p)
      <4>1. ASSUME Goto(p, "putVerify", cur[p], tries[p] + 1) PROVE R(p)'
        BY <2>2, <3>8, <4>1 DEF PutVerify, Goto, TypeOK, regs
      <4>2. QED
        BY <2>3, <3>8, <4>1 DEF PutVerify, Again
    <3>9. CASE SaveStarted(p) \/ SaveStopped(p) \/ Abort(p)
      BY <2>3, <3>9 DEF SaveStarted, SaveStopped, Abort
    <3>10. QED
      BY <1>1, <3>1, <3>2, <3>3, <3>4, <3>5, <3>6, <3>7, <3>8, <3>9 DEF Step
  <2>5. QED
    BY <2>1, <2>4 DEF ReadInv
<1>2. ASSUME NEW p \in Procs, NEW what, NEW label, Enter(p, what, label),
             label # "write", label \in {"put", "putVerify"} => cur'[p].on = en.on
      PROVE  ReadInv'
  BY <1>2, EnterAlone DEF ReadInv
<1>3. ASSUME NEW p \in Procs, Call(p) \/ Stop(p) PROVE ReadInv'
  <2>1. CASE (\E m \in Requested : Start(p, m)) \/ Stop(p)
    BY <1>2, <2>1 DEF Start, Stop
  <2>2. CASE \E rest \in Puts : Put(p, rest)
    BY <1>2, <2>2 DEF Put, TypeOK
  <2>3. QED
    BY <1>3, <2>1, <2>2 DEF Call
<1>4. CASE UNCHANGED <<pc, cur, en, overlapped>>
  BY <1>4 DEF ReadInv
<1>5. QED
  BY <1>1, <1>3, <1>4
     DEF Next, Tick, Procs, Expire, vars, locals, obs, regs

LEMMA HitGrows ==
  ASSUME TypeOK, [Next]_vars
  PROVE  hit \subseteq hit'
<1>1. ASSUME NEW p \in Procs, Step(p) \/ Abort(p) PROVE hit \subseteq hit'
  <2>1. CASE LoadState(p)
    BY <2>1 DEF LoadState, obs
  <2>2. CASE ~LoadState(p)
    BY <1>1, <2>2, StepMoves DEF Step, NoFault, Fault
  <2>3. QED
    BY <2>1, <2>2
<1>2. CASE UNCHANGED hit
  BY <1>2
<1>3. QED
  BY <1>1, <1>2 DEF Next, Call, Start, Stop, Put, Enter, Tick, Expire, vars,
       obs

LEMMA NextDuration ==
  TypeOK /\ OpInv /\ AloneInv /\ DurationInv /\ [Next]_vars => DurationInv'
<1> SUFFICES ASSUME TypeOK, OpInv, AloneInv, DurationInv, [Next]_vars,
                    ~overlapped', "echo" \notin hit'
             PROVE  DurationInv'
  BY DEF DurationInv
<1> DEFINE D(p) == op[p] = "start"
                   /\ pc[p] \in {"read", "write", "verify", "saveStarted"}
                     => dur = mins[p]
<1>0. "echo" \notin hit
  BY HitGrows
<1>1. ASSUME NEW p \in Procs, Step(p) \/ Abort(p) PROVE DurationInv'
  <2>1. /\ ~overlapped
        /\ \A q \in Procs : q # p => pc'[q] = "idle"
    BY <1>1, StepAlone
  <2>2. D(p)
    BY <1>0, <2>1 DEF DurationInv
  <2>3. ASSUME Return(p) PROVE D(p)'
    BY <2>3 DEF Return, TypeOK
  <2>4. D(p)'
    <3>1. CASE WriteDuration(p)
      <4>1. PICK applied \in BOOLEAN :
              /\ dur' = IF applied THEN mins[p] ELSE dur
              /\ \/ WriteOK(applied) /\ Goto(p, "read", cur[p], 0)
                 \/ WriteFails(applied) /\ Return(p)
        BY <3>1 DEF WriteDuration
      <4>2. WriteOK(applied) => applied
        BY DEF WriteOK, Fault
      <4>3. Goto(p, "read", cur[p], 0) => mins'[p] = mins[p]
        BY DEF Goto
      <4>4. QED
        BY <2>3, <4>1, <4>2, <4>3
    <3>2. CASE ReadEnable(p)
      BY <2>2, <2>3, <3>2 DEF ReadEnable, Goto, TypeOK, regs
    <3>3. CASE WriteEnable(p)
      BY <2>2, <2>3, <3>3 DEF WriteEnable, Goto, TypeOK
    <3>4. CASE VerifyEnable(p)
      BY <2>2, <2>3, <3>4 DEF VerifyEnable, Again, Goto, TypeOK, regs
    <3>5. CASE LoadState(p)
      BY <3>5 DEF LoadState, TypeOK, OpInv
    <3>6. CASE ClearDuration(p)
      BY <2>3, <3>6 DEF ClearDuration, Goto, TypeOK, OpInv
    <3>7. CASE PutWrite(p) \/ PutVerify(p)
      BY <2>3, <3>7 DEF PutWrite, PutVerify, Again, Goto, TypeOK
    <3>8. CASE SaveStarted(p) \/ SaveStopped(p) \/ Abort(p)
      BY <2>3, <3>8 DEF SaveStarted, SaveStopped, Abort
    <3>9. QED
      BY <1>1, <3>1, <3>2, <3>3, <3>4, <3>5, <3>6, <3>7, <3>8 DEF Step
  <2>5. QED
    BY <2>1, <2>4 DEF DurationInv
<1>2. ASSUME NEW p \in Procs, NEW what, NEW label, Enter(p, what, label),
             label \notin {"read", "write", "verify", "saveStarted"}
      PROVE  DurationInv'
  BY <1>2, EnterAlone DEF DurationInv
<1>3. ASSUME NEW p \in Procs, Call(p) \/ Stop(p) PROVE DurationInv'
  BY <1>2, <1>3 DEF Call, Start, Stop, Put
<1>4. CASE UNCHANGED <<pc, op, mins, dur, hit, overlapped>>
  BY <1>4 DEF DurationInv
<1>5. QED
  BY <1>1, <1>3, <1>4
     DEF Next, Tick, Procs, Expire, vars, locals, obs, regs

LEMMA NextMatch ==
  TypeOK /\ OpInv /\ AloneInv /\ ReadInv /\ DurationInv /\ MatchInv
    /\ [Next]_vars => MatchInv'
<1> SUFFICES ASSUME TypeOK, OpInv, AloneInv, ReadInv, DurationInv, MatchInv,
                    [Next]_vars, ~overlapped', hit' = {}
             PROVE  MatchInv'
  BY DEF MatchInv
<1> DEFINE M(p) ==
      /\ pc[p] \in {"duration", "load", "put", "putVerify"} => Match
      /\ pc[p] \in {"read", "write"} /\ op[p] = "stop" => Match
      /\ pc[p] = "verify" => en = WithBit(p)
      /\ pc[p] = "saveStarted" => en.on
      /\ pc[p] = "clear" => ~en.on
      /\ pc[p] = "saveStopped" => ~en.on /\ dur = 0
<1>0. hit = {} /\ \A kind : ~Fault(kind)
  BY HitGrows DEF Fault
<1>a. ASSUME NEW applied \in BOOLEAN
      PROVE  (WriteOK(applied) => applied) /\ ~WriteFails(applied)
  BY <1>0 DEF WriteOK, WriteFails
<1>1. ASSUME NEW p \in Procs, Step(p) \/ Abort(p) PROVE MatchInv'
  <2>1. /\ ~overlapped
        /\ \A q \in Procs : q # p => pc'[q] = "idle"
    BY <1>1, StepAlone
  <2>2. M(p)
    BY <1>0, <2>1 DEF MatchInv
  <2>3. ASSUME Return(p), Match' PROVE M(p)' /\ (AllIdle' => Match')
    BY <2>3 DEF Return, TypeOK
  <2>4. ASSUME pc'[p] # "idle" PROVE ~AllIdle'
    BY <2>4 DEF AllIdle
  <2>5. M(p)' /\ (AllIdle' => Match')
    <3>1. CASE WriteDuration(p)
      <4>1. Goto(p, "read", cur[p], 0)
        BY <1>a, <3>1 DEF WriteDuration
      <4>2. pc'[p] = "read" /\ op'[p] = "start"
        BY <3>1, <4>1 DEF Goto, TypeOK, OpInv, WriteDuration
      <4>3. QED
        BY <2>4, <4>2
    <3>2. CASE ReadEnable(p)
      <4>1. Goto(p, "write", en, 0)
        BY <1>0, <3>2 DEF ReadEnable
      <4>2. pc'[p] = "write" /\ op'[p] = op[p]
        BY <4>1 DEF Goto, TypeOK
      <4>3. UNCHANGED <<dur, en, db>>
        BY <3>2 DEF ReadEnable, regs
      <4>4. op[p] = "stop" => Match'
        BY <2>2, <3>2, <4>3 DEF Match, ReadEnable
      <4>5. QED
        BY <2>4, <4>2, <4>4
    <3>3. CASE WriteEnable(p)
      <4>1. en' = WithBit(p) /\ Goto(p, "verify", cur[p], 0)
        BY <1>a, <3>3 DEF WriteEnable
      <4>2. pc'[p] = "verify" /\ WithBit(p)' = WithBit(p)
        BY <4>1 DEF Goto, TypeOK, WithBit
      <4>3. QED
        BY <2>4, <4>1, <4>2
    <3>4. CASE VerifyEnable(p)
      <4>1. en = WithBit(p)
        BY <2>2, <3>4 DEF VerifyEnable
      <4>2. Goto(p, AfterVerify(p), cur[p], 0)
        BY <1>0, <3>4, <4>1 DEF VerifyEnable
      <4>3. pc'[p] = AfterVerify(p) /\ en' = en
        BY <3>4, <4>2 DEF Goto, TypeOK, VerifyEnable, regs
      <4>4. en.on = (op[p] = "start")
        BY <4>1 DEF WithBit, TypeOK, EnableReg
      <4>5. CASE op[p] = "start"
        BY <2>4, <4>3, <4>4, <4>5 DEF AfterVerify
      <4>6. CASE op[p] # "start"
        BY <2>4, <4>3, <4>4, <4>6 DEF AfterVerify
      <4>7. QED
        BY <4>5, <4>6
    <3>5. CASE LoadState(p)
      <4>1. pc'[p] = "read" /\ UNCHANGED <<dur, en, db>> /\ Match
        BY <2>2, <3>5 DEF LoadState, TypeOK, regs
      <4>2. Match'
        BY <4>1 DEF Match
      <4>3. QED
        BY <4>1, <4>2
    <3>6. CASE ClearDuration(p)
      <4>1. dur' = 0 /\ Goto(p, "saveStopped", cur[p], 0)
        BY <1>a, <3>6 DEF ClearDuration
      <4>2. pc'[p] = "saveStopped" /\ en' = en
        BY <3>6, <4>1 DEF Goto, TypeOK, ClearDuration
      <4>3. QED
        BY <2>2, <2>4, <3>6, <4>1, <4>2 DEF ClearDuration
    <3>7. CASE PutWrite(p)
      <4>1. en' = cur[p] /\ Goto(p, "putVerify", cur[p], 0)
        BY <1>a, <3>7 DEF PutWrite
      <4>2. pc'[p] = "putVerify" /\ UNCHANGED <<dur, db>>
        BY <3>7, <4>1 DEF Goto, TypeOK, PutWrite
      <4>3. en'.on = en.on
        BY <2>1, <3>7, <4>1 DEF ReadInv, PutWrite
      <4>4. Match'
        BY <2>2, <3>7, <4>2, <4>3 DEF Match, PutWrite
      <4>5. QED
        BY <4>2, <4>4
    <3>8. CASE PutVerify(p)
      <4>1. UNCHANGED <<dur, en, db>> /\ Match
        BY <2>2, <3>8 DEF PutVerify, regs
      <4>2. Match'
        BY <4>1 DEF Match
      <4>3. CASE Return(p)
        BY <2>3, <4>2, <4>3
      <4>4. CASE ~Return(p)
        <5>1. pc'[p] = "putVerify"
          BY <3>8, <4>4 DEF PutVerify, Again, Goto, TypeOK
        <5>2. QED
          BY <4>2, <5>1
      <4>5. QED
        BY <4>3, <4>4
    <3>9. CASE SaveStarted(p)
      <4>1. op[p] = "start" /\ en.on /\ dur = mins[p]
        BY <1>0, <2>1, <2>2, <3>9 DEF SaveStarted, OpInv, DurationInv
      <4>2. Match'
        BY <3>9, <4>1 DEF SaveStarted, Match, regs
      <4>3. QED
        BY <2>3, <3>9, <4>2 DEF SaveStarted
    <3>10. CASE SaveStopped(p)
      <4>1. ~en.on /\ dur = 0
        BY <2>2, <3>10 DEF SaveStopped
      <4>2. db'.active = FALSE
        BY <3>10 DEF SaveStopped, TypeOK, State
      <4>3. Match'
        BY <3>10, <4>1, <4>2 DEF SaveStopped, Match, regs
      <4>4. QED
        BY <2>3, <3>10, <4>3 DEF SaveStopped
    <3>11. CASE Abort(p)
      BY <1>0, <3>11 DEF Abort
    <3>12. QED
      BY <1>1, <3>1, <3>2, <3>3, <3>4, <3>5, <3>6, <3>7, <3>8, <3>9, <3>10,
         <3>11 DEF Step
  <2>6. QED
    BY <2>1, <2>5 DEF MatchInv
<1>2. ASSUME NEW p \in Procs, NEW what, NEW label, Enter(p, what, label),
             label \in {"duration", "load", "put"}
      PROVE  MatchInv'
  <2>1. /\ AllIdle /\ ~overlapped /\ UNCHANGED <<dur, en, db>>
        /\ pc'[p] = label /\ \A q \in Procs : q # p => pc'[q] = "idle"
    BY <1>2, EnterAlone
  <2>2. Match'
    BY <1>0, <2>1 DEF MatchInv, Match
  <2>3. QED
    BY <1>2, <2>1, <2>2 DEF MatchInv
<1>3. ASSUME NEW p \in Procs, Call(p) \/ Stop(p) PROVE MatchInv'
  BY <1>2, <1>3 DEF Call, Start, Stop, Put
<1>4. CASE Expire
  <2>1. db'.active = db.active /\ db'.minutes = db.minutes
    BY <1>4 DEF Expire, TypeOK, State
  <2>2. Match' = Match
    BY <1>4, <2>1 DEF Expire, Match, regs
  <2>3. UNCHANGED <<pc, op, en, dur, cur, hit, overlapped>>
    BY <1>4 DEF Expire, locals, obs, regs
  <2>4. QED
    BY <2>2, <2>3 DEF MatchInv, AllIdle, WithBit
<1>5. CASE UNCHANGED vars
  BY <1>5 DEF MatchInv, AllIdle, WithBit, Match, vars, locals, obs, regs
<1>6. QED
  BY <1>1, <1>3, <1>4, <1>5 DEF Next, Tick, Procs

LEMMA InvInductive ==
  /\ Init => QuickChargeInv
  /\ QuickChargeInv /\ [Next]_vars => QuickChargeInv'
<1>1. ASSUME Init PROVE QuickChargeInv
  <2>1. TypeOK
    BY <1>1, InitType
  <2>2. PICK r \in RestBits : en = [on |-> FALSE, rest |-> r]
    BY <1>1 DEF Init
  <2>3. OpInv /\ AloneInv /\ ReadInv /\ DurationInv
    BY <1>1 DEF Init, OpInv, AloneInv, ReadInv, DurationInv
  <2>4. Match
    BY <1>1, <2>2 DEF Init, Match, NoState
  <2>5. MatchInv
    BY <1>1, <2>4 DEF Init, MatchInv
  <2>6. QED
    BY <2>1, <2>3, <2>5 DEF QuickChargeInv
<1>2. QED
  BY <1>1, NextType, NextOp, NextAlone, NextRead, NextDuration, NextMatch
     DEF QuickChargeInv

\* Between operations that neither failed nor overlapped, the stored state
\* tells the truth about the inverter, however many there were.
THEOREM StoredStateIsTrue == Spec => []StateMatchesInverter
<1>1. QuickChargeInv => StateMatchesInverter
  BY DEF QuickChargeInv, MatchInv, StateMatchesInverter
<1>2. QED
  BY <1>1, InvInductive, PTL DEF Spec

\* Bit 0 is never set over a zero duration unless the dongle acknowledged a
\* write it did not forward, or operations overlapped.
THEOREM EnableOverDuration == Spec => EnableNeedsDuration
<1>1. ASSUME QuickChargeInv, [Next]_vars
      PROVE  [~en.on /\ en'.on /\ ~overlapped /\ "echo" \notin hit
                => dur > 0]_vars
  <2> SUFFICES ASSUME Next, ~en.on, en'.on, ~overlapped, "echo" \notin hit
               PROVE  dur > 0
    BY <1>1
  <2> USE DEF QuickChargeInv
  <2>1. ASSUME NEW p \in Procs, WriteEnable(p) PROVE dur > 0
    <3>1. en' = WithBit(p)
      BY <1>1, <2>1 DEF WriteEnable
    <3>2. op[p] = "start"
      BY <1>1, <3>1 DEF WithBit, TypeOK, EnableReg
    <3>3. dur = mins[p] /\ mins[p] \in Minutes
      BY <1>1, <2>1, <3>2 DEF WriteEnable, DurationInv, OpInv
    <3>4. QED
      BY <3>3, ConstantsAssumption DEF Minutes
  <2>2. ASSUME NEW p \in Procs, PutWrite(p) PROVE FALSE
    BY <1>1, <2>2 DEF PutWrite, ReadInv
  <2>3. CASE en' = en
    BY <2>3
  <2>4. QED
    BY <2>1, <2>2, <2>3 DEF Next, Call, Start, Stop, Put, Enter, Tick, Step,
         WriteDuration, ReadEnable, VerifyEnable, LoadState, ClearDuration,
         PutVerify, SaveStarted, SaveStopped, Abort, Expire, regs
<1>2. QED
  BY <1>1, InvInductive, PTL DEF Spec, EnableNeedsDuration

\* Without an overlap, the read-modify-write of bit 0 leaves the other bits
\* of register 233 as they are.
THEOREM OtherBitsAreKept == Spec => OtherBitsKept
<1>1. ASSUME QuickChargeInv, [Next]_vars
      PROVE  [\A p \in Procs : WriteEnable(p) /\ ~overlapped
                => en'.rest = en.rest]_vars
  <2> SUFFICES ASSUME NEW p \in Procs, WriteEnable(p), ~overlapped
               PROVE  en'.rest = en.rest
    OBVIOUS
  <2>1. cur[p] = en
    BY <1>1 DEF QuickChargeInv, ReadInv, WriteEnable
  <2>2. en' = WithBit(p) \/ en' = en
    BY DEF WriteEnable
  <2>3. QED
    BY <1>1, <2>1, <2>2 DEF WithBit, QuickChargeInv, TypeOK, EnableReg
<1>2. QED
  BY <1>1, InvInductive, PTL DEF Spec, OtherBitsKept
=============================================================================
