-------------------------- MODULE AutomationProofs --------------------------
(***************************************************************************)
(* What the dry-run switch guarantees, for any rules, requests, faults and *)
(* number of API threads.  The proof follows the five parts of DryInv.     *)
(***************************************************************************)
EXTENDS Automation, FiniteSetTheorems, WellFoundedInduction, TLAPS

(***************************************************************************)
(* What the steps between the reading of the rows and the end of a round    *)
(* have in common, as far as DryInv is concerned.                           *)
(***************************************************************************)
DryVars == <<dryRun, wanted, overlapped, op, myDry, orig, wasOff>>
AtWork  == {"eval", "read", "write", "verify"}

EngineMove(p) ==
  /\ pc[p] \in AtWork
  /\ \E l \in AtWork :
       /\ pc' = [pc EXCEPT ![p] = l]
       /\ pc[p] = "eval" /\ l # "eval" => ~myDry[p]
  /\ UNCHANGED DryVars

LEMMA EngineMoves ==
  ASSUME DryType, NEW p \in Procs,
         \/ SkipRule(p) \/ EvaluateRule(p) \/ BeginWrite(p)
         \/ ReadCurrent(p) \/ WriteReg(p) \/ Verify(p)
  PROVE  EngineMove(p)
<1> USE DEF EngineMove, DryVars, AtWork, obs, rows, world, engine, my
<1>1. pc = [pc EXCEPT ![p] = pc[p]]
  BY DEF DryType
<1>2. CASE SkipRule(p)
  BY <1>2 DEF SkipRule, AtRule, NextRule, Goto
<1>3. CASE EvaluateRule(p)
  BY <1>3 DEF EvaluateRule, AtRule, Conclude, NextRule, Goto
<1>4. CASE BeginWrite(p)
  BY <1>4 DEF BeginWrite, AtRule, LogOnly, Goto
<1>5. CASE ReadCurrent(p)
  BY <1>5 DEF ReadCurrent, Concludes, Raises, Conclude, NextRule, Goto
<1>6. CASE WriteReg(p)
  BY <1>6 DEF WriteReg, Concludes, Raises, Conclude, NextRule, Goto
<1>7. CASE Verify(p)
  BY <1>1, <1>7 DEF Verify, Concludes, Raises, Conclude, NextRule, Goto
<1>8. QED
  BY <1>2, <1>3, <1>4, <1>5, <1>6, <1>7

\* The steps of the system that DryInv tells apart.
LEMMA StepCases ==
  ASSUME DryType, [Next]_vars
  PROVE
    \/ \E u \in Users :
         \/ \E v \in BOOLEAN : SetEnabled(u, v) \/ SetDryRun(u, v)
         \/ \E e, d \in BOOLEAN, list \in Lists : Save(u, e, d, list)
         \/ \E i \in Ids : Delete(u, i) \/ Disable(u, i)
         \/ Test(u)
    \/ Round
    \/ \E p \in Procs :
         \/ ReadEnabled(p) \/ ReadDry(p) \/ ReadRules(p)
         \/ EngineMove(p) \/ EndRound(p)
         \/ ReadRulesToEdit(p)
         \/ SaveEnabled(p) \/ SaveDry(p) \/ SaveRules(p)
         \/ TestRead(p) \/ TestForce(p) \/ TestRestore(p)
    \/ \E ps \in {Users, {Collector}} : Crash(ps)
    \/ UNCHANGED <<DryVars, pc>>
<1>1. CASE \E u \in Users : Request(u)
  BY <1>1 DEF Request
<1>2. CASE Round
  BY <1>2
<1>3. ASSUME NEW p \in Procs, Step(p)
      PROVE  \/ ReadEnabled(p) \/ ReadDry(p) \/ ReadRules(p)
             \/ EngineMove(p) \/ EndRound(p)
             \/ ReadRulesToEdit(p)
             \/ SaveEnabled(p) \/ SaveDry(p) \/ SaveRules(p)
             \/ TestRead(p) \/ TestForce(p) \/ TestRestore(p)
  BY <1>3, EngineMoves DEF Step, EngineStep, ConfigStep
<1>4. CASE World
  BY <1>4 DEF World, NewReading, NewHour, TimePasses, PanelWrite, DryVars,
              rows, world, engine, my, obs
<1>5. CASE UNCHANGED vars
  BY <1>5 DEF vars, DryVars, rows, my, obs
<1>6. QED
  BY <1>1, <1>2, <1>3, <1>4, <1>5 DEF Next

-----------------------------------------------------------------------------
LEMMA NextDryType ==
  ASSUME DryType, [Next]_vars
  PROVE  DryType'
<1> USE DEF DryType, Labels, Ops, Procs
<1>1. ASSUME NEW u \in Users, NEW v \in BOOLEAN, SetEnabled(u, v)
      PROVE  DryType'
  BY <1>1 DEF SetEnabled, OthersBusy, obs, world, engine, my
<1>2. ASSUME NEW u \in Users, NEW v \in BOOLEAN, SetDryRun(u, v)
      PROVE  DryType'
  BY <1>2 DEF SetDryRun, OthersBusy, NoteOff, world, engine, my
<1>3. ASSUME NEW u \in Users, NEW e \in BOOLEAN, NEW d \in BOOLEAN,
              NEW list \in Lists, Save(u, e, d, list)
      PROVE  DryType'
  BY <1>3 DEF Save, Enter, OthersBusy, rows, world, engine
<1>4. ASSUME NEW u \in Users, NEW i \in Ids, Delete(u, i) \/ Disable(u, i)
      PROVE  DryType'
  <2>1. CASE Delete(u, i)
    BY <2>1 DEF Delete, Enter, OthersBusy, rows, my
  <2>2. CASE Disable(u, i)
    BY <2>2 DEF Disable, Enter, OthersBusy, rows, my
  <2>3. QED
    BY <1>4, <2>1, <2>2
<1>5. ASSUME NEW u \in Users, Test(u)
      PROVE  DryType'
  BY <1>5 DEF Test, Enter, OthersBusy, rows, world, engine, my
<1>6. CASE Round
  BY <1>6 DEF Round, Enter, rows, world, engine, my
<1>7. ASSUME NEW p \in Procs, ReadEnabled(p)
      PROVE  DryType'
  BY <1>7 DEF ReadEnabled, Goto, rows, world, engine
<1>8. ASSUME NEW p \in Procs, ReadDry(p)
      PROVE  DryType'
  BY <1>8 DEF ReadDry, Got, Goto, rows, world, engine
<1>9. ASSUME NEW p \in Procs, ReadRules(p)
      PROVE  DryType'
  BY <1>9 DEF ReadRules, Goto, rows, world
<1>10. ASSUME NEW p \in Procs, EngineMove(p)
      PROVE  DryType'
  BY <1>10 DEF EngineMove, AtWork, DryVars
<1>11. ASSUME NEW p \in Procs, EndRound(p)
      PROVE  DryType'
  <2>1. UNCHANGED <<rows, overlapped, wanted>>
    BY <1>11 DEF EndRound
  <2>2. CASE Return(p) /\ Forget({p})
    BY <2>1, <2>2 DEF Return, Forget, rows
  <2>3. CASE Goto(p, "testRestore") /\ UNCHANGED <<op, my, orig, wasOff>>
    BY <2>1, <2>3 DEF Goto, rows, my
  <2>4. QED
    BY <1>11, <2>2, <2>3 DEF EndRound
<1>12. ASSUME NEW p \in Procs, ReadRulesToEdit(p)
      PROVE  DryType'
  <2>1. \/ Goto(p, "saveEnabled") /\ UNCHANGED <<engine, op, myEnabled, myDry,
                                                id, orig, wasOff>>
        \/ Return(p) /\ Forget({p})
    BY <1>12 DEF ReadRulesToEdit
  <2>2. UNCHANGED <<rows, overlapped, wanted>>
    BY <1>12 DEF ReadRulesToEdit
  <2>3. CASE Goto(p, "saveEnabled") /\ UNCHANGED <<engine, op, myEnabled,
                                            myDry, id, orig, wasOff>>
    BY <2>2, <2>3 DEF Goto, rows
  <2>4. CASE Return(p) /\ Forget({p})
    BY <2>2, <2>4 DEF Return, Forget, rows
  <2>5. QED
    BY <2>1, <2>3, <2>4
<1>13. ASSUME NEW p \in Procs, SaveEnabled(p)
      PROVE  DryType'
  BY <1>13 DEF SaveEnabled, Goto, rows, world, engine, my
<1>14. ASSUME NEW p \in Procs, SaveDry(p)
      PROVE  DryType'
  BY <1>14 DEF SaveDry, NoteOff, Goto, world, engine, my
<1>15. ASSUME NEW p \in Procs, SaveRules(p)
      PROVE  DryType'
  BY <1>15 DEF SaveRules, Return, Forget, world
<1>16. ASSUME NEW p \in Procs, TestRead(p)
      PROVE  DryType'
  BY <1>16 DEF TestRead, Got, Goto, rows, world, engine, my
<1>17. ASSUME NEW p \in Procs, TestForce(p)
      PROVE  DryType'
  BY <1>17 DEF TestForce, Goto, world, engine, my
<1>18. ASSUME NEW p \in Procs, TestRestore(p)
      PROVE  DryType'
  BY <1>18 DEF TestRestore, Return, NoteOff, world
<1>19. ASSUME NEW ps \in {Users, {Collector}}, Crash(ps)
      PROVE  DryType'
  BY <1>19 DEF Crash, Forget, rows, world
<1>20. CASE UNCHANGED <<DryVars, pc>>
  BY <1>20 DEF DryVars
<1>21. QED
  BY StepCases, <1>1, <1>2, <1>3, <1>4, <1>5, <1>6, <1>7, <1>8, <1>9, <1>10,
     <1>11, <1>12, <1>13, <1>14, <1>15, <1>16, <1>17, <1>18, <1>19, <1>20

LEMMA NextOp ==
  ASSUME DryType, OpInv, [Next]_vars
  PROVE  OpInv'
<1> USE ConstantsAssumption DEF DryType, Labels, Ops, OpInv, Procs
<1>1. ASSUME NEW u \in Users, NEW v \in BOOLEAN, SetEnabled(u, v)
      PROVE  OpInv'
  BY <1>1 DEF SetEnabled, OthersBusy, obs, world, engine, my
<1>2. ASSUME NEW u \in Users, NEW v \in BOOLEAN, SetDryRun(u, v)
      PROVE  OpInv'
  BY <1>2 DEF SetDryRun, OthersBusy, NoteOff, world, engine, my
<1>3. ASSUME NEW u \in Users, NEW e \in BOOLEAN, NEW d \in BOOLEAN,
              NEW list \in Lists, Save(u, e, d, list)
      PROVE  OpInv'
  BY <1>3 DEF Save, Enter, OthersBusy, rows, world, engine
<1>4. ASSUME NEW u \in Users, NEW i \in Ids, Delete(u, i) \/ Disable(u, i)
      PROVE  OpInv'
  BY <1>4 DEF Delete, Disable, Enter, OthersBusy, rows, world, engine, my
<1>5. ASSUME NEW u \in Users, Test(u)
      PROVE  OpInv'
  BY <1>5 DEF Test, Enter, OthersBusy, rows, world, engine, my
<1>6. CASE Round
  BY <1>6 DEF Round, Enter, rows, world, engine, my
<1>7. ASSUME NEW p \in Procs, ReadEnabled(p)
      PROVE  OpInv'
  BY <1>7 DEF ReadEnabled, Goto, rows, world, engine
<1>8. ASSUME NEW p \in Procs, ReadDry(p)
      PROVE  OpInv'
  BY <1>8 DEF ReadDry, Got, Goto, rows, world, engine
<1>9. ASSUME NEW p \in Procs, ReadRules(p)
      PROVE  OpInv'
  BY <1>9 DEF ReadRules, Goto, rows, world
<1>10. ASSUME NEW p \in Procs, EngineMove(p)
      PROVE  OpInv'
  BY <1>10 DEF EngineMove, AtWork, DryVars
<1>11. ASSUME NEW p \in Procs, EndRound(p)
      PROVE  OpInv'
  BY <1>11 DEF EndRound, Return, Forget, Goto, rows, world, engine, my
<1>12. ASSUME NEW p \in Procs, ReadRulesToEdit(p)
      PROVE  OpInv'
  BY <1>12 DEF ReadRulesToEdit, Return, Forget, Goto, rows, world, engine
<1>13. ASSUME NEW p \in Procs, SaveEnabled(p)
      PROVE  OpInv'
  BY <1>13 DEF SaveEnabled, Goto, rows, world, engine, my
<1>14. ASSUME NEW p \in Procs, SaveDry(p)
      PROVE  OpInv'
  BY <1>14 DEF SaveDry, NoteOff, Goto, world, engine, my
<1>15. ASSUME NEW p \in Procs, SaveRules(p)
      PROVE  OpInv'
  BY <1>15 DEF SaveRules, Return, Forget, world
<1>16. ASSUME NEW p \in Procs, TestRead(p)
      PROVE  OpInv'
  BY <1>16 DEF TestRead, Got, Goto, rows, world, engine, my
<1>17. ASSUME NEW p \in Procs, TestForce(p)
      PROVE  OpInv'
  BY <1>17 DEF TestForce, Goto, world, engine, my
<1>18. ASSUME NEW p \in Procs, TestRestore(p)
      PROVE  OpInv'
  BY <1>18 DEF TestRestore, Return, NoteOff, world
<1>19. ASSUME NEW ps \in {Users, {Collector}}, Crash(ps)
      PROVE  OpInv'
  BY <1>19 DEF Crash, Forget, rows, world
<1>20. CASE UNCHANGED <<DryVars, pc>>
  BY <1>20 DEF DryVars
<1>21. QED
  BY StepCases, <1>1, <1>2, <1>3, <1>4, <1>5, <1>6, <1>7, <1>8, <1>9, <1>10,
     <1>11, <1>12, <1>13, <1>14, <1>15, <1>16, <1>17, <1>18, <1>19, <1>20

LEMMA NextAlone ==
  ASSUME DryType, AloneInv, [Next]_vars
  PROVE  AloneInv'
<1> USE ConstantsAssumption DEF DryType, AloneInv, Procs
<1>1. ASSUME NEW u \in Users, NEW v \in BOOLEAN, SetEnabled(u, v)
      PROVE  AloneInv'
  BY <1>1 DEF SetEnabled, OthersBusy, obs, world, engine, my
<1>2. ASSUME NEW u \in Users, NEW v \in BOOLEAN, SetDryRun(u, v)
      PROVE  AloneInv'
  BY <1>2 DEF SetDryRun, OthersBusy, NoteOff, world, engine, my
<1>3. ASSUME NEW u \in Users, NEW e \in BOOLEAN, NEW d \in BOOLEAN,
              NEW list \in Lists, Save(u, e, d, list)
      PROVE  AloneInv'
  BY <1>3 DEF Save, Enter, OthersBusy, rows, world, engine
<1>4. ASSUME NEW u \in Users, NEW i \in Ids, Delete(u, i) \/ Disable(u, i)
      PROVE  AloneInv'
  <2>1. Enter(u, "delete", "readEnabled") \/ Enter(u, "disable", "readEnabled")
    BY <1>4 DEF Delete, Disable
  <2>2. /\ pc' = [pc EXCEPT ![u] = "readEnabled"]
        /\ overlapped' = (overlapped \/ OthersBusy(u))
    BY <2>1 DEF Enter
  <2>3. QED
    BY <2>2 DEF OthersBusy
<1>5. ASSUME NEW u \in Users, Test(u)
      PROVE  AloneInv'
  BY <1>5 DEF Test, Enter, OthersBusy, rows, world, engine, my
<1>6. CASE Round
  BY <1>6 DEF Round, Enter, rows, world, engine, my
<1>7. ASSUME NEW p \in Procs, ReadEnabled(p)
      PROVE  AloneInv'
  BY <1>7 DEF ReadEnabled, Goto, rows, world, engine
<1>8. ASSUME NEW p \in Procs, ReadDry(p)
      PROVE  AloneInv'
  BY <1>8 DEF ReadDry, Got, Goto, rows, world, engine
<1>9. ASSUME NEW p \in Procs, ReadRules(p)
      PROVE  AloneInv'
  BY <1>9 DEF ReadRules, Goto, rows, world
<1>10. ASSUME NEW p \in Procs, EngineMove(p)
      PROVE  AloneInv'
  BY <1>10 DEF EngineMove, AtWork, DryVars
<1>11. ASSUME NEW p \in Procs, EndRound(p)
      PROVE  AloneInv'
  BY <1>11 DEF EndRound, Return, Forget, Goto, rows, world, engine, my
<1>12. ASSUME NEW p \in Procs, ReadRulesToEdit(p)
      PROVE  AloneInv'
  BY <1>12 DEF ReadRulesToEdit, Return, Forget, Goto, rows, world, engine
<1>13. ASSUME NEW p \in Procs, SaveEnabled(p)
      PROVE  AloneInv'
  BY <1>13 DEF SaveEnabled, Goto, rows, world, engine, my
<1>14. ASSUME NEW p \in Procs, SaveDry(p)
      PROVE  AloneInv'
  BY <1>14 DEF SaveDry, NoteOff, Goto, world, engine, my
<1>15. ASSUME NEW p \in Procs, SaveRules(p)
      PROVE  AloneInv'
  BY <1>15 DEF SaveRules, Return, Forget, world
<1>16. ASSUME NEW p \in Procs, TestRead(p)
      PROVE  AloneInv'
  BY <1>16 DEF TestRead, Got, Goto, rows, world, engine, my
<1>17. ASSUME NEW p \in Procs, TestForce(p)
      PROVE  AloneInv'
  BY <1>17 DEF TestForce, Goto, world, engine, my
<1>18. ASSUME NEW p \in Procs, TestRestore(p)
      PROVE  AloneInv'
  BY <1>18 DEF TestRestore, Return, NoteOff, world
<1>19. ASSUME NEW ps \in {Users, {Collector}}, Crash(ps)
      PROVE  AloneInv'
  BY <1>19 DEF Crash, Forget, rows, world
<1>20. CASE UNCHANGED <<DryVars, pc>>
  BY <1>20 DEF DryVars
<1>21. QED
  BY StepCases, <1>1, <1>2, <1>3, <1>4, <1>5, <1>6, <1>7, <1>8, <1>9, <1>10,
     <1>11, <1>12, <1>13, <1>14, <1>15, <1>16, <1>17, <1>18, <1>19, <1>20

LEMMA NextKept ==
  ASSUME DryType, OpInv, AloneInv, KeptInv, [Next]_vars
  PROVE  KeptInv'
<1> USE ConstantsAssumption DEF DryType, OpInv, AloneInv, KeptInv, Procs
<1>1. ASSUME NEW u \in Users, NEW v \in BOOLEAN, SetEnabled(u, v)
      PROVE  KeptInv'
  BY <1>1 DEF SetEnabled, OthersBusy, obs, world, engine, my
<1>2. ASSUME NEW u \in Users, NEW v \in BOOLEAN, SetDryRun(u, v)
      PROVE  KeptInv'
  BY <1>2 DEF SetDryRun, OthersBusy, NoteOff, world, engine, my
<1>3. ASSUME NEW u \in Users, NEW e \in BOOLEAN, NEW d \in BOOLEAN,
              NEW list \in Lists, Save(u, e, d, list)
      PROVE  KeptInv'
  BY <1>3 DEF Save, Enter, OthersBusy, rows, world, engine
<1>4. ASSUME NEW u \in Users, NEW i \in Ids, Delete(u, i) \/ Disable(u, i)
      PROVE  KeptInv'
  <2>1. CASE Delete(u, i)
    BY <2>1 DEF Delete, Enter, OthersBusy, rows, my
  <2>2. CASE Disable(u, i)
    BY <2>2 DEF Disable, Enter, OthersBusy, rows, my
  <2>3. QED
    BY <1>4, <2>1, <2>2
<1>5. ASSUME NEW u \in Users, Test(u)
      PROVE  KeptInv'
  BY <1>5 DEF Test, Enter, OthersBusy, rows, world, engine, my
<1>6. CASE Round
  BY <1>6 DEF Round, Enter, rows, world, engine, my
<1>7. ASSUME NEW p \in Procs, ReadEnabled(p)
      PROVE  KeptInv'
  BY <1>7 DEF ReadEnabled, Goto, rows, world, engine
<1>8. ASSUME NEW p \in Procs, ReadDry(p)
      PROVE  KeptInv'
  <2>1. PICK v \in BOOLEAN :
          /\ v = dryRun \/ v
          /\ myDry' = [myDry EXCEPT ![p] = v]
    BY <1>8 DEF ReadDry, Got
  <2>2. /\ pc[p] = "readDry" /\ pc' = [pc EXCEPT ![p] = "readRules"]
        /\ UNCHANGED <<dryRun, op, orig, overlapped, wanted>>
    BY <1>8 DEF ReadDry, Goto, rows
  <2>3. QED
    BY <2>1, <2>2
<1>9. ASSUME NEW p \in Procs, ReadRules(p)
      PROVE  KeptInv'
  BY <1>9 DEF ReadRules, Goto, rows, world
<1>10. ASSUME NEW p \in Procs, EngineMove(p)
      PROVE  KeptInv'
  BY <1>10 DEF EngineMove, AtWork, DryVars
<1>11. ASSUME NEW p \in Procs, EndRound(p)
      PROVE  KeptInv'
  BY <1>11 DEF EndRound, Return, Forget, Goto, rows, world, engine, my
<1>12. ASSUME NEW p \in Procs, ReadRulesToEdit(p)
      PROVE  KeptInv'
  BY <1>12 DEF ReadRulesToEdit, Return, Forget, Goto, rows, world, engine
<1>13. ASSUME NEW p \in Procs, SaveEnabled(p)
      PROVE  KeptInv'
  BY <1>13 DEF SaveEnabled, Goto, rows, world, engine, my
<1>14. ASSUME NEW p \in Procs, SaveDry(p)
      PROVE  KeptInv'
  <2>1. /\ pc[p] = "saveDry" /\ pc' = [pc EXCEPT ![p] = "saveRules"]
        /\ UNCHANGED <<op, myDry, orig, overlapped>>
    BY <1>14 DEF SaveDry, Goto, my
  <2>2. CASE dryRun' = myDry[p] /\ wanted' = IF op[p] = "save" THEN myDry[p] ELSE wanted
    <3>1. SUFFICES ASSUME wanted', ~overlapped' PROVE KeptInv'
      OBVIOUS
    <3>2. p \in Users /\ (op[p] = "save" \/ op[p] \in {"delete", "disable"})
      BY <2>1
    <3>3. dryRun'
      BY <2>1, <2>2, <3>1, <3>2
    <3>4. \A u \in Users : u # p => pc[u] = "idle" /\ op[u] = "none"
      BY <2>1, <3>1, <3>2
    <3>5. \A u \in Users : u # p => op'[u] = "none"
      BY <2>1, <3>4
    <3>6. pc'[p] = "saveRules" /\ op'[p] # "test"
      BY <2>1, <3>2
    <3>7. QED
      BY <3>3, <3>5, <3>6
  <2>3. CASE UNCHANGED <<dryRun, wanted>>
    BY <2>1, <2>3
  <2>4. QED
    BY <1>14, <2>2, <2>3 DEF SaveDry
<1>15. ASSUME NEW p \in Procs, SaveRules(p)
      PROVE  KeptInv'
  BY <1>15 DEF SaveRules, Return, Forget, world
<1>16. ASSUME NEW p \in Procs, TestRead(p)
      PROVE  KeptInv'
  <2>1. PICK v \in BOOLEAN :
          /\ v = dryRun \/ v
          /\ orig' = [orig EXCEPT ![p] = v]
    BY <1>16 DEF TestRead, Got
  <2>2. /\ pc[p] = "testRead" /\ pc' = [pc EXCEPT ![p] = "testForce"]
        /\ UNCHANGED <<dryRun, op, myDry, overlapped, wanted>>
    BY <1>16 DEF TestRead, Goto, rows, my
  <2>3. QED
    BY <2>1, <2>2
<1>17. ASSUME NEW p \in Procs, TestForce(p)
      PROVE  KeptInv'
  BY <1>17 DEF TestForce, Goto, world, engine, my
<1>18. ASSUME NEW p \in Procs, TestRestore(p)
      PROVE  KeptInv'
  BY <1>18 DEF TestRestore, Return, NoteOff, world
<1>19. ASSUME NEW ps \in {Users, {Collector}}, Crash(ps)
      PROVE  KeptInv'
  BY <1>19 DEF Crash, Forget, rows, world
<1>20. CASE UNCHANGED <<DryVars, pc>>
  BY <1>20 DEF DryVars
<1>21. QED
  BY StepCases, <1>1, <1>2, <1>3, <1>4, <1>5, <1>6, <1>7, <1>8, <1>9, <1>10,
     <1>11, <1>12, <1>13, <1>14, <1>15, <1>16, <1>17, <1>18, <1>19, <1>20

LEMMA NextOff ==
  ASSUME DryType, OpInv, OffInv, [Next]_vars
  PROVE  OffInv'
<1> USE ConstantsAssumption DEF DryType, OpInv, OffInv, Evaluating, Procs
<1>1. ASSUME NEW u \in Users, NEW v \in BOOLEAN, SetEnabled(u, v)
      PROVE  OffInv'
  BY <1>1 DEF SetEnabled, OthersBusy, obs, world, engine, my
<1>2. ASSUME NEW u \in Users, NEW v \in BOOLEAN, SetDryRun(u, v)
      PROVE  OffInv'
  BY <1>2 DEF SetDryRun, OthersBusy, NoteOff, world, engine, my
<1>3. ASSUME NEW u \in Users, NEW e \in BOOLEAN, NEW d \in BOOLEAN,
              NEW list \in Lists, Save(u, e, d, list)
      PROVE  OffInv'
  BY <1>3 DEF Save, Enter, OthersBusy, rows, world, engine
<1>4. ASSUME NEW u \in Users, NEW i \in Ids, Delete(u, i) \/ Disable(u, i)
      PROVE  OffInv'
  BY <1>4 DEF Delete, Disable, Enter, OthersBusy, rows, world, engine, my
<1>5. ASSUME NEW u \in Users, Test(u)
      PROVE  OffInv'
  BY <1>5 DEF Test, Enter, OthersBusy, rows, world, engine, my
<1>6. CASE Round
  BY <1>6 DEF Round, Enter, rows, world, engine, my
<1>7. ASSUME NEW p \in Procs, ReadEnabled(p)
      PROVE  OffInv'
  BY <1>7 DEF ReadEnabled, Goto, rows, world, engine
<1>8. ASSUME NEW p \in Procs, ReadDry(p)
      PROVE  OffInv'
  BY <1>8 DEF ReadDry, Got, Goto, rows, world, engine
<1>9. ASSUME NEW p \in Procs, ReadRules(p)
      PROVE  OffInv'
  BY <1>9 DEF ReadRules, Goto, rows, world
<1>10. ASSUME NEW p \in Procs, EngineMove(p)
      PROVE  OffInv'
  BY <1>10 DEF EngineMove, AtWork, DryVars
<1>11. ASSUME NEW p \in Procs, EndRound(p)
      PROVE  OffInv'
  BY <1>11 DEF EndRound, Return, Forget, Goto, rows, world, engine, my
<1>12. ASSUME NEW p \in Procs, ReadRulesToEdit(p)
      PROVE  OffInv'
  BY <1>12 DEF ReadRulesToEdit, Return, Forget, Goto, rows, world, engine
<1>13. ASSUME NEW p \in Procs, SaveEnabled(p)
      PROVE  OffInv'
  BY <1>13 DEF SaveEnabled, Goto, rows, world, engine, my
<1>14. ASSUME NEW p \in Procs, SaveDry(p)
      PROVE  OffInv'
  BY <1>14 DEF SaveDry, NoteOff, Goto, world, engine, my
<1>15. ASSUME NEW p \in Procs, SaveRules(p)
      PROVE  OffInv'
  BY <1>15 DEF SaveRules, Return, Forget, world
<1>16. ASSUME NEW p \in Procs, TestRead(p)
      PROVE  OffInv'
  BY <1>16 DEF TestRead, Got, Goto, rows, world, engine, my
<1>17. ASSUME NEW p \in Procs, TestForce(p)
      PROVE  OffInv'
  BY <1>17 DEF TestForce, Goto, world, engine, my
<1>18. ASSUME NEW p \in Procs, TestRestore(p)
      PROVE  OffInv'
  BY <1>18 DEF TestRestore, Return, NoteOff, world
<1>19. ASSUME NEW ps \in {Users, {Collector}}, Crash(ps)
      PROVE  OffInv'
  BY <1>19 DEF Crash, Forget, rows, world
<1>20. CASE UNCHANGED <<DryVars, pc>>
  BY <1>20 DEF DryVars
<1>21. QED
  BY StepCases, <1>1, <1>2, <1>3, <1>4, <1>5, <1>6, <1>7, <1>8, <1>9, <1>10,
     <1>11, <1>12, <1>13, <1>14, <1>15, <1>16, <1>17, <1>18, <1>19, <1>20

LEMMA DryInvInductive == Spec => []DryInv
<1>1. ASSUME Init PROVE DryInv
  <2>1. DryType
    BY <1>1 DEF Init, DryType, Labels, Ops
  <2>2. \A p \in Procs : pc[p] = "idle" /\ op[p] = "none"
    BY <1>1 DEF Init
  <2>3. dryRun
    BY <1>1 DEF Init
  <2>4. OpInv
    BY <2>2 DEF OpInv
  <2>5. AloneInv
    BY <2>2 DEF AloneInv, Procs
  <2>6. KeptInv
    BY <2>2, <2>3 DEF KeptInv, Procs
  <2>7. OffInv
    BY <2>2 DEF OffInv, Evaluating
  <2>8. QED
    BY <2>1, <2>4, <2>5, <2>6, <2>7 DEF DryInv
<1>2. DryInv /\ [Next]_vars => DryInv'
  BY NextDryType, NextOp, NextAlone, NextKept, NextOff DEF DryInv
<1>3. QED
  BY <1>1, <1>2, PTL DEF Spec

\* Dry-run that was asked for stays on through every sequence of requests
\* that do not overlap, whatever accesses to the database are lost and
\* wherever the API's process ends.
THEOREM DryRunIsKept == Spec => []DryRunKept
<1>1. DryInv => DryRunKept
  BY DEF DryInv, KeptInv, DryRunKept
<1>2. QED
  BY <1>1, DryInvInductive, PTL

\* No register is written in a round that began after dry-run was switched
\* on, unless it was off in between.
THEOREM RoundsAreQuiet == Spec => RoundsRespectDryRun
<1>1. ASSUME DryInv, [Next]_vars
      PROVE  [\A p \in Procs : WriteReg(p) => wasOff[p]]_vars
  <2> SUFFICES ASSUME NEW p \in Procs, WriteReg(p)
               PROVE  wasOff[p]
    OBVIOUS
  <2>1. pc[p] = "write"
    BY DEF WriteReg
  <2>2. op[p] \in {"round", "test"} /\ ~myDry[p]
    BY <1>1, <2>1 DEF DryInv, OpInv, OffInv
  <2>3. QED
    BY <1>1, <2>1, <2>2 DEF DryInv, OffInv, Evaluating
<1>2. QED
  BY <1>1, DryInvInductive, PTL DEF Spec, RoundsRespectDryRun

-----------------------------------------------------------------------------
(***************************************************************************)
(* The types.  What the engine picks by order exists: every non-empty set  *)
(* of positions has a first one, and an n-th one up to its size.           *)
(***************************************************************************)
LEMMA Least ==
  ASSUME NEW S, S \subseteq Nat, S # {}
  PROVE  \E i \in S : \A j \in S : i <= j
<1> DEFINE R == OpToRel(<, Nat)
<1>1. IsWellFoundedOn(R, Nat)
  BY NatLessThanWellFounded
<1>2. \A x, y \in Nat : x < y => <<x, y>> \in R
  BY DEF OpToRel
<1> HIDE DEF R
<1>3. PICK i \in S : \A j \in S : ~ (<<j, i>> \in R)
  BY <1>1, WFMin
<1>4. i \in Nat /\ \A j \in S : j \in Nat /\ ~ (j < i)
  BY <1>2, <1>3
<1>5. QED
  BY <1>4

LEMMA FirstOf ==
  ASSUME NEW S, S \subseteq Nat, S # {}
  PROVE  First(S) \in S
BY Least DEF First

\* The n-th of S is where the count of those up to it reaches n.
LEMMA NthOf ==
  ASSUME NEW N \in Nat, NEW S, S \subseteq 1 .. N, NEW n \in 1 .. Cardinality(S)
  PROVE  Nth(S, n) \in S
<1> DEFINE Upto(k) == {j \in S : j <= k}
           count == [k \in Nat |-> Cardinality(Upto(k))]
<1>1. \A j \in S : j \in Nat /\ 0 < j /\ j <= N
  OBVIOUS
<1>2. \A k \in Nat : IsFiniteSet(Upto(k)) /\ Cardinality(Upto(k)) \in Nat
  <2>1. IsFiniteSet(1 .. N)
    BY FS_Interval
  <2>2. \A k \in Nat : Upto(k) \subseteq 1 .. N
    OBVIOUS
  <2>3. QED
    BY <2>1, <2>2, FS_Subset, FS_CardinalityType
<1>3. count \in [Nat -> Nat]
  BY <1>2
<1>4. count[0] = 0
  <2> SUFFICES Cardinality(Upto(0)) = 0
    OBVIOUS
  <2>1. Upto(0) = {}
    <3> SUFFICES ASSUME NEW j \in S, j <= 0 PROVE FALSE
      OBVIOUS
    <3>1. QED
      BY <1>1
  <2>2. QED
    BY <2>1, FS_EmptySet
<1>5. count[N] = Cardinality(S)
  <2>1. Upto(N) = S
    BY <1>1
  <2>2. QED
    BY <2>1
<1>6. ASSUME NEW k \in Nat
      PROVE  count[k + 1] = IF k + 1 \in S THEN count[k] + 1 ELSE count[k]
  <2>1. \A j \in S : j <= k + 1 <=> j <= k \/ j = k + 1
    BY <1>1
  <2>2. CASE k + 1 \in S
    <3>4. ~ (k + 1 <= k) /\ k + 1 <= k + 1
      OBVIOUS
    <3>5. k + 1 \notin Upto(k)
      BY <3>4
    <3>6. Upto(k + 1) = Upto(k) \cup {k + 1}
      BY <2>1, <2>2, <3>4
    <3>1. Upto(k + 1) = Upto(k) \cup {k + 1} /\ k + 1 \notin Upto(k)
      BY <3>5, <3>6
    <3>2. Cardinality(Upto(k) \cup {k + 1}) = Cardinality(Upto(k)) + 1
      BY <3>1, <1>2, FS_AddElement
    <3>3. QED
      BY <2>2, <3>1, <3>2
  <2>3. CASE k + 1 \notin S
    <3>1. Upto(k + 1) = Upto(k)
      BY <2>1, <2>3
    <3>2. QED
      BY <2>3, <3>1
  <2>4. QED
    BY <2>2, <2>3
<1>7. \A k \in S : count[k] = Cardinality({j \in S : j <= k})
  BY <1>1
<1> HIDE DEF Upto, count
<1> DEFINE Reached == {k \in Nat : n <= count[k]}
<1>8. N \in Reached
  BY <1>5
<1>9. PICK k \in Reached : \A m \in Reached : k <= m
  BY <1>8, Least
<1>10. k \in Nat /\ n <= count[k] /\ n \in Nat /\ 0 < n
  BY <1>5, <1>3
<1>11. k # 0
  BY <1>4, <1>10
<1>12. k - 1 \in Nat /\ ~ (k <= k - 1) /\ (k - 1) + 1 = k
  BY <1>10, <1>11
<1>13. ~ (n <= count[k - 1])
  BY <1>9, <1>12
<1>14. k \in S /\ count[k] = n
  BY <1>3, <1>6, <1>10, <1>12, <1>13
<1>15. QED
  BY <1>7, <1>14 DEF Nth

LEMMA WithoutType ==
  ASSUME NEW list \in Seq(Entry), NEW i
  PROVE  Without(list, i) \in Seq(Entry)
<1> DEFINE S == Others(list, i)
<1>1. S \subseteq 1 .. Len(list) /\ Len(list) \in Nat
  BY DEF Others
<1>2. Cardinality(S) \in Nat
  <2>1. IsFiniteSet(1 .. Len(list))
    BY FS_Interval
  <2>2. QED
    BY <2>1, <1>1, FS_Subset, FS_CardinalityType
<1>3. \A n \in 1 .. Cardinality(S) : list[Nth(S, n)] \in Entry
  BY <1>1, NthOf
<1>4. QED
  BY <1>2, <1>3 DEF Without

\* CHOOSE takes the first entry with the id.
LEMMA UntilType ==
  ASSUME now \in 0 .. MaxTime, NEW list \in Seq(Entry), NEW i,
         \E k \in DOMAIN list : list[k].id = i
  PROVE  Until(list, i) \in Seq(Entry)
<1> DEFINE S == {k \in DOMAIN list : list[k].id = i}
           q == CHOOSE k \in DOMAIN list :
                  list[k].id = i /\ \A j \in 1 .. (k - 1) : list[j].id # i
<1>1. S \subseteq Nat /\ S # {}
  OBVIOUS
<1>2. PICK k \in S : \A j \in S : k <= j
  BY <1>1, Least
<1>3. \A j \in 1 .. (k - 1) : list[j].id # i
  <2> SUFFICES ASSUME NEW j \in 1 .. (k - 1), list[j].id = i PROVE FALSE
    OBVIOUS
  <2>1. j \in S
    OBVIOUS
  <2>2. QED
    BY <1>2, <2>1
<1>4. q \in DOMAIN list
  BY <1>2, <1>3
<1>5. now + 1 \in 0 .. MaxTime + 1
  BY ConstantsAssumption
<1>7. Until(list, i) = [list EXCEPT ![q] = [list[q] EXCEPT !.until = now + 1]]
  BY DEF Until
<1> HIDE DEF q
<1>6. [list[q] EXCEPT !.until = now + 1] \in Entry
  <2>1. list[q] \in Entry
    BY <1>4
  <2>2. QED
    BY <2>1, <1>5 DEF Entry
<1>8. QED
  BY <1>4, <1>6, <1>7

\* What one rule decides from any reading.
Decisions == [write : Values \cup {None}, active : BOOLEAN]

LEMMA DecisionType ==
  ASSUME NEW i \in Ids, NEW r, NEW was \in BOOLEAN
  PROVE  EvaluateOne(Rule[i], r, was) \in Decisions
<1> DEFINE rule == Rule[i]
<1> USE DEF Decisions, Decision
<1>1. Restore(rule, was) \in Decisions
  BY ConstantsAssumption DEF Restore
<1>2. ASSUME rule.type = "rule_table"
      PROVE  ActionValue(rule, r) \in Values \cup {None}
  <2> SUFFICES ASSUME GroupHits(rule, r) # {}
               PROVE  FindMatchingRange(rule, r).act \in Values \cup {None}
    BY DEF ActionValue
  <2> DEFINE g == First(GroupHits(rule, r))
             group == rule.groups[g]
             j == First(RangeHits(group, r))
  <2>1. rule.groups \in Seq(Group)
    BY <1>2, ConstantsAssumption
  <2>2. GroupHits(rule, r) \subseteq Nat
    BY <2>1 DEF GroupHits
  <2>3. g \in GroupHits(rule, r)
    BY <2>2, FirstOf
  <2>4. g \in DOMAIN rule.groups /\ RangeHits(group, r) # {}
    BY <2>3 DEF GroupHits
  <2>10. FindMatchingRange(rule, r) = group.ranges[j]
    BY DEF FindMatchingRange
  <2> HIDE DEF g, rule
  <2>11. group \in Group
    BY <2>1, <2>4
  <2> HIDE DEF group
  <2>5. group.ranges \in Seq(RangeRow)
    BY <2>11 DEF Group
  <2>6. RangeHits(group, r) \subseteq Nat
    BY <2>5 DEF RangeHits
  <2>7. j \in RangeHits(group, r)
    BY <2>4, <2>6, FirstOf
  <2> HIDE DEF j
  <2>8. group.ranges[j] \in RangeRow
    BY <2>5, <2>7 DEF RangeHits
  <2>9. QED
    BY <2>8, <2>10 DEF RangeRow
<1>3. CASE rule.type = "rule_table"
  BY <1>1, <1>2, <1>3 DEF EvaluateOne, RuleTable
<1>4. CASE rule.type # "rule_table"
  <2>1. rule.act \in Values \cup {None}
    BY <1>4, ConstantsAssumption
  <2>2. BatteryProtection(rule, r, was) \in Decisions
    BY <1>1, <2>1 DEF BatteryProtection
  <2>3. QED
    BY <1>4, <2>2 DEF EvaluateOne
<1>5. QED
  BY <1>3, <1>4

-----------------------------------------------------------------------------
(***************************************************************************)
(* What DryType leaves of TypeOK, in three parts, each followed through    *)
(* every step together with WorkInv.                                       *)
(***************************************************************************)
OutsideType ==
  /\ enabled \in BOOLEAN /\ rules \in Seq(Entry)
  /\ reg \in [Mapped -> Values]
  /\ reading \in Readings \cup {None} /\ hour \in Hours
  /\ now \in 0 .. MaxTime
  /\ budget \in 0 .. MaxFaults

CopiesType ==
  /\ myEnabled \in [Procs -> BOOLEAN]
  /\ myRules \in [Procs -> Seq(Entry)]
  /\ id \in [Procs -> Ids \cup {None}]

EngineType ==
  /\ last \in [Procs -> [Ids -> BOOLEAN]]
  /\ pos \in [Procs -> Nat] /\ at \in [Procs -> 0 .. MaxTime]
  /\ goal \in [Procs -> Decisions]
  /\ tries \in [Procs -> 0 .. MaxTries - 1]

TypeInv == DryType /\ OutsideType /\ CopiesType /\ EngineType /\ WorkInv

LEMMA TypeParts == DryType /\ OutsideType /\ CopiesType /\ EngineType <=> TypeOK
BY DEF TypeOK, DryType, OutsideType, CopiesType, EngineType, Decisions

LEMMA FaultType ==
  ASSUME OutsideType, NEW kind, Fault(kind)
  PROVE  budget' \in 0 .. MaxFaults
BY ConstantsAssumption DEF OutsideType, Fault

LEMMA ReturnType ==
  ASSUME DryType, CopiesType, EngineType, WorkInv, NEW p \in Procs, Return(p)
  PROVE  CopiesType' /\ EngineType' /\ WorkInv'
<1>1. Idle \in [Ids -> BOOLEAN] /\ NoGoal \in Decisions
  BY DEF Idle, NoGoal, Decisions
<1>2. 0 \in 0 .. MaxTime /\ 0 \in 0 .. MaxTries - 1
  BY ConstantsAssumption
<1>3. <<>> \in Seq(Entry)
  OBVIOUS
<1>4. CopiesType'
  BY <1>3 DEF Return, CopiesType
<1>5. EngineType'
  BY <1>1, <1>2 DEF Return, EngineType
<1>6. WorkInv'
  BY DEF Return, WorkInv, DryType, EngineType
<1>7. QED
  BY <1>4, <1>5, <1>6

\* Where a rule is left, the next one is looked at, and there is one.
LEMMA NextRuleType ==
  ASSUME DryType, EngineType, WorkInv, NEW p \in Procs, NextRule(p),
         last' \in [Procs -> [Ids -> BOOLEAN]], UNCHANGED at
  PROVE  EngineType' /\ WorkInv'
<1>1. NoGoal \in Decisions
  BY DEF NoGoal, Decisions
<1>2. 0 \in 0 .. MaxTries - 1
  BY ConstantsAssumption
<1>5. pos[p] \in Nat /\ pos' = [pos EXCEPT ![p] = pos[p] + 1]
  BY DEF NextRule, EngineType
<1>6. pos' \in [Procs -> Nat]
  BY <1>5 DEF EngineType
<1>3. EngineType'
  BY <1>1, <1>2, <1>6 DEF NextRule, EngineType
<1>4. WorkInv'
  <2>1. pc' = [pc EXCEPT ![p] = "eval"] /\ pos[p] + 1 > 0
    BY <1>5 DEF NextRule, Goto
  <2>2. \A q \in Procs \ {p} : pos'[q] = pos[q] /\ pc'[q] = pc[q] /\ goal'[q] = goal[q]
    BY <1>5, <2>1 DEF NextRule, EngineType, DryType
  <2>3. pos'[p] > 0 /\ pc'[p] = "eval"
    BY <1>5, <2>1 DEF EngineType, DryType
  <2>4. QED
    BY <2>2, <2>3 DEF WorkInv
<1>7. QED
  BY <1>3, <1>4

LEMMA ConcludeType ==
  ASSUME DryType, EngineType, WorkInv, NEW p \in Procs,
         NEW active \in BOOLEAN, Conclude(p, active), UNCHANGED at
  PROVE  EngineType' /\ WorkInv'
<1>1. last' \in [Procs -> [Ids -> BOOLEAN]]
  <2>1. last[p] \in [Ids -> BOOLEAN]
    BY DEF EngineType
  <2>2. [last[p] EXCEPT ![Current(p).id] = active] \in [Ids -> BOOLEAN]
    BY <2>1
  <2>3. last' = [last EXCEPT ![p] = [last[p] EXCEPT ![Current(p).id] = active]]
    BY DEF Conclude
  <2>4. QED
    BY <2>2, <2>3 DEF EngineType
<1>2. NextRule(p)
  BY DEF Conclude
<1>3. QED
  BY <1>1, <1>2, NextRuleType

-----------------------------------------------------------------------------
\* The requests begin.
LEMMA RequestTypes ==
  ASSUME TypeInv, NEW u \in Users, Request(u)
  PROVE  OutsideType' /\ CopiesType' /\ EngineType' /\ WorkInv'
<1> USE DEF TypeInv, Procs
<1>1. ASSUME NEW v \in BOOLEAN, SetEnabled(u, v)
      PROVE  OutsideType' /\ CopiesType' /\ EngineType' /\ WorkInv'
  <2>1. budget' \in 0 .. MaxFaults
    BY <1>1, FaultType DEF SetEnabled, Saved, SaveLost, NoFault, OutsideType
  <2>2. enabled' \in BOOLEAN
    BY <1>1 DEF SetEnabled, OutsideType
  <2>3. UNCHANGED <<rules, world, engine, my, id, pc>>
    BY <1>1 DEF SetEnabled
  <2>4. QED
    BY <2>1, <2>2, <2>3 DEF OutsideType, CopiesType, EngineType, WorkInv,
                            world, engine, my
<1>2. ASSUME NEW v \in BOOLEAN, SetDryRun(u, v)
      PROVE  OutsideType' /\ CopiesType' /\ EngineType' /\ WorkInv'
  <2>1. budget' \in 0 .. MaxFaults
    BY <1>2, FaultType DEF SetDryRun, Saved, SaveLost, NoFault, OutsideType
  <2>2. UNCHANGED <<enabled, rules, world, engine, my, id, pc>>
    BY <1>2 DEF SetDryRun
  <2>3. QED
    BY <2>1, <2>2 DEF OutsideType, CopiesType, EngineType, WorkInv,
                      world, engine, my
<1>3. ASSUME NEW what, NEW label \in Labels \ AtWork, Enter(u, what, label)
      PROVE  OutsideType' /\ EngineType' /\ WorkInv'
  <2>1. UNCHANGED <<rows, world, engine, budget>>
    BY <1>3 DEF Enter
  <2>2. pc' = [pc EXCEPT ![u] = label]
    BY <1>3 DEF Enter
  <2>3. WorkInv'
    BY <1>3, <2>1, <2>2 DEF WorkInv, engine, AtWork, DryType
  <2>4. QED
    BY <2>1, <2>3 DEF OutsideType, EngineType, rows, world, engine
<1>4. ASSUME NEW e \in BOOLEAN, NEW d \in BOOLEAN, NEW list \in Lists,
             Save(u, e, d, list)
      PROVE  OutsideType' /\ CopiesType' /\ EngineType' /\ WorkInv'
  <2>1. list \in Seq(Entry)
    BY ConstantsAssumption
  <2>2. CopiesType'
    BY <1>4, <2>1 DEF Save, CopiesType
  <2>3. Enter(u, "save", "saveEnabled")
    BY <1>4 DEF Save
  <2>4. QED
    BY <1>3, <2>2, <2>3 DEF Labels, AtWork
<1>5. ASSUME NEW i \in Ids, Delete(u, i) \/ Disable(u, i)
      PROVE  OutsideType' /\ CopiesType' /\ EngineType' /\ WorkInv'
  <2>1. CopiesType'
    BY <1>5 DEF Delete, Disable, CopiesType, my
  <2>2. Enter(u, "delete", "readEnabled") \/ Enter(u, "disable", "readEnabled")
    BY <1>5 DEF Delete, Disable
  <2>3. QED
    BY <1>3, <2>1, <2>2 DEF Labels, AtWork
<1>6. CASE Test(u)
  <2>1. CopiesType'
    BY <1>6 DEF Test, CopiesType, my
  <2>2. QED
    BY <1>3, <1>6, <2>1 DEF Test, Labels, AtWork
<1>7. QED
  BY <1>1, <1>2, <1>4, <1>5, <1>6 DEF Request

\* A step of a thread outside the evaluation of a rule.
LEMMA PassType ==
  ASSUME TypeInv, NEW p \in Procs, NEW label \in Labels \ AtWork,
         Goto(p, label), UNCHANGED engine
  PROVE  EngineType' /\ WorkInv'
<1>1. EngineType'
  BY DEF TypeInv, EngineType, engine
<1>2. WorkInv'
  BY DEF TypeInv, WorkInv, Goto, DryType, engine, AtWork
<1>3. QED
  BY <1>1, <1>2

\* Reading one row: the fault it may meet is counted.
LEMMA GotType ==
  ASSUME OutsideType, NEW value, NEW stored, NEW default,
         Got(value, stored, default)
  PROVE  budget' \in 0 .. MaxFaults /\ value \in {stored, default}
BY FaultType DEF Got, NoFault, OutsideType

LEMMA ConfigTypes ==
  ASSUME TypeInv, NEW p \in Procs, ConfigStep(p)
  PROVE  OutsideType' /\ CopiesType' /\ EngineType' /\ WorkInv'
<1> USE DEF TypeInv
<1>1. CASE ReadRulesToEdit(p)
  <2>1. PICK list \in {rules, <<>>} :
          /\ Got(list, rules, <<>>)
          /\ IF \E k \in DOMAIN list : list[k].id = id[p]
             THEN /\ myRules' = [myRules EXCEPT ![p] = Edited(p, list)]
                  /\ Goto(p, "saveEnabled")
                  /\ UNCHANGED <<engine, op, myEnabled, myDry, id, orig, wasOff>>
             ELSE Return(p) /\ Forget({p})
    BY <1>1 DEF ReadRulesToEdit
  <2>2. list \in Seq(Entry)
    <3>1. rules \in Seq(Entry) /\ <<>> \in Seq(Entry)
      BY DEF OutsideType
    <3>2. QED
      BY <3>1
  <2>3. OutsideType'
    <3>1. budget' \in 0 .. MaxFaults
      BY <2>1, GotType
    <3>2. UNCHANGED <<rows, world>>
      BY <1>1 DEF ReadRulesToEdit
    <3>3. QED
      BY <3>1, <3>2 DEF OutsideType, rows, world
  <2>4. CASE \E k \in DOMAIN list : list[k].id = id[p]
    <3>1. Edited(p, list) \in Seq(Entry)
      BY <2>2, <2>4, WithoutType, UntilType DEF Edited, OutsideType
    <3>2. /\ myRules' = [myRules EXCEPT ![p] = Edited(p, list)]
          /\ Goto(p, "saveEnabled") /\ UNCHANGED <<engine, myEnabled, id>>
      BY <2>1, <2>4
    <3>3. CopiesType'
      BY <3>1, <3>2 DEF CopiesType
    <3>4. QED
      BY <2>3, <3>2, <3>3, PassType DEF Labels, AtWork
  <2>5. CASE ~ \E k \in DOMAIN list : list[k].id = id[p]
    BY <2>1, <2>3, <2>5, ReturnType
  <2>6. QED
    BY <2>4, <2>5
<1>2. CASE SaveEnabled(p)
  <2>1. budget' \in 0 .. MaxFaults
    BY <1>2, FaultType DEF SaveEnabled, Saved, SaveLost, NoFault, OutsideType
  <2>2. enabled' \in BOOLEAN
    <3>1. enabled' = myEnabled[p] \/ enabled' = enabled
      BY <1>2 DEF SaveEnabled
    <3>2. myEnabled[p] \in BOOLEAN /\ enabled \in BOOLEAN
      BY DEF OutsideType, CopiesType
    <3>3. QED
      BY <3>1, <3>2
  <2>3. UNCHANGED <<rules, world, my, id, engine>> /\ Goto(p, "saveDry")
    BY <1>2 DEF SaveEnabled
  <2>4. OutsideType' /\ CopiesType'
    BY <2>1, <2>2, <2>3 DEF OutsideType, CopiesType, world, my
  <2>5. QED
    BY <2>3, <2>4, PassType DEF Labels, AtWork
<1>3. CASE SaveDry(p)
  <2>1. budget' \in 0 .. MaxFaults
    BY <1>3, FaultType DEF SaveDry, Saved, SaveLost, NoFault, OutsideType
  <2>2. UNCHANGED <<enabled, rules, world, my, id, engine>> /\ Goto(p, "saveRules")
    BY <1>3 DEF SaveDry
  <2>3. OutsideType' /\ CopiesType'
    BY <2>1, <2>2 DEF OutsideType, CopiesType, world, my
  <2>4. QED
    BY <2>2, <2>3, PassType DEF Labels, AtWork
<1>4. CASE SaveRules(p)
  <2>1. budget' \in 0 .. MaxFaults
    BY <1>4, FaultType DEF SaveRules, Saved, SaveLost, NoFault, OutsideType
  <2>2. rules' \in Seq(Entry)
    BY <1>4 DEF SaveRules, OutsideType, CopiesType
  <2>3. UNCHANGED <<enabled, world>> /\ Return(p)
    BY <1>4 DEF SaveRules
  <2>4. OutsideType'
    BY <2>1, <2>2, <2>3 DEF OutsideType, world
  <2>5. QED
    BY <2>3, <2>4, ReturnType
<1>5. CASE TestRead(p)
  <2>1. budget' \in 0 .. MaxFaults
    BY <1>5, GotType DEF TestRead
  <2>2. UNCHANGED <<rows, world, my, id, engine>> /\ Goto(p, "testForce")
    BY <1>5 DEF TestRead
  <2>3. OutsideType' /\ CopiesType'
    BY <2>1, <2>2 DEF OutsideType, CopiesType, rows, world, my
  <2>4. QED
    BY <2>2, <2>3, PassType DEF Labels, AtWork
<1>6. CASE TestForce(p)
  <2>1. budget' \in 0 .. MaxFaults
    BY <1>6, FaultType DEF TestForce, Saved, SaveLost, NoFault, OutsideType
  <2>2. UNCHANGED <<enabled, rules, world, my, id, engine>> /\ Goto(p, "readEnabled")
    BY <1>6 DEF TestForce
  <2>3. OutsideType' /\ CopiesType'
    BY <2>1, <2>2 DEF OutsideType, CopiesType, world, my
  <2>4. QED
    BY <2>2, <2>3, PassType DEF Labels, AtWork
<1>7. CASE TestRestore(p)
  <2>1. budget' \in 0 .. MaxFaults
    BY <1>7, FaultType DEF TestRestore, Saved, SaveLost, NoFault, OutsideType
  <2>2. UNCHANGED <<enabled, rules, world>> /\ Return(p)
    BY <1>7 DEF TestRestore
  <2>3. OutsideType'
    BY <2>1, <2>2 DEF OutsideType, world
  <2>4. QED
    BY <2>2, <2>3, ReturnType
<1>8. QED
  BY <1>1, <1>2, <1>3, <1>4, <1>5, <1>6, <1>7 DEF ConfigStep

-----------------------------------------------------------------------------
\* While a rule is at work, the list has an entry at its position.
LEMMA CurrentType ==
  ASSUME TypeInv, NEW p \in Procs, AtRule(p)
  PROVE  Current(p) \in Entry
<1>1. pos[p] \in Nat /\ pos[p] > 0 /\ pos[p] <= Len(myRules[p])
  BY DEF TypeInv, EngineType, WorkInv, AtRule
<1>2. myRules[p] \in Seq(Entry)
  BY DEF TypeInv, CopiesType
<1>3. QED
  BY <1>1, <1>2 DEF Current

LEMMA DecidedType ==
  ASSUME TypeInv, NEW p \in Procs, AtRule(p)
  PROVE  Decided(p) \in Decisions
<1>1. Current(p).id \in Ids
  BY CurrentType DEF Entry
<1>2. last[p][Current(p).id] \in BOOLEAN
  BY <1>1 DEF TypeInv, EngineType
<1>3. QED
  BY <1>1, <1>2, DecisionType DEF Decided

\* The steps of _do_write: what is common to the three.
LEMMA WritingTypes ==
  ASSUME TypeInv, NEW p \in Procs, pc[p] \in {"read", "write", "verify"},
         UNCHANGED at,
         \/ Concludes(p)
         \/ Raises(p)
         \/ /\ UNCHANGED <<last, pos, goal>>
            /\ tries' \in [Procs -> 0 .. MaxTries - 1]
            /\ \E label \in {"read", "write", "verify"} : Goto(p, label)
  PROVE  EngineType' /\ WorkInv'
<1> USE DEF TypeInv
<1>1. CASE Concludes(p)
  <2>1. goal[p].active \in BOOLEAN
    BY DEF EngineType, Decisions
  <2>2. QED
    BY <1>1, <2>1, ConcludeType DEF Concludes
<1>2. CASE Raises(p)
  BY <1>2, NextRuleType DEF Raises, EngineType
<1>3. CASE /\ UNCHANGED <<last, pos, goal>>
           /\ tries' \in [Procs -> 0 .. MaxTries - 1]
           /\ \E label \in {"read", "write", "verify"} : Goto(p, label)
  <2>1. EngineType'
    BY <1>3 DEF EngineType
  <2>2. WorkInv'
    BY <1>3 DEF WorkInv, Goto, DryType
  <2>3. QED
    BY <2>1, <2>2
<1>4. QED
  BY <1>1, <1>2, <1>3

LEMMA EngineTypes ==
  ASSUME TypeInv, NEW p \in Procs, EngineStep(p)
  PROVE  OutsideType' /\ CopiesType' /\ EngineType' /\ WorkInv'
<1> USE DEF TypeInv
<1>1. CASE ReadEnabled(p)
  <2>1. PICK v \in BOOLEAN : /\ Got(v, enabled, FALSE)
                             /\ myEnabled' = [myEnabled EXCEPT ![p] = v]
    BY <1>1 DEF ReadEnabled
  <2>2. UNCHANGED <<rows, world, engine, myRules, id>> /\ Goto(p, "readDry")
    BY <1>1 DEF ReadEnabled
  <2>3. OutsideType'
    BY <2>1, <2>2, GotType DEF OutsideType, rows, world
  <2>4. CopiesType'
    BY <2>1, <2>2 DEF CopiesType
  <2>5. QED
    BY <2>2, <2>3, <2>4, PassType DEF Labels, AtWork
<1>2. CASE ReadDry(p)
  <2>1. budget' \in 0 .. MaxFaults
    BY <1>2, GotType DEF ReadDry
  <2>2. UNCHANGED <<rows, world, engine, myEnabled, myRules, id>> /\ Goto(p, "readRules")
    BY <1>2 DEF ReadDry
  <2>3. OutsideType' /\ CopiesType'
    BY <2>1, <2>2 DEF OutsideType, CopiesType, rows, world
  <2>4. QED
    BY <2>2, <2>3, PassType DEF Labels, AtWork
<1>3. CASE ReadRules(p)
  <2>1. PICK list \in {rules, <<>>} : /\ Got(list, rules, <<>>)
                                      /\ myRules' = [myRules EXCEPT ![p] = list]
    BY <1>3 DEF ReadRules
  <2>2. list \in Seq(Entry)
    <3>1. rules \in Seq(Entry) /\ <<>> \in Seq(Entry)
      BY DEF OutsideType
    <3>2. QED
      BY <3>1
  <2>3. /\ pos' = [pos EXCEPT ![p] = 1] /\ at' = [at EXCEPT ![p] = now]
        /\ Goto(p, "eval")
        /\ UNCHANGED <<rows, world, last, goal, tries, myEnabled, id>>
    BY <1>3 DEF ReadRules
  <2>4. OutsideType'
    BY <2>1, <2>3, GotType DEF OutsideType, rows, world
  <2>5. CopiesType'
    BY <2>1, <2>2, <2>3 DEF CopiesType
  <2>6. EngineType'
    BY <2>3 DEF EngineType, OutsideType
  <2>7. WorkInv'
    BY <2>3 DEF WorkInv, Goto, DryType, EngineType
  <2>8. QED
    BY <2>4, <2>5, <2>6, <2>7
<1>4. CASE SkipRule(p)
  <2>1. UNCHANGED <<rows, world, my, id, last, at, obs>> /\ NextRule(p)
    BY <1>4 DEF SkipRule
  <2>2. OutsideType' /\ CopiesType'
    BY <2>1 DEF OutsideType, CopiesType, rows, world, my, obs
  <2>3. QED
    BY <2>1, <2>2, NextRuleType DEF EngineType
<1>5. CASE EvaluateRule(p)
  <2>1. /\ UNCHANGED <<rows, world, my, id, at, obs>>
        /\ AtRule(p) /\ Conclude(p, Decided(p).active)
    BY <1>5 DEF EvaluateRule
  <2>2. OutsideType' /\ CopiesType'
    BY <2>1 DEF OutsideType, CopiesType, rows, world, my, obs
  <2>3. Decided(p).active \in BOOLEAN
    BY <2>1, DecidedType DEF Decisions
  <2>4. QED
    BY <2>1, <2>2, <2>3, ConcludeType
<1>6. CASE BeginWrite(p)
  <2>1. /\ UNCHANGED <<rows, world, my, id, last, pos, at, tries, obs>>
        /\ AtRule(p) /\ Goto(p, "read")
        /\ goal' = [goal EXCEPT ![p] = Decided(p)]
        /\ Decided(p).write # None
    BY <1>6 DEF BeginWrite, LogOnly
  <2>2. OutsideType' /\ CopiesType'
    BY <2>1 DEF OutsideType, CopiesType, rows, world, my, obs
  <2>3. EngineType'
    BY <2>1, DecidedType DEF EngineType
  <2>4. WorkInv'
    <3> DEFINE d == Decided(p)
    <3>1. goal' = [goal EXCEPT ![p] = d] /\ d.write # None
      BY <2>1
    <3> HIDE DEF d
    <3>2. QED
      BY <2>1, <3>1 DEF WorkInv, Goto, AtRule, DryType, EngineType
  <2>5. QED
    BY <2>2, <2>3, <2>4
<1>7. CASE EndRound(p)
  <2>1. UNCHANGED <<rows, world, budget>>
    BY <1>7 DEF EndRound
  <2>2. OutsideType'
    BY <2>1 DEF OutsideType, rows, world
  <2>3. \/ Return(p)
        \/ Goto(p, "testRestore") /\ UNCHANGED <<engine, my, id>>
    BY <1>7 DEF EndRound
  <2>4. CASE Goto(p, "testRestore") /\ UNCHANGED <<engine, my, id>>
    <3>1. CopiesType'
      BY <2>4 DEF CopiesType, my
    <3>2. QED
      BY <2>2, <2>4, <3>1, PassType DEF Labels, AtWork
  <2>5. QED
    BY <2>2, <2>3, <2>4, ReturnType
<1>8. CASE ReadCurrent(p)
  <2>1. UNCHANGED <<rows, world, at, my, id>>
    BY <1>8 DEF ReadCurrent
  <2>2. budget' \in 0 .. MaxFaults
    BY <1>8, FaultType DEF ReadCurrent, Raises, NoFault, OutsideType
  <2>3. OutsideType' /\ CopiesType'
    BY <2>1, <2>2 DEF OutsideType, CopiesType, rows, world, my
  <2>4. pc[p] = "read"
    BY <1>8 DEF ReadCurrent
  <2>5. \/ Concludes(p)
        \/ Raises(p)
        \/ UNCHANGED <<last, pos, goal, tries>> /\ Goto(p, "write")
    BY <1>8 DEF ReadCurrent
  <2>6. QED
    BY <2>1, <2>3, <2>4, <2>5, WritingTypes DEF EngineType
<1>9. CASE WriteReg(p)
  <2>1. PICK applied \in BOOLEAN :
          /\ reg' = IF applied THEN [reg EXCEPT ![Register(p)] = goal[p].write]
                    ELSE reg
          /\ \/ /\ (applied /\ NoFault) \/ (~applied /\ Fault("echo"))
                /\ Goto(p, "verify") /\ UNCHANGED <<last, pos, goal, tries>>
             \/ /\ (applied /\ Fault("lost")) \/ (~applied /\ Fault("refused"))
                /\ Concludes(p)
             \/ Raises(p)
    BY <1>9 DEF WriteReg
  <2>2. UNCHANGED <<rows, reading, hour, now, at, my, id>> /\ pc[p] = "write"
    BY <1>9 DEF WriteReg
  <2>3. goal[p].write \in Values
    BY <2>2 DEF WorkInv, EngineType, Decisions
  <2>4. reg' \in [Mapped -> Values]
    BY <2>1, <2>3 DEF OutsideType
  <2>5. budget' \in 0 .. MaxFaults
    BY <2>1, FaultType DEF Raises, NoFault, OutsideType
  <2>6. OutsideType' /\ CopiesType'
    BY <2>2, <2>4, <2>5 DEF OutsideType, CopiesType, rows, my
  <2>7. \/ Concludes(p)
        \/ Raises(p)
        \/ UNCHANGED <<last, pos, goal, tries>> /\ Goto(p, "verify")
    BY <2>1
  <2>8. QED
    BY <2>2, <2>6, <2>7, WritingTypes DEF EngineType
<1>10. CASE Verify(p)
  <2>1. UNCHANGED <<rows, world, at, my, id>> /\ pc[p] = "verify"
    BY <1>10 DEF Verify
  <2>2. budget' \in 0 .. MaxFaults
    BY <1>10, FaultType DEF Verify, Raises, NoFault, OutsideType
  <2>3. OutsideType' /\ CopiesType'
    BY <2>1, <2>2 DEF OutsideType, CopiesType, rows, world, my
  <2>4. \/ Concludes(p)
        \/ Raises(p)
        \/ /\ tries[p] + 1 < MaxTries
           /\ tries' = [tries EXCEPT ![p] = tries[p] + 1]
           /\ UNCHANGED <<last, pos, goal, pc>>
    BY <1>10 DEF Verify
  <2>5. CASE /\ tries[p] + 1 < MaxTries
             /\ tries' = [tries EXCEPT ![p] = tries[p] + 1]
             /\ UNCHANGED <<last, pos, goal, pc>>
    <3>1. tries[p] + 1 \in 0 .. MaxTries - 1
      BY <2>5, ConstantsAssumption DEF EngineType
    <3>2. EngineType'
      BY <2>1, <2>5, <3>1 DEF EngineType
    <3>3. WorkInv'
      BY <2>5 DEF WorkInv
    <3>4. QED
      BY <2>3, <3>2, <3>3
  <2>6. QED
    BY <2>1, <2>3, <2>4, <2>5, WritingTypes
<1>11. QED
  BY <1>1, <1>2, <1>3, <1>4, <1>5, <1>6, <1>7, <1>8, <1>9, <1>10 DEF EngineStep

LEMMA WorldTypes ==
  ASSUME TypeInv, World
  PROVE  OutsideType' /\ CopiesType' /\ EngineType' /\ WorkInv'
<1> USE DEF TypeInv
<1>1. ASSUME NEW r \in Readings \cup {None}, NewReading(r)
      PROVE  OutsideType' /\ CopiesType' /\ EngineType' /\ WorkInv'
  BY <1>1 DEF NewReading, OutsideType, CopiesType, EngineType, WorkInv,
              rows, engine, my, obs
<1>2. ASSUME NEW h \in Hours, NewHour(h)
      PROVE  OutsideType' /\ CopiesType' /\ EngineType' /\ WorkInv'
  BY <1>2 DEF NewHour, OutsideType, CopiesType, EngineType, WorkInv,
              rows, engine, my, obs
<1>3. CASE TimePasses
  <2>1. now' \in 0 .. MaxTime
    BY <1>3, ConstantsAssumption DEF TimePasses, OutsideType
  <2>2. UNCHANGED <<rows, reg, reading, hour, engine, pc, my, id, obs>>
    BY <1>3 DEF TimePasses
  <2>3. QED
    BY <2>1, <2>2 DEF OutsideType, CopiesType, EngineType, WorkInv,
                      rows, engine, my, obs
<1>4. ASSUME NEW s \in Mapped, NEW v \in Values, PanelWrite(s, v)
      PROVE  OutsideType' /\ CopiesType' /\ EngineType' /\ WorkInv'
  BY <1>4 DEF PanelWrite, OutsideType, CopiesType, EngineType, WorkInv,
              rows, engine, my, obs
<1>5. ASSUME NEW ps \in {Users, {Collector}}, Crash(ps)
      PROVE  OutsideType' /\ CopiesType' /\ EngineType' /\ WorkInv'
  <2>1. budget' \in 0 .. MaxFaults
    BY <1>5, FaultType DEF Crash
  <2>2. OutsideType'
    BY <1>5, <2>1 DEF Crash, OutsideType, rows, world
  <2>3. CopiesType'
    <3>1. <<>> \in Seq(Entry)
      OBVIOUS
    <3>2. myRules' \in [Procs -> Seq(Entry)] /\ id' \in [Procs -> Ids \cup {None}]
      BY <1>5, <3>1 DEF Crash, CopiesType
    <3>3. myEnabled' \in [Procs -> BOOLEAN]
      BY <1>5 DEF Crash, CopiesType
    <3>4. QED
      BY <3>2, <3>3 DEF CopiesType
  <2>4. EngineType'
    <3>1. Idle \in [Ids -> BOOLEAN] /\ NoGoal \in Decisions
      BY DEF Idle, NoGoal, Decisions
    <3>2. 0 \in 0 .. MaxTime /\ 0 \in 0 .. MaxTries - 1
      BY ConstantsAssumption
    <3>3. last' \in [Procs -> [Ids -> BOOLEAN]]
      BY <1>5, <3>1 DEF Crash, EngineType
    <3>4. /\ pos' \in [Procs -> Nat] /\ at' \in [Procs -> 0 .. MaxTime]
          /\ goal' \in [Procs -> Decisions]
          /\ tries' \in [Procs -> 0 .. MaxTries - 1]
      BY <1>5, <3>1, <3>2 DEF Crash, EngineType
    <3>5. QED
      BY <3>3, <3>4 DEF EngineType
  <2>5. WorkInv'
    BY <1>5 DEF Crash, WorkInv
  <2>6. QED
    BY <2>2, <2>3, <2>4, <2>5
<1>6. QED
  BY <1>1, <1>2, <1>3, <1>4, <1>5 DEF World

\* The rows, the threads' copies of them and the engine keep their types: the
\* engine leaves the list of rules only at its end, the reads of a
\* verification stop at their limit, and a register is only given a value
\* that a rule of the configuration asks for.
THEOREM AutomationIsTyped == Spec => []TypeOK
<1>1. ASSUME Init PROVE TypeInv
  <2>1. DryType
    BY <1>1 DEF Init, DryType, Labels, Ops
  <2>2. OutsideType
    <3>1. <<>> \in Seq(Entry) /\ 0 \in 0 .. MaxTime /\ MaxFaults \in 0 .. MaxFaults
      BY ConstantsAssumption
    <3>2. QED
      BY <1>1, <3>1 DEF Init, OutsideType
  <2>3. CopiesType
    <3>1. <<>> \in Seq(Entry)
      OBVIOUS
    <3>2. QED
      BY <1>1, <3>1 DEF Init, CopiesType
  <2>4. EngineType
    <3>1. Idle \in [Ids -> BOOLEAN] /\ NoGoal \in Decisions
      BY DEF Idle, NoGoal, Decisions
    <3>2. 0 \in 0 .. MaxTime /\ 0 \in 0 .. MaxTries - 1
      BY ConstantsAssumption
    <3>3. QED
      BY <1>1, <3>1, <3>2 DEF Init, EngineType
  <2>5. WorkInv
    BY <1>1 DEF Init, WorkInv
  <2>6. QED
    BY <2>1, <2>2, <2>3, <2>4, <2>5 DEF TypeInv
<1>2. ASSUME TypeInv, [Next]_vars PROVE TypeInv'
  <2>1. DryType'
    BY <1>2, NextDryType DEF TypeInv
  <2>2. CASE \E u \in Users : Request(u)
    BY <1>2, <2>1, <2>2, RequestTypes DEF TypeInv
  <2>3. CASE Round
    <3>1. /\ UNCHANGED <<rows, world, engine, my, id, budget>>
          /\ pc' = [pc EXCEPT ![Collector] = "readEnabled"]
      BY <2>3 DEF Round, Enter
    <3>2. OutsideType' /\ CopiesType' /\ EngineType'
      BY <1>2, <3>1 DEF TypeInv, OutsideType, CopiesType, EngineType,
                        rows, world, engine, my
    <3>3. WorkInv'
      BY <1>2, <3>1 DEF TypeInv, WorkInv, DryType, engine
    <3>4. QED
      BY <2>1, <3>2, <3>3 DEF TypeInv
  <2>4. CASE \E p \in Procs : Step(p)
    BY <1>2, <2>1, <2>4, EngineTypes, ConfigTypes DEF TypeInv, Step
  <2>5. CASE World
    BY <1>2, <2>1, <2>5, WorldTypes DEF TypeInv
  <2>6. CASE UNCHANGED vars
    <3>1. OutsideType' /\ CopiesType' /\ EngineType' /\ WorkInv'
      BY <1>2, <2>6 DEF TypeInv, OutsideType, CopiesType, EngineType, WorkInv,
                        vars, rows, world, engine, my, obs
    <3>2. QED
      BY <2>1, <3>1 DEF TypeInv
  <2>7. QED
    BY <1>2, <2>2, <2>3, <2>4, <2>5, <2>6 DEF Next
<1>3. TypeInv => TypeOK
  BY TypeParts DEF TypeInv
<1>4. QED
  BY <1>1, <1>2, <1>3, PTL DEF Spec
=============================================================================
