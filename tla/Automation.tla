----------------------------- MODULE Automation -----------------------------
(***************************************************************************)
(* The automation engine (collector/automation.py: AutomationEngine) as    *)
(* its two users run it.  The collector's writer loop evaluates the rules  *)
(* after every snapshot.  The API's handler threads (api/__init__.py)      *)
(* change the configuration, and evaluate the rules with dry-run forced    *)
(* on (the test endpoint).  They share three rows of lux_settings, which   *)
(* are read and written one at a time, and the inverter's registers.       *)
(*                                                                         *)
(* A rule's values are the raw values _do_write computes (clamped and      *)
(* scaled); a condition is the set of readings, or times, it accepts.      *)
(* Rules that write nothing (notify, battery_soc) are left out.            *)
(***************************************************************************)
EXTENDS Integers, Sequences, FiniteSets

CONSTANTS
  Collector,   \* the collector's writer thread
  Users,       \* handler threads of the API
  Ids,         \* the ids automations may have
  Rule,        \* the definition of each of them
  Settings,    \* setting names
  Mapped,      \* those mapped to a register the model supports
  Values,      \* raw register values
  Readings,    \* sensor readings conditions tell apart
  Hours,       \* times conditions tell apart
  None,        \* no value, no reading, no setting
  Lists,       \* lists of automations a POST may save
  MaxTime,     \* bound on the clock
  MaxTries,    \* reads of a verification (4)
  Faults,      \* kinds of fault that may happen
  MaxFaults    \* bound: how many faults happen

FaultKinds == {"dbread", "dbwrite", "read", "echo", "lost", "refused",
               "raise", "crash"}

Condition == [on : {"time"}, in : SUBSET Hours]
             \cup [on : {"sensor"}, in : SUBSET Readings]
\* The source's Range.
RangeRow  == [when : Condition, act : Values \cup {None}]
Group     == [when : Condition, ranges : Seq(RangeRow)]

\* An automation in the list: its id, enabled and disabled_until.
Entry == [id : Ids, on : BOOLEAN, until : 0 .. MaxTime + 1]

ASSUME ConstantsAssumption ==
  /\ Collector \notin Users
  /\ None \notin Values \cup Readings \cup Settings
  /\ Mapped \subseteq Settings
  /\ Hours # {}
  /\ MaxTime \in Nat /\ MaxTries \in Nat \ {0} /\ MaxFaults \in Nat
  /\ Faults \subseteq FaultKinds
  /\ Lists \subseteq Seq(Entry)
  /\ \A i \in Ids :
       /\ Rule[i].type \in {"rule_table", "battery_protection"}
       /\ Rule[i].setting \in Settings \cup {None}
       /\ Rule[i].restore \in Values \cup {None}
       /\ Rule[i].type = "rule_table" => Rule[i].groups \in Seq(Group)
       /\ Rule[i].type = "battery_protection" =>
            Rule[i].low \subseteq Readings /\ Rule[i].act \in Values \cup {None}

Procs == Users \cup {Collector}

VARIABLES
  enabled, dryRun, rules,  \* the three rows of lux_settings
  reg,      \* the register behind each mapped setting
  reading,  \* the sensors, as the latest snapshot has them
  hour,     \* the time of day
  now,      \* the clock disabled_until is compared with
  last,     \* _last_eval of the collector's engine and of each request's
  pc,       \* the next step of each thread
  op,       \* what it is doing
  myEnabled, myDry, myRules,  \* its copies of the three rows
  id,       \* delete, disable: the id in the request
  orig,     \* test: the dry-run setting to put back
  pos,      \* engine: the position of the rule it is at
  at,       \* engine: the time the round compares disabled_until with
  goal,     \* _do_write: what to write, and the rule's next _last_eval
  tries     \* _do_write: reads of the verification so far

(***************************************************************************)
(* Observation variables: faults left; whether two requests that write the *)
(* configuration were ever under way together; the dry-run setting last    *)
(* asked for; whether dry-run was off at some moment of the running round. *)
(***************************************************************************)
VARIABLES budget, overlapped, wanted, wasOff

rows   == <<enabled, dryRun, rules>>
world  == <<reg, reading, hour, now>>
engine == <<last, pos, at, goal, tries>>
obs    == <<budget, overlapped, wanted, wasOff>>
my     == <<myEnabled, myDry, myRules>>
vars   == <<rows, world, engine, pc, op, my, id, orig, obs>>

NoGoal == [write |-> None, active |-> FALSE]
Idle   == [i \in Ids |-> FALSE]

-----------------------------------------------------------------------------
NoFault == UNCHANGED budget

Fault(kind) == kind \in Faults /\ budget > 0 /\ budget' = budget - 1

\* _get_setting(): the row, or the default when the database fails.
Got(value, stored, default) ==
  \/ NoFault /\ value = stored
  \/ Fault("dbread") /\ value = default

\* _set_setting(): a failure is logged and otherwise ignored.
Saved == NoFault
SaveLost == Fault("dbwrite")

\* Somebody else's request is between its first and its last step.
OthersBusy(p) == \E q \in Users \ {p} : pc[q] # "idle"

Goto(p, label) == pc' = [pc EXCEPT ![p] = label]

\* The call returns; what it knew is gone, but the collector keeps its engine.
Return(p) ==
  /\ last' = IF p = Collector THEN last ELSE [last EXCEPT ![p] = Idle]
  /\ pc' = [pc EXCEPT ![p] = "idle"]
  /\ op' = [op EXCEPT ![p] = "none"]
  /\ myEnabled' = [myEnabled EXCEPT ![p] = FALSE]
  /\ myDry' = [myDry EXCEPT ![p] = TRUE]
  /\ myRules' = [myRules EXCEPT ![p] = <<>>]
  /\ id' = [id EXCEPT ![p] = None]
  /\ orig' = [orig EXCEPT ![p] = TRUE]
  /\ pos' = [pos EXCEPT ![p] = 0]
  /\ at' = [at EXCEPT ![p] = 0]
  /\ goal' = [goal EXCEPT ![p] = NoGoal]
  /\ tries' = [tries EXCEPT ![p] = 0]

Enter(p, what, label) ==
  /\ pc[p] = "idle"
  /\ pc' = [pc EXCEPT ![p] = label]
  /\ op' = [op EXCEPT ![p] = what]
  /\ overlapped' = (overlapped \/ (p \in Users /\ OthersBusy(p)))
  /\ UNCHANGED <<rows, world, engine, orig, budget, wanted>>

\* Every write of the dry-run row, for the rounds that are under way.
NoteOff(returning) ==
  wasOff' = [p \in Procs |-> /\ p \notin returning
                             /\ wasOff[p] \/ (op[p] # "none" /\ ~dryRun')]

Forget(ps) == wasOff' = [p \in Procs |-> p \notin ps /\ wasOff[p]]

-----------------------------------------------------------------------------
(***************************************************************************)
(* Requests that set one row.                                              *)
(***************************************************************************)
SetEnabled(u, v) ==
  /\ pc[u] = "idle"
  /\ \/ Saved /\ enabled' = v
     \/ SaveLost /\ UNCHANGED enabled
  /\ overlapped' = (overlapped \/ OthersBusy(u))
  /\ UNCHANGED <<dryRun, rules, world, engine, pc, op, my, id, orig, wanted,
                 wasOff>>

SetDryRun(u, v) ==
  /\ pc[u] = "idle"
  /\ \/ Saved /\ dryRun' = v /\ wanted' = v
     \/ SaveLost /\ UNCHANGED <<dryRun, wanted>>
  /\ NoteOff({})
  /\ overlapped' = (overlapped \/ OthersBusy(u))
  /\ UNCHANGED <<enabled, rules, world, engine, pc, op, my, id, orig>>

(***************************************************************************)
(* Requests that replace the configuration, delete an automation or        *)
(* disable one for a while: load_dict() and save_dict().                   *)
(***************************************************************************)
Save(u, e, d, list) ==
  /\ Enter(u, "save", "saveEnabled")
  /\ myEnabled' = [myEnabled EXCEPT ![u] = e]
  /\ myDry' = [myDry EXCEPT ![u] = d]
  /\ myRules' = [myRules EXCEPT ![u] = list]
  /\ UNCHANGED <<id, wasOff>>

Delete(u, i) ==
  /\ Enter(u, "delete", "readEnabled")
  /\ id' = [id EXCEPT ![u] = i]
  /\ UNCHANGED <<my, wasOff>>

Disable(u, i) ==
  /\ Enter(u, "disable", "readEnabled")
  /\ id' = [id EXCEPT ![u] = i]
  /\ UNCHANGED <<my, wasOff>>

ReadEnabled(p) ==
  /\ pc[p] = "readEnabled"
  /\ \E v \in BOOLEAN :
       /\ Got(v, enabled, FALSE)
       /\ myEnabled' = [myEnabled EXCEPT ![p] = v]
  /\ Goto(p, "readDry")
  /\ UNCHANGED <<myDry, myRules>>
  /\ UNCHANGED <<rows, world, engine, op, id, orig, overlapped, wanted,
                 wasOff>>

\* Mutant of ReadDry: a setting that cannot be read counts as off.
ReadDryDefaultOff(p) ==
  /\ pc[p] = "readDry"
  /\ \E v \in BOOLEAN :
       /\ Got(v, dryRun, FALSE)
       /\ myDry' = [myDry EXCEPT ![p] = v]
  /\ Goto(p, "readRules")
  /\ UNCHANGED <<myEnabled, myRules>>
  /\ UNCHANGED <<rows, world, engine, op, id, orig, overlapped, wanted,
                 wasOff>>

ReadDry(p) ==
  /\ pc[p] = "readDry"
  /\ \E v \in BOOLEAN :
       /\ Got(v, dryRun, TRUE)
       /\ myDry' = [myDry EXCEPT ![p] = v]
  /\ Goto(p, "readRules")
  /\ UNCHANGED <<myEnabled, myRules>>
  /\ UNCHANGED <<rows, world, engine, op, id, orig, overlapped, wanted,
                 wasOff>>

\* The list without the automation, or with its new disabled_until.
Others(list, i) == {k \in DOMAIN list : list[k].id # i}
Nth(S, n) == CHOOSE k \in S : Cardinality({j \in S : j <= k}) = n
Without(list, i) ==
  [n \in 1 .. Cardinality(Others(list, i)) |-> list[Nth(Others(list, i), n)]]
Until(list, i)   ==
  LET k == CHOOSE k \in DOMAIN list :
             list[k].id = i /\ \A j \in 1 .. (k - 1) : list[j].id # i
  IN  [list EXCEPT ![k].until = now + 1]

Edited(u, list) ==
  IF op[u] = "delete" THEN Without(list, id[u]) ELSE Until(list, id[u])

\* load_dict() of a delete or disable ends; an unknown id is a 404.
ReadRulesToEdit(u) ==
  /\ pc[u] = "readRules" /\ op[u] \in {"delete", "disable"}
  /\ \E list \in {rules, <<>>} :
       /\ Got(list, rules, <<>>)
       /\ IF \E k \in DOMAIN list : list[k].id = id[u]
          THEN /\ myRules' = [myRules EXCEPT ![u] = Edited(u, list)]
               /\ Goto(u, "saveEnabled")
               /\ UNCHANGED <<engine, op, myEnabled, myDry, id, orig, wasOff>>
          ELSE Return(u) /\ Forget({u})
  /\ UNCHANGED <<rows, world, overlapped, wanted>>

SaveEnabled(u) ==
  /\ pc[u] = "saveEnabled"
  /\ \/ Saved /\ enabled' = myEnabled[u]
     \/ SaveLost /\ UNCHANGED enabled
  /\ Goto(u, "saveDry")
  /\ UNCHANGED <<dryRun, rules, world, engine, op, my, id, orig, overlapped,
                 wanted, wasOff>>

SaveDry(u) ==
  /\ pc[u] = "saveDry"
  /\ \/ /\ Saved
        /\ dryRun' = myDry[u]
        /\ wanted' = IF op[u] = "save" THEN myDry[u] ELSE wanted
     \/ SaveLost /\ UNCHANGED <<dryRun, wanted>>
  /\ NoteOff({})
  /\ Goto(u, "saveRules")
  /\ UNCHANGED <<enabled, rules, world, engine, op, my, id, orig, overlapped>>

SaveRules(u) ==
  /\ pc[u] = "saveRules"
  /\ \/ Saved /\ rules' = myRules[u]
     \/ SaveLost /\ UNCHANGED rules
  /\ Return(u)
  /\ Forget({u})
  /\ UNCHANGED <<enabled, dryRun, world, overlapped, wanted>>

-----------------------------------------------------------------------------
(***************************************************************************)
(* The test endpoint: force dry-run, evaluate, put the setting back.       *)
(***************************************************************************)
Test(u) ==
  /\ Enter(u, "test", "testRead")
  /\ UNCHANGED <<my, id, wasOff>>

TestRead(u) ==
  /\ pc[u] = "testRead"
  /\ \E v \in BOOLEAN :
       /\ Got(v, dryRun, TRUE)
       /\ orig' = [orig EXCEPT ![u] = v]
  /\ Goto(u, "testForce")
  /\ UNCHANGED <<rows, world, engine, op, my, id, overlapped, wanted, wasOff>>

TestForce(u) ==
  /\ pc[u] = "testForce"
  /\ \/ Saved /\ dryRun' = TRUE
     \/ SaveLost /\ UNCHANGED dryRun
  /\ wasOff' = [wasOff EXCEPT ![u] = ~dryRun']
  /\ Goto(u, "readEnabled")
  /\ UNCHANGED <<enabled, rules, world, engine, op, my, id, orig, overlapped,
                 wanted>>

TestRestore(u) ==
  /\ pc[u] = "testRestore"
  /\ \/ Saved /\ dryRun' = orig[u]
     \/ SaveLost /\ UNCHANGED dryRun
  /\ Return(u)
  /\ NoteOff({u})
  /\ UNCHANGED <<enabled, rules, world, overlapped, wanted>>

-----------------------------------------------------------------------------
(***************************************************************************)
(* evaluate_and_apply(): the three rows are read once, then one rule after *)
(* the other is evaluated.                                                 *)
(***************************************************************************)
Round ==
  /\ Enter(Collector, "round", "readEnabled")
  /\ wasOff' = [wasOff EXCEPT ![Collector] = ~dryRun]
  /\ UNCHANGED <<my, id>>

ReadRules(p) ==
  /\ pc[p] = "readRules" /\ op[p] \in {"round", "test"}
  /\ \E list \in {rules, <<>>} :
       /\ Got(list, rules, <<>>)
       /\ myRules' = [myRules EXCEPT ![p] = list]
  /\ pos' = [pos EXCEPT ![p] = 1]
  /\ at' = [at EXCEPT ![p] = now]
  /\ Goto(p, "eval")
  /\ UNCHANGED <<rows, world, last, goal, tries, op, myEnabled, myDry, id,
                 orig, overlapped, wanted, wasOff>>

\* The readings the engine sees.  The test endpoint hands over a record
\* that keeps the readings under "registers", where _sensor_value does not
\* look, so that every reading is missing.
Seen(p) == IF p = Collector THEN reading ELSE None

\* _condition_matches(), with the reading given
Holds(c, r) == IF c.on = "time" THEN hour \in c.in ELSE r \in c.in

\* _find_matching_range(): the first range, in the order of the table, that
\* matches itself and whose group matches
First(S) == CHOOSE i \in S : \A j \in S : i <= j

RangeHits(group, r) ==
  {j \in DOMAIN group.ranges : Holds(group.ranges[j].when, r)}

GroupHits(rule, r) ==
  {i \in DOMAIN rule.groups : /\ Holds(rule.groups[i].when, r)
                              /\ RangeHits(rule.groups[i], r) # {}}

FindMatchingRange(rule, r) ==
  LET group == rule.groups[First(GroupHits(rule, r))]
  IN  group.ranges[First(RangeHits(group, r))]

ActionValue(rule, r) ==
  IF GroupHits(rule, r) = {} \/ rule.setting = None THEN None
  ELSE FindMatchingRange(rule, r).act

(***************************************************************************)
(* _evaluate_one(): what to write, if anything, and the rule's next        *)
(* _last_eval, from a reading and its present _last_eval.                  *)
(***************************************************************************)
Decision(write, active) == [write |-> write, active |-> active]

Restore(rule, was) ==
  Decision(IF was /\ rule.setting # None THEN rule.restore ELSE None, FALSE)

RuleTable(rule, r, was) ==
  IF ActionValue(rule, r) # None THEN Decision(ActionValue(rule, r), TRUE)
  ELSE Restore(rule, was)

\* Mutant of BatteryProtection: the value is written only when the rule
\* begins to match.
BatteryProtectionOnce(rule, r, was) ==
  IF r = None THEN Decision(None, was)
  ELSE IF r \in rule.low THEN Decision(IF was THEN None ELSE rule.act, TRUE)
  ELSE Restore(rule, was)

BatteryProtection(rule, r, was) ==
  IF r = None THEN Decision(None, was)
  ELSE IF r \in rule.low THEN Decision(rule.act, TRUE)
  ELSE Restore(rule, was)

EvaluateOne(rule, r, was) ==
  IF rule.type = "rule_table" THEN RuleTable(rule, r, was)
  ELSE BatteryProtection(rule, r, was)

Current(p) == myRules[p][pos[p]]
Skipped(p) == ~myEnabled[p] \/ ~Current(p).on \/ at[p] < Current(p).until
Decided(p) ==
  EvaluateOne(Rule[Current(p).id], Seen(p), last[p][Current(p).id])

\* Mutant of LogOnly: dry-run is forgotten.
LogOnlyWithoutDryRun(p) ==
  \/ Decided(p).write = None
  \/ Rule[Current(p).id].setting \notin Mapped

\* Dry-run, or a setting without a register: logged, nothing written.
LogOnly(p) ==
  \/ Decided(p).write = None
  \/ Rule[Current(p).id].setting \notin Mapped
  \/ myDry[p]

AtRule(p) == pc[p] = "eval" /\ pos[p] <= Len(myRules[p])

NextRule(p) ==
  /\ pos' = [pos EXCEPT ![p] = @ + 1]
  /\ goal' = [goal EXCEPT ![p] = NoGoal]
  /\ tries' = [tries EXCEPT ![p] = 0]
  /\ Goto(p, "eval")

\* _last_eval is set after _do_write has returned, whatever it achieved.
Conclude(p, active) ==
  /\ last' = [last EXCEPT ![p][Current(p).id] = active]
  /\ NextRule(p)

SkipRule(p) ==
  /\ AtRule(p) /\ Skipped(p)
  /\ NextRule(p)
  /\ UNCHANGED <<rows, world, last, at, op, my, id, orig, obs>>

EvaluateRule(p) ==
  /\ AtRule(p) /\ ~Skipped(p) /\ LogOnly(p)
  /\ Conclude(p, Decided(p).active)
  /\ UNCHANGED <<rows, world, at, op, my, id, orig, obs>>

BeginWrite(p) ==
  /\ AtRule(p) /\ ~Skipped(p) /\ ~LogOnly(p)
  /\ goal' = [goal EXCEPT ![p] = Decided(p)]
  /\ Goto(p, "read")
  /\ UNCHANGED <<rows, world, last, pos, at, tries, op, my, id, orig, obs>>

EndRound(p) ==
  /\ pc[p] = "eval" /\ pos[p] > Len(myRules[p])
  /\ IF op[p] = "round"
     THEN Return(p) /\ Forget({p})
     ELSE /\ Goto(p, "testRestore")
          /\ UNCHANGED <<engine, op, my, id, orig, wasOff>>
  /\ UNCHANGED <<rows, world, budget, overlapped, wanted>>

-----------------------------------------------------------------------------
(***************************************************************************)
(* _do_write() of a value that is really to be written: read, compare,     *)
(* write, read back.  An exception of the connection ends the rule's       *)
(* evaluation before _last_eval is set.                                    *)
(***************************************************************************)
Register(p) == Rule[Current(p).id].setting

Raises(p) == Fault("raise") /\ NextRule(p) /\ UNCHANGED last
Concludes(p) == Conclude(p, goal[p].active)

ReadCurrent(p) ==
  /\ pc[p] = "read"
  /\ \/ NoFault /\ reg[Register(p)] = goal[p].write /\ Concludes(p)
     \/ /\ NoFault /\ reg[Register(p)] # goal[p].write
        /\ Goto(p, "write") /\ UNCHANGED <<last, pos, goal, tries>>
     \/ Fault("read") /\ Goto(p, "write") /\ UNCHANGED <<last, pos, goal, tries>>
     \/ Raises(p)
  /\ UNCHANGED <<rows, world, at, op, my, id, orig, overlapped, wanted, wasOff>>

\* Forwarded or not, acknowledged or not (see QuickCharge), or cut short.
WriteReg(p) ==
  /\ pc[p] = "write"
  /\ \E applied \in BOOLEAN :
       /\ reg' = IF applied THEN [reg EXCEPT ![Register(p)] = goal[p].write]
                 ELSE reg
       /\ \/ /\ (applied /\ NoFault) \/ (~applied /\ Fault("echo"))
             /\ Goto(p, "verify") /\ UNCHANGED <<last, pos, goal, tries>>
          \/ /\ (applied /\ Fault("lost")) \/ (~applied /\ Fault("refused"))
             /\ Concludes(p)
          \/ Raises(p)
  /\ UNCHANGED <<rows, reading, hour, now, at, op, my, id, orig, overlapped,
                 wanted, wasOff>>

\* Mutant of Verify: one read too many.
VerifyOnceMore(p) ==
  /\ pc[p] = "verify"
  /\ \/ NoFault /\ reg[Register(p)] = goal[p].write /\ Concludes(p)
     \/ /\ (NoFault /\ reg[Register(p)] # goal[p].write) \/ Fault("read")
        /\ IF tries[p] < MaxTries
           THEN /\ tries' = [tries EXCEPT ![p] = @ + 1]
                /\ UNCHANGED <<last, pos, goal, pc>>
           ELSE Concludes(p)
     \/ Raises(p)
  /\ UNCHANGED <<rows, world, at, op, my, id, orig, overlapped, wanted, wasOff>>

Verify(p) ==
  /\ pc[p] = "verify"
  /\ \/ NoFault /\ reg[Register(p)] = goal[p].write /\ Concludes(p)
     \/ /\ (NoFault /\ reg[Register(p)] # goal[p].write) \/ Fault("read")
        /\ IF tries[p] + 1 < MaxTries
           THEN /\ tries' = [tries EXCEPT ![p] = @ + 1]
                /\ UNCHANGED <<last, pos, goal, pc>>
           ELSE Concludes(p)
     \/ Raises(p)
  /\ UNCHANGED <<rows, world, at, op, my, id, orig, overlapped, wanted, wasOff>>

-----------------------------------------------------------------------------
(***************************************************************************)
(* The rest of the world: sensors, time, somebody at the inverter's panel, *)
(* and the end of a process.                                               *)
(***************************************************************************)
\* The writer loop decodes a snapshot before it evaluates the rules.
NewReading(r) ==
  /\ pc[Collector] = "idle"
  /\ reading' = r
  /\ UNCHANGED <<rows, reg, hour, now, engine, pc, op, my, id, orig, obs>>

NewHour(h) ==
  /\ hour' = h
  /\ UNCHANGED <<rows, reg, reading, now, engine, pc, op, my, id, orig, obs>>

TimePasses ==
  /\ now < MaxTime
  /\ now' = now + 1
  /\ UNCHANGED <<rows, reg, reading, hour, engine, pc, op, my, id, orig, obs>>

PanelWrite(s, v) ==
  /\ reg' = [reg EXCEPT ![s] = v]
  /\ UNCHANGED <<rows, reading, hour, now, engine, pc, op, my, id, orig, obs>>

\* A process ends: its threads are gone and, with the collector, _last_eval.
Crash(ps) ==
  /\ Fault("crash")
  /\ pc' = [p \in Procs |-> IF p \in ps THEN "idle" ELSE pc[p]]
  /\ op' = [p \in Procs |-> IF p \in ps THEN "none" ELSE op[p]]
  /\ myEnabled' = [p \in Procs |-> p \notin ps /\ myEnabled[p]]
  /\ myDry' = [p \in Procs |-> p \in ps \/ myDry[p]]
  /\ myRules' = [p \in Procs |-> IF p \in ps THEN <<>> ELSE myRules[p]]
  /\ id' = [p \in Procs |-> IF p \in ps THEN None ELSE id[p]]
  /\ orig' = [p \in Procs |-> IF p \in ps THEN TRUE ELSE orig[p]]
  /\ last' = [p \in Procs |-> IF p \in ps THEN Idle ELSE last[p]]
  /\ pos' = [p \in Procs |-> IF p \in ps THEN 0 ELSE pos[p]]
  /\ at' = [p \in Procs |-> IF p \in ps THEN 0 ELSE at[p]]
  /\ goal' = [p \in Procs |-> IF p \in ps THEN NoGoal ELSE goal[p]]
  /\ tries' = [p \in Procs |-> IF p \in ps THEN 0 ELSE tries[p]]
  /\ Forget(ps)
  /\ UNCHANGED <<rows, world, overlapped, wanted>>

-----------------------------------------------------------------------------
Request(u) ==
  \/ \E v \in BOOLEAN : SetEnabled(u, v) \/ SetDryRun(u, v)
  \/ \E e, d \in BOOLEAN, list \in Lists : Save(u, e, d, list)
  \/ \E i \in Ids : Delete(u, i) \/ Disable(u, i)
  \/ Test(u)

ConfigStep(u) ==
  \/ ReadRulesToEdit(u) \/ SaveEnabled(u) \/ SaveDry(u) \/ SaveRules(u)
  \/ TestRead(u) \/ TestForce(u) \/ TestRestore(u)

EngineStep(p) ==
  \/ ReadEnabled(p) \/ ReadDry(p) \/ ReadRules(p)
  \/ SkipRule(p) \/ EvaluateRule(p) \/ BeginWrite(p) \/ EndRound(p)
  \/ ReadCurrent(p) \/ WriteReg(p) \/ Verify(p)

Step(p) == EngineStep(p) \/ ConfigStep(p)

World ==
  \/ \E r \in Readings \cup {None} : NewReading(r)
  \/ \E h \in Hours : NewHour(h)
  \/ TimePasses
  \/ \E s \in Mapped, v \in Values : PanelWrite(s, v)
  \/ Crash(Users) \/ Crash({Collector})

Next ==
  \/ \E u \in Users : Request(u)
  \/ Round
  \/ \E p \in Procs : Step(p)
  \/ World

Init ==
  /\ enabled = FALSE /\ dryRun = TRUE /\ rules = <<>>
  /\ reg \in [Mapped -> Values]
  /\ reading \in Readings \cup {None} /\ hour \in Hours /\ now = 0
  /\ last = [p \in Procs |-> Idle]
  /\ pc = [p \in Procs |-> "idle"] /\ op = [p \in Procs |-> "none"]
  /\ myEnabled = [p \in Procs |-> FALSE] /\ myDry = [p \in Procs |-> TRUE]
  /\ myRules = [p \in Procs |-> <<>>] /\ id = [p \in Procs |-> None]
  /\ orig = [p \in Procs |-> TRUE]
  /\ pos = [p \in Procs |-> 0] /\ at = [p \in Procs |-> 0]
  /\ goal = [p \in Procs |-> NoGoal] /\ tries = [p \in Procs |-> 0]
  /\ budget = MaxFaults /\ overlapped = FALSE /\ wanted = TRUE
  /\ wasOff = [p \in Procs |-> FALSE]

Spec == Init /\ [][Next]_vars

(***************************************************************************)
(* The writer loop evaluates in every round, and a call that has begun     *)
(* goes on: each access to the database or the dongle returns or raises.   *)
(***************************************************************************)
FairSpec ==
  /\ Spec
  /\ WF_vars(Round)
  /\ \A p \in Procs : WF_vars(Step(p))

-----------------------------------------------------------------------------
Labels == {"idle", "readEnabled", "readDry", "readRules", "eval", "read",
           "write", "verify", "saveEnabled", "saveDry", "saveRules",
           "testRead", "testForce", "testRestore"}

Ops == {"none", "save", "delete", "disable", "test", "round"}

TypeOK ==
  /\ enabled \in BOOLEAN /\ dryRun \in BOOLEAN /\ rules \in Seq(Entry)
  /\ reg \in [Mapped -> Values]
  /\ reading \in Readings \cup {None} /\ hour \in Hours
  /\ now \in 0 .. MaxTime
  /\ last \in [Procs -> [Ids -> BOOLEAN]]
  /\ pc \in [Procs -> Labels]
  /\ op \in [Procs -> Ops]
  /\ myEnabled \in [Procs -> BOOLEAN] /\ myDry \in [Procs -> BOOLEAN]
  /\ myRules \in [Procs -> Seq(Entry)]
  /\ id \in [Procs -> Ids \cup {None}]
  /\ orig \in [Procs -> BOOLEAN]
  /\ pos \in [Procs -> Nat] /\ at \in [Procs -> 0 .. MaxTime]
  /\ goal \in [Procs -> [write : Values \cup {None}, active : BOOLEAN]]
  /\ tries \in [Procs -> 0 .. MaxTries - 1]
  /\ budget \in 0 .. MaxFaults
  /\ overlapped \in BOOLEAN /\ wanted \in BOOLEAN
  /\ wasOff \in [Procs -> BOOLEAN]

\* Once dry-run has been asked for it is on, and stays on through the other
\* requests, lost database accesses and a crash of the API at any point, as
\* long as no two requests overlap: deleting, disabling and testing put back
\* what they found, and what they cannot read they take for on.
DryRunKept == wanted /\ ~overlapped => dryRun

\* A register is written only in a round during which dry-run was off at
\* some moment: switching it on is respected from the next round on, and a
\* failed read of the setting counts as on.
RoundsRespectDryRun ==
  [][\A p \in Procs : WriteReg(p) => wasOff[p]]_vars

(***************************************************************************)
(* The inductive invariant behind these two.                               *)
(***************************************************************************)
DryType ==
  /\ dryRun \in BOOLEAN /\ wanted \in BOOLEAN /\ overlapped \in BOOLEAN
  /\ pc \in [Procs -> Labels] /\ op \in [Procs -> Ops]
  /\ orig \in [Procs -> BOOLEAN] /\ wasOff \in [Procs -> BOOLEAN]
  /\ myDry \in [Procs -> BOOLEAN]

\* Which call a step belongs to.
OpInv ==
  \A p \in Procs :
    /\ pc[p] = "idle" <=> op[p] = "none"
    /\ op[p] = "round" <=> p = Collector /\ pc[p] # "idle"
    /\ pc[p] \in {"saveEnabled", "saveDry", "saveRules"} =>
         op[p] \in {"save", "delete", "disable"}
    /\ pc[p] \in {"testRead", "testForce", "testRestore"} => op[p] = "test"
    /\ pc[p] \in {"eval", "read", "write", "verify"} =>
         op[p] \in {"round", "test"}
    /\ pc[p] \in {"readEnabled", "readDry", "readRules"} => op[p] # "save"

\* Without an overlap at most one request is under way.
AloneInv ==
  ~overlapped =>
    \A u, v \in Users : pc[u] # "idle" /\ pc[v] # "idle" => u = v

\* What a request will put back is on.
KeptInv ==
  wanted /\ ~overlapped =>
    /\ dryRun
    /\ \A u \in Users :
         /\ op[u] \in {"delete", "disable"}
              /\ pc[u] \in {"readRules", "saveEnabled", "saveDry"} => myDry[u]
         /\ op[u] = "test" /\ pc[u] # "testRead" => orig[u]

\* The copy a round works with was true at some moment of the round.
Evaluating(p) ==
  op[p] = "round" \/ (op[p] = "test" /\ pc[p] \notin {"testRead", "testForce"})

OffInv ==
  \A p \in Procs :
    /\ Evaluating(p) /\ ~dryRun => wasOff[p]
    /\ /\ Evaluating(p) /\ ~myDry[p]
       /\ pc[p] \in {"readRules", "eval", "read", "write", "verify"}
       => wasOff[p]
    /\ pc[p] \in {"read", "write", "verify"} => ~myDry[p]

(***************************************************************************)
(* The inductive invariant behind TypeOK: a rule is at work only at a      *)
(* position of the list, and with something to write.                      *)
(***************************************************************************)
WorkInv ==
  \A p \in Procs :
    /\ pc[p] \in {"eval", "read", "write", "verify"} => pos[p] > 0
    /\ pc[p] \in {"read", "write", "verify"} => goal[p].write # None

DryInv == DryType /\ OpInv /\ AloneInv /\ KeptInv /\ OffInv

\* The engine keeps a setting at its rule's value: as long as the rule
\* matches, is listed and enabled, and dry-run is off, the register holds
\* the value again and again, whatever became of single writes and whoever
\* else writes it.
Wants(i, v) ==
  /\ enabled /\ ~dryRun
  /\ rules # <<>> /\ rules[1].id = i /\ rules[1].on /\ rules[1].until <= now
  /\ Len(rules) = 1
  /\ EvaluateOne(Rule[i], reading, FALSE) = Decision(v, TRUE)

ActionEventuallyHolds ==
  \A i \in Ids, v \in Values :
    Rule[i].setting \in Mapped =>
      (<>[]Wants(i, v) => []<>(reg[Rule[i].setting] = v))

(***************************************************************************)
(* What the documentation says and the code does not do.                   *)
(***************************************************************************)

\* README.md:269: POST /api/automation/dry-run will "Globally enable/disable
\* dry-run mode".  Nobody has disabled it since.
DryRunStaysOn == wanted => dryRun

\* README.md:271: POST /api/automation/test will "Dry-run evaluate
\* automations against the latest snapshot".
TestSeesSnapshot ==
  [][\A u \in Users :
       EvaluateRule(u) => Decided(u) = EvaluateOne(Rule[Current(u).id], reading,
                                            last[u][Current(u).id])]_vars

\* automation.py:19-21: "When the automation's conditions stop matching and
\* a previous write was recorded, the restore value is written (unless
\* dry-run is enabled)."
Exited(i) ==
  /\ enabled /\ ~dryRun
  /\ Len(rules) = 1 /\ rules[1].id = i /\ rules[1].on /\ rules[1].until <= now
  /\ reading # None /\ ~EvaluateOne(Rule[i], reading, FALSE).active

RestoredOnExit ==
  \A i \in Ids :
    Rule[i].setting \in Mapped /\ Rule[i].restore # None =>
      (<>[]Exited(i) =>
         [](last[Collector][i] => <>(reg[Rule[i].setting] = Rule[i].restore)))
=============================================================================
