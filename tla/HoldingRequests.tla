--------------------------- MODULE HoldingRequests ---------------------------
(***************************************************************************)
(* The holding-register requests of the HTTP API (api/__init__.py): read   *)
(* one register, read them all in blocks, write one register and read it   *)
(* back, write several in one Modbus transaction.  Every handler runs in a *)
(* thread of its own; all of them share the process's dongle connection,   *)
(* whose transact() is modelled here with the same steps as in             *)
(* DongleConnection, but with frames that carry register values and with   *)
(* the inverter's registers behind the dongle.                             *)
(*                                                                         *)
(* The dongle is external: it serves what it holds in order, may echo a    *)
(* write without forwarding it, forward one without echoing it, report an  *)
(* error, ignore a request or end the connection.  A write it holds when   *)
(* the connection ends may still be forwarded.  The inverter's own panel   *)
(* changes registers too.                                                  *)
(***************************************************************************)
EXTENDS Integers, Sequences, Functions

CONSTANTS
  Handlers,    \* threads of the API server
  NoHandler,   \* the lock is free
  Registers,   \* addresses of the inverter's holding registers
  Holding,     \* HOLDING_REGISTERS: address -> [min, max, scale, capabilities]
  Capabilities,\* of the inverter model
  Blocks,      \* the <<start, count>> pairs of _read_all_holding_registers
  Bodies,      \* bodies of a PUT: a raw value, a value in tenths, or none
               \* (both, neither, or one that cannot be converted)
  ValueLists,  \* bodies of a multi-write
  Tries,       \* write tries, read-back tries, tries per block (4 in the code)
  Attempts,    \* max_retries + 1 of transact() (4 in the code)
  MaxQueue,    \* bound: requests the dongle holds
  MaxWire      \* bound: answers on their way

Address == DOMAIN Holding

ASSUME ConstantsAssumption ==
  /\ NoHandler \notin Handlers
  /\ Registers \subseteq Nat /\ Address \subseteq Registers
  /\ \A r \in Address : /\ Holding[r].min \in Int /\ Holding[r].max \in Int
                        /\ Holding[r].scale \in Nat \ {0}
  /\ Blocks \in Seq(Registers \X (Nat \ {0})) /\ Blocks # <<>>
  /\ \A b \in DOMAIN Blocks : \A i \in 1 .. Blocks[b][2] :
       Blocks[b][1] + i - 1 \in Registers
  /\ \A b \in Bodies : b.form \in {"raw", "value", "none"} /\ b.amount \in Int
  /\ \A l \in ValueLists : l \in Seq(Int)
  /\ Tries \in Nat \ {0} /\ Attempts \in Nat \ {0}
  /\ MaxQueue \in Nat \ {0} /\ MaxWire \in Nat \ {0}

VARIABLES
  job,      \* what each handler is doing
  lock,     \* owner of the connection's lock
  att,      \* attempt of the running transaction
  waiting,  \* the running transaction has sent its request
  sock,     \* "up", or "none" once the dongle has ended the connection
  queue,    \* requests the dongle holds (external)
  wire,     \* answers on their way or in the receive buffer (external)
  regs,     \* the inverter's registers (external)
  answer    \* the HTTP answer given by the step just taken, if any

(***************************************************************************)
(* Observation variables: no guard and no other variable depends on them.  *)
(***************************************************************************)
VARIABLES
  known,    \* <<register, value>> pairs held by the inverter since the
            \* handler's request began, or on their way at that moment
  excused   \* of a multi-write: since it began the dongle has echoed one at
            \* the same first register without forwarding it, or it still
            \* owed the echo of an earlier such one when this began

conn == <<lock, att, waiting, sock>>
obs  == <<known, excused>>
vars == <<job, conn, queue, wire, regs, answer, obs>>

-----------------------------------------------------------------------------
(***************************************************************************)
(* Requests and values.                                                    *)
(***************************************************************************)
Words == 0 .. 65535
\* filter_holding_registers(): what the model has the capabilities for.
Supported == {r \in Address : Holding[r].capabilities \subseteq Capabilities}

InRange(r, raw) == Holding[r].min <= raw /\ raw <= Holding[r].max

\* What the inverter keeps in a register: within the limits, if it has any.
Allowed(r) ==
  IF r \in Address THEN {v \in Holding[r].min .. Holding[r].max : v \in Words}
  ELSE Words

\* _engineering_to_raw(): int(round(value / scale)); round() takes the even
\* neighbour of a half.
EngineeringToRaw(r, value) ==
  LET s == Holding[r].scale
      q == value \div s
      d == 2 * (value % s)
  IN  IF d < s \/ (d = s /\ q % 2 = 0) THEN q ELSE q + 1

RawOf(r, body) ==
  IF body.form = "raw" THEN body.amount ELSE EngineeringToRaw(r, body.amount)

\* Mutant of PutRefusal: the limits are compared with the engineering value.
PutRefusalByValue(r, body, configured) ==
  LET raw == RawOf(r, body)
      eng == (raw * Holding[r].scale) \div 10 IN
  IF r \notin Supported THEN 404
  ELSE IF body.form = "none" \/ ~InRange(r, eng) \/ ~configured THEN 400
  ELSE IF raw \notin Words THEN 500
  ELSE 0

\* The checks of api_holding_put and that of build_write_request, which
\* raises for a value that is no unsigned word; 0 if all is well.
\* configured: both serial numbers are known when the request comes.
PutRefusal(r, body, configured) ==
  LET raw == RawOf(r, body) IN
  IF r \notin Supported THEN 404
  ELSE IF body.form = "none" \/ ~InRange(r, raw) \/ ~configured THEN 400
  ELSE IF raw \notin Words THEN 500
  ELSE 0

GetRefusal(r, configured) ==
  IF r \notin Supported THEN 404 ELSE IF configured THEN 0 ELSE 400

ListRefusal(configured) == IF configured THEN 0 ELSE 400

\* The checks of HoldingMultiUpdate and api_holding_multi_write; the loop
\* answers for the first register that is refused.
MultiRefusal(start, values, configured) ==
  LET bad(i) == \/ start + i - 1 \notin Supported
                \/ ~InRange(start + i - 1, values[i])
      first  == CHOOSE i \in DOMAIN values :
                  bad(i) /\ \A j \in 1 .. (i - 1) : ~bad(j)
  IN  IF Len(values) \notin 1 .. 123 \/ ~(Range(values) \subseteq Words) THEN 422
      ELSE IF start \notin Supported THEN 404
      ELSE IF \A i \in DOMAIN values : ~bad(i) THEN IF configured THEN 0 ELSE 400
      ELSE IF start + first - 1 \in Supported THEN 400 ELSE 404

Gets   == [kind : {"get"}, reg : Address]
Puts   == {[kind |-> "put", reg |-> r, raw |-> RawOf(r, b)] :
             r \in Address, b \in Bodies}
Multis == [kind : {"multi"}, reg : Address, values : ValueLists]
Lists  == {[kind |-> "list"]}

Idle  == [step |-> "idle"]
\* try: which of the Tries; block and found are used by the list only.
Job(request, step) ==
  [request |-> request, step |-> step, try |-> 1, block |-> 1, found |-> {}]

NoAnswer == [status |-> 0]

-----------------------------------------------------------------------------
(***************************************************************************)
(* Modbus requests and answers.                                            *)
(***************************************************************************)
ReadHold(start, count) ==
  [fn |-> "read", start |-> start, count |-> count, values |-> <<>>]
WriteSingle(r, raw) ==
  [fn |-> "write", start |-> r, count |-> 1, values |-> <<raw>>]
WriteMulti(start, values) ==
  [fn |-> "multi", start |-> start, count |-> Len(values), values |-> values]

\* The request of the transaction h runs next.
Question(h) ==
  LET r == job[h].request IN
  IF r.kind = "list" THEN ReadHold(Blocks[job[h].block][1], Blocks[job[h].block][2])
  ELSE IF job[h].step = "read" THEN ReadHold(r.reg, 1)
  ELSE IF r.kind = "put" THEN WriteSingle(r.reg, r.raw)
  ELSE WriteMulti(r.reg, r.values)

\* Mutant of Matches: an answer to a read of any register will do.
MatchesAnyRegister(f, q) == f.fn = "error" \/ f.fn = q.fn

\* match(frame): an error whatever it answers, or the function and the first
\* register; neither the count nor the echoed value is compared.
Matches(f, q) == f.fn = "error" \/ (f.fn = q.fn /\ f.start = q.start)

\* The register values a read answer carries.
Pairs(f) ==
  IF f.fn = "read" THEN {<<f.start + i - 1, f.values[i]>> : i \in DOMAIN f.values}
  ELSE {}

Write(q) == [r \in Registers |->
  IF r - q.start + 1 \in DOMAIN q.values THEN q.values[r - q.start + 1]
  ELSE regs[r]]

-----------------------------------------------------------------------------
(***************************************************************************)
(* What a handler does with the outcome of a transaction.                  *)
(***************************************************************************)
Reply(h, status, claims) ==
  /\ job' = [job EXCEPT ![h] = Idle]
  /\ answer' = [status |-> status, kind |-> job[h].request.kind,
                claims |-> claims, known |-> known[h], excused |-> excused[h]]
  /\ known' = [known EXCEPT ![h] = {}]
  /\ excused' = [excused EXCEPT ![h] = FALSE]

Continue(h, next) ==
  /\ job' = [job EXCEPT ![h] = next]
  /\ answer' = NoAnswer
  /\ UNCHANGED obs

TryAgain(h) == job[h].try < Tries /\ Continue(h, [job[h] EXCEPT !.try = @ + 1])
NoTryLeft(h) == job[h].try = Tries

\* api_holding_get
GetReturns(h, ok, f) ==
  /\ job[h].request.kind = "get"
  /\ \/ ok /\ Reply(h, 200, {<<job[h].request.reg, f.values[1]>>})
     \/ ~ok /\ Reply(h, 502, {})

\* _read_all_holding_registers and api_holding_list: a block that fails all
\* its tries is skipped; the answer names the registers of the model.
NextBlock(h, pairs) ==
  LET all == {p \in job[h].found : \A q \in pairs : q[1] # p[1]} \cup pairs IN
  IF job[h].block < Len(Blocks)
  THEN Continue(h, [job[h] EXCEPT !.block = @ + 1, !.try = 1, !.found = all])
  ELSE Reply(h, 200, {p \in all : p[1] \in Supported})

ListReturns(h, ok, f) ==
  /\ job[h].request.kind = "list"
  /\ \/ ok /\ NextBlock(h, Pairs(f))
     \/ ~ok /\ TryAgain(h)
     \/ ~ok /\ NoTryLeft(h) /\ NextBlock(h, {})

\* api_holding_put: the write, then the read-back.
PutWriteReturns(h, ok) ==
  /\ job[h].request.kind = "put" /\ job[h].step = "write"
  /\ \/ ok /\ Continue(h, Job(job[h].request, "read"))
     \/ ~ok /\ TryAgain(h)
     \/ ~ok /\ NoTryLeft(h) /\ Reply(h, 502, {})

\* Mutant of Verified: any answer to the read-back confirms the write.
VerifiedByAnyRead(h, ok, f) == ok

Verified(h, ok, f) == ok /\ f.values[1] = job[h].request.raw

PutReadReturns(h, ok, f) ==
  /\ job[h].request.kind = "put" /\ job[h].step = "read"
  /\ \/ /\ Verified(h, ok, f)
        /\ Reply(h, 200, {<<job[h].request.reg, job[h].request.raw>>})
     \/ ~Verified(h, ok, f) /\ TryAgain(h)
     \/ ~Verified(h, ok, f) /\ NoTryLeft(h) /\ Reply(h, 502, {})

\* api_holding_multi_write: the echo is all there is.
MultiReturns(h, ok) ==
  LET r == job[h].request IN
  /\ r.kind = "multi"
  /\ \/ ok /\ Reply(h, 200, {<<r.reg + i - 1, r.values[i]>> : i \in DOMAIN r.values})
     \/ ~ok /\ Reply(h, 502, {})

Returns(h, ok, f) ==
  /\ lock' = NoHandler /\ att' = 0 /\ waiting' = FALSE
  /\ \/ GetReturns(h, ok, f) \/ ListReturns(h, ok, f)
     \/ PutWriteReturns(h, ok) \/ PutReadReturns(h, ok, f)
     \/ MultiReturns(h, ok)

-----------------------------------------------------------------------------
(***************************************************************************)
(* transact().                                                             *)
(***************************************************************************)
IsWrite(e) == e.q.fn # "read"

\* The connection ends: nothing more arrives on it, but the dongle may still
\* forward what it holds.
Orphaned == [i \in DOMAIN queue |-> [queue[i] EXCEPT !.reply = FALSE]]

\* A multi-write at this first register, or its echo.
MultiAt(x, start) == x.fn = "multi" /\ x.start = start
OwesMulti(start) ==
  \/ \E i \in DOMAIN queue : MultiAt(queue[i].q, start) /\ queue[i].reply
  \/ \E i \in DOMAIN wire : MultiAt(wire[i], start)

Acquire(h) == lock = NoHandler /\ lock' = h /\ att' = 1

\* A request passes its checks and takes the lock for its first transaction.
Begin(h, request) ==
  /\ job[h] = Idle
  /\ Acquire(h)
  /\ job' = [job EXCEPT ![h] =
       Job(request, IF request.kind \in {"put", "multi"} THEN "write" ELSE "read")]
  /\ known' = [known EXCEPT ![h] =
       {<<r, regs[r]>> : r \in Registers} \cup UNION {Pairs(wire[i]) : i \in DOMAIN wire}]
  /\ excused' = [excused EXCEPT ![h] = request.kind = "multi" /\ OwesMulti(request.reg)]
  /\ answer' = NoAnswer
  /\ UNCHANGED <<waiting, sock, queue, wire, regs>>

Refuse(h, status) ==
  /\ job[h] = Idle
  /\ answer' = [status |-> status]
  /\ UNCHANGED <<job, conn, queue, wire, regs, obs>>

Checked(h, refusal, request) ==
  \/ refusal = 0 /\ Begin(h, request)
  \/ refusal # 0 /\ Refuse(h, refusal)

BeginGet(h) ==
  \E r \in Gets, configured \in BOOLEAN : Checked(h, GetRefusal(r.reg, configured), r)

BeginList(h) ==
  \E r \in Lists, configured \in BOOLEAN : Checked(h, ListRefusal(configured), r)

BeginPut(h) ==
  \E r \in Address, b \in Bodies, configured \in BOOLEAN :
    Checked(h, PutRefusal(r, b, configured), [kind |-> "put", reg |-> r, raw |-> RawOf(r, b)])

BeginMulti(h) ==
  \E r \in Multis, configured \in BOOLEAN :
    Checked(h, MultiRefusal(r.reg, r.values, configured), r)

\* The next transaction of a request that needs several.
Resume(h) ==
  /\ job[h] # Idle
  /\ Acquire(h)
  /\ answer' = NoAnswer
  /\ UNCHANGED <<job, waiting, sock, queue, wire, regs, obs>>

\* _ensure_connected() and sendall(), on a new connection if need be.  (How a
\* closed connection passes for alive first is in DongleConnection.)
Send(h) ==
  /\ lock = h /\ ~waiting
  /\ sock' = "up"
  /\ queue' = IF Len(queue) < MaxQueue
              THEN Append(queue, [q |-> Question(h), reply |-> TRUE]) ELSE queue
  /\ waiting' = TRUE
  /\ answer' = NoAnswer
  /\ UNCHANGED <<job, lock, att, wire, regs, obs>>

\* The reconnect is refused: the OSError leaves transact() and the handler.
Refused(h) ==
  /\ lock = h /\ ~waiting /\ sock = "none"
  /\ lock' = NoHandler /\ att' = 0
  /\ Reply(h, 500, {})
  /\ UNCHANGED <<waiting, sock, queue, wire, regs>>

\* recv() delivers a chunk of k frames; the first match ends the transaction
\* and the rest of the chunk goes with the local buffer.
ReceiveMatch(h, k, i) ==
  /\ lock = h /\ waiting
  /\ Matches(wire[i], Question(h))
  /\ \A j \in 1 .. (i - 1) : ~Matches(wire[j], Question(h))
  /\ wire' = SubSeq(wire, k + 1, Len(wire))
  /\ Returns(h, wire[i].fn # "error", wire[i])
  /\ UNCHANGED <<sock, queue, regs>>

ReceiveNoMatch(h, k) ==
  /\ lock = h /\ waiting
  /\ \A j \in 1 .. k : ~Matches(wire[j], Question(h))
  /\ wire' = SubSeq(wire, k + 1, Len(wire))
  /\ answer' = NoAnswer
  /\ UNCHANGED <<job, conn, queue, regs, obs>>

Receive(h) ==
  \E k \in 1 .. Len(wire) :
    \/ \E i \in 1 .. k : ReceiveMatch(h, k, i)
    \/ ReceiveNoMatch(h, k)

\* The deadline passes and the socket is kept, or the connection has ended:
\* the next attempt, or None after the last one.
AttemptFails(h) ==
  /\ lock = h /\ waiting
  /\ \/ /\ att < Attempts
        /\ att' = att + 1 /\ waiting' = FALSE
        /\ answer' = NoAnswer
        /\ UNCHANGED <<job, lock, obs>>
     \/ att = Attempts /\ Returns(h, FALSE, [fn |-> "none"])
  /\ UNCHANGED <<sock, queue, wire, regs>>

-----------------------------------------------------------------------------
(***************************************************************************)
(* The dongle and the inverter (external).                                 *)
(***************************************************************************)
Handle(new, reply) ==
  /\ queue # <<>>
  /\ queue' = Tail(queue)
  /\ regs' = new
  /\ known' = [h \in Handlers |-> IF job[h] = Idle THEN known[h]
                ELSE known[h] \cup {<<r, new[r]>> : r \in Registers}]
  /\ wire' = IF reply = <<>> \/ ~Head(queue).reply THEN wire ELSE Append(wire, reply)
  /\ Len(wire') <= MaxWire
  /\ answer' = NoAnswer
  /\ UNCHANGED <<job, conn>>

Echo(q) == [fn |-> q.fn, start |-> q.start, values |-> q.values]

ServeRead ==
  /\ queue # <<>> /\ Head(queue).q.fn = "read"
  /\ LET q == Head(queue).q IN
     Handle(regs, [fn |-> "read", start |-> q.start,
                   values |-> [i \in 1 .. q.count |-> regs[q.start + i - 1]]])
  /\ UNCHANGED excused

ServeWrite ==
  /\ queue # <<>> /\ IsWrite(Head(queue))
  /\ \/ Handle(Write(Head(queue).q), Echo(Head(queue).q))
     \/ Handle(Write(Head(queue).q), <<>>)
  /\ UNCHANGED excused

EchoWithoutForwarding ==
  /\ queue # <<>> /\ IsWrite(Head(queue))
  /\ Handle(regs, Echo(Head(queue).q))
  /\ excused' = [h \in Handlers |->
       excused[h] \/ (job[h] # Idle /\ job[h].request.kind = "multi"
                      /\ MultiAt(Head(queue).q, job[h].request.reg))]

IgnoreOrError ==
  /\ \/ Handle(regs, <<>>) \/ Handle(regs, [fn |-> "error"])
  /\ UNCHANGED excused

ConnectionEnds ==
  /\ sock = "up"
  /\ sock' = "none" /\ queue' = Orphaned /\ wire' = <<>> /\ answer' = NoAnswer
  /\ UNCHANGED <<job, lock, att, waiting, regs, obs>>

Panel ==
  \E r \in Registers : \E v \in Allowed(r) :
    /\ regs' = [regs EXCEPT ![r] = v]
    /\ known' = [h \in Handlers |-> IF job[h] = Idle THEN known[h]
                                    ELSE known[h] \cup {<<r, v>>}]
    /\ answer' = NoAnswer
    /\ UNCHANGED <<job, conn, queue, wire, excused>>

Dongle ==
  \/ ServeRead \/ ServeWrite \/ EchoWithoutForwarding \/ IgnoreOrError
  \/ ConnectionEnds

-----------------------------------------------------------------------------
Init ==
  /\ job = [h \in Handlers |-> Idle]
  /\ lock = NoHandler /\ att = 0 /\ waiting = FALSE
  /\ sock = "up" /\ queue = <<>> /\ wire = <<>>
  /\ regs \in [Registers -> UNION {Allowed(r) : r \in Registers}]
  /\ \A r \in Registers : regs[r] \in Allowed(r)
  /\ answer = NoAnswer
  /\ known = [h \in Handlers |-> {}]
  /\ excused = [h \in Handlers |-> FALSE]

Handler(h) ==
  \/ BeginGet(h) \/ BeginList(h) \/ BeginPut(h) \/ BeginMulti(h)
  \/ Resume(h) \/ Send(h) \/ Refused(h) \/ Receive(h) \/ AttemptFails(h)

Next == (\E h \in Handlers : Handler(h)) \/ Dongle \/ Panel

Spec == Init /\ [][Next]_vars

-----------------------------------------------------------------------------
\* Types, and: nothing the API sends brings a register out of its limits.
TypeOK ==
  /\ \A h \in Handlers : job[h] = Idle \/
       /\ job[h].request \in Gets \cup Puts \cup Multis \cup Lists
       /\ job[h].step \in {"read", "write"}
       /\ job[h].try \in 1 .. Tries /\ job[h].block \in 1 .. Len(Blocks)
  /\ lock \in Handlers \cup {NoHandler} /\ att \in 0 .. Attempts
  /\ waiting \in BOOLEAN /\ sock \in {"none", "up"}
  /\ Len(queue) <= MaxQueue /\ Len(wire) <= MaxWire
  /\ \A r \in Registers : regs[r] \in Allowed(r)
  /\ answer.status \in {0, 200, 400, 404, 422, 500, 502}
  /\ excused \in [Handlers -> BOOLEAN]

\* A write that is reported written was applied.  api_holding_put reads the
\* register back, so that an echo without a write, a lost echo, another
\* handler's answer or a duplicate on the wire does not count; only a read
\* answer that was on its way already when the request began can pass for
\* the confirmation.  api_holding_multi_write has the echo only, and compares
\* nothing but its first register (automation.py match): it is right unless
\* the dongle echoes what it does not forward, or owed the echo of an earlier
\* multi-write at the same first register when the request began.
WrittenWasTrue ==
  answer.status = 200 =>
    /\ answer.kind = "put" => answer.claims \subseteq answer.known
    /\ answer.kind = "multi" => answer.claims \subseteq answer.known \/ answer.excused

\* A value that is reported read was the register's at some moment since the
\* request began, or was on its way to the API at that moment: whatever the
\* other handlers read and however late or often the dongle answers.
ReadWasTrue ==
  answer.status = 200 /\ answer.kind \in {"get", "list"} =>
    answer.claims \subseteq answer.known
-----------------------------------------------------------------------------
(***************************************************************************)
(* The inductive invariant: why the answers are right.                     *)
(***************************************************************************)
\* A request that has passed its checks only names supported registers and
\* only writes what they allow.
AcceptedGets   == [kind : {"get"}, reg : Supported]
AcceptedPuts   == {r \in Puts : r.reg \in Supported /\ r.raw \in Allowed(r.reg)}
AcceptedMultis == {r \in Multis : \A i \in DOMAIN r.values :
                     /\ r.reg + i - 1 \in Supported
                     /\ r.values[i] \in Allowed(r.reg + i - 1)}

Found == SUBSET (Int \X Int)
JobOf(requests, steps) ==
  [request : requests, step : steps, try : 1 .. Tries, block : 1 .. Len(Blocks),
   found : Found]
Jobs == JobOf(AcceptedGets, {"read"}) \cup JobOf(Lists, {"read"})
          \cup JobOf(AcceptedPuts, {"read", "write"})
          \cup JobOf(AcceptedMultis, {"write"})

Question4 == [fn : {"read", "write", "multi"}, start : Nat, count : Nat,
              values : Seq(Int)]
\* What a handler puts on the wire: never a value its register does not allow.
SoundQuestion ==
  {q \in Question4 :
     /\ q.fn = "read" => /\ q.count >= 1
                         /\ \A i \in 1 .. q.count : q.start + i - 1 \in Registers
     /\ q.fn # "read" => \A i \in DOMAIN q.values :
                           /\ q.start + i - 1 \in Registers
                           /\ q.values[i] \in Allowed(q.start + i - 1)}
Entry == [q : SoundQuestion, reply : BOOLEAN]

Answers == [fn : {"read", "write", "multi"}, start : Nat, values : Seq(Int)]
Frame == {f \in Answers : f.fn = "read" => Len(f.values) >= 1}
           \cup [fn : {"error"}]

Active(h) == job[h] # Idle
Claims(r) == {<<r.reg + i - 1, r.values[i]>> : i \in DOMAIN r.values}

StateTypes ==
  /\ job \in [Handlers -> Jobs \cup {Idle}]
  /\ known \in [Handlers -> Found] /\ excused \in [Handlers -> BOOLEAN]
  /\ regs \in [Registers -> Words]
  /\ queue \in Seq(Entry) /\ wire \in Seq(Frame)

LockHeldByActive == lock \in Handlers => Active(lock)

\* What is in the registers, or on the wire as the answer to a read, is known
\* to whoever waits, and so is what a list has collected.
CurrentKnown ==
  \A h \in Handlers : Active(h) =>
    /\ {<<r, regs[r]>> : r \in Registers} \subseteq known[h]
    /\ \A i \in DOMAIN wire : Pairs(wire[i]) \subseteq known[h]
    /\ job[h].found \subseteq known[h]

\* A multi-write holds the lock from its first check to its answer: what the
\* dongle owes an echo at its first register is its own, and such an echo on
\* the wire means it was done.
EchoMeansDone ==
  \A h \in Handlers : Active(h) /\ job[h].request.kind = "multi" =>
    /\ lock = h
    /\ ~excused[h] =>
         /\ \A i \in DOMAIN queue :
              MultiAt(queue[i].q, job[h].request.reg) /\ queue[i].reply =>
                queue[i].q.values = job[h].request.values
         /\ \A i \in DOMAIN wire : MultiAt(wire[i], job[h].request.reg) =>
              Claims(job[h].request) \subseteq known[h]

HoldingInv ==
  /\ TypeOK /\ StateTypes /\ LockHeldByActive /\ CurrentKnown /\ EchoMeansDone
  /\ WrittenWasTrue /\ ReadWasTrue

-----------------------------------------------------------------------------
\* Not so (README): the echo a multi-write is confirmed by is its own.
EchoIsOwn ==
  \A h \in Handlers : lock = h /\ waiting /\ job[h].request.kind = "multi" =>
    \A i \in DOMAIN wire : MultiAt(wire[i], job[h].request.reg) =>
      wire[i].values = job[h].request.values
=============================================================================
