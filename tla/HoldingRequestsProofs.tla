------------------------ MODULE HoldingRequestsProofs ------------------------
(***************************************************************************)
(* Machine-checked safety of HoldingRequests, for every set of API         *)
(* threads, every register table and every value of the limits.            *)
(***************************************************************************)
EXTENDS HoldingRequests, SequenceTheorems, TLAPS

-----------------------------------------------------------------------------
(***************************************************************************)
(* Values, jobs and frames.                                                *)
(***************************************************************************)
LEMMA RegisterFacts ==
  /\ Supported \subseteq Address /\ Supported \subseteq Registers
  /\ Registers \subseteq Nat /\ Registers \subseteq Int
  /\ Words \subseteq Int
  /\ \A r \in Registers : Allowed(r) \subseteq Words
<1>1. Registers \subseteq Nat /\ Address \subseteq Registers
  BY ConstantsAssumption
<1>2. Supported \subseteq Address
  BY DEF Supported
<1>3. Words \subseteq Int
  BY DEF Words
<1>4. \A r \in Registers : Allowed(r) \subseteq Words
  BY DEF Allowed
<1>5. QED
  BY <1>1, <1>2, <1>3, <1>4

LEMMA JobFacts ==
  ASSUME NEW j \in Jobs
  PROVE  /\ j # Idle /\ j.step \in {"read", "write"}
         /\ j.try \in 1 .. Tries /\ j.block \in 1 .. Len(Blocks)
         /\ j.found \in Found
         /\ j.request \in AcceptedGets \cup AcceptedPuts \cup AcceptedMultis \cup Lists
BY DEF Jobs, JobOf, Idle

LEMMA RequestFacts ==
  ASSUME NEW r \in AcceptedGets \cup AcceptedPuts \cup AcceptedMultis \cup Lists
  PROVE  /\ r \in Gets \cup Puts \cup Multis \cup Lists
         /\ r.kind \in {"get", "put", "multi", "list"}
         /\ r.kind = "get" => r \in AcceptedGets
         /\ r.kind = "put" => r \in AcceptedPuts
         /\ r.kind = "multi" => r \in AcceptedMultis
         /\ r.kind = "list" => r \in Lists
<1>1. CASE r \in AcceptedGets
  BY <1>1, RegisterFacts DEF AcceptedGets, Gets
<1>2. CASE r \in AcceptedPuts
  BY <1>2 DEF AcceptedPuts, Puts
<1>3. CASE r \in AcceptedMultis
  BY <1>3 DEF AcceptedMultis, Multis
<1>4. CASE r \in Lists
  BY <1>4 DEF Lists
<1>5. QED
  BY <1>1, <1>2, <1>3, <1>4

\* A handler at work has an accepted request, and its step fits the request.
LEMMA ActiveFacts ==
  ASSUME HoldingInv, NEW h \in Handlers, Active(h)
  PROVE  /\ job[h] \in Jobs
         /\ job[h].request.kind \in {"get", "list"} => job[h].step = "read"
         /\ job[h].request.kind = "multi" => job[h].step = "write"
<1>1. job[h] \in Jobs
  BY DEF HoldingInv, StateTypes, Active
<1>2. job[h].request \in AcceptedGets \cup AcceptedPuts \cup AcceptedMultis \cup Lists
  BY <1>1, JobFacts
<1>3. CASE job[h] \in JobOf(AcceptedGets, {"read"})
  BY <1>1, <1>3 DEF JobOf, AcceptedGets
<1>4. CASE job[h] \in JobOf(Lists, {"read"})
  BY <1>1, <1>4 DEF JobOf, Lists
<1>5. CASE job[h] \in JobOf(AcceptedPuts, {"read", "write"})
  BY <1>1, <1>5 DEF JobOf, AcceptedPuts, Puts
<1>6. CASE job[h] \in JobOf(AcceptedMultis, {"write"})
  BY <1>1, <1>6 DEF JobOf, AcceptedMultis, Multis
<1>7. QED
  BY <1>1, <1>3, <1>4, <1>5, <1>6 DEF Jobs

LEMMA MultiFacts ==
  ASSUME NEW r \in AcceptedMultis
  PROVE  /\ r.reg \in Nat /\ r.values \in Seq(Int)
         /\ Len(r.values) \in Nat /\ DOMAIN r.values = 1 .. Len(r.values)
         /\ \A i \in DOMAIN r.values : /\ r.reg + i - 1 \in Registers
                                       /\ r.values[i] \in Allowed(r.reg + i - 1)
<1>1. r.reg \in Address /\ r.values \in ValueLists
  BY DEF AcceptedMultis, Multis
<1>2. r.values \in Seq(Int)
  BY <1>1, ConstantsAssumption
<1>3. \A i \in DOMAIN r.values : /\ r.reg + i - 1 \in Supported
                                 /\ r.values[i] \in Allowed(r.reg + i - 1)
  BY DEF AcceptedMultis
<1>4. r.reg \in Nat
  BY <1>1, ConstantsAssumption
<1>5. QED
  BY <1>2, <1>3, <1>4, RegisterFacts, LenProperties

LEMMA PutFacts ==
  ASSUME NEW r \in AcceptedPuts
  PROVE  r.reg \in Registers /\ r.reg \in Nat /\ r.raw \in Allowed(r.reg) /\ r.raw \in Int
<1>1. r.reg \in Supported /\ r.raw \in Allowed(r.reg)
  BY DEF AcceptedPuts
<1>2. QED
  BY <1>1, RegisterFacts

LEMMA BlockFacts ==
  ASSUME NEW b \in 1 .. Len(Blocks)
  PROVE  /\ Blocks[b][1] \in Nat /\ Blocks[b][2] \in Nat \ {0}
         /\ \A i \in 1 .. Blocks[b][2] : Blocks[b][1] + i - 1 \in Registers
<1>1. Blocks \in Seq(Registers \X (Nat \ {0}))
  BY ConstantsAssumption
<1>2. b \in DOMAIN Blocks
  BY <1>1, LenProperties
<1>3. Blocks[b] \in Registers \X (Nat \ {0})
  BY <1>1, <1>2, ElementOfSeq, LenProperties
<1>4. QED
  BY <1>2, <1>3, ConstantsAssumption, RegisterFacts

\* Whatever a handler sends names registers of the inverter and carries values
\* they allow.
LEMMA QuestionSound ==
  ASSUME HoldingInv, NEW h \in Handlers, Active(h)
  PROVE  /\ Question(h) \in SoundQuestion
         /\ Question(h).fn = "multi" => job[h].request.kind = "multi"
         /\ job[h].request.kind = "multi" =>
              /\ Question(h).fn = "multi"
              /\ Question(h).start = job[h].request.reg
              /\ Question(h).values = job[h].request.values
<1> DEFINE r == job[h].request
<1>1. /\ job[h] \in Jobs
      /\ r.kind \in {"get", "list"} => job[h].step = "read"
      /\ r.kind = "multi" => job[h].step = "write"
  BY ActiveFacts
<1>2. r \in AcceptedGets \cup AcceptedPuts \cup AcceptedMultis \cup Lists
  BY <1>1, JobFacts
<1>3. <<>> \in Seq(Int) /\ \A v \in Int : <<v>> \in Seq(Int)
  OBVIOUS
<1>4. ASSUME NEW s \in Nat, NEW c \in Nat \ {0},
             \A i \in 1 .. c : s + i - 1 \in Registers
      PROVE  ReadHold(s, c) \in SoundQuestion
  BY <1>3, <1>4 DEF ReadHold, SoundQuestion, Question4
<1>5. CASE r.kind = "list"
  <2>1. job[h].block \in 1 .. Len(Blocks)
    BY <1>1, JobFacts
  <2>2. Question(h) = ReadHold(Blocks[job[h].block][1], Blocks[job[h].block][2])
    BY <1>5 DEF Question
  <2>3. Question(h) \in SoundQuestion
    BY <1>4, <2>1, <2>2, BlockFacts
  <2>4. QED
    BY <1>5, <2>2, <2>3 DEF ReadHold
<1>6. CASE r.kind \in {"get", "put"} /\ job[h].step = "read"
  <2>1. r.reg \in Registers /\ r.reg \in Nat
    BY <1>2, <1>6, RequestFacts, PutFacts, RegisterFacts DEF AcceptedGets
  <2>2. Question(h) = ReadHold(r.reg, 1)
    BY <1>6 DEF Question
  <2>3. Question(h) \in SoundQuestion
    <3>1. \A i \in 1 .. 1 : r.reg + i - 1 \in Registers
      BY <2>1
    <3>2. QED
      BY <1>3, <2>1, <2>2, <3>1 DEF ReadHold, SoundQuestion, Question4
  <2>4. QED
    BY <1>6, <2>2, <2>3 DEF ReadHold
<1>7. CASE r.kind = "put" /\ job[h].step # "read"
  <2>1. r.reg \in Registers /\ r.reg \in Nat /\ r.raw \in Allowed(r.reg) /\ r.raw \in Int
    BY <1>2, <1>7, RequestFacts, PutFacts
  <2>2. Question(h) = WriteSingle(r.reg, r.raw)
    BY <1>7 DEF Question
  <2>3. WriteSingle(r.reg, r.raw) \in SoundQuestion
    BY <1>3, <2>1 DEF WriteSingle, SoundQuestion, Question4
  <2>4. QED
    BY <1>7, <2>2, <2>3 DEF WriteSingle
<1>8. CASE r.kind = "multi"
  <2>1. r \in AcceptedMultis
    BY <1>2, <1>8, RequestFacts
  <2>2. Question(h) = WriteMulti(r.reg, r.values)
    BY <1>1, <1>8 DEF Question
  <2>3. WriteMulti(r.reg, r.values) \in SoundQuestion
    BY <2>1, MultiFacts DEF WriteMulti, SoundQuestion, Question4
  <2>4. QED
    BY <1>8, <2>2, <2>3 DEF WriteMulti
<1>9. QED
  BY <1>1, <1>2, <1>5, <1>6, <1>7, <1>8, RequestFacts

-----------------------------------------------------------------------------
(***************************************************************************)
(* What the connection may do while a transaction ends.                    *)
(***************************************************************************)
\* The wire holds only what it held.
WireTaken ==
  /\ wire' \in Seq(Frame) /\ Len(wire') <= MaxWire
  /\ \A i \in DOMAIN wire' : \E j \in DOMAIN wire : wire'[i] = wire[j]

Released ==
  /\ lock' = NoHandler /\ att' = 0 /\ waiting' = FALSE
  /\ UNCHANGED <<sock, queue, regs>> /\ WireTaken

SoundReply(h, status, claims) ==
  /\ status \in {200, 500, 502}
  /\ status = 200 =>
       /\ job[h].request.kind \in {"get", "list", "put"} => claims \subseteq known[h]
       /\ job[h].request.kind = "multi" => claims \subseteq known[h] \/ excused[h]

SoundNext(h, next) ==
  /\ next \in Jobs /\ next.request = job[h].request
  /\ next.request.kind # "multi" /\ next.found \subseteq known[h]

\* Only the handler whose multi-write runs holds the lock, so releasing it or
\* being another handler is enough.
LEMMA OthersAreNoMulti ==
  ASSUME HoldingInv, NEW h \in Handlers, lock = h \/ lock = NoHandler,
         NEW g \in Handlers, g # h, Active(g)
  PROVE  job[g].request.kind # "multi"
BY ConstantsAssumption DEF HoldingInv, EchoMeansDone

LEMMA ReleasedTypes ==
  ASSUME HoldingInv, Released
  PROVE  /\ lock' \in Handlers \cup {NoHandler} /\ att' \in 0 .. Attempts
         /\ waiting' \in BOOLEAN /\ sock' \in {"none", "up"}
         /\ Len(queue') <= MaxQueue /\ Len(wire') <= MaxWire
         /\ \A r \in Registers : regs'[r] \in Allowed(r)
<1>1. /\ lock' = NoHandler /\ att' = 0 /\ waiting' = FALSE /\ sock' = sock
      /\ queue' = queue /\ regs' = regs /\ Len(wire') <= MaxWire
  BY DEF Released, WireTaken
<1>2. 0 \in 0 .. Attempts
  BY ConstantsAssumption
<1>3. Len(queue') <= MaxQueue /\ \A r \in Registers : regs'[r] \in Allowed(r)
  BY <1>1 DEF HoldingInv, TypeOK
<1>4. sock' \in {"none", "up"}
  BY <1>1 DEF HoldingInv, TypeOK
<1>5. QED
  BY <1>1, <1>2, <1>3, <1>4

LEMMA ReplyPreserves ==
  ASSUME HoldingInv, NEW h \in Handlers, Active(h), lock = h,
         NEW status, NEW claims, Reply(h, status, claims),
         SoundReply(h, status, claims), Released
  PROVE  HoldingInv'
<1> USE DEF HoldingInv, StateTypes
<1>1. /\ job' \in [Handlers -> Jobs \cup {Idle}] /\ job'[h] = Idle
      /\ \A g \in Handlers \ {h} : job'[g] = job[g]
  BY DEF Reply
<1>2. /\ known' \in [Handlers -> Found]
      /\ \A g \in Handlers \ {h} : known'[g] = known[g]
  BY DEF Reply, Found
<1>3. /\ excused' \in [Handlers -> BOOLEAN]
      /\ \A g \in Handlers \ {h} : excused'[g] = excused[g]
  BY DEF Reply
<1>4. StateTypes'
  BY <1>1, <1>2, <1>3 DEF Released, WireTaken
<1>5. TypeOK'
  <2>1. \A g \in Handlers : job'[g] = Idle \/ job'[g] = job[g]
    BY <1>1
  <2>2. answer'.status \in {200, 500, 502}
    BY DEF Reply, SoundReply
  <2>3. \A g \in Handlers : job'[g] = Idle \/
          /\ job'[g].request \in Gets \cup Puts \cup Multis \cup Lists
          /\ job'[g].step \in {"read", "write"}
          /\ job'[g].try \in 1 .. Tries /\ job'[g].block \in 1 .. Len(Blocks)
    BY <2>1 DEF TypeOK
  <2>4. QED
    BY <1>3, <2>2, <2>3, ReleasedTypes DEF TypeOK
<1>6. LockHeldByActive'
  BY ConstantsAssumption DEF LockHeldByActive, Released
<1>7. CurrentKnown'
  <2> SUFFICES ASSUME NEW g \in Handlers, Active(g)'
               PROVE  /\ {<<r, regs'[r]>> : r \in Registers} \subseteq known'[g]
                      /\ \A i \in DOMAIN wire' : Pairs(wire'[i]) \subseteq known'[g]
                      /\ job'[g].found \subseteq known'[g]
    BY DEF CurrentKnown, Pairs
  <2>1. g # h /\ job'[g] = job[g] /\ known'[g] = known[g] /\ Active(g)
    BY <1>1, <1>2 DEF Active
  <2>2. QED
    BY <2>1 DEF CurrentKnown, Released, WireTaken
<1>8. EchoMeansDone'
  <2> SUFFICES ASSUME NEW g \in Handlers, Active(g)', job'[g].request.kind = "multi"
               PROVE  FALSE
    BY DEF EchoMeansDone
  <2>1. g # h /\ job'[g] = job[g] /\ Active(g)
    BY <1>1 DEF Active
  <2>2. QED
    BY <2>1, OthersAreNoMulti
<1>9. WrittenWasTrue' /\ ReadWasTrue'
  BY DEF Reply, SoundReply, WrittenWasTrue, ReadWasTrue
<1>10. QED
  BY <1>4, <1>5, <1>6, <1>7, <1>8, <1>9

LEMMA ContinuePreserves ==
  ASSUME HoldingInv, NEW h \in Handlers, Active(h), lock = h,
         NEW next, Continue(h, next), SoundNext(h, next), Released
  PROVE  HoldingInv'
<1> USE DEF HoldingInv, StateTypes
<1>1. /\ job' \in [Handlers -> Jobs \cup {Idle}] /\ job'[h] = next
      /\ \A g \in Handlers \ {h} : job'[g] = job[g]
  BY DEF Continue, SoundNext
<1>2. known' = known /\ excused' = excused
  BY DEF Continue, obs
<1>3. StateTypes'
  BY <1>1, <1>2 DEF Released, WireTaken
<1>4. TypeOK'
  <2>1. next.request \in AcceptedGets \cup AcceptedPuts \cup AcceptedMultis \cup Lists
    BY JobFacts DEF SoundNext
  <2>2. next.request \in Gets \cup Puts \cup Multis \cup Lists
    BY <2>1, RequestFacts
  <2>3. /\ next.step \in {"read", "write"} /\ next.try \in 1 .. Tries
        /\ next.block \in 1 .. Len(Blocks)
    BY JobFacts DEF SoundNext
  <2>4. \A g \in Handlers : job'[g] = next \/ job'[g] = job[g]
    BY <1>1
  <2>5. answer'.status = 0
    BY DEF Continue, NoAnswer
  <2>6. \A g \in Handlers : job'[g] = Idle \/
          /\ job'[g].request \in Gets \cup Puts \cup Multis \cup Lists
          /\ job'[g].step \in {"read", "write"}
          /\ job'[g].try \in 1 .. Tries /\ job'[g].block \in 1 .. Len(Blocks)
    BY <2>2, <2>3, <2>4 DEF TypeOK
  <2>7. excused' \in [Handlers -> BOOLEAN]
    BY <1>2
  <2>8. QED
    BY <2>5, <2>6, <2>7, ReleasedTypes DEF TypeOK
<1>5. LockHeldByActive'
  BY ConstantsAssumption DEF LockHeldByActive, Released
<1>6. CurrentKnown'
  <2> SUFFICES ASSUME NEW g \in Handlers, Active(g)'
               PROVE  /\ {<<r, regs'[r]>> : r \in Registers} \subseteq known'[g]
                      /\ \A i \in DOMAIN wire' : Pairs(wire'[i]) \subseteq known'[g]
                      /\ job'[g].found \subseteq known'[g]
    BY DEF CurrentKnown, Pairs
  <2>1. Active(g)
    BY <1>1 DEF Active
  <2>2. job'[g].found \subseteq known[g]
    BY <1>1, <2>1 DEF CurrentKnown, SoundNext
  <2>3. QED
    BY <1>2, <2>1, <2>2 DEF CurrentKnown, Released, WireTaken
<1>7. EchoMeansDone'
  <2> SUFFICES ASSUME NEW g \in Handlers, Active(g)', job'[g].request.kind = "multi"
               PROVE  FALSE
    BY DEF EchoMeansDone
  <2>1. g # h /\ job'[g] = job[g] /\ Active(g)
    BY <1>1 DEF Active, SoundNext
  <2>2. QED
    BY <2>1, OthersAreNoMulti
<1>8. WrittenWasTrue' /\ ReadWasTrue'
  BY DEF Continue, NoAnswer, WrittenWasTrue, ReadWasTrue
<1>9. QED
  BY <1>3, <1>4, <1>5, <1>6, <1>7, <1>8

-----------------------------------------------------------------------------
(***************************************************************************)
(* What each handler does with the outcome of its transaction.             *)
(***************************************************************************)
\* The frame that ends the transaction of h answers what h asked.
AnswerTo(h, f) ==
  /\ f \in Frame /\ f.fn = Question(h).fn /\ f.start = Question(h).start
  /\ Pairs(f) \subseteq known[h]
  /\ f.fn = "multi" => Claims(job[h].request) \subseteq known[h] \/ excused[h]

LEMMA JobKinds ==
  ASSUME HoldingInv, NEW h \in Handlers, Active(h)
  PROVE  /\ job[h].request.kind \in {"get", "put", "multi", "list"}
         /\ job[h].request.kind = "get" => job[h] \in JobOf(AcceptedGets, {"read"})
         /\ job[h].request.kind = "list" => job[h] \in JobOf(Lists, {"read"})
         /\ job[h].request.kind = "put" => job[h] \in JobOf(AcceptedPuts, {"read", "write"})
         /\ job[h].request.kind = "multi" => job[h] \in JobOf(AcceptedMultis, {"write"})
<1>1. job[h] \in Jobs
  BY ActiveFacts
<1>2. CASE job[h] \in JobOf(AcceptedGets, {"read"})
  BY <1>2 DEF JobOf, AcceptedGets
<1>3. CASE job[h] \in JobOf(Lists, {"read"})
  BY <1>3 DEF JobOf, Lists
<1>4. CASE job[h] \in JobOf(AcceptedPuts, {"read", "write"})
  BY <1>4 DEF JobOf, AcceptedPuts, Puts
<1>5. CASE job[h] \in JobOf(AcceptedMultis, {"write"})
  BY <1>5 DEF JobOf, AcceptedMultis, Multis
<1>6. QED
  BY <1>1, <1>2, <1>3, <1>4, <1>5 DEF Jobs

\* The answer to a read of one register says what the handler knows of it.
LEMMA ReadAnswer ==
  ASSUME HoldingInv, NEW h \in Handlers, Active(h),
         job[h].request.kind \in {"get", "put"}, job[h].step = "read",
         NEW f, AnswerTo(h, f)
  PROVE  <<job[h].request.reg, f.values[1]>> \in known[h]
<1>1. Question(h) = ReadHold(job[h].request.reg, 1)
  BY DEF Question
<1>2. f.fn = "read" /\ f.start = job[h].request.reg /\ f \in Frame
  BY <1>1 DEF AnswerTo, ReadHold
<1>3. f.start \in Nat /\ f.values \in Seq(Int) /\ Len(f.values) >= 1
  BY <1>2 DEF Frame, Answers
<1>4. 1 \in DOMAIN f.values
  BY <1>3, LenProperties
<1>5. <<f.start + 1 - 1, f.values[1]>> \in Pairs(f)
  BY <1>2, <1>4 DEF Pairs
<1>6. f.start + 1 - 1 = f.start
  BY <1>3
<1>7. QED
  BY <1>2, <1>5, <1>6 DEF AnswerTo

LEMMA GetPreserves ==
  ASSUME HoldingInv, NEW h \in Handlers, Active(h), lock = h, Released,
         NEW ok \in BOOLEAN, NEW f, ok => AnswerTo(h, f), GetReturns(h, ok, f)
  PROVE  HoldingInv'
<1>1. job[h].request.kind = "get" /\ job[h].step = "read"
  BY ActiveFacts DEF GetReturns
<1>2. CASE ok /\ Reply(h, 200, {<<job[h].request.reg, f.values[1]>>})
  <2>1. SoundReply(h, 200, {<<job[h].request.reg, f.values[1]>>})
    BY <1>1, <1>2, ReadAnswer DEF SoundReply
  <2>2. QED
    BY <1>2, <2>1, ReplyPreserves
<1>3. CASE Reply(h, 502, {})
  <2>1. SoundReply(h, 502, {})
    BY DEF SoundReply
  <2>2. QED
    BY <1>3, <2>1, ReplyPreserves
<1>4. QED
  BY <1>2, <1>3 DEF GetReturns

LEMMA AnotherTry ==
  ASSUME HoldingInv, NEW h \in Handlers, Active(h), lock = h, Released,
         job[h].request.kind # "multi", TryAgain(h)
  PROVE  HoldingInv'
<1> DEFINE next == [job[h] EXCEPT !.try = @ + 1]
<1>1. job[h].try < Tries /\ Continue(h, next)
  BY DEF TryAgain
<1>2. Tries \in Nat
  BY ConstantsAssumption
<1>3. ASSUME NEW R, NEW S, job[h] \in JobOf(R, S)
      PROVE  next \in JobOf(R, S) /\ next.request = job[h].request
             /\ next.found = job[h].found
  BY <1>1, <1>2, <1>3 DEF JobOf
<1>4. next \in Jobs /\ next.request = job[h].request /\ next.found = job[h].found
  BY <1>3, JobKinds DEF Jobs
<1>5. job[h].found \subseteq known[h]
  BY DEF HoldingInv, CurrentKnown
<1>6. SoundNext(h, next)
  BY <1>4, <1>5 DEF SoundNext
<1>7. QED
  BY <1>1, <1>6, ContinuePreserves

LEMMA NextBlockPreserves ==
  ASSUME HoldingInv, NEW h \in Handlers, Active(h), lock = h, Released,
         job[h].request.kind = "list",
         NEW pairs, pairs \subseteq known[h], NextBlock(h, pairs)
  PROVE  HoldingInv'
<1> DEFINE all == {p \in job[h].found : \A q \in pairs : q[1] # p[1]} \cup pairs
           next == [job[h] EXCEPT !.block = @ + 1, !.try = 1, !.found = all]
<1>1. job[h] \in JobOf(Lists, {"read"})
  BY JobKinds
<1>2. job[h].found \subseteq known[h] /\ known[h] \in Found
  BY DEF HoldingInv, CurrentKnown, StateTypes
<1>3. all \subseteq known[h]
  BY <1>2
<1>4. all \in Found
  BY <1>2, <1>3 DEF Found
<1>5. CASE job[h].block < Len(Blocks) /\ Continue(h, next)
  <2>1. 1 \in 1 .. Tries /\ Len(Blocks) \in Nat
    BY ConstantsAssumption, LenProperties
  <2>2. job[h].block + 1 \in 1 .. Len(Blocks)
    BY <1>1, <1>5, <2>1 DEF JobOf
  <2>3. next \in JobOf(Lists, {"read"}) /\ next.request = job[h].request
        /\ next.found = all
    BY <1>1, <1>4, <2>1, <2>2 DEF JobOf
  <2>4. SoundNext(h, next)
    BY <1>3, <2>3 DEF SoundNext, Jobs
  <2>5. QED
    BY <1>5, <2>4, ContinuePreserves
<1>6. CASE Reply(h, 200, {p \in all : p[1] \in Supported})
  <2>1. SoundReply(h, 200, {p \in all : p[1] \in Supported})
    BY <1>3 DEF SoundReply
  <2>2. QED
    BY <1>6, <2>1, ReplyPreserves
<1>7. QED
  BY <1>5, <1>6 DEF NextBlock

LEMMA ListPreserves ==
  ASSUME HoldingInv, NEW h \in Handlers, Active(h), lock = h, Released,
         NEW ok \in BOOLEAN, NEW f, ok => AnswerTo(h, f), ListReturns(h, ok, f)
  PROVE  HoldingInv'
<1>1. job[h].request.kind = "list"
  BY DEF ListReturns
<1>2. CASE ok /\ NextBlock(h, Pairs(f))
  <2>1. Pairs(f) \subseteq known[h]
    BY <1>2 DEF AnswerTo
  <2>2. QED
    BY <1>1, <1>2, <2>1, NextBlockPreserves
<1>3. CASE TryAgain(h)
  BY <1>1, <1>3, AnotherTry
<1>4. CASE NextBlock(h, {})
  BY <1>1, <1>4, NextBlockPreserves
<1>5. QED
  BY <1>2, <1>3, <1>4 DEF ListReturns

LEMMA FailurePreserves ==
  ASSUME HoldingInv, NEW h \in Handlers, Active(h), lock = h, Released,
         NEW status \in {500, 502}, Reply(h, status, {})
  PROVE  HoldingInv'
<1>1. SoundReply(h, status, {})
  BY DEF SoundReply
<1>2. QED
  BY <1>1, ReplyPreserves

LEMMA PutWritePreserves ==
  ASSUME HoldingInv, NEW h \in Handlers, Active(h), lock = h, Released,
         NEW ok \in BOOLEAN, PutWriteReturns(h, ok)
  PROVE  HoldingInv'
<1>1. job[h].request.kind = "put"
  BY DEF PutWriteReturns
<1>2. CASE Continue(h, Job(job[h].request, "read"))
  <2> DEFINE next == Job(job[h].request, "read")
  <2>1. job[h] \in JobOf(AcceptedPuts, {"read", "write"})
    BY <1>1, JobKinds
  <2>2. 1 \in 1 .. Tries /\ 1 \in 1 .. Len(Blocks)
    BY ConstantsAssumption, LenProperties, EmptySeq
  <2>3. next \in JobOf(AcceptedPuts, {"read", "write"})
    BY <2>1, <2>2 DEF JobOf, Job, Found
  <2>4. SoundNext(h, next)
    BY <1>1, <2>3 DEF SoundNext, Job, Jobs
  <2>5. QED
    BY <1>2, <2>4, ContinuePreserves
<1>3. CASE TryAgain(h)
  BY <1>1, <1>3, AnotherTry
<1>4. CASE Reply(h, 502, {})
  BY <1>4, FailurePreserves
<1>5. QED
  BY <1>2, <1>3, <1>4 DEF PutWriteReturns

LEMMA PutReadPreserves ==
  ASSUME HoldingInv, NEW h \in Handlers, Active(h), lock = h, Released,
         NEW ok \in BOOLEAN, NEW f, ok => AnswerTo(h, f), PutReadReturns(h, ok, f)
  PROVE  HoldingInv'
<1>1. job[h].request.kind = "put" /\ job[h].step = "read"
  BY DEF PutReadReturns
<1>2. CASE /\ Verified(h, ok, f)
           /\ Reply(h, 200, {<<job[h].request.reg, job[h].request.raw>>})
  <2>1. <<job[h].request.reg, job[h].request.raw>> \in known[h]
    BY <1>1, <1>2, ReadAnswer DEF Verified
  <2>2. SoundReply(h, 200, {<<job[h].request.reg, job[h].request.raw>>})
    BY <1>1, <2>1 DEF SoundReply
  <2>3. QED
    BY <1>2, <2>2, ReplyPreserves
<1>3. CASE TryAgain(h)
  BY <1>1, <1>3, AnotherTry
<1>4. CASE Reply(h, 502, {})
  BY <1>4, FailurePreserves
<1>5. QED
  BY <1>2, <1>3, <1>4 DEF PutReadReturns

LEMMA MultiPreserves ==
  ASSUME HoldingInv, NEW h \in Handlers, Active(h), lock = h, Released,
         NEW ok \in BOOLEAN, NEW f, ok => AnswerTo(h, f), MultiReturns(h, ok)
  PROVE  HoldingInv'
<1>1. job[h].request.kind = "multi"
  BY DEF MultiReturns
<1>2. CASE ok /\ Reply(h, 200, Claims(job[h].request))
  <2>1. f.fn = "multi"
    BY <1>1, <1>2, QuestionSound DEF AnswerTo
  <2>2. SoundReply(h, 200, Claims(job[h].request))
    BY <1>1, <1>2, <2>1 DEF SoundReply, AnswerTo
  <2>3. QED
    BY <1>2, <2>2, ReplyPreserves
<1>3. CASE Reply(h, 502, {})
  BY <1>3, FailurePreserves
<1>4. QED
  BY <1>2, <1>3 DEF MultiReturns, Claims

LEMMA ReturnsPreserves ==
  ASSUME HoldingInv, NEW h \in Handlers, Active(h), lock = h,
         NEW ok \in BOOLEAN, NEW f, ok => AnswerTo(h, f), Returns(h, ok, f),
         UNCHANGED <<sock, queue, regs>>, WireTaken
  PROVE  HoldingInv'
<1>1. Released
  BY DEF Returns, Released
<1>2. CASE GetReturns(h, ok, f)
  BY <1>1, <1>2, GetPreserves
<1>3. CASE ListReturns(h, ok, f)
  BY <1>1, <1>3, ListPreserves
<1>4. CASE PutWriteReturns(h, ok)
  BY <1>1, <1>4, PutWritePreserves
<1>5. CASE PutReadReturns(h, ok, f)
  BY <1>1, <1>5, PutReadPreserves
<1>6. CASE MultiReturns(h, ok)
  BY <1>1, <1>6, MultiPreserves
<1>7. QED
  BY <1>2, <1>3, <1>4, <1>5, <1>6 DEF Returns

-----------------------------------------------------------------------------
(***************************************************************************)
(* The steps of transact().                                                *)
(***************************************************************************)
LockStep ==
  /\ lock' \in Handlers \cup {NoHandler} /\ att' \in 0 .. Attempts
  /\ waiting' \in BOOLEAN /\ sock' \in {"none", "up"}
  /\ lock \in Handlers => lock' = lock
  /\ lock' \in Handlers => Active(lock')

\* What the dongle comes to owe is what the owner of the lock asks.
QueueStep ==
  /\ queue' \in Seq(Entry) /\ Len(queue') <= MaxQueue
  /\ \A i \in DOMAIN queue' : queue'[i].reply =>
       \/ \E j \in DOMAIN queue : queue'[i] = queue[j]
       \/ lock \in Handlers /\ queue'[i].q = Question(lock)

\* A step that changes neither what a handler is doing nor the registers.
LEMMA QuietStep ==
  ASSUME HoldingInv, UNCHANGED <<job, regs, known, excused>>,
         LockStep, QueueStep, WireTaken,
         answer'.status \in {0, 400, 404, 422, 500}
  PROVE  HoldingInv'
<1>1. StateTypes'
  BY DEF HoldingInv, StateTypes, QueueStep, WireTaken
<1>2. TypeOK'
  <2>1. /\ \A h \in Handlers : job'[h] = Idle \/
             /\ job'[h].request \in Gets \cup Puts \cup Multis \cup Lists
             /\ job'[h].step \in {"read", "write"}
             /\ job'[h].try \in 1 .. Tries /\ job'[h].block \in 1 .. Len(Blocks)
        /\ \A r \in Registers : regs'[r] \in Allowed(r)
        /\ excused' \in [Handlers -> BOOLEAN]
    BY DEF HoldingInv, TypeOK
  <2>2. /\ lock' \in Handlers \cup {NoHandler} /\ att' \in 0 .. Attempts
        /\ waiting' \in BOOLEAN /\ sock' \in {"none", "up"}
        /\ Len(queue') <= MaxQueue /\ Len(wire') <= MaxWire
    BY DEF LockStep, QueueStep, WireTaken
  <2>3. answer'.status \in {0, 200, 400, 404, 422, 500, 502}
    OBVIOUS
  <2>4. QED
    BY <2>1, <2>2, <2>3 DEF TypeOK
<1>3. LockHeldByActive'
  BY DEF LockHeldByActive, LockStep, Active
<1>4. CurrentKnown'
  <2> SUFFICES ASSUME NEW g \in Handlers, Active(g)
               PROVE  /\ {<<r, regs[r]>> : r \in Registers} \subseteq known[g]
                      /\ \A i \in DOMAIN wire' : Pairs(wire'[i]) \subseteq known[g]
                      /\ job[g].found \subseteq known[g]
    BY DEF CurrentKnown, Pairs, Active
  <2>1. QED
    BY DEF HoldingInv, CurrentKnown, WireTaken
<1>5. EchoMeansDone'
  <2> SUFFICES ASSUME NEW g \in Handlers, Active(g), job[g].request.kind = "multi"
               PROVE
        /\ lock' = g
        /\ ~excused[g] =>
             /\ \A i \in DOMAIN queue' :
                  MultiAt(queue'[i].q, job[g].request.reg) /\ queue'[i].reply =>
                    queue'[i].q.values = job[g].request.values
             /\ \A i \in DOMAIN wire' : MultiAt(wire'[i], job[g].request.reg) =>
                  Claims(job[g].request) \subseteq known[g]
    BY DEF EchoMeansDone, Active, Claims, MultiAt
  <2>1. lock = g
    BY DEF HoldingInv, EchoMeansDone
  <2>2. lock' = g
    BY <2>1 DEF LockStep
  <2>3. ASSUME ~excused[g], NEW i \in DOMAIN queue',
               MultiAt(queue'[i].q, job[g].request.reg), queue'[i].reply
        PROVE  queue'[i].q.values = job[g].request.values
    <3>1. CASE \E j \in DOMAIN queue : queue'[i] = queue[j]
      BY <2>3, <3>1 DEF HoldingInv, EchoMeansDone
    <3>2. CASE queue'[i].q = Question(g)
      BY <2>3, <3>2, QuestionSound DEF MultiAt
    <3>3. QED
      BY <2>1, <2>3, <3>1, <3>2 DEF QueueStep
  <2>4. ASSUME ~excused[g], NEW i \in DOMAIN wire',
               MultiAt(wire'[i], job[g].request.reg)
        PROVE  Claims(job[g].request) \subseteq known[g]
    BY <2>4 DEF HoldingInv, EchoMeansDone, WireTaken
  <2>5. QED
    BY <2>2, <2>3, <2>4
<1>6. WrittenWasTrue' /\ ReadWasTrue'
  BY DEF WrittenWasTrue, ReadWasTrue
<1>7. QED
  BY <1>1, <1>2, <1>3, <1>4, <1>5, <1>6 DEF HoldingInv

LEMMA SameWire ==
  ASSUME HoldingInv, wire' = wire
  PROVE  WireTaken
BY DEF HoldingInv, TypeOK, StateTypes, WireTaken

LEMMA SameQueue ==
  ASSUME HoldingInv, queue' = queue
  PROVE  QueueStep
BY DEF HoldingInv, TypeOK, StateTypes, QueueStep

LEMMA ChunkTaken ==
  ASSUME HoldingInv, NEW n \in 1 .. Len(wire),
         wire' = SubSeq(wire, n + 1, Len(wire))
  PROVE  WireTaken
<1>1. wire \in Seq(Frame) /\ Len(wire) \in Nat /\ Len(wire) <= MaxWire
  BY DEF HoldingInv, TypeOK, StateTypes
<1>2. DOMAIN wire = 1 .. Len(wire)
  BY <1>1, LenProperties
<1>3. \A i \in (n + 1) .. Len(wire) : wire[i] \in Frame
  BY <1>1, ElementOfSeq
<1>4. /\ wire' \in Seq(Frame) /\ Len(wire') = Len(wire) - n
      /\ \A i \in 1 .. (Len(wire) - n) : wire'[i] = wire[n + i]
  BY <1>1, <1>3, SubSeqProperties
<1>5. DOMAIN wire' = 1 .. Len(wire')
  BY <1>4, LenProperties
<1>6. ASSUME NEW i \in DOMAIN wire'
      PROVE  n + i \in DOMAIN wire /\ wire'[i] = wire[n + i]
  <2>1. i \in 1 .. (Len(wire) - n)
    BY <1>1, <1>4, <1>5
  <2>2. n + i \in 1 .. Len(wire)
    BY <1>1, <2>1
  <2>3. QED
    BY <1>2, <1>4, <2>1, <2>2
<1>7. Len(wire') <= MaxWire
  BY <1>1, <1>4, ConstantsAssumption
<1>8. QED
  BY <1>4, <1>6, <1>7 DEF WireTaken

LEMMA OwnerActive ==
  ASSUME HoldingInv, NEW h \in Handlers, lock = h
  PROVE  Active(h)
BY DEF HoldingInv, LockHeldByActive

LEMMA ReceivePreserves ==
  ASSUME HoldingInv, NEW h \in Handlers, Receive(h)
  PROVE  HoldingInv'
<1>1. PICK n \in 1 .. Len(wire) :
        (\E i \in 1 .. n : ReceiveMatch(h, n, i)) \/ ReceiveNoMatch(h, n)
  BY DEF Receive
<1>2. lock = h /\ waiting /\ wire' = SubSeq(wire, n + 1, Len(wire))
  BY <1>1 DEF ReceiveMatch, ReceiveNoMatch
<1>3. Active(h) /\ WireTaken
  BY <1>2, OwnerActive, ChunkTaken
<1>4. CASE ReceiveNoMatch(h, n)
  <2>1. UNCHANGED <<job, regs, known, excused, lock, att, waiting, sock, queue>>
    BY <1>4 DEF ReceiveNoMatch, conn, obs
  <2>2. LockStep
    BY <1>2, <1>3, <2>1 DEF HoldingInv, TypeOK, LockStep, Active
  <2>3. answer'.status = 0
    BY <1>4 DEF ReceiveNoMatch, NoAnswer
  <2>4. QED
    BY <1>3, <2>1, <2>2, <2>3, SameQueue, QuietStep
<1>5. CASE \E i \in 1 .. n : ReceiveMatch(h, n, i)
  <2>1. PICK i \in 1 .. n : ReceiveMatch(h, n, i)
    BY <1>5
  <2>2. /\ wire \in Seq(Frame) /\ i \in DOMAIN wire /\ wire[i] \in Frame
    <3>1. wire \in Seq(Frame) /\ i \in 1 .. Len(wire)
      BY DEF HoldingInv, StateTypes
    <3>2. QED
      BY <3>1, LenProperties, ElementOfSeq
  <2>3. ASSUME wire[i].fn # "error" PROVE AnswerTo(h, wire[i])
    <3>1. wire[i].fn = Question(h).fn /\ wire[i].start = Question(h).start
      BY <2>1, <2>3 DEF ReceiveMatch, Matches
    <3>2. Pairs(wire[i]) \subseteq known[h]
      BY <1>3, <2>2 DEF HoldingInv, CurrentKnown
    <3>3. ASSUME wire[i].fn = "multi"
          PROVE  Claims(job[h].request) \subseteq known[h] \/ excused[h]
      <4>1. job[h].request.kind = "multi"
        BY <1>3, <3>1, <3>3, QuestionSound
      <4>2. MultiAt(wire[i], job[h].request.reg)
        BY <1>3, <3>1, <3>3, QuestionSound DEF MultiAt
      <4>3. QED
        BY <1>3, <2>2, <4>1, <4>2 DEF HoldingInv, EchoMeansDone
    <3>4. QED
      BY <2>2, <3>1, <3>2, <3>3 DEF AnswerTo
  <2>4. Returns(h, wire[i].fn # "error", wire[i]) /\ UNCHANGED <<sock, queue, regs>>
    BY <2>1 DEF ReceiveMatch
  <2>5. (wire[i].fn # "error") \in BOOLEAN
    OBVIOUS
  <2>6. QED
    BY <1>2, <1>3, <2>3, <2>4, <2>5, ReturnsPreserves
<1>6. QED
  BY <1>1, <1>4, <1>5

LEMMA AttemptFailsPreserves ==
  ASSUME HoldingInv, NEW h \in Handlers, AttemptFails(h)
  PROVE  HoldingInv'
<1>1. lock = h /\ Active(h) /\ UNCHANGED <<sock, queue, wire, regs>>
  BY OwnerActive DEF AttemptFails
<1>2. WireTaken
  BY <1>1, SameWire
<1>3. CASE /\ att < Attempts /\ att' = att + 1 /\ waiting' = FALSE
           /\ answer' = NoAnswer /\ UNCHANGED <<job, lock, obs>>
  <2>1. UNCHANGED <<job, regs, known, excused, lock, sock, queue>>
    BY <1>1, <1>3 DEF obs
  <2>2. att' \in 0 .. Attempts
    BY <1>3, ConstantsAssumption DEF HoldingInv, TypeOK
  <2>3. sock' \in {"none", "up"} /\ waiting' \in BOOLEAN
    <3>1. sock' \in {"none", "up"}
      BY <2>1 DEF HoldingInv, TypeOK
    <3>2. QED
      BY <1>3, <3>1
  <2>4. lock' = h /\ (lock \in Handlers => lock' = lock)
    BY <1>1, <2>1
  <2>5. LockStep
    BY <1>1, <2>2, <2>3, <2>4 DEF LockStep
  <2>6. QED
    BY <1>2, <1>3, <2>1, <2>5, SameQueue, QuietStep DEF NoAnswer
<1>4. CASE Returns(h, FALSE, [fn |-> "none"])
  BY <1>1, <1>2, <1>4, ReturnsPreserves
<1>5. QED
  BY <1>3, <1>4 DEF AttemptFails

LEMMA ResumePreserves ==
  ASSUME HoldingInv, NEW h \in Handlers, Resume(h)
  PROVE  HoldingInv'
<1>1. UNCHANGED <<job, regs, known, excused, waiting, sock, queue, wire>>
  BY DEF Resume, obs
<1>2. /\ lock = NoHandler /\ lock' = h /\ att' = 1 /\ Active(h)
  BY DEF Resume, Acquire, Active
<1>3. 1 \in 0 .. Attempts /\ NoHandler \notin Handlers
  BY ConstantsAssumption
<1>4. LockStep
  BY <1>1, <1>2, <1>3 DEF HoldingInv, TypeOK, LockStep, Active
<1>5. QED
  BY <1>1, <1>4, SameWire, SameQueue, QuietStep DEF Resume, NoAnswer

LEMMA RefusePreserves ==
  ASSUME HoldingInv, NEW h \in Handlers, NEW status \in {400, 404, 422, 500},
         Refuse(h, status)
  PROVE  HoldingInv'
<1>1. /\ UNCHANGED <<job, regs, known, excused, lock, att, waiting, sock, queue, wire>>
      /\ answer'.status = status
  BY DEF Refuse, conn, obs
<1>2. LockStep
  BY <1>1 DEF HoldingInv, TypeOK, LockHeldByActive, LockStep, Active
<1>3. QED
  BY <1>1, <1>2, SameWire, SameQueue, QuietStep

LEMMA SendPreserves ==
  ASSUME HoldingInv, NEW h \in Handlers, Send(h)
  PROVE  HoldingInv'
<1>1. /\ lock = h /\ Active(h) /\ waiting' = TRUE /\ sock' = "up"
      /\ UNCHANGED <<job, lock, att, wire, regs, known, excused>>
      /\ answer' = NoAnswer
  BY OwnerActive DEF Send, obs
<1>2. LockStep
  BY <1>1 DEF HoldingInv, TypeOK, LockStep, Active
<1>3. QueueStep
  <2> DEFINE e == [q |-> Question(h), reply |-> TRUE]
  <2>1. queue \in Seq(Entry) /\ Len(queue) <= MaxQueue /\ MaxQueue \in Nat
    BY ConstantsAssumption DEF HoldingInv, TypeOK, StateTypes
  <2>2. e \in Entry
    BY <1>1, QuestionSound DEF Entry
  <2>3. CASE queue' = queue
    BY <2>3, SameQueue
  <2>4. CASE Len(queue) < MaxQueue /\ queue' = Append(queue, e)
    <3>1. /\ queue' \in Seq(Entry) /\ Len(queue') = Len(queue) + 1
          /\ \A i \in 1 .. Len(queue) : queue'[i] = queue[i]
          /\ queue'[Len(queue) + 1] = e
      BY <2>1, <2>2, <2>4, AppendProperties
    <3>2. DOMAIN queue' = 1 .. (Len(queue) + 1) /\ DOMAIN queue = 1 .. Len(queue)
          /\ Len(queue) \in Nat
      BY <2>1, <3>1, LenProperties
    <3>3. \A i \in DOMAIN queue' : i \in DOMAIN queue \/ i = Len(queue) + 1
      BY <3>2
    <3>4. QED
      BY <1>1, <2>1, <2>4, <3>1, <3>2, <3>3 DEF QueueStep
  <2>5. QED
    BY <2>3, <2>4 DEF Send
<1>4. QED
  BY <1>1, <1>2, <1>3, SameWire, QuietStep DEF NoAnswer

LEMMA RefusedPreserves ==
  ASSUME HoldingInv, NEW h \in Handlers, Refused(h)
  PROVE  HoldingInv'
<1>1. /\ lock = h /\ Active(h) /\ lock' = NoHandler /\ att' = 0 /\ waiting' = waiting
      /\ waiting = FALSE
      /\ UNCHANGED <<sock, queue, wire, regs>> /\ Reply(h, 500, {})
  BY OwnerActive DEF Refused, HoldingInv, TypeOK
<1>2. Released
  BY <1>1, SameWire DEF Released
<1>3. QED
  BY <1>1, <1>2, FailurePreserves

-----------------------------------------------------------------------------
(***************************************************************************)
(* A request comes in.                                                     *)
(***************************************************************************)
LEMMA PairsFound ==
  ASSUME NEW f \in Frame
  PROVE  Pairs(f) \in Found
<1>1. CASE f.fn = "read"
  <2>1. f.start \in Nat /\ f.values \in Seq(Int)
    BY <1>1 DEF Frame, Answers
  <2>2. \A i \in DOMAIN f.values : i \in Int /\ f.values[i] \in Int
    BY <2>1, LenProperties, ElementOfSeq
  <2>3. \A i \in DOMAIN f.values : f.start + i - 1 \in Int
    BY <2>1, <2>2
  <2>4. QED
    BY <1>1, <2>2, <2>3 DEF Pairs, Found
<1>2. CASE f.fn # "read"
  BY <1>2 DEF Pairs, Found
<1>3. QED
  BY <1>1, <1>2

LEMMA RegistersFound ==
  ASSUME NEW new \in [Registers -> Words]
  PROVE  {<<r, new[r]>> : r \in Registers} \in Found
<1>1. \A r \in Registers : r \in Int /\ new[r] \in Int
  BY RegisterFacts
<1>2. QED
  BY <1>1 DEF Found

LEMMA BeginPreserves ==
  ASSUME HoldingInv, NEW h \in Handlers,
         NEW request \in AcceptedGets \cup AcceptedPuts \cup AcceptedMultis \cup Lists,
         Begin(h, request)
  PROVE  HoldingInv'
<1> DEFINE next  == Job(request, IF request.kind \in {"put", "multi"}
                                 THEN "write" ELSE "read")
           fresh == {<<r, regs[r]>> : r \in Registers}
                      \cup UNION {Pairs(wire[i]) : i \in DOMAIN wire}
<1>1. /\ lock = NoHandler /\ lock' = h /\ att' = 1
      /\ UNCHANGED <<waiting, sock, queue, wire, regs>> /\ answer' = NoAnswer
      /\ job' = [job EXCEPT ![h] = next]
      /\ known' = [known EXCEPT ![h] = fresh]
      /\ excused' = [excused EXCEPT ![h] = request.kind = "multi" /\ OwesMulti(request.reg)]
  BY DEF Begin, Acquire
<1>2. next \in Jobs /\ next.request = request /\ next.found = {}
  <2>1. 1 \in 1 .. Tries /\ 1 \in 1 .. Len(Blocks) /\ {} \in Found
    BY ConstantsAssumption, LenProperties, EmptySeq DEF Found
  <2>2. CASE request \in AcceptedGets \cup Lists
    <3>1. request.kind \in {"get", "list"}
      BY <2>2 DEF AcceptedGets, Lists
    <3>2. QED
      BY <2>1, <2>2, <3>1 DEF Job, Jobs, JobOf
  <2>3. CASE request \in AcceptedPuts
    <3>1. request.kind = "put"
      BY <2>3 DEF AcceptedPuts, Puts
    <3>2. QED
      BY <2>1, <2>3, <3>1 DEF Job, Jobs, JobOf
  <2>4. CASE request \in AcceptedMultis
    <3>1. request.kind = "multi"
      BY <2>4 DEF AcceptedMultis, Multis
    <3>2. QED
      BY <2>1, <2>4, <3>1 DEF Job, Jobs, JobOf
  <2>5. QED
    BY <2>2, <2>3, <2>4
<1>3. fresh \in Found
  <2>1. {<<r, regs[r]>> : r \in Registers} \in Found
    BY RegistersFound DEF HoldingInv, StateTypes
  <2>2. \A i \in DOMAIN wire : wire[i] \in Frame
    BY LenProperties, ElementOfSeq DEF HoldingInv, StateTypes
  <2>3. \A i \in DOMAIN wire : Pairs(wire[i]) \in Found
    BY <2>2, PairsFound
  <2>4. QED
    BY <2>1, <2>3 DEF Found
<1>4. /\ job'[h] = next /\ known'[h] = fresh
      /\ excused'[h] = (request.kind = "multi" /\ OwesMulti(request.reg))
      /\ \A g \in Handlers \ {h} : /\ job'[g] = job[g] /\ known'[g] = known[g]
                                   /\ excused'[g] = excused[g]
  BY <1>1 DEF HoldingInv, StateTypes
<1>5. StateTypes'
  BY <1>1, <1>2, <1>3 DEF HoldingInv, StateTypes
<1>6. TypeOK'
  <2>1. \A g \in Handlers : job'[g] = next \/ job'[g] = job[g]
    BY <1>4
  <2>2. next.request \in Gets \cup Puts \cup Multis \cup Lists
    BY <1>2, RequestFacts
  <2>3. \A g \in Handlers : job'[g] = Idle \/
          /\ job'[g].request \in Gets \cup Puts \cup Multis \cup Lists
          /\ job'[g].step \in {"read", "write"}
          /\ job'[g].try \in 1 .. Tries /\ job'[g].block \in 1 .. Len(Blocks)
    BY <1>2, <2>1, <2>2, JobFacts DEF HoldingInv, TypeOK
  <2>4. /\ waiting' \in BOOLEAN /\ sock' \in {"none", "up"}
        /\ Len(queue') <= MaxQueue /\ Len(wire') <= MaxWire
        /\ \A r \in Registers : regs'[r] \in Allowed(r)
    BY <1>1 DEF HoldingInv, TypeOK
  <2>5. att' \in 0 .. Attempts /\ answer'.status = 0
    BY <1>1, ConstantsAssumption DEF NoAnswer
  <2>6. excused' \in [Handlers -> BOOLEAN]
    BY <1>5 DEF StateTypes
  <2>7. QED
    BY <1>1, <2>3, <2>4, <2>5, <2>6 DEF TypeOK
<1>7. LockHeldByActive'
  BY <1>1, <1>2, <1>4, JobFacts DEF LockHeldByActive, Active
<1>8. CurrentKnown'
  <2> SUFFICES ASSUME NEW g \in Handlers, Active(g)'
               PROVE  /\ {<<r, regs'[r]>> : r \in Registers} \subseteq known'[g]
                      /\ \A i \in DOMAIN wire' : Pairs(wire'[i]) \subseteq known'[g]
                      /\ job'[g].found \subseteq known'[g]
    BY DEF CurrentKnown, Pairs
  <2>1. CASE g = h
    BY <1>1, <1>2, <1>4, <2>1
  <2>2. CASE g # h
    <3>1. Active(g) /\ known'[g] = known[g] /\ job'[g] = job[g]
      BY <1>4, <2>2 DEF Active
    <3>2. QED
      BY <1>1, <3>1 DEF HoldingInv, CurrentKnown
  <2>3. QED
    BY <2>1, <2>2
<1>9. EchoMeansDone'
  <2> SUFFICES ASSUME NEW g \in Handlers, Active(g)', job'[g].request.kind = "multi"
               PROVE
        /\ lock' = g
        /\ ~excused'[g] =>
             /\ \A i \in DOMAIN queue' :
                  ~(MultiAt(queue'[i].q, job'[g].request.reg) /\ queue'[i].reply)
             /\ \A i \in DOMAIN wire' : ~MultiAt(wire'[i], job'[g].request.reg)
    BY DEF EchoMeansDone, MultiAt
  <2>1. CASE g = h
    BY <1>1, <1>2, <1>4, <2>1 DEF OwesMulti, MultiAt
  <2>2. CASE g # h
    <3>1. Active(g) /\ job'[g] = job[g]
      BY <1>4, <2>2 DEF Active
    <3>2. QED
      BY <1>1, <2>2, <3>1, OthersAreNoMulti
  <2>3. QED
    BY <2>1, <2>2
<1>10. WrittenWasTrue' /\ ReadWasTrue'
  BY <1>1 DEF NoAnswer, WrittenWasTrue, ReadWasTrue
<1>11. QED
  BY <1>5, <1>6, <1>7, <1>8, <1>9, <1>10 DEF HoldingInv

\* The checks of the handlers let only sound requests through.
LEMMA PutChecked ==
  ASSUME NEW r \in Address, NEW b \in Bodies, NEW configured, PutRefusal(r, b, configured) = 0
  PROVE  [kind |-> "put", reg |-> r, raw |-> RawOf(r, b)] \in AcceptedPuts
<1>1. r \in Supported /\ InRange(r, RawOf(r, b)) /\ RawOf(r, b) \in Words
  BY DEF PutRefusal
<1>2. RawOf(r, b) \in Int /\ Holding[r].min \in Int /\ Holding[r].max \in Int
  BY <1>1, RegisterFacts, ConstantsAssumption
<1>3. RawOf(r, b) \in Allowed(r)
  BY <1>1, <1>2 DEF Allowed, InRange
<1>4. QED
  BY <1>1, <1>3 DEF AcceptedPuts, Puts

LEMMA MultiChecked ==
  ASSUME NEW r \in Multis, NEW configured,
         MultiRefusal(r.reg, r.values, configured) = 0
  PROVE  r \in AcceptedMultis
<1>1. /\ Range(r.values) \subseteq Words
      /\ \A i \in DOMAIN r.values : /\ r.reg + i - 1 \in Supported
                                    /\ InRange(r.reg + i - 1, r.values[i])
  BY DEF MultiRefusal
<1>2. ASSUME NEW i \in DOMAIN r.values
      PROVE  r.values[i] \in Allowed(r.reg + i - 1)
  <2>1. r.values[i] \in Words /\ r.values[i] \in Int
    BY <1>1, RegisterFacts DEF Range
  <2>2. r.reg + i - 1 \in Address
    BY <1>1, RegisterFacts
  <2>3. QED
    BY <1>1, <2>1, <2>2, ConstantsAssumption DEF Allowed, InRange
<1>3. QED
  BY <1>1, <1>2 DEF AcceptedMultis

LEMMA RefusalCodes ==
  ASSUME NEW r, NEW b, NEW l, NEW configured
  PROVE  /\ GetRefusal(r, configured) \in {0, 400, 404, 422, 500}
         /\ ListRefusal(configured) \in {0, 400, 404, 422, 500}
         /\ PutRefusal(r, b, configured) \in {0, 400, 404, 422, 500}
         /\ MultiRefusal(r, l, configured) \in {0, 400, 404, 422, 500}
BY DEF GetRefusal, ListRefusal, PutRefusal, MultiRefusal

\* A request that is checked begins, or is refused.
LEMMA CheckedPreserves ==
  ASSUME HoldingInv, NEW h \in Handlers, NEW request,
         NEW refusal \in {0, 400, 404, 422, 500}, Checked(h, refusal, request),
         refusal = 0 =>
           request \in AcceptedGets \cup AcceptedPuts \cup AcceptedMultis \cup Lists
  PROVE  HoldingInv'
<1>1. CASE refusal = 0 /\ Begin(h, request)
  BY <1>1, BeginPreserves
<1>2. CASE refusal # 0 /\ Refuse(h, refusal)
  BY <1>2, RefusePreserves
<1>3. QED
  BY <1>1, <1>2 DEF Checked

LEMMA BeginsPreserve ==
  ASSUME HoldingInv, NEW h \in Handlers,
         BeginGet(h) \/ BeginList(h) \/ BeginPut(h) \/ BeginMulti(h)
  PROVE  HoldingInv'
<1>1. CASE BeginGet(h)
  <2>1. PICK r \in Gets, configured \in BOOLEAN :
          Checked(h, GetRefusal(r.reg, configured), r)
    BY <1>1 DEF BeginGet
  <2>2. ASSUME GetRefusal(r.reg, configured) = 0 PROVE r \in AcceptedGets
    BY <2>2 DEF GetRefusal, AcceptedGets, Gets
  <2>3. QED
    BY <2>1, <2>2, RefusalCodes, CheckedPreserves
<1>2. CASE BeginList(h)
  <2>1. PICK r \in Lists, configured \in BOOLEAN :
          Checked(h, ListRefusal(configured), r)
    BY <1>2 DEF BeginList
  <2>2. QED
    BY <2>1, RefusalCodes, CheckedPreserves
<1>3. CASE BeginPut(h)
  <2>1. PICK r \in Address, b \in Bodies, configured \in BOOLEAN :
          Checked(h, PutRefusal(r, b, configured),
                  [kind |-> "put", reg |-> r, raw |-> RawOf(r, b)])
    BY <1>3 DEF BeginPut
  <2>2. QED
    BY <2>1, PutChecked, RefusalCodes, CheckedPreserves
<1>4. CASE BeginMulti(h)
  <2>1. PICK r \in Multis, configured \in BOOLEAN :
          Checked(h, MultiRefusal(r.reg, r.values, configured), r)
    BY <1>4 DEF BeginMulti
  <2>2. QED
    BY <2>1, MultiChecked, RefusalCodes, CheckedPreserves
<1>5. QED
  BY <1>1, <1>2, <1>3, <1>4

-----------------------------------------------------------------------------
(***************************************************************************)
(* The dongle, the inverter and its panel.                                 *)
(***************************************************************************)
Contents(new) == {<<r, new[r]>> : r \in Registers}

\* An answer that may go on the wire: a read says what the registers hold, and
\* the echo a multi-write that is not excused can take for its own that they
\* hold its values.
SoundAnswer(new, reply) ==
  /\ reply \in Frame /\ Pairs(reply) \subseteq Contents(new)
  /\ Head(queue).reply =>
       \A g \in Handlers :
         /\ Active(g) /\ job[g].request.kind = "multi" /\ ~excused'[g]
         /\ MultiAt(reply, job[g].request.reg)
         => Claims(job[g].request) \subseteq Contents(new)

LEMMA FirstEntry ==
  ASSUME HoldingInv, queue # <<>>
  PROVE  /\ Head(queue) \in Entry /\ Head(queue).q \in SoundQuestion
         /\ Head(queue) = queue[1] /\ 1 \in DOMAIN queue
         /\ Tail(queue) \in Seq(Entry) /\ Len(Tail(queue)) <= MaxQueue
         /\ \A i \in DOMAIN Tail(queue) : \E j \in DOMAIN queue : Tail(queue)[i] = queue[j]
<1>1. queue \in Seq(Entry) /\ Len(queue) <= MaxQueue /\ MaxQueue \in Nat
  BY ConstantsAssumption DEF HoldingInv, TypeOK, StateTypes
<1>2. Len(queue) \in Nat \ {0} /\ DOMAIN queue = 1 .. Len(queue)
  BY <1>1, LenProperties, EmptySeq
<1>3. /\ Head(queue) \in Entry /\ Head(queue) = queue[1]
      /\ Tail(queue) \in Seq(Entry) /\ Len(Tail(queue)) = Len(queue) - 1
      /\ \A i \in 1 .. (Len(queue) - 1) : Tail(queue)[i] = queue[i + 1]
  BY <1>1, HeadTailProperties
<1>4. DOMAIN Tail(queue) = 1 .. (Len(queue) - 1)
  BY <1>3, LenProperties
<1>5. ASSUME NEW i \in DOMAIN Tail(queue)
      PROVE  i + 1 \in DOMAIN queue /\ Tail(queue)[i] = queue[i + 1]
  BY <1>2, <1>3, <1>4
<1>6. QED
  BY <1>1, <1>2, <1>3, <1>5 DEF Entry

\* What happens to the registers is known at once to every handler at work.
LEMMA KnownGrows ==
  ASSUME HoldingInv, NEW new \in [Registers -> Words], NEW more \in SUBSET Contents(new),
         known' = [g \in Handlers |-> IF job[g] = Idle THEN known[g]
                                      ELSE known[g] \cup more]
  PROVE  /\ known' \in [Handlers -> Found]
         /\ \A g \in Handlers : /\ known[g] \subseteq known'[g]
                                /\ Active(g) => more \subseteq known'[g]
<1>1. more \in Found
  BY RegistersFound DEF Contents, Found
<1>2. \A g \in Handlers : known[g] \in Found
  BY DEF HoldingInv, StateTypes
<1>3. \A g \in Handlers : known[g] \cup more \in Found
  BY <1>1, <1>2 DEF Found
<1>4. QED
  BY <1>2, <1>3 DEF Active

LEMMA HandlePreserves ==
  ASSUME HoldingInv, NEW new \in [Registers -> Words],
         \A r \in Registers : new[r] \in Allowed(r),
         NEW reply, reply = <<>> \/ SoundAnswer(new, reply), Handle(new, reply),
         excused' \in [Handlers -> BOOLEAN],
         \A g \in Handlers : excused[g] => excused'[g]
  PROVE  HoldingInv'
<1>1. /\ queue # <<>> /\ queue' = Tail(queue) /\ regs' = new
      /\ UNCHANGED <<job, lock, att, waiting, sock>> /\ answer' = NoAnswer
      /\ Len(wire') <= MaxWire
      /\ wire' = wire \/ (SoundAnswer(new, reply) /\ Head(queue).reply
                          /\ wire' = Append(wire, reply))
  BY DEF Handle, conn
<1>2. /\ known' \in [Handlers -> Found]
      /\ \A g \in Handlers : /\ known[g] \subseteq known'[g]
                             /\ Active(g) => Contents(new) \subseteq known'[g]
  BY KnownGrows DEF Handle, Contents
<1>3. /\ wire' \in Seq(Frame)
      /\ \A i \in DOMAIN wire' :
           \/ \E j \in DOMAIN wire : wire'[i] = wire[j]
           \/ wire'[i] = reply /\ SoundAnswer(new, reply) /\ Head(queue).reply
  <2>1. wire \in Seq(Frame)
    BY DEF HoldingInv, StateTypes
  <2>2. CASE wire' = wire
    BY <2>1, <2>2
  <2>3. CASE SoundAnswer(new, reply) /\ Head(queue).reply /\ wire' = Append(wire, reply)
    <3>1. /\ wire' \in Seq(Frame) /\ Len(wire') = Len(wire) + 1
          /\ \A i \in 1 .. Len(wire) : wire'[i] = wire[i]
          /\ wire'[Len(wire) + 1] = reply
      BY <2>1, <2>3, AppendProperties DEF SoundAnswer
    <3>2. DOMAIN wire' = 1 .. (Len(wire) + 1) /\ DOMAIN wire = 1 .. Len(wire)
          /\ Len(wire) \in Nat
      BY <2>1, <3>1, LenProperties
    <3>3. \A i \in DOMAIN wire' : i \in DOMAIN wire \/ i = Len(wire) + 1
      BY <3>2
    <3>4. QED
      BY <2>3, <3>1, <3>2, <3>3
  <2>4. QED
    BY <1>1, <2>2, <2>3
<1>4. StateTypes'
  BY <1>1, <1>2, <1>3, FirstEntry DEF HoldingInv, StateTypes
<1>5. TypeOK'
  <2>1. \A g \in Handlers : job'[g] = Idle \/
          /\ job'[g].request \in Gets \cup Puts \cup Multis \cup Lists
          /\ job'[g].step \in {"read", "write"}
          /\ job'[g].try \in 1 .. Tries /\ job'[g].block \in 1 .. Len(Blocks)
    BY <1>1 DEF HoldingInv, TypeOK
  <2>2. /\ lock' \in Handlers \cup {NoHandler} /\ att' \in 0 .. Attempts
        /\ waiting' \in BOOLEAN /\ sock' \in {"none", "up"}
    BY <1>1 DEF HoldingInv, TypeOK
  <2>3. Len(queue') <= MaxQueue /\ \A r \in Registers : regs'[r] \in Allowed(r)
    BY <1>1, FirstEntry
  <2>4. answer'.status = 0
    BY <1>1 DEF NoAnswer
  <2>5. QED
    BY <1>1, <2>1, <2>2, <2>3, <2>4 DEF TypeOK
<1>6. LockHeldByActive'
  BY <1>1 DEF HoldingInv, LockHeldByActive, Active
<1>7. CurrentKnown'
  <2> SUFFICES ASSUME NEW g \in Handlers, Active(g)
               PROVE  /\ Contents(new) \subseteq known'[g]
                      /\ \A i \in DOMAIN wire' : Pairs(wire'[i]) \subseteq known'[g]
                      /\ job[g].found \subseteq known'[g]
    BY <1>1 DEF CurrentKnown, Pairs, Active, Contents
  <2>1. /\ \A i \in DOMAIN wire : Pairs(wire[i]) \subseteq known[g]
        /\ job[g].found \subseteq known[g]
    BY DEF HoldingInv, CurrentKnown
  <2>2. known[g] \subseteq known'[g] /\ Contents(new) \subseteq known'[g]
    BY <1>2
  <2>3. ASSUME NEW i \in DOMAIN wire' PROVE Pairs(wire'[i]) \subseteq known'[g]
    BY <1>3, <2>1, <2>2 DEF SoundAnswer
  <2>4. QED
    BY <2>1, <2>2, <2>3
<1>8. EchoMeansDone'
  <2> SUFFICES ASSUME NEW g \in Handlers, Active(g), job[g].request.kind = "multi"
               PROVE
        /\ lock' = g
        /\ ~excused'[g] =>
             /\ \A i \in DOMAIN queue' :
                  MultiAt(queue'[i].q, job[g].request.reg) /\ queue'[i].reply =>
                    queue'[i].q.values = job[g].request.values
             /\ \A i \in DOMAIN wire' : MultiAt(wire'[i], job[g].request.reg) =>
                  Claims(job[g].request) \subseteq known'[g]
    BY <1>1 DEF EchoMeansDone, Active, Claims, MultiAt
  <2>1. lock' = g
    BY <1>1 DEF HoldingInv, EchoMeansDone
  <2>2. ASSUME ~excused'[g], NEW i \in DOMAIN queue'
        PROVE  MultiAt(queue'[i].q, job[g].request.reg) /\ queue'[i].reply =>
                  queue'[i].q.values = job[g].request.values
    <3>1. PICK j \in DOMAIN queue : queue'[i] = queue[j]
      BY <1>1, FirstEntry
    <3>2. ~excused[g]
      BY <1>1, <2>2
    <3>3. MultiAt(queue[j].q, job[g].request.reg) /\ queue[j].reply =>
             queue[j].q.values = job[g].request.values
      BY <3>2 DEF HoldingInv, EchoMeansDone
    <3>4. QED
      BY <3>1, <3>3
  <2>3. ASSUME ~excused'[g], NEW i \in DOMAIN wire',
               MultiAt(wire'[i], job[g].request.reg)
        PROVE  Claims(job[g].request) \subseteq known'[g]
    <3>1. CASE \E j \in DOMAIN wire : wire'[i] = wire[j]
      BY <1>2, <2>3, <3>1 DEF HoldingInv, EchoMeansDone
    <3>2. CASE wire'[i] = reply /\ SoundAnswer(new, reply) /\ Head(queue).reply
      BY <1>2, <2>3, <3>2 DEF SoundAnswer
    <3>3. QED
      BY <1>3, <3>1, <3>2
  <2>4. QED
    BY <2>1, <2>2, <2>3
<1>9. WrittenWasTrue' /\ ReadWasTrue'
  BY <1>1 DEF NoAnswer, WrittenWasTrue, ReadWasTrue
<1>10. QED
  BY <1>4, <1>5, <1>6, <1>7, <1>8, <1>9 DEF HoldingInv

LEMMA SameRegisters ==
  ASSUME HoldingInv
  PROVE  /\ regs \in [Registers -> Words]
         /\ \A r \in Registers : regs[r] \in Allowed(r)
         /\ excused \in [Handlers -> BOOLEAN]
BY DEF HoldingInv, StateTypes, TypeOK

LEMMA ListOfWords ==
  ASSUME NEW n \in Nat, NEW f \in [1 .. n -> Int]
  PROVE  f \in Seq(Int)
BY SeqDef

LEMMA ServeReadPreserves ==
  ASSUME HoldingInv, ServeRead
  PROVE  HoldingInv'
<1> DEFINE q == Head(queue).q
           reply == [fn |-> "read", start |-> q.start,
                     values |-> [i \in 1 .. q.count |-> regs[q.start + i - 1]]]
<1>1. queue # <<>> /\ q.fn = "read" /\ Handle(regs, reply) /\ excused' = excused
  BY DEF ServeRead
<1>2. /\ q.start \in Nat /\ q.count \in Nat /\ q.count >= 1
      /\ \A i \in 1 .. q.count : q.start + i - 1 \in Registers
  BY <1>1, FirstEntry DEF SoundQuestion, Question4
<1>3. /\ reply.values \in Seq(Int) /\ DOMAIN reply.values = 1 .. q.count
      /\ Len(reply.values) = q.count
  <2>1. \A i \in 1 .. q.count : regs[q.start + i - 1] \in Int
    BY <1>2, SameRegisters, RegisterFacts
  <2>2. reply.values \in [1 .. q.count -> Int]
    BY <2>1
  <2>3. reply.values \in Seq(Int)
    BY <1>2, <2>2, ListOfWords
  <2>4. QED
    BY <1>2, <2>2, <2>3, LenProperties
<1>4. reply \in Frame
  BY <1>2, <1>3 DEF Frame, Answers
<1>5. Pairs(reply) \subseteq Contents(regs)
  BY <1>2, <1>3 DEF Pairs, Contents
<1>6. SoundAnswer(regs, reply)
  BY <1>4, <1>5 DEF SoundAnswer, MultiAt
<1>7. QED
  BY <1>1, <1>6, SameRegisters, HandlePreserves

\* A write leaves every register within its limits, and the values it carries
\* in the registers it names.
LEMMA WriteSound ==
  ASSUME HoldingInv, NEW q \in SoundQuestion, q.fn # "read"
  PROVE  /\ Write(q) \in [Registers -> Words]
         /\ \A r \in Registers : Write(q)[r] \in Allowed(r)
         /\ {<<q.start + i - 1, q.values[i]>> : i \in DOMAIN q.values}
              \subseteq Contents(Write(q))
<1>1. /\ q.start \in Nat /\ q.values \in Seq(Int)
      /\ \A i \in DOMAIN q.values : /\ q.start + i - 1 \in Registers
                                    /\ q.values[i] \in Allowed(q.start + i - 1)
  BY DEF SoundQuestion, Question4
<1>2. \A r \in Registers : regs[r] \in Allowed(r)
  BY SameRegisters
<1>3. \A i \in DOMAIN q.values : i \in Int
  BY <1>1, LenProperties
<1>4. ASSUME NEW r \in Registers PROVE Write(q)[r] \in Allowed(r)
  <2>1. CASE r - q.start + 1 \in DOMAIN q.values
    <3>1. q.start + (r - q.start + 1) - 1 = r
      BY <1>1, RegisterFacts
    <3>2. q.values[r - q.start + 1] \in Allowed(r)
      BY <1>1, <2>1, <3>1
    <3>3. QED
      BY <2>1, <3>2 DEF Write
  <2>2. CASE r - q.start + 1 \notin DOMAIN q.values
    BY <1>2, <2>2 DEF Write
  <2>3. QED
    BY <2>1, <2>2
<1>5. Write(q) \in [Registers -> Words]
  BY <1>4, RegisterFacts DEF Write
<1>6. ASSUME NEW i \in DOMAIN q.values
      PROVE  <<q.start + i - 1, q.values[i]>> \in Contents(Write(q))
  <2>1. (q.start + i - 1) - q.start + 1 = i
    BY <1>1, <1>3
  <2>2. Write(q)[q.start + i - 1] = q.values[i]
    BY <1>1, <2>1 DEF Write
  <2>3. QED
    BY <1>1, <2>2 DEF Contents
<1>7. QED
  BY <1>4, <1>5, <1>6

LEMMA EchoIsFrame ==
  ASSUME NEW q \in SoundQuestion, q.fn # "read"
  PROVE  Echo(q) \in Frame /\ Echo(q).fn = q.fn /\ Pairs(Echo(q)) = {}
<1>1. Echo(q) \in Answers /\ Echo(q).fn = q.fn
  BY DEF SoundQuestion, Question4, Answers, Echo
<1>2. QED
  BY <1>1 DEF Frame, Pairs

LEMMA ServeWritePreserves ==
  ASSUME HoldingInv, ServeWrite
  PROVE  HoldingInv'
<1> DEFINE q == Head(queue).q
<1>1. /\ queue # <<>> /\ q.fn # "read" /\ excused' = excused
      /\ Handle(Write(q), Echo(q)) \/ Handle(Write(q), <<>>)
  BY DEF ServeWrite, IsWrite
<1>2. /\ q \in SoundQuestion /\ 1 \in DOMAIN queue /\ queue[1].q = q
      /\ queue[1].reply = Head(queue).reply
  BY <1>1, FirstEntry
<1>3. ASSUME NEW g \in Handlers, Active(g), job[g].request.kind = "multi",
             ~excused[g], MultiAt(q, job[g].request.reg), Head(queue).reply
      PROVE  Claims(job[g].request) \subseteq Contents(Write(q))
  <2>1. q.start = job[g].request.reg /\ q.values = job[g].request.values
    BY <1>2, <1>3 DEF HoldingInv, EchoMeansDone, MultiAt
  <2>2. QED
    BY <1>1, <1>2, <2>1, WriteSound DEF Claims
<1>4. SoundAnswer(Write(q), Echo(q))
  <2>1. \A g \in Handlers :
          MultiAt(Echo(q), job[g].request.reg) => MultiAt(q, job[g].request.reg)
    BY DEF MultiAt, Echo
  <2>2. QED
    BY <1>1, <1>2, <1>3, <2>1, EchoIsFrame DEF SoundAnswer
<1>5. /\ Write(q) \in [Registers -> Words]
      /\ \A r \in Registers : Write(q)[r] \in Allowed(r)
  BY <1>1, <1>2, WriteSound
<1>6. QED
  BY <1>1, <1>4, <1>5, SameRegisters, HandlePreserves

LEMMA EchoOnlyPreserves ==
  ASSUME HoldingInv, EchoWithoutForwarding
  PROVE  HoldingInv'
<1> DEFINE q == Head(queue).q
<1>1. /\ queue # <<>> /\ q.fn # "read" /\ Handle(regs, Echo(q))
      /\ excused' = [h \in Handlers |->
           excused[h] \/ (job[h] # Idle /\ job[h].request.kind = "multi"
                          /\ MultiAt(q, job[h].request.reg))]
  BY DEF EchoWithoutForwarding, IsWrite
<1>2. q \in SoundQuestion
  BY <1>1, FirstEntry
<1>3. excused' \in [Handlers -> BOOLEAN] /\ \A g \in Handlers : excused[g] => excused'[g]
  BY <1>1
<1>4. \A g \in Handlers :
        /\ Active(g) /\ job[g].request.kind = "multi"
        /\ MultiAt(Echo(q), job[g].request.reg)
        => excused'[g]
  BY <1>1 DEF Active, MultiAt, Echo
<1>5. SoundAnswer(regs, Echo(q))
  BY <1>1, <1>2, <1>4, EchoIsFrame DEF SoundAnswer
<1>6. QED
  BY <1>1, <1>3, <1>5, SameRegisters, HandlePreserves

LEMMA IgnoreOrErrorPreserves ==
  ASSUME HoldingInv, IgnoreOrError
  PROVE  HoldingInv'
<1>1. SoundAnswer(regs, [fn |-> "error"])
  BY DEF SoundAnswer, Frame, Pairs, MultiAt
<1>2. QED
  BY <1>1, SameRegisters, HandlePreserves DEF IgnoreOrError

LEMMA ConnectionEndsPreserves ==
  ASSUME HoldingInv, ConnectionEnds
  PROVE  HoldingInv'
<1>1. /\ sock' = "none" /\ queue' = Orphaned /\ wire' = <<>> /\ answer' = NoAnswer
      /\ UNCHANGED <<job, lock, att, waiting, regs, known, excused>>
  BY DEF ConnectionEnds, obs
<1>2. LockStep
  BY <1>1 DEF HoldingInv, TypeOK, LockHeldByActive, LockStep, Active
<1>3. QueueStep
  <2>1. queue \in Seq(Entry) /\ Len(queue) <= MaxQueue
    BY DEF HoldingInv, TypeOK, StateTypes
  <2>2. Len(queue) \in Nat /\ DOMAIN queue = 1 .. Len(queue)
    BY <2>1, LenProperties
  <2>3. \A i \in DOMAIN queue : [queue[i] EXCEPT !.reply = FALSE] \in Entry
    <3>1. \A i \in DOMAIN queue : queue[i] \in Entry
      BY <2>1, <2>2, ElementOfSeq
    <3>2. \A e \in Entry : [e EXCEPT !.reply = FALSE] \in Entry
      BY DEF Entry
    <3>3. QED
      BY <3>1, <3>2
  <2>4. Orphaned \in [1 .. Len(queue) -> Entry]
    BY <2>2, <2>3 DEF Orphaned
  <2>5. Orphaned \in Seq(Entry)
    BY <2>2, <2>4, SeqDef
  <2>6. Len(Orphaned) = Len(queue)
    BY <2>2, <2>4, <2>5, LenProperties
  <2>7. \A i \in DOMAIN Orphaned : Orphaned[i].reply = FALSE
    <3>1. \A i \in DOMAIN queue : queue[i] \in Entry
      BY <2>1, <2>2, ElementOfSeq
    <3>2. QED
      BY <3>1 DEF Orphaned, Entry
  <2>8. QED
    BY <1>1, <2>1, <2>5, <2>6, <2>7 DEF QueueStep
<1>4. WireTaken
  <2>1. <<>> \in Seq(Frame) /\ Len(<<>>) = 0 /\ DOMAIN <<>> = {}
    OBVIOUS
  <2>2. 0 <= MaxWire
    BY ConstantsAssumption
  <2>3. QED
    BY <1>1, <2>1, <2>2 DEF WireTaken
<1>5. QED
  BY <1>1, <1>2, <1>3, <1>4, QuietStep DEF NoAnswer

LEMMA PanelPreserves ==
  ASSUME HoldingInv, Panel
  PROVE  HoldingInv'
<1> PICK r \in Registers : \E v \in Allowed(r) :
      /\ regs' = [regs EXCEPT ![r] = v]
      /\ known' = [h \in Handlers |-> IF job[h] = Idle THEN known[h]
                                      ELSE known[h] \cup {<<r, v>>}]
      /\ answer' = NoAnswer
      /\ UNCHANGED <<job, conn, queue, wire, excused>>
  BY DEF Panel
<1>1. PICK v \in Allowed(r) :
      /\ regs' = [regs EXCEPT ![r] = v]
      /\ known' = [h \in Handlers |-> IF job[h] = Idle THEN known[h]
                                      ELSE known[h] \cup {<<r, v>>}]
      /\ answer' = NoAnswer
      /\ UNCHANGED <<job, conn, queue, wire, excused>>
  OBVIOUS
<1> DEFINE new == [regs EXCEPT ![r] = v]
<1>2. new \in [Registers -> Words] /\ \A s \in Registers : new[s] \in Allowed(s)
  BY SameRegisters, RegisterFacts
<1>3. <<r, v>> \in Contents(new) /\ \A p \in Contents(new) : p \in Contents(regs) \/ p = <<r, v>>
  BY SameRegisters DEF Contents
<1>4. /\ known' \in [Handlers -> Found]
      /\ \A g \in Handlers : /\ known[g] \subseteq known'[g]
                             /\ Active(g) => <<r, v>> \in known'[g]
  <2> DEFINE more == {<<r, v>>}
  <2>1. more \in SUBSET Contents(new)
    BY <1>3
  <2>2. known' = [g \in Handlers |-> IF job[g] = Idle THEN known[g]
                                     ELSE known[g] \cup more]
    BY <1>1
  <2> HIDE DEF new, more
  <2>3. /\ known' \in [Handlers -> Found]
        /\ \A g \in Handlers : /\ known[g] \subseteq known'[g]
                               /\ Active(g) => more \subseteq known'[g]
    BY <1>2, <2>1, <2>2, KnownGrows
  <2>4. QED
    BY <2>3 DEF more
<1>5. UNCHANGED <<job, lock, att, waiting, sock, queue, wire, excused>> /\ regs' = new
  BY <1>1 DEF conn
<1>6. StateTypes'
  BY <1>2, <1>4, <1>5 DEF HoldingInv, StateTypes
<1>7. TypeOK'
  <2>1. \A g \in Handlers : job'[g] = Idle \/
          /\ job'[g].request \in Gets \cup Puts \cup Multis \cup Lists
          /\ job'[g].step \in {"read", "write"}
          /\ job'[g].try \in 1 .. Tries /\ job'[g].block \in 1 .. Len(Blocks)
    BY <1>5 DEF HoldingInv, TypeOK
  <2>2. /\ lock' \in Handlers \cup {NoHandler} /\ att' \in 0 .. Attempts
        /\ waiting' \in BOOLEAN /\ sock' \in {"none", "up"}
        /\ Len(queue') <= MaxQueue /\ Len(wire') <= MaxWire
        /\ excused' \in [Handlers -> BOOLEAN]
    BY <1>5 DEF HoldingInv, TypeOK
  <2>3. answer'.status = 0
    BY <1>1 DEF NoAnswer
  <2>4. QED
    BY <1>2, <1>5, <2>1, <2>2, <2>3 DEF TypeOK
<1>8. LockHeldByActive'
  BY <1>5 DEF HoldingInv, LockHeldByActive, Active
<1>9. CurrentKnown'
  <2> SUFFICES ASSUME NEW g \in Handlers, Active(g)
               PROVE  /\ Contents(new) \subseteq known'[g]
                      /\ \A i \in DOMAIN wire : Pairs(wire[i]) \subseteq known'[g]
                      /\ job[g].found \subseteq known'[g]
    BY <1>5 DEF CurrentKnown, Pairs, Active, Contents
  <2>1. /\ Contents(regs) \subseteq known[g]
        /\ \A i \in DOMAIN wire : Pairs(wire[i]) \subseteq known[g]
        /\ job[g].found \subseteq known[g]
    BY DEF HoldingInv, CurrentKnown, Contents
  <2>2. QED
    BY <1>3, <1>4, <2>1
<1>10. EchoMeansDone'
  BY <1>4, <1>5 DEF HoldingInv, EchoMeansDone, Active, Claims, MultiAt
<1>11. WrittenWasTrue' /\ ReadWasTrue'
  BY <1>1 DEF NoAnswer, WrittenWasTrue, ReadWasTrue
<1>12. QED
  BY <1>6, <1>7, <1>8, <1>9, <1>10, <1>11 DEF HoldingInv

-----------------------------------------------------------------------------
LEMMA InitHolds == Init => HoldingInv
<1> SUFFICES ASSUME Init PROVE HoldingInv
  OBVIOUS
<1>1. /\ \A h \in Handlers : job[h] = Idle /\ known[h] = {} /\ excused[h] = FALSE
      /\ lock = NoHandler /\ att = 0 /\ waiting = FALSE /\ sock = "up"
      /\ queue = <<>> /\ wire = <<>> /\ answer.status = 0
      /\ \A r \in Registers : regs[r] \in Allowed(r)
  BY DEF Init, NoAnswer
<1>2. /\ <<>> \in Seq(Entry) /\ <<>> \in Seq(Frame) /\ Len(<<>>) = 0
  OBVIOUS
<1>3. regs \in [Registers -> Words]
  BY <1>1, RegisterFacts DEF Init
<1>4. StateTypes
  BY <1>2, <1>3 DEF Init, StateTypes, Found
<1>5. TypeOK
  <2>1. 0 \in 0 .. Attempts /\ 0 <= MaxQueue /\ 0 <= MaxWire
    BY ConstantsAssumption
  <2>2. excused \in [Handlers -> BOOLEAN]
    BY <1>4 DEF StateTypes
  <2>3. waiting \in BOOLEAN
    BY <1>1
  <2>4. QED
    BY <1>1, <1>2, <2>1, <2>2, <2>3 DEF TypeOK
<1>6. LockHeldByActive /\ CurrentKnown /\ EchoMeansDone
  BY <1>1, ConstantsAssumption DEF LockHeldByActive, CurrentKnown, EchoMeansDone, Active
<1>7. WrittenWasTrue /\ ReadWasTrue
  BY <1>1 DEF WrittenWasTrue, ReadWasTrue
<1>8. QED
  BY <1>4, <1>5, <1>6, <1>7 DEF HoldingInv

LEMMA StutterHolds ==
  ASSUME HoldingInv, UNCHANGED vars
  PROVE  HoldingInv'
<1>1. /\ UNCHANGED <<job, lock, att, waiting, sock, queue, wire, regs, answer,
                     known, excused>>
  BY DEF vars, conn, obs
<1>2. TypeOK' /\ StateTypes'
  BY <1>1 DEF HoldingInv, TypeOK, StateTypes
<1>3. LockHeldByActive' /\ CurrentKnown' /\ EchoMeansDone'
  BY <1>1 DEF HoldingInv, LockHeldByActive, CurrentKnown, EchoMeansDone, Active,
              Claims, Pairs, MultiAt
<1>4. WrittenWasTrue' /\ ReadWasTrue'
  BY <1>1 DEF HoldingInv, WrittenWasTrue, ReadWasTrue
<1>5. QED
  BY <1>2, <1>3, <1>4 DEF HoldingInv

LEMMA HoldingInductive == Spec => []HoldingInv
<1>1. HoldingInv /\ [Next]_vars => HoldingInv'
  <2> SUFFICES ASSUME HoldingInv, [Next]_vars PROVE HoldingInv'
    OBVIOUS
  <2>1. ASSUME NEW h \in Handlers, Handler(h) PROVE HoldingInv'
    BY <2>1, BeginsPreserve, ResumePreserves, SendPreserves, RefusedPreserves,
       ReceivePreserves, AttemptFailsPreserves DEF Handler
  <2>2. CASE Dongle
    BY <2>2, ServeReadPreserves, ServeWritePreserves, EchoOnlyPreserves,
       IgnoreOrErrorPreserves, ConnectionEndsPreserves DEF Dongle
  <2>3. CASE Panel
    BY <2>3, PanelPreserves
  <2>4. CASE UNCHANGED vars
    BY <2>4, StutterHolds
  <2>5. QED
    BY <2>1, <2>2, <2>3, <2>4 DEF Next
<1>2. QED
  BY <1>1, InitHolds, PTL DEF Spec

\* No request brings a register of the inverter out of the limits of the
\* register table, whatever the bodies of the requests, the order of the
\* threads and what the dongle does with the frames (api_holding_put and
\* api_holding_multi_write check the raw value, build_write_request its width).
THEOREM RegistersStayInLimits == Spec => []TypeOK
<1>1. HoldingInv => TypeOK
  BY DEF HoldingInv
<1>2. QED
  BY <1>1, HoldingInductive, PTL

\* A write that api_holding_put or api_holding_multi_write reports as done was
\* in the registers since the request began, or, for a single write, in a read
\* answer that was on its way at that moment.  For a multi-write it holds
\* unless the dongle echoed one at the same first register without forwarding
\* it, or still owed the echo of an earlier one there when the request began:
\* the match compares the first register only (automation.py).
THEOREM ReportedWritesWereDone == Spec => []WrittenWasTrue
<1>1. HoldingInv => WrittenWasTrue
  BY DEF HoldingInv
<1>2. QED
  BY <1>1, HoldingInductive, PTL

\* What api_holding_get and api_holding_list report was in the registers since
\* the request began, or on its way at that moment.
THEOREM ReportedReadsWereTrue == Spec => []ReadWasTrue
<1>1. HoldingInv => ReadWasTrue
  BY DEF HoldingInv
<1>2. QED
  BY <1>1, HoldingInductive, PTL
==============================================================================
