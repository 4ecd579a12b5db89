------------------------- MODULE TransportProofs -------------------------
(***************************************************************************)
(* Machine-checked safety of the transports.                               *)
(*                                                                         *)
(* DongleConnection, for every set of callers, every list of batches and   *)
(* every value of the limits; PassiveStream, for all packets, serials,     *)
(* pieces of the stream and limits: its types, and that it implements      *)
(* FrameDelivery.                                                          *)
(***************************************************************************)
EXTENDS DongleConnection, PassiveStream, SequenceTheorems, WellFoundedInduction, TLAPS

----------------------------------------------------------------------------
(* The connection that is kept open (DongleConnection).                    *)

\* The rest of a receive buffer after a chunk was taken from it.
LEMMA RestType ==
  ASSUME NEW S, NEW s \in Seq(S), NEW k \in 1 .. Len(s)
  PROVE  /\ SubSeq(s, k + 1, Len(s)) \in Seq(S)
         /\ Len(s) = 1 => SubSeq(s, k + 1, Len(s)) = <<>>
<1>1. Len(s) \in Nat
  OBVIOUS
<1>2. \A i \in (k + 1) .. Len(s) : s[i] \in S
  BY <1>1, ElementOfSeq
<1>3. SubSeq(s, k + 1, Len(s)) \in Seq(S)
  BY <1>1, <1>2, SubSeqProperties
<1>4. Len(s) = 1 => Len(SubSeq(s, k + 1, Len(s))) = 0
  BY <1>1, SubSeqProperties
<1>5. QED
  BY <1>3, <1>4, EmptySeq

\* Marking everything that is still under way as left over from an earlier
\* transaction changes neither the kind of the entries nor their number.
LEMMA DisownType ==
  ASSUME NEW S, NEW s \in Seq(S),
         \A x \in S : [x EXCEPT !.own = FALSE] \in S
  PROVE  /\ Disown(s) \in Seq(S)
         /\ s = <<>> => Disown(s) = <<>>
<1>1. Len(s) \in Nat /\ DOMAIN s = 1 .. Len(s)
  BY LenProperties
<1>2. Disown(s) \in [1 .. Len(s) -> S]
  BY <1>1, ElementOfSeq DEF Disown
<1>3. Disown(s) \in Seq(S)
  BY <1>1, <1>2, SeqDef
<1>4. ASSUME s = <<>> PROVE Disown(s) = <<>>
  <2>1. Len(s) = 0
    BY <1>4
  <2>2. Len(Disown(s)) = 0
    BY <1>1, <1>2, <1>3, <2>1, LenProperties
  <2>3. QED
    BY <1>3, <2>2, EmptySeq
<1>5. QED
  BY <1>3, <1>4

LEMMA DisownKeepsType ==
  ASSUME TypeOK
  PROVE  /\ Disown(pending) \in Seq(Question)
         /\ Disown(inbox) \in Seq(Frame)
         /\ pending = <<>> => Disown(pending) = <<>>
         /\ inbox = <<>> => Disown(inbox) = <<>>
<1>1. \A x \in Question : [x EXCEPT !.own = FALSE] \in Question
  BY DEF Question
<1>2. \A x \in Frame : [x EXCEPT !.own = FALSE] \in Frame
  BY DEF Frame
<1>3. pending \in Seq(Question) /\ inbox \in Seq(Frame)
  BY DEF TypeOK
<1>4. QED
  BY <1>1, <1>2, <1>3, DisownType

-----------------------------------------------------------------------------
(***************************************************************************)
(* Type correctness.                                                       *)
(***************************************************************************)

LEMMA InitType == Init => TypeOK
<1> SUFFICES ASSUME Init PROVE TypeOK
  OBVIOUS
<1>1. Batches[1] \in Requests
  BY ConstantsAssumption, ElementOfSeq
<1>2. /\ Len(Batches) \in Nat /\ 1 \in 1 .. Len(Batches)
      /\ 0 \in 0 .. MaxRetries + 1
  BY ConstantsAssumption
<1>3. <<>> \in Seq(Question) /\ <<>> \in Seq(Frame)
  OBVIOUS
<1>4. pc \in [Callers -> Busy \cup {"idle", "dead"}]
  BY DEF Init
<1>5. res \in Result
  BY DEF Init, NoResult, Result
<1>6. sig \in {NoSig} \cup (Requests \X Payloads) /\ stale \in Nat
  BY DEF Init
<1>7. pending \in Seq(Question) /\ inbox \in Seq(Frame)
  BY <1>3 DEF Init
<1>8. /\ att \in 0 .. MaxRetries + 1 /\ batch \in 1 .. Len(Batches)
      /\ elapsed \in 0 .. 2 /\ run \in Nat /\ req \in Requests
  BY <1>1, <1>2 DEF Init
<1>9. /\ shared \in BOOLEAN /\ hb \in BOOLEAN /\ reachable \in BOOLEAN
      /\ timedOut \in BOOLEAN
      /\ lock \in Callers \cup {NoThread}
      /\ sock \in {"none", "up", "closed", "reset"}
  BY DEF Init
<1>10. QED
  BY <1>4, <1>5, <1>6, <1>7, <1>8, <1>9 DEF TypeOK

\* transact() is left through Leave: its bookkeeping keeps its type.
LEMMA LeaveType ==
  ASSUME TypeOK, NEW t \in Callers, NEW x \in Result, Leave(t, x)
  PROVE  /\ lock' \in Callers \cup {NoThread}
         /\ res' \in Result
         /\ pc' \in [Callers -> Busy \cup {"idle", "dead"}]
         /\ batch' \in 1 .. Len(Batches)
         /\ att' \in 0 .. MaxRetries + 1
         /\ req' \in Requests
<1>1. Len(Batches) \in Nat \ {0}
  BY ConstantsAssumption
<1>2. (batch % Len(Batches)) + 1 \in 1 .. Len(Batches)
  BY <1>1 DEF TypeOK
<1>3. batch' \in 1 .. Len(Batches)
  BY <1>2 DEF Leave, TypeOK
<1>4. res' \in Result
  BY DEF Leave, TypeOK
<1>5. pc' \in [Callers -> Busy \cup {"idle", "dead"}]
  BY DEF Leave, TypeOK
<1>6. QED
  BY <1>3, <1>4, <1>5 DEF Leave, TypeOK

LEMMA GotoType ==
  ASSUME TypeOK, NEW t \in Callers,
         NEW label \in Busy, Goto(t, label)
  PROVE  /\ lock' \in Callers \cup {NoThread}
         /\ res' \in Result
         /\ pc' \in [Callers -> Busy \cup {"idle", "dead"}]
         /\ batch' \in 1 .. Len(Batches)
  BY DEF Goto, TypeOK

\* A socket is opened, dropped or kept.
LEMMA SocketType ==
  ASSUME TypeOK, Connected \/ Dropped \/ KeepSocket
  PROVE  /\ sock' \in {"none", "up", "closed", "reset"}
         /\ pending' \in Seq(Question) /\ inbox' \in Seq(Frame)
         /\ timedOut' \in BOOLEAN /\ run' \in Nat
<1>1. <<>> \in Seq(Question) /\ <<>> \in Seq(Frame)
  OBVIOUS
<1>2. pending' \in Seq(Question) /\ inbox' \in Seq(Frame)
  BY <1>1 DEF TypeOK, Connected, Dropped, KeepSocket
<1>3. CASE Connected
  BY <1>2, <1>3 DEF Connected
<1>4. CASE Dropped
  BY <1>2, <1>4 DEF Dropped
<1>5. CASE KeepSocket
  BY <1>2, <1>5 DEF KeepSocket, TypeOK
<1>6. QED
  BY <1>3, <1>4, <1>5

LEMMA CallType == ASSUME TypeOK, NEW t \in Callers, Call(t) PROVE TypeOK'
<1>1. CASE OpenShared(t)
  BY <1>1, SocketType DEF OpenShared, TypeOK
<1>2. CASE OpenSharedRefused(t)
  <2>1. res' \in Result
    BY <1>2 DEF OpenSharedRefused, TypeOK, Result
  <2>2. QED
    BY <1>2, <2>1, SocketType DEF OpenSharedRefused, TypeOK
<1>3. ASSUME NEW r \in Requests, Begin(t, r) PROVE TypeOK'
  <2>1. 1 \in 0 .. MaxRetries + 1
    BY ConstantsAssumption
  <2>2. pc' \in [Callers -> Busy \cup {"idle", "dead"}]
    BY <1>3 DEF Begin, TypeOK, Busy
  <2>3. pending' \in Seq(Question) /\ inbox' \in Seq(Frame)
    BY <1>3, DisownKeepsType DEF Begin
  <2>4. QED
    BY <1>3, <2>1, <2>2, <2>3 DEF Begin, TypeOK, obs
<1>4. QED
  BY <1>1, <1>2, <1>3 DEF Call

LEMMA TransactType ==
  ASSUME TypeOK, NEW t \in Callers, Transact(t) PROVE TypeOK'
<1>0. {"ensure", "send", "recv", "sleep"} \subseteq Busy
      /\ [kind |-> "none"] \in Result /\ [kind |-> "raised"] \in Result
  BY DEF Busy, Result
<1>1. CASE EnsureAlive(t)
  BY <1>0, <1>1, SocketType, GotoType DEF EnsureAlive, TypeOK
<1>2. CASE EnsureConnect(t)
  BY <1>0, <1>2, SocketType, GotoType DEF EnsureConnect, TypeOK
<1>3. CASE EnsureRefused(t)
  BY <1>0, <1>3, SocketType, LeaveType DEF EnsureRefused, TypeOK
<1>4. CASE Send(t)
  <2>1. [req |-> req, own |-> TRUE] \in Question
    BY DEF TypeOK, Question
  <2>2. pending' \in Seq(Question)
    BY <1>4, <2>1 DEF Send, TypeOK
  <2>3. QED
    BY <1>0, <1>4, <2>2, GotoType DEF Send, TypeOK, obs
<1>5. CASE SocketError(t)
  BY <1>0, <1>5, SocketType, GotoType DEF SocketError, TypeOK
<1>6. CASE Recv(t)
  <2>1. PICK k \in 1 .. Len(inbox) :
          (\E i \in 1 .. k : RecvMatch(t, k, i)) \/ RecvNoMatch(t, k)
    BY <1>6 DEF Recv
  <2>2. SubSeq(inbox, k + 1, Len(inbox)) \in Seq(Frame)
    BY RestType DEF TypeOK
  <2>3. CASE RecvNoMatch(t, k)
    BY <2>2, <2>3 DEF RecvNoMatch, TypeOK, code, obs
  <2>4. ASSUME NEW i \in 1 .. k, RecvMatch(t, k, i) PROVE TypeOK'
    <3>1. inbox[i] \in Frame
      BY <2>4, ElementOfSeq DEF TypeOK
    <3>2. Raw(inbox[i]) \in Requests \X Payloads
      BY <3>1 DEF Raw, Frame
    <3>3. NextStale(inbox[i]) \in Nat /\ NextRun(inbox[i]) \in Nat
      BY DEF NextStale, NextRun, TypeOK
    <3>4. [kind |-> "frame", frame |-> inbox[i], asked |-> req,
           afterTimeout |-> timedOut] \in Result
      BY <3>1 DEF Result, TypeOK
    <3>5. /\ sock' \in {"none", "up", "closed", "reset"}
          /\ pending' \in Seq(Question) /\ inbox' \in Seq(Frame)
          /\ timedOut' \in BOOLEAN /\ run' \in Nat
      <4>1. CASE Dropped
        BY <4>1, SocketType
      <4>2. CASE ~Dropped
        BY <2>2, <2>4, <3>3, <4>2 DEF RecvMatch, TypeOK
      <4>3. QED
        BY <4>1, <4>2
    <3>6. QED
      BY <2>4, <3>2, <3>3, <3>4, <3>5, LeaveType DEF RecvMatch, TypeOK
  <2>5. QED
    BY <2>1, <2>3, <2>4
<1>7. CASE RecvClosed(t)
  BY <1>0, <1>7, SocketType, GotoType DEF RecvClosed, TypeOK
<1>8. CASE Timeout(t)
  BY <1>0, <1>8, GotoType DEF Timeout, TypeOK, net
<1>9. CASE Retry(t)
  <2>1. att + 1 \in 0 .. MaxRetries + 1
    BY <1>9, ConstantsAssumption DEF Retry, TypeOK
  <2>2. QED
    BY <1>0, <1>9, <2>1, SocketType, GotoType DEF Retry, TypeOK
<1>10. CASE GiveUp(t)
  BY <1>0, <1>10, SocketType, LeaveType DEF GiveUp, TypeOK
<1>11. QED
  BY <1>1, <1>2, <1>3, <1>4, <1>5, <1>6, <1>7, <1>8, <1>9, <1>10
     DEF Transact

LEMMA HeartbeatType == ASSUME TypeOK, Heartbeat PROVE TypeOK'
<1>1. PICK d \in 1 .. 2 :
        HeartbeatIdle(d) \/ HeartbeatFindsReset(d) \/ HeartbeatSend(d)
  BY DEF Heartbeat
<1>2. UpTo2(elapsed + d) \in 0 .. 2
  BY DEF UpTo2, TypeOK
<1>3. CASE HeartbeatIdle(d)
  BY <1>2, <1>3, SocketType DEF HeartbeatIdle, TypeOK
<1>4. CASE HeartbeatFindsReset(d)
  BY <1>2, <1>4, SocketType DEF HeartbeatFindsReset, TypeOK
<1>5. CASE HeartbeatSend(d)
  BY <1>5, SocketType DEF HeartbeatSend, TypeOK
<1>6. QED
  BY <1>1, <1>3, <1>4, <1>5

LEMMA DongleType == ASSUME TypeOK, Dongle PROVE TypeOK'
<1>1. ASSUME NEW v \in Payloads, Answer(v) PROVE TypeOK'
  <2>1. Head(pending) \in Question /\ Tail(pending) \in Seq(Question)
    BY <1>1 DEF Answer, TypeOK
  <2>2. [req |-> Head(pending).req, val |-> v, own |-> Head(pending).own]
          \in Frame
    BY <2>1 DEF Question, Frame
  <2>3. inbox' \in Seq(Frame) /\ pending' \in Seq(Question)
    BY <1>1, <2>1, <2>2 DEF Answer, TypeOK
  <2>4. QED
    BY <1>1, <2>3 DEF Answer, TypeOK, code, obs
<1>2. CASE Ignore
  BY <1>2 DEF Ignore, TypeOK, code, obs
<1>3. CASE CloseConnection
  BY <1>3 DEF CloseConnection, TypeOK, obs
<1>4. CASE ResetConnection
  BY <1>4 DEF ResetConnection, TypeOK, obs
<1>5. CASE SwitchReachable
  BY <1>5 DEF SwitchReachable, TypeOK, code, obs
<1>6. QED
  BY <1>1, <1>2, <1>3, <1>4, <1>5 DEF Dongle

LEMMA NextType == TypeOK /\ [Next]_vars => TypeOK'
<1> SUFFICES ASSUME TypeOK, [Next]_vars PROVE TypeOK'
  OBVIOUS
<1>1. ASSUME NEW t \in Callers, Call(t) PROVE TypeOK'
  BY <1>1, CallType
<1>2. ASSUME NEW t \in Callers, Transact(t) PROVE TypeOK'
  BY <1>2, TransactType
<1>3. CASE Heartbeat
  BY <1>3, HeartbeatType
<1>4. CASE Dongle
  BY <1>4, DongleType
<1>5. CASE UNCHANGED vars
  BY <1>5 DEF vars, code, net, obs, TypeOK
<1>6. QED
  BY <1>1, <1>2, <1>3, <1>4, <1>5 DEF Next

\* Every variable of the connection keeps its type in every behaviour.
THEOREM TypeCorrect == Spec => []TypeOK
  BY InitType, NextType, PTL DEF Spec

-----------------------------------------------------------------------------
(***************************************************************************)
(* The lock: only its owner is inside transact().                          *)
(***************************************************************************)

LEMMA NextLock == TypeOK /\ LockInv /\ [Next]_vars => LockInv'
<1> SUFFICES ASSUME TypeOK, LockInv, [Next]_vars PROVE LockInv'
  OBVIOUS
<1> USE DEF LockInv
<1>0. /\ NoThread \notin Callers
      /\ "idle" \notin Busy /\ "dead" \notin Busy
      /\ {"ensure", "send", "recv", "sleep"} \subseteq Busy
  BY ConstantsAssumption DEF Busy
<1>1. ASSUME NEW t \in Callers, NEW x, pc[t] \in Busy, Leave(t, x)
      PROVE  LockInv'
  BY <1>0, <1>1 DEF Leave, TypeOK
<1>2. ASSUME NEW t \in Callers, NEW label \in Busy, pc[t] \in Busy,
             Goto(t, label)
      PROVE  LockInv'
  BY <1>0, <1>2 DEF Goto, TypeOK
<1>3. ASSUME NEW t \in Callers, NEW r \in Requests, Begin(t, r)
      PROVE  LockInv'
  BY <1>0, <1>3 DEF Begin, TypeOK
<1>4. ASSUME NEW t \in Callers, Transact(t) PROVE LockInv'
  <2>1. CASE EnsureAlive(t) \/ EnsureConnect(t) \/ Send(t)
             \/ SocketError(t) \/ RecvClosed(t) \/ Timeout(t) \/ Retry(t)
    BY <1>0, <1>2, <2>1 DEF EnsureAlive, EnsureConnect, Send, SocketError,
         RecvClosed, Timeout, Retry
  <2>2. CASE EnsureRefused(t) \/ GiveUp(t)
    BY <1>0, <1>1, <2>2 DEF EnsureRefused, GiveUp
  <2>3. CASE Recv(t)
    <3>1. PICK k \in 1 .. Len(inbox) :
            (\E i \in 1 .. k : RecvMatch(t, k, i)) \/ RecvNoMatch(t, k)
      BY <2>3 DEF Recv
    <3>2. CASE RecvNoMatch(t, k)
      BY <3>2 DEF RecvNoMatch, code
    <3>3. ASSUME NEW i \in 1 .. k, RecvMatch(t, k, i) PROVE LockInv'
      BY <1>0, <1>1, <3>3 DEF RecvMatch
    <3>4. QED
      BY <3>1, <3>2, <3>3
  <2>4. QED
    BY <1>4, <2>1, <2>2, <2>3 DEF Transact
<1>5. CASE UNCHANGED <<pc, lock>>
  BY <1>5
<1>6. QED
  BY <1>3, <1>4, <1>5 DEF Next, Call, OpenShared, OpenSharedRefused,
       Heartbeat, HeartbeatIdle, HeartbeatFindsReset, HeartbeatSend,
       Dongle, Answer, Ignore, CloseConnection, ResetConnection,
       SwitchReachable, vars, code

-----------------------------------------------------------------------------
(***************************************************************************)
(* Staleness: the run of identical answers on one connection.              *)
(***************************************************************************)

LEMMA NextRunInv == TypeOK /\ RunInv /\ [Next]_vars => RunInv'
<1> SUFFICES ASSUME TypeOK, RunInv, [Next]_vars PROVE RunInv'
  OBVIOUS
<1> USE ConstantsAssumption DEF RunInv
<1>1. ASSUME Connected \/ Dropped \/ KeepSocket, stale' = stale
      PROVE  RunInv'
  BY <1>1 DEF Connected, Dropped, KeepSocket, TypeOK
<1>2. ASSUME NEW t \in Callers, NEW k \in 1 .. Len(inbox),
             NEW i \in 1 .. k, RecvMatch(t, k, i)
      PROVE  RunInv'
  <2>1. stale' \in Nat /\ stale' < StaleThreshold
    BY <1>2 DEF RecvMatch, NextStale, TypeOK
  <2>2. CASE ForcesReconnect(inbox[i])
    BY <1>2, <2>1, <2>2 DEF RecvMatch, Dropped
  <2>3. CASE ~ForcesReconnect(inbox[i])
    BY <1>2, <2>1, <2>3
       DEF RecvMatch, NextStale, NextRun, ForcesReconnect, TypeOK
  <2>4. QED
    BY <2>2, <2>3
<1>3. ASSUME NEW t \in Callers, Transact(t) PROVE RunInv'
  <2>1. CASE Recv(t)
    <3>1. PICK k \in 1 .. Len(inbox) :
            (\E i \in 1 .. k : RecvMatch(t, k, i)) \/ RecvNoMatch(t, k)
      BY <2>1 DEF Recv
    <3>2. CASE RecvNoMatch(t, k)
      BY <3>2 DEF RecvNoMatch, code, obs
    <3>3. QED
      BY <1>2, <3>1, <3>2
  <2>2. CASE Send(t) \/ Timeout(t)
    BY <2>2 DEF Send, Timeout, obs
  <2>3. CASE EnsureAlive(t) \/ EnsureConnect(t) \/ EnsureRefused(t)
             \/ SocketError(t) \/ RecvClosed(t) \/ Retry(t) \/ GiveUp(t)
    BY <1>1, <2>3 DEF EnsureAlive, EnsureConnect, EnsureRefused,
         SocketError, RecvClosed, Retry, GiveUp
  <2>4. QED
    BY <1>3, <2>1, <2>2, <2>3 DEF Transact
<1>4. ASSUME NEW t \in Callers, Call(t) PROVE RunInv'
  <2>1. CASE OpenShared(t) \/ OpenSharedRefused(t)
    BY <1>1, <2>1 DEF OpenShared, OpenSharedRefused
  <2>2. CASE \E r \in Requests : Begin(t, r)
    BY <2>2 DEF Begin, obs
  <2>3. QED
    BY <1>4, <2>1, <2>2 DEF Call
<1>5. CASE Heartbeat
  BY <1>1, <1>5 DEF Heartbeat, HeartbeatIdle, HeartbeatFindsReset,
       HeartbeatSend
<1>6. CASE Dongle
  BY <1>6 DEF Dongle, Answer, Ignore, CloseConnection, ResetConnection,
       SwitchReachable, code, obs
<1>7. CASE UNCHANGED vars
  BY <1>7 DEF vars, code, obs
<1>8. QED
  BY <1>3, <1>4, <1>5, <1>6, <1>7 DEF Next

\* One connection hands out at most StaleThreshold identical answers after
\* the first without being given up, whoever asks and whatever the dongle
\* answers.
THEOREM StaleBound == Spec => []IdenticalRunBounded
<1>1. Init => RunInv
  BY ConstantsAssumption DEF Init, RunInv
<1>2. TypeOK /\ RunInv => IdenticalRunBounded
  BY ConstantsAssumption DEF RunInv, IdenticalRunBounded, TypeOK
<1>3. QED
  BY <1>1, <1>2, NextRunInv, TypeCorrect, PTL DEF Spec

-----------------------------------------------------------------------------
(***************************************************************************)
(* Freshness: what the connection carries.                                 *)
(***************************************************************************)

\* With an empty connection FreshInv holds wherever the callers are.
LEMMA EmptyIsFresh ==
  ASSUME Len(pending) = 0, Len(inbox) = 0
  PROVE  FreshInv
  BY DEF FreshInv, OwnUnderWay, Carries

LEMMA NextFreshTransact ==
  ASSUME TypeOK, LockInv, FreshInv, NEW t \in Callers, Transact(t),
         TypeOK', LockInv'
  PROVE  FreshInv'
<1>0. /\ {"ensure", "send", "recv", "sleep"} \subseteq Busy
      /\ "idle" \notin Busy /\ "dead" \notin Busy
  BY DEF Busy
<1>1. \A u \in Callers : pc[u] \in Busy /\ pc[t] \in Busy => u = t
  BY DEF LockInv
<1>2. CASE Connected \/ Dropped
  BY <1>2, EmptyIsFresh DEF Connected, Dropped, FreshInv, OwnUnderWay,
       Carries
<1>3. ASSUME KeepSocket, pc[t] \in Busy \ {"recv"}, pc'[t] # "recv",
             \A u \in Callers \ {t} : pc'[u] = pc[u]
      PROVE  FreshInv'
  <2>1. ~timedOut => Carries(0, 0)
    BY <1>0, <1>1, <1>3 DEF FreshInv
  <2>2. ~timedOut' => Carries(0, 0)'
    BY <1>3, <2>1 DEF KeepSocket, Carries
  <2>3. QED
    BY <2>2 DEF FreshInv, OwnUnderWay
<1>4. ASSUME NEW label, Goto(t, label)
      PROVE  pc'[t] = label /\ \A u \in Callers \ {t} : pc'[u] = pc[u]
  BY <1>4 DEF Goto, TypeOK
<1>5. ASSUME NEW x, Leave(t, x)
      PROVE  pc'[t] # "recv" /\ \A u \in Callers \ {t} : pc'[u] = pc[u]
  BY <1>5 DEF Leave, TypeOK
<1>6. CASE EnsureAlive(t)
  BY <1>0, <1>3, <1>4, <1>6 DEF EnsureAlive
<1>7. CASE EnsureConnect(t) \/ EnsureRefused(t) \/ SocketError(t)
           \/ RecvClosed(t)
  BY <1>2, <1>7 DEF EnsureConnect, EnsureRefused, SocketError, RecvClosed
<1>8. CASE Send(t)
  <2>1. ~timedOut => Carries(0, 0)
    BY <1>0, <1>1, <1>8 DEF FreshInv, Send
  <2>2. \/ pending' = pending
        \/ pending' = Append(pending, [req |-> req, own |-> TRUE])
    BY <1>8 DEF Send
  <2>3. ~timedOut' => OwnUnderWay'
    BY <1>8, <2>1, <2>2 DEF Send, OwnUnderWay, Carries, TypeOK, obs
  <2>4. pc'[t] = "recv"
    BY <1>4, <1>8 DEF Send
  <2>5. QED
    BY <2>3, <2>4 DEF FreshInv
<1>9. CASE Recv(t)
  <2>1. PICK k \in 1 .. Len(inbox) :
          (\E i \in 1 .. k : RecvMatch(t, k, i)) \/ RecvNoMatch(t, k)
    BY <1>9 DEF Recv
  <2>2. pc[t] = "recv"
    BY <2>1 DEF RecvMatch, RecvNoMatch
  <2>3. ~timedOut => OwnUnderWay
    BY <2>2 DEF FreshInv
  <2>4. ~timedOut => Carries(0, 1)
    BY <2>1, <2>3 DEF OwnUnderWay, Carries, TypeOK
  <2>5. ~timedOut => SubSeq(inbox, k + 1, Len(inbox)) = <<>>
    BY <2>4, RestType DEF Carries, TypeOK
  <2>6. ASSUME inbox' = SubSeq(inbox, k + 1, Len(inbox)),
               pending' = pending, timedOut' = timedOut
        PROVE  FreshInv'
    BY <2>4, <2>5, <2>6 DEF FreshInv, OwnUnderWay, Carries
  <2>7. CASE RecvNoMatch(t, k)
    BY <2>6, <2>7 DEF RecvNoMatch, obs
  <2>8. ASSUME NEW i \in 1 .. k, RecvMatch(t, k, i) PROVE FreshInv'
    BY <1>2, <2>6, <2>8 DEF RecvMatch
  <2>9. QED
    BY <2>1, <2>7, <2>8
<1>10. CASE Timeout(t)
  BY <1>10 DEF Timeout, FreshInv
<1>11. CASE Retry(t)
  BY <1>0, <1>3, <1>4, <1>11 DEF Retry
<1>12. CASE GiveUp(t)
  BY <1>0, <1>3, <1>5, <1>12 DEF GiveUp
<1>13. QED
  BY <1>6, <1>7, <1>8, <1>9, <1>10, <1>11, <1>12 DEF Transact

LEMMA NextFresh ==
  TypeOK /\ LockInv /\ FreshInv /\ [Next]_vars => FreshInv'
<1> SUFFICES ASSUME TypeOK, LockInv, FreshInv, [Next]_vars
             PROVE  FreshInv'
  OBVIOUS
<1>0. TypeOK' /\ LockInv'
  BY NextType, NextLock
<1>1. ASSUME NEW t \in Callers, Transact(t) PROVE FreshInv'
  BY <1>0, <1>1, NextFreshTransact
<1>2. CASE Connected \/ Dropped
  BY <1>2 DEF Connected, Dropped, FreshInv, OwnUnderWay, Carries
<1>3. ASSUME NEW t \in Callers, Call(t) PROVE FreshInv'
  <2>1. CASE OpenShared(t)
    BY <1>2, <2>1 DEF OpenShared
  <2>2. CASE OpenSharedRefused(t)
    BY <2>2 DEF OpenSharedRefused, KeepSocket, FreshInv, OwnUnderWay,
         Carries
  <2>3. ASSUME NEW r \in Requests, Begin(t, r) PROVE FreshInv'
    <3>1. ~timedOut => Carries(0, 0)
      BY <2>3, ConstantsAssumption DEF Begin, FreshInv, LockInv, Busy
    <3>2. ~timedOut => pending = <<>> /\ inbox = <<>>
      BY <3>1, EmptySeq DEF Carries, TypeOK
    <3>3. ~timedOut => pending' = <<>> /\ inbox' = <<>>
      BY <2>3, <3>2, DisownKeepsType DEF Begin
    <3>4. timedOut' = timedOut
      BY <2>3 DEF Begin, obs
    <3>5. QED
      BY <3>3, <3>4 DEF FreshInv, OwnUnderWay, Carries
  <2>4. QED
    BY <1>3, <2>1, <2>2, <2>3 DEF Call
<1>4. CASE Heartbeat
  <2>1. CASE Dropped
    BY <1>2, <2>1
  <2>2. CASE ~Dropped
    BY <1>4, <2>2 DEF Heartbeat, HeartbeatIdle, HeartbeatFindsReset,
         HeartbeatSend, KeepSocket, FreshInv, OwnUnderWay, Carries
  <2>3. QED
    BY <2>1, <2>2
<1>5. CASE Dongle
  <2>1. ASSUME NEW v \in Payloads, Answer(v) PROVE FreshInv'
    <3>1. Len(pending) # 0
      BY <2>1, EmptySeq DEF Answer, TypeOK
    <3>2. ~timedOut => Carries(1, 0) /\ pending[1].own
      BY <3>1 DEF FreshInv, OwnUnderWay, Carries
    <3>3. ~timedOut => Len(pending') = 0 /\ Len(inbox') = 1 /\ inbox'[1].own
      BY <2>1, <3>2 DEF Answer, Carries, TypeOK
    <3>4. pc' = pc /\ timedOut' = timedOut
      BY <2>1 DEF Answer, code, obs
    <3>5. ~timedOut => \E t \in Callers : pc[t] = "recv"
      BY <3>1 DEF FreshInv, Carries
    <3>6. QED
      BY <3>3, <3>4, <3>5 DEF FreshInv, OwnUnderWay, Carries
  <2>2. CASE Ignore
    <3>1. Len(pending) # 0
      BY <2>2, EmptySeq DEF Ignore, TypeOK
    <3>2. ~timedOut => Carries(1, 0)
      BY <3>1 DEF FreshInv, OwnUnderWay, Carries
    <3>3. ~timedOut' => Len(pending') = 0 /\ Len(inbox') = 0
      BY <2>2, <3>2 DEF Ignore, Carries, TypeOK, obs
    <3>4. QED
      BY <3>3 DEF FreshInv, OwnUnderWay, Carries
  <2>3. CASE CloseConnection
    <3>1. Len(pending') = 0 /\ inbox' = inbox /\ timedOut' = timedOut
          /\ pc' = pc
      BY <2>3 DEF CloseConnection, obs
    <3>2. QED
      BY <3>1 DEF FreshInv, OwnUnderWay, Carries
  <2>4. CASE ResetConnection
    BY <2>4 DEF ResetConnection, FreshInv, OwnUnderWay, Carries
  <2>5. CASE SwitchReachable
    BY <2>5 DEF SwitchReachable, code, obs, FreshInv, OwnUnderWay, Carries
  <2>6. QED
    BY <1>5, <2>1, <2>2, <2>3, <2>4, <2>5 DEF Dongle
<1>6. CASE UNCHANGED vars
  BY <1>6 DEF vars, code, net, obs, FreshInv, OwnUnderWay, Carries
<1>7. QED
  BY <1>1, <1>3, <1>4, <1>5, <1>6 DEF Next

LEMMA NextAnswer ==
  TypeOK /\ LockInv /\ FreshInv /\ AnswerIsOwnUnlessTimedOut
    /\ [Next]_vars => AnswerIsOwnUnlessTimedOut'
<1> SUFFICES ASSUME TypeOK, LockInv, FreshInv, AnswerIsOwnUnlessTimedOut,
                    [Next]_vars
             PROVE  AnswerIsOwnUnlessTimedOut'
  OBVIOUS
<1> USE DEF AnswerIsOwnUnlessTimedOut
<1>1. ASSUME NEW t \in Callers, NEW x, x.kind # "frame",
             res' = x
      PROVE  AnswerIsOwnUnlessTimedOut'
  BY <1>1 DEF TypeOK
<1>2. ASSUME NEW t \in Callers, NEW k \in 1 .. Len(inbox),
             NEW i \in 1 .. k, RecvMatch(t, k, i)
      PROVE  AnswerIsOwnUnlessTimedOut'
  <2>1. ~timedOut => OwnUnderWay
    BY <1>2 DEF FreshInv, RecvMatch
  <2>2. ~timedOut => inbox[i].own
    BY <2>1 DEF OwnUnderWay, Carries, TypeOK
  <2>3. res' = [kind |-> "frame", frame |-> inbox[i], asked |-> req,
                   afterTimeout |-> timedOut]
    BY <1>2 DEF RecvMatch, Leave
  <2>4. QED
    BY <2>2, <2>3 DEF TypeOK
<1>3. CASE UNCHANGED res
  BY <1>3
<1>4. ASSUME NEW t \in Callers, Call(t) \/ Transact(t)
      PROVE  AnswerIsOwnUnlessTimedOut'
  <2>1. CASE Recv(t)
    BY <1>2, <1>3, <2>1 DEF Recv, RecvNoMatch, code
  <2>2. CASE EnsureRefused(t) \/ GiveUp(t) \/ OpenSharedRefused(t)
    BY <1>1, <2>2 DEF EnsureRefused, GiveUp, OpenSharedRefused, Leave
  <2>3. CASE EnsureAlive(t) \/ EnsureConnect(t) \/ Send(t)
             \/ SocketError(t) \/ RecvClosed(t) \/ Timeout(t) \/ Retry(t)
             \/ OpenShared(t) \/ \E r \in Requests : Begin(t, r)
    BY <1>3, <2>3 DEF EnsureAlive, EnsureConnect, Send, SocketError,
         RecvClosed, Timeout, Retry, Goto, OpenShared, Begin
  <2>4. QED
    BY <1>4, <2>1, <2>2, <2>3 DEF Call, Transact
<1>5. QED
  BY <1>3, <1>4 DEF Next, Heartbeat, HeartbeatIdle, HeartbeatFindsReset,
       HeartbeatSend, Dongle, Answer, Ignore, CloseConnection,
       ResetConnection, SwitchReachable, vars, code

LEMMA ConnInvInductive ==
  /\ Init => ConnInv
  /\ ConnInv /\ [Next]_vars => ConnInv'
<1>1. ASSUME Init PROVE ConnInv
  <2>1. TypeOK
    BY <1>1, InitType
  <2>2. LockInv
    BY <1>1, ConstantsAssumption DEF Init, LockInv, Busy
  <2>3. FreshInv
    BY <1>1, EmptyIsFresh DEF Init
  <2>4. RunInv
    BY <1>1, ConstantsAssumption DEF Init, RunInv
  <2>5. AnswerIsOwnUnlessTimedOut
    BY <1>1 DEF Init, NoResult, AnswerIsOwnUnlessTimedOut
  <2>6. QED
    BY <2>1, <2>2, <2>3, <2>4, <2>5 DEF ConnInv
<1>2. QED
  BY <1>1, NextType, NextLock, NextFresh, NextRunInv, NextAnswer DEF ConnInv

\* transact() hands a caller only an answer to a request of its own, unless
\* an attempt timed out on the connection that is still in use.
THEOREM FreshAnswers == Spec => []AnswerIsOwnUnlessTimedOut
<1>1. ConnInv => AnswerIsOwnUnlessTimedOut
  BY DEF ConnInv
<1>2. QED
  BY <1>1, ConnInvInductive, PTL DEF Spec

----------------------------------------------------------------------------
(* Numbers, sequences and the bytes of several packets.                    *)

\* Every set of numbers has a least one.
LEMMA Least ==
  ASSUME NEW S, S \subseteq Nat, S # {}
  PROVE  \E i \in S : \A j \in S : i <= j
<1> DEFINE R == OpToRel(<, Nat)
<1>1. IsWellFoundedOn(R, Nat)
  BY NatLessThanWellFounded
<1>2. \A x, y \in Nat : x < y => <<x, y>> \in R
  BY DEF OpToRel
<1> HIDE DEF R
<1>3. PICK i \in S : \A j \in S : ~ (<<j, i>> \in R)
  BY <1>1, WFMin
<1>4. i \in Nat /\ \A j \in S : j \in Nat /\ ~ (j < i)
  BY <1>2, <1>3
<1>5. QED
  BY <1>4

\* f[k] joins the first k of the sequences w.
Concat(f, n, w) == f = [k \in 0..n |-> IF k = 0 THEN <<>> ELSE f[k - 1] \o w[k]]

\* The bytes of the first k packets: ...
LEMMA ConcatExists ==
  ASSUME NEW N \in Nat, NEW w
  PROVE  \E f : Concat(f, N, w)
<1> DEFINE Bad == {n \in Nat : ~ \E f : Concat(f, n, w)}
<1> SUFFICES ASSUME N \in Bad PROVE FALSE
  OBVIOUS
<1>1. PICK n \in Bad : \A m \in Bad : n <= m
  BY Least
<1>2. CASE n = 0
  <2>1. Concat([k \in 0..0 |-> <<>>], 0, w)
    BY DEF Concat
  <2>2. QED
    BY <1>2, <2>1
<1>3. CASE n # 0
  <2>1. n - 1 \in Nat /\ n - 1 \notin Bad
    BY <1>1, <1>3
  <2>2. PICK f : Concat(f, n - 1, w)
    BY <2>1
  <2> DEFINE g == [k \in 0..n |-> IF k = 0 THEN <<>> ELSE f[k - 1] \o w[k]]
  <2>3. ASSUME NEW k \in 0..(n - 1) PROVE g[k] = f[k]
    BY <2>1, <2>2, k \in 0..n DEF Concat
  <2>4. ASSUME NEW k \in 0..n, k # 0 PROVE g[k - 1] = f[k - 1]
    BY <2>1, <2>3, <2>4, k - 1 \in 0..(n - 1)
  <2>5. Concat(g, n, w)
    BY <2>4 DEF Concat
  <2>6. QED
    BY <1>1, <2>5
<1>4. QED
  BY <1>2, <1>3

\* The bytes of k packets are those of k - 1 packets and of the k-th.
LEMMA UptoUnfold ==
  ASSUME NEW s \in Seq(Packets)
  PROVE  /\ Upto(s)[0] = <<>>
         /\ \A k \in 1..Len(s) : Upto(s)[k] = Upto(s)[k - 1] \o Wire[s[k]]
<1> DEFINE w == [k \in 1..Len(s) |-> Wire[s[k]]]
<1>1. Len(s) \in Nat
  OBVIOUS
<1>2. PICK f : Concat(f, Len(s), w)
  BY <1>1, ConcatExists
<1>3. f = [k \in 0..Len(s) |-> IF k = 0 THEN <<>> ELSE f[k - 1] \o Wire[s[k]]]
  BY <1>1, <1>2 DEF Concat
<1>4. Upto(s) = [k \in 0..Len(s) |-> IF k = 0 THEN <<>> ELSE Upto(s)[k - 1] \o Wire[s[k]]]
  BY <1>3 DEF Upto
<1> DEFINE U == Upto(s)
           body(k) == IF k = 0 THEN <<>> ELSE U[k - 1] \o Wire[s[k]]
<1>5. U = [k \in 0..Len(s) |-> body(k)]
  BY <1>4
<1> HIDE DEF U, body
<1>6. \A k \in 0..Len(s) : U[k] = body(k)
  BY <1>5
<1>7. 0 \in 0..Len(s) /\ \A k \in 1..Len(s) : k \in 0..Len(s) /\ k # 0
  BY <1>1
<1>8. U[0] = body(0) /\ \A k \in 1..Len(s) : U[k] = body(k) /\ k # 0
  BY <1>6, <1>7
<1>9. QED
  BY <1>8 DEF U, body

\* Induction on 0..n, upward and downward, for a set.
LEMMA Upward ==
  ASSUME NEW n \in Nat, NEW G,
         \A k \in 0..n : (\A j \in 0..(k - 1) : j \in G) => k \in G
  PROVE  \A k \in 0..n : k \in G
<1> DEFINE Bad == {k \in 0..n : k \notin G}
<1> SUFFICES ASSUME Bad # {} PROVE FALSE
  OBVIOUS
<1>0. Bad \subseteq Nat
  OBVIOUS
<1>1. PICK k \in Bad : \A m \in Bad : k <= m
  <2> HIDE DEF Bad
  <2> QED
    BY <1>0, Least
<1>2. \A j \in 0..(k - 1) : j \in G
  BY <1>1
<1>3. QED
  BY <1>2

LEMMA Downward ==
  ASSUME NEW n \in Nat, NEW G,
         \A k \in 0..n : (\A j \in (k + 1)..n : j \in G) => k \in G
  PROVE  \A k \in 0..n : k \in G
<1> DEFINE H == {k \in 0..n : n - k \in G}
<1>1. ASSUME NEW k \in 0..n, \A j \in 0..(k - 1) : j \in H
      PROVE  k \in H
  <2>1. ASSUME NEW j \in (n - k + 1)..n PROVE j \in G
    BY <1>1, n - j \in 0..(k - 1)
  <2>2. QED
    BY <2>1, n - k \in 0..n
<1>2. \A k \in 0..n : k \in H
  <2> HIDE DEF H
  <2> QED
    BY <1>1, Upward
<1>3. QED
  BY <1>2, \A k \in 0..n : n - k \in 0..n /\ n - (n - k) = k

\* The elements of two sequences joined.
LEMMA Joined ==
  ASSUME NEW S, NEW s \in Seq(S), NEW t \in Seq(S)
  PROVE  /\ s \o t \in Seq(S)
         /\ Len(s) \in Nat /\ Len(t) \in Nat
         /\ Len(s \o t) = Len(s) + Len(t)
         /\ \A i \in 1..Len(s) : (s \o t)[i] = s[i]
         /\ \A i \in 1..Len(t) : (s \o t)[Len(s) + i] = t[i]
<1> DEFINE a == Len(s)
           b == Len(t)
           u == s \o t
<1>1. a \in Nat /\ b \in Nat
  BY LenProperties
<1>2. /\ u \in Seq(S) /\ Len(u) = a + b
      /\ \A i \in 1..a + b : u[i] = IF i <= a THEN s[i] ELSE t[i - a]
  BY ConcatProperties
<1> HIDE DEF a, b, u
<1>3. \A i \in 1..a : u[i] = s[i]
  BY <1>1, <1>2
<1>4. ASSUME NEW i \in 1..b PROVE u[a + i] = t[i]
  <2> DEFINE m == a + i
  <2>1. m \in 1..a + b /\ ~ (m <= a) /\ m - a = i
    BY <1>1
  <2> HIDE DEF m
  <2>2. u[m] = t[i]
    BY <1>2, <2>1
  <2>3. QED
    BY <2>2 DEF m
<1>5. QED
  BY <1>1, <1>2, <1>3, <1>4 DEF a, b, u

\* u is made of the m elements of s and the n elements of t.
Joins(u, s, m, t, n) ==
  /\ Len(u) = m + n
  /\ \A i \in 1..m : u[i] = s[i]
  /\ \A i \in 1..n : u[m + i] = t[i]

LEMMA JoinedOf ==
  ASSUME NEW S, NEW s \in Seq(S), NEW t \in Seq(S)
  PROVE  s \o t \in Seq(S) /\ Joins(s \o t, s, Len(s), t, Len(t))
<1>1. Len(s \o t) = Len(s) + Len(t)
  BY Joined
<1>2. \A i \in 1..Len(s) : (s \o t)[i] = s[i]
  BY Joined
<1>3. \A i \in 1..Len(t) : (s \o t)[Len(s) + i] = t[i]
  BY Joined
<1>4. s \o t \in Seq(S)
  BY Joined
<1> DEFINE u == s \o t
<1> HIDE DEF u
<1>5. Joins(u, s, Len(s), t, Len(t))
  <2>1. Len(u) = Len(s) + Len(t)
    BY <1>1 DEF u
  <2>2. \A i \in 1..Len(s) : u[i] = s[i]
    BY <1>2 DEF u
  <2>3. \A i \in 1..Len(t) : u[Len(s) + i] = t[i]
    BY <1>3 DEF u
  <2>4. QED
    BY <2>1, <2>2, <2>3 DEF Joins
<1>6. QED
  BY <1>4, <1>5 DEF u

\* What is assumed of a packet.
LEMMA WireType ==
  ASSUME NEW p \in Packets
  PROVE  /\ Wire[p] \in Seq(Byte)
         /\ Len(Wire[p]) \in Nat
         /\ Len(Wire[p]) < MaxBuffer
         /\ WellFormed(p)
         /\ FindBytes(Wire[p], PREFIX, 1) = -1
<1>1. Wire[p] \in Seq(Byte)
  BY PassiveStreamAssumption DEF PassiveStreamAssumption
<1>2. QED
  BY <1>1, PassiveStreamAssumption, LenProperties DEF PassiveStreamAssumption

\* stream[k] is a byte string in which the first k packets stand one after the
\* other.
Holds(stream, s, k) ==
  /\ stream[k] \in Seq(Byte)
  /\ \A j \in 0..k : Len(stream[j]) <= Len(stream[k])
  /\ \A j \in 1..k : \A x \in 1..Len(Wire[s[j]]) :
       stream[k][Len(stream[j - 1]) + x] = Wire[s[j]][x]

\* Where a packet stands in the bytes of many.
LEMMA UptoFacts ==
  ASSUME NEW s \in Seq(Packets)
  PROVE  /\ Upto(s)[0] = <<>>
         /\ \A k \in 1..Len(s) : Upto(s)[k] = Upto(s)[k - 1] \o Wire[s[k]]
         /\ \A k \in 0..Len(s) : Holds(Upto(s), s, k)
<1> DEFINE U == Upto(s)
           G == {k \in 0..Len(s) : Holds(U, s, k)}
<1>1. Len(s) \in Nat /\ \A k \in 1..Len(s) : s[k] \in Packets
  BY LenProperties, ElementOfSeq
<1>2. U[0] = <<>>
  BY <1>1, UptoUnfold
<1>3. \A k \in 1..Len(s) : U[k] = U[k - 1] \o Wire[s[k]]
  BY <1>1, UptoUnfold
<1> HIDE DEF U
<1>4. ASSUME NEW k \in 0..Len(s), \A j \in 0..(k - 1) : Holds(U, s, j)
      PROVE  Holds(U, s, k)
  <2>1. CASE k = 0
    <3>1. U[0] \in Seq(Byte) /\ 0..0 = {0} /\ 1..0 = {} /\ Len(U[0]) = 0
      BY <1>2
    <3>2. QED
      BY <2>1, <3>1 DEF Holds
  <2>2. CASE k # 0
    <3> DEFINE w == Wire[s[k]]
    <3>1. k \in 1..Len(s) /\ k - 1 \in 0..(k - 1) /\ s[k] \in Packets
      BY <1>1, <2>2
    <3>2. Holds(U, s, k - 1)
      BY <1>4, <3>1
    <3>3. /\ U[k - 1] \in Seq(Byte) /\ Len(U[k - 1]) \in Nat
          /\ w \in Seq(Byte) /\ Len(w) \in Nat
      BY <3>1, <3>2, WireType, LenProperties DEF Holds
    <3>4. U[k] = U[k - 1] \o w
      BY <1>3, <3>1
    <3> HIDE DEF w
    <3>5. /\ U[k] \in Seq(Byte) /\ Len(U[k]) = Len(U[k - 1]) + Len(w)
          /\ \A i \in 1..Len(U[k - 1]) : U[k][i] = U[k - 1][i]
          /\ \A i \in 1..Len(w) : U[k][Len(U[k - 1]) + i] = w[i]
      <4> DEFINE u == U[k - 1]
      <4>1. u \in Seq(Byte) /\ w \in Seq(Byte)
        BY <3>3
      <4> HIDE DEF u
      <4>2. u \o w \in Seq(Byte) /\ Joins(u \o w, u, Len(u), w, Len(w))
        BY <4>1, JoinedOf
      <4>3. U[k] \in Seq(Byte) /\ Joins(U[k], u, Len(u), w, Len(w))
        BY <3>4, <4>2 DEF u
      <4>4. QED
        BY <4>3 DEF Joins, u
    <3>6. ASSUME NEW j \in 0..k PROVE Len(U[j]) \in Nat /\ Len(U[j]) <= Len(U[k])
      <4>1. CASE j = k
        BY <3>3, <3>5, <4>1
      <4>2. CASE j # k
        <5>1. j \in 0..(k - 1)
          BY <4>2
        <5>2. Len(U[j]) \in Nat
          BY <1>4, <5>1, LenProperties DEF Holds
        <5>3. Len(U[j]) <= Len(U[k - 1])
          BY <3>2, <5>1 DEF Holds
        <5>4. QED
          BY <3>3, <3>5, <5>2, <5>3
      <4>3. QED
        BY <4>1, <4>2
    <3>7. ASSUME NEW j \in 1..k, NEW x \in 1..Len(Wire[s[j]])
          PROVE  U[k][Len(U[j - 1]) + x] = Wire[s[j]][x]
      <4>1. CASE j = k
        BY <3>5, <4>1 DEF w
      <4>2. CASE j # k
        <5>1. j \in 1..(k - 1) /\ j \in 0..(k - 1) /\ j - 1 \in 0..(k - 1) /\ j \in 1..Len(s)
          BY <4>2
        <5>2. U[j] = U[j - 1] \o Wire[s[j]]
          BY <1>3, <5>1
        <5>3. /\ U[j - 1] \in Seq(Byte) /\ Wire[s[j]] \in Seq(Byte)
              /\ Len(U[j - 1]) \in Nat /\ Len(Wire[s[j]]) \in Nat
          BY <1>1, <1>4, <5>1, WireType, LenProperties DEF Holds
        <5>4. Len(U[j]) = Len(U[j - 1]) + Len(Wire[s[j]])
          BY <5>2, <5>3, ConcatProperties
        <5>5. Len(U[j]) <= Len(U[k - 1])
          BY <3>2, <5>1 DEF Holds
        <5>6. U[k - 1][Len(U[j - 1]) + x] = Wire[s[j]][x]
          BY <3>2, <5>1 DEF Holds
        <5>7. Len(U[j - 1]) + x \in 1..Len(U[k - 1])
          <6> DEFINE a == Len(U[j - 1])
                     b == Len(U[k - 1])
                     c == Len(Wire[s[j]])
          <6>1. a \in Nat /\ b \in Nat /\ c \in Nat /\ a + c <= b /\ x \in 1..c
            BY <3>3, <5>3, <5>4, <5>5
          <6> HIDE DEF a, b, c
          <6>2. a + x \in 1..b
            BY <6>1
          <6>3. QED
            BY <6>2 DEF a, b
        <5>9. U[k][Len(U[j - 1]) + x] = U[k - 1][Len(U[j - 1]) + x]
          BY <3>5, <5>7
        <5>10. QED
          BY <5>6, <5>9
      <4>3. QED
        BY <4>1, <4>2
    <3>8. QED
      BY <3>5, <3>6, <3>7 DEF Holds
  <2>3. QED
    BY <2>1, <2>2
<1>5. ASSUME NEW k \in 0..Len(s), \A j \in 0..(k - 1) : j \in G PROVE k \in G
  BY <1>4, <1>5
<1>6. \A k \in 0..Len(s) : k \in G
  <2> HIDE DEF G
  <2> QED
    BY <1>1, <1>5, Upward
<1>7. QED
  BY <1>2, <1>3, <1>6 DEF U

----------------------------------------------------------------------------
(* What the builders of packets return: words, headers, serials, data      *)
(* heads. The checksum is never looked at: of it only the size of the      *)
(* sealed frame is used.                                                   *)

\* struct.unpack gives back what struct.pack was given.
LEMMA U16Type ==
  ASSUME NEW n \in Nat
  PROVE  /\ U16(n) \in Seq(Nat) /\ Len(U16(n)) = 2
         /\ U16At(U16(n), 0) = n
<1>1. n % 256 \in Nat /\ n \div 256 \in Nat /\ (n % 256) + 256 * (n \div 256) = n
  OBVIOUS
<1>2. <<n % 256, n \div 256>> \in Seq(Nat)
  BY <1>1
<1>3. QED
  BY <1>1, <1>2 DEF U16, U16At, At

\* The same two bytes are the same word.
LEMMA SameWord ==
  ASSUME NEW v, NEW w, NEW i \in Nat, NEW j \in Nat,
         v[i + 1] = w[j + 1], v[i + 2] = w[j + 2]
  PROVE  U16At(v, i) = U16At(w, j)
BY i + 1 + 1 = i + 2, j + 1 + 1 = j + 2 DEF U16At, At

\* A serial takes ten bytes, whatever is configured.
LEMMA SerialType ==
  ASSUME NEW s \in Seq(Byte)
  PROVE  SerialBytes(s) \in Seq(Nat) /\ Len(SerialBytes(s)) = 10
<1> DEFINE blanks == [i \in 1..10 |-> 32]
           padded == s \o blanks
<1>1. blanks \in Seq(Byte) /\ Len(blanks) = 10
  <2>1. blanks \in [1..10 -> Byte]
    BY DEF Byte
  <2>2. blanks \in Seq(Byte)
    BY <2>1, SeqDef
  <2>3. QED
    BY <2>2
<1>2. padded \in Seq(Byte) /\ 1..10 \subseteq 1..Len(padded)
  <2>1. Len(s) \in Nat
    BY LenProperties
  <2>2. padded \in Seq(Byte)
    BY <1>1, Joined
  <2>3. Len(padded) = Len(s) + Len(blanks)
    BY <1>1, Joined
  <2> HIDE DEF padded
  <2>4. Len(padded) = Len(s) + 10
    BY <1>1, <2>3
  <2>5. QED
    BY <2>1, <2>2, <2>4
<1> HIDE DEF padded
<1>3. \A i \in 1..10 : padded[i] \in Nat
  <2>1. \A i \in 1..Len(padded) : padded[i] \in Byte
    BY <1>2, ElementOfSeq
  <2> HIDE DEF blanks
  <2>2. ASSUME NEW i \in 1..10 PROVE padded[i] \in Nat
    <3>1. padded[i] \in Byte
      BY <1>2, <2>1
    <3>2. Byte \subseteq Nat
      BY DEF Byte
    <3>3. QED
      BY <3>1, <3>2
  <2>3. QED
    BY <2>2
<1>4. SubSeq(padded, 1, 10) \in Seq(Nat) /\ Len(SubSeq(padded, 1, 10)) = 10
  BY <1>3, SubSeqProperties
<1>5. QED
  BY <1>4 DEF SerialBytes, padded

\* The header h announces size bytes behind itself and this function.
Announces(h, size, function) ==
  /\ Len(h) = 18
  /\ h[1] = 161 /\ h[2] = 26
  /\ U16At(h, 4) = size
  /\ h[8] = function

\* A header has eighteen bytes.
LEMMA HeaderType ==
  ASSUME NEW protocol \in Nat, NEW size \in Nat, NEW function \in Nat
  PROVE  /\ Header(protocol, size, function, Datalog) \in Seq(Nat)
         /\ Announces(Header(protocol, size, function, Datalog), size, function)
<1> DEFINE a == U16(protocol)
           b == U16(size)
           c == <<1, function>>
           d == SerialBytes(Datalog)
           ab == PREFIX \o a
           abb == ab \o b
           abc == abb \o c
           h == abc \o d
<1>1. PREFIX \in Seq(Nat) /\ Len(PREFIX) = 2 /\ PREFIX[1] = 161 /\ PREFIX[2] = 26
  BY DEF PREFIX
<1>2. /\ a \in Seq(Nat) /\ Len(a) = 2 /\ b \in Seq(Nat) /\ Len(b) = 2
      /\ U16At(b, 0) = size
  BY U16Type
<1>3. c \in Seq(Nat) /\ Len(c) = 2 /\ c[2] = function
  OBVIOUS
<1>4. d \in Seq(Nat) /\ Len(d) = 10
  BY SerialType, PassiveStreamAssumption DEF PassiveStreamAssumption
<1> HIDE DEF a, b, c, d
<1>5. ab \in Seq(Nat) /\ Joins(ab, PREFIX, 2, a, 2)
  <2>1. PREFIX \o a \in Seq(Nat) /\ Joins(PREFIX \o a, PREFIX, Len(PREFIX), a, Len(a))
    <3>1. PREFIX \in Seq(Nat) /\ a \in Seq(Nat)
      BY <1>1, <1>2
    <3>2. QED
      BY <3>1, JoinedOf
  <2>2. QED
    BY <1>1, <1>2, <2>1
<1> HIDE DEF ab
<1>6. abb \in Seq(Nat) /\ Joins(abb, ab, 4, b, 2)
  <2>1. Len(ab) = 4
    BY <1>5 DEF Joins
  <2>2. QED
    BY <1>2, <1>5, <2>1, JoinedOf
<1> HIDE DEF abb
<1>7. abc \in Seq(Nat) /\ Joins(abc, abb, 6, c, 2)
  <2>1. Len(abb) = 6
    BY <1>6 DEF Joins
  <2>2. QED
    BY <1>3, <1>6, <2>1, JoinedOf
<1> HIDE DEF abc
<1>8. h \in Seq(Nat) /\ Joins(h, abc, 8, d, 10)
  <2>1. Len(abc) = 8
    BY <1>7 DEF Joins
  <2>2. QED
    BY <1>4, <1>7, <2>1, JoinedOf
<1> HIDE DEF h
<1>9. /\ h[1] = PREFIX[1] /\ h[2] = PREFIX[2]
  BY <1>5, <1>6, <1>7, <1>8, SMTT(20) DEF Joins
<1>10. U16At(h, 4) = U16At(b, 0)
  <2>1. h[4 + 1] = b[0 + 1] /\ h[4 + 2] = b[0 + 2]
    BY <1>6, <1>7, <1>8, SMTT(20) DEF Joins
  <2>2. QED
    BY <2>1, SameWord, 4 \in Nat, 0 \in Nat
<1>11. h[8] = c[2]
  BY <1>7, <1>8 DEF Joins
<1>12. Announces(h, size, function)
  <2>1. Len(h) = 18
    BY <1>8 DEF Joins
  <2>2. QED
    BY <1>1, <1>2, <1>3, <1>9, <1>10, <1>11, <2>1 DEF Announces
<1>13. h = Header(protocol, size, function, Datalog)
  BY DEF Header, h, a, b, c, d, ab, abb, abc
<1>14. QED
  BY <1>8, <1>12, <1>13

\* The checksum stands behind the frame.
LEMMA SealedType ==
  ASSUME NEW frame \in Seq(Nat)
  PROVE  \E S : /\ Nat \subseteq S /\ Sealed(frame) \in Seq(S)
                /\ Joins(Sealed(frame), frame, Len(frame), U16(crc16_modbus(frame)), 2)
<1> DEFINE crc == crc16_modbus(frame)
           S == Nat \cup {crc % 256, crc \div 256}
           c == <<crc % 256, crc \div 256>>
<1>1. c \in Seq(S) /\ Len(c) = 2 /\ c = U16(crc)
  BY DEF U16
<1>2. frame \in Seq(S)
  BY SeqMonotonic, Nat \subseteq S
<1> HIDE DEF crc, S, c
<1>3. frame \o c \in Seq(S) /\ Joins(frame \o c, frame, Len(frame), c, 2)
  BY <1>1, <1>2, JoinedOf
<1>4. Sealed(frame) = frame \o c
  BY <1>1 DEF Sealed, crc
<1>5. Nat \subseteq S
  BY DEF S
<1>6. QED
  BY <1>1, <1>3, <1>4, <1>5 DEF crc

\* The packet w carries this frame behind its header and length field.
Encloses(w, size, frame) ==
  /\ Len(w) = 22 + Len(frame)
  /\ w[1] = 161 /\ w[2] = 26 /\ U16At(w, 4) = size
  /\ w[8] = TCP_FUNC_TRANSLATED_DATA
  /\ \A i \in 1..Len(frame) : w[20 + i] = frame[i]

\* Header, length field and sealed frame, one after the other.
LEMMA EnvelopeAt ==
  ASSUME NEW protocol \in Nat, NEW size \in Nat, NEW n \in Nat, NEW frame \in Seq(Nat)
  PROVE  Encloses(Header(protocol, size, TCP_FUNC_TRANSLATED_DATA, Datalog) \o U16(n) \o Sealed(frame),
                  size, frame)
<1> DEFINE h == Header(protocol, size, TCP_FUNC_TRANSLATED_DATA, Datalog)
           l == U16(n)
           e == Sealed(frame)
           c == U16(crc16_modbus(frame))
           hl == h \o l
           w == hl \o e
<1>1. h \in Seq(Nat) /\ Announces(h, size, TCP_FUNC_TRANSLATED_DATA)
  <2>1. TCP_FUNC_TRANSLATED_DATA \in Nat
    BY DEF TCP_FUNC_TRANSLATED_DATA
  <2>2. QED
    BY <2>1, HeaderType
<1>2. l \in Seq(Nat) /\ Len(l) = 2
  BY U16Type
<1>3. PICK S : Nat \subseteq S /\ e \in Seq(S) /\ Joins(e, frame, Len(frame), c, 2)
  BY SealedType
<1>4. Len(frame) \in Nat
  BY LenProperties
<1> HIDE DEF h, l, e, c
<1>5. hl \in Seq(Nat) /\ Joins(hl, h, 18, l, 2)
  <2>1. h \in Seq(Nat) /\ Len(h) = 18
    BY <1>1 DEF Announces
  <2>2. QED
    BY <1>2, <2>1, JoinedOf
<1> HIDE DEF hl
<1>6. Len(hl) = 20 /\ Len(e) = Len(frame) + 2
  BY <1>3, <1>5 DEF Joins
<1>7. Joins(w, hl, 20, e, Len(e))
  <2>1. hl \in Seq(S)
    BY <1>3, <1>5, SeqMonotonic
  <2>2. QED
    BY <1>3, <1>6, <2>1, JoinedOf
<1> HIDE DEF w
<1>8. Len(w) = 22 + Len(frame)
  BY <1>4, <1>6, <1>7 DEF Joins
<1>9. w[1] = 161 /\ w[2] = 26 /\ w[8] = TCP_FUNC_TRANSLATED_DATA
  BY <1>1, <1>5, <1>7 DEF Joins, Announces
<1>10. U16At(w, 4) = U16At(h, 4)
  <2>1. w[5] = h[5] /\ w[6] = h[6]
    <3>1. \A i \in 1..18 : hl[i] = h[i]
      BY <1>5 DEF Joins
    <3>2. \A i \in 1..20 : w[i] = hl[i]
      BY <1>7 DEF Joins
    <3>3. QED
      BY <3>1, <3>2
  <2>2. 4 \in Nat /\ 4 + 1 = 5 /\ 4 + 2 = 6
    OBVIOUS
  <2>3. w[4 + 1] = h[4 + 1] /\ w[4 + 2] = h[4 + 2]
    BY <2>1, <2>2
  <2>4. QED
    BY <2>2, <2>3, SameWord
<1>11. ASSUME NEW i \in 1..Len(frame) PROVE w[20 + i] = frame[i]
  <2>1. i \in 1..Len(e)
    BY <1>4, <1>6
  <2>2. w[20 + i] = e[i] /\ e[i] = frame[i]
    BY <1>3, <1>7, <2>1 DEF Joins
  <2>3. QED
    BY <2>2
<1>12. Encloses(w, size, frame)
  BY <1>1, <1>8, <1>9, <1>10, <1>11 DEF Encloses, Announces
<1>13. QED
  BY <1>12 DEF w, hl, h, l, e

\* The data head h names this function and register.
Addresses(h, function, register) ==
  Len(h) = 14 /\ h[2] = function /\ U16At(h, 12) = register

LEMMA DataHeadType ==
  ASSUME NEW function \in Nat, NEW register \in Nat
  PROVE  /\ DataHead(function, Inverter, register) \in Seq(Nat)
         /\ Addresses(DataHead(function, Inverter, register), function, register)
<1> DEFINE a == <<0, function>>
           b == SerialBytes(Inverter)
           c == U16(register)
           ab == a \o b
           h == ab \o c
<1>1. a \in Seq(Nat) /\ Len(a) = 2 /\ a[2] = function
  OBVIOUS
<1>2. b \in Seq(Nat) /\ Len(b) = 10
  BY SerialType, PassiveStreamAssumption DEF PassiveStreamAssumption
<1>3. c \in Seq(Nat) /\ Len(c) = 2 /\ U16At(c, 0) = register
  BY U16Type
<1> HIDE DEF a, b, c
<1>4. ab \in Seq(Nat) /\ Joins(ab, a, 2, b, 10)
  BY <1>1, <1>2, JoinedOf
<1> HIDE DEF ab
<1>5. h \in Seq(Nat) /\ Joins(h, ab, 12, c, 2)
  <2>1. Len(ab) = 12
    BY <1>4 DEF Joins
  <2>2. QED
    BY <1>3, <1>4, <2>1, JoinedOf
<1>6. h = DataHead(function, Inverter, register)
  BY DEF DataHead, a, b, c, ab
<1> HIDE DEF h
<1>7. h[2] = function /\ h[12 + 1] = c[0 + 1] /\ h[12 + 2] = c[0 + 2] /\ Len(h) = 14
  BY <1>1, <1>4, <1>5 DEF Joins
<1>8. Addresses(h, function, register)
  <2>1. U16At(h, 12) = U16At(c, 0)
    BY <1>7, SameWord, 12 \in Nat, 0 \in Nat
  <2>2. QED
    BY <1>3, <1>7, <2>1 DEF Addresses
<1>9. QED
  BY <1>5, <1>6, <1>8

\* Register values are found again in their bytes.
LEMMA WordsType ==
  ASSUME NEW values \in Seq(Nat)
  PROVE  /\ Words(values) \in Seq(Nat)
         /\ Len(Words(values)) = 2 * Len(values)
         /\ \A i \in 1..Len(values) :
              U16At(Words(values), 2 * i - 2) = values[i]
<1> DEFINE n == Len(values)
           w == Words(values)
           byte(i) == IF i % 2 = 1 THEN values[(i + 1) \div 2] % 256 ELSE values[i \div 2] \div 256
<1>1. n \in Nat /\ \A i \in 1..n : values[i] \in Nat
  BY LenProperties, ElementOfSeq
<1>2. w = [i \in 1..2 * n |-> byte(i)]
  BY DEF Words
<1> HIDE DEF n, w
<1>3. ASSUME NEW i \in 1..2 * n PROVE byte(i) \in Nat
  <2>1. CASE i % 2 = 1
    <3>1. (i + 1) \div 2 \in 1..n
      BY <1>1, <2>1
    <3>2. values[(i + 1) \div 2] \in Nat
      BY <1>1, <3>1
    <3>3. QED
      BY <2>1, <3>2
  <2>2. CASE i % 2 # 1
    <3>1. i \div 2 \in 1..n
      BY <1>1, <2>2
    <3>2. values[i \div 2] \in Nat
      BY <1>1, <3>1
    <3>3. QED
      BY <2>2, <3>2
  <2>3. QED
    BY <2>1, <2>2
<1>4. w \in [1..2 * n -> Nat]
  <2> HIDE DEF byte
  <2> QED
    BY <1>2, <1>3
<1>5. 2 * n \in Nat
  BY <1>1
<1>6. w \in Seq(Nat) /\ Len(w) = 2 * n
  <2>1. w \in Seq(Nat)
    BY <1>4, <1>5, SeqDef
  <2>2. QED
    BY <1>4, <1>5, <2>1, LenProperties
<1>7. ASSUME NEW i \in 1..n PROVE U16At(w, 2 * i - 2) = values[i]
  <2>1. /\ 2 * i - 1 \in 1..2 * n /\ (2 * i - 1) % 2 = 1 /\ ((2 * i - 1) + 1) \div 2 = i
        /\ 2 * i \in 1..2 * n /\ (2 * i) % 2 # 1 /\ (2 * i) \div 2 = i
    BY <1>1
  <2>2. w[2 * i - 1] = byte(2 * i - 1) /\ w[2 * i] = byte(2 * i)
    <3> HIDE DEF byte
    <3> QED
      BY <1>2, <2>1
  <2>3. w[2 * i - 1] = values[i] % 256 /\ w[2 * i] = values[i] \div 256
    BY <2>1, <2>2
  <2>4. values[i] \in Nat
    BY <1>1
  <2>5. (values[i] % 256) + 256 * (values[i] \div 256) = values[i]
    BY <2>4
  <2>6. U16At(w, 2 * i - 2) = w[2 * i - 1] + 256 * w[2 * i]
    BY 2 * i - 2 + 1 = 2 * i - 1, 2 * i - 2 + 1 + 1 = 2 * i DEF U16At, At
  <2>7. QED
    BY <2>3, <2>5, <2>6
<1>8. QED
  BY <1>6, <1>7 DEF n, w

----------------------------------------------------------------------------
(* What the parser reads from the bytes of one frame.                      *)

\* data[i:j] where it lies inside.
LEMMA SliceAt ==
  ASSUME NEW S, NEW data \in Seq(S), NEW i \in Nat, NEW j \in Nat, i <= j, j <= Len(data)
  PROVE  /\ Slice(data, i, j) \in Seq(S)
         /\ Len(Slice(data, i, j)) = j - i
         /\ \A x \in 1..j - i : Slice(data, i, j)[x] = data[i + x]
<1>1. Len(data) \in Nat /\ \A x \in 1..Len(data) : data[x] \in S
  BY LenProperties, ElementOfSeq
<1>2. Slice(data, i, j) = SubSeq(data, i + 1, j)
  BY <1>1 DEF Slice
<1>3. \A x \in (i + 1)..j : data[x] \in S
  BY <1>1
<1> DEFINE d == SubSeq(data, i + 1, j)
<1>4. /\ d \in Seq(S)
      /\ Len(d) = IF i + 1 <= j THEN j - (i + 1) + 1 ELSE 0
      /\ \A x \in 1..j - (i + 1) + 1 : d[x] = data[(i + 1) + x - 1]
  BY <1>3, i + 1 \in Int, j \in Int, SubSeqProperties
<1> HIDE DEF d
<1>5. ASSUME NEW x \in 1..j - i PROVE d[x] = data[i + x]
  BY <1>4, (i + 1) + x - 1 = i + x, j - (i + 1) + 1 = j - i
<1>6. Len(d) = j - i
  BY <1>4
<1>7. QED
  BY <1>2, <1>4, <1>5, <1>6 DEF d

\* A frame starts at offset i.
Marked(data, i) == i + 2 <= Len(data) /\ data[i + 1] = 161 /\ data[i + 2] = 26

\* The prefix stands at offset i.
LEMMA SlicePrefix ==
  ASSUME NEW S, NEW data \in Seq(S), NEW i \in Nat
  PROVE  Slice(data, i, i + 2) = PREFIX <=> Marked(data, i)
<1>0. Len(data) \in Nat /\ \A x \in 1..Len(data) : data[x] \in S
  BY LenProperties, ElementOfSeq
<1> DEFINE d == Slice(data, i, i + 2)
<1>1. Len(PREFIX) = 2 /\ PREFIX[1] = 161 /\ PREFIX[2] = 26
  BY DEF PREFIX
<1>2. CASE i + 2 <= Len(data)
  <2>1. d \in Seq(S) /\ Len(d) = (i + 2) - i /\ \A x \in 1..(i + 2) - i : d[x] = data[i + x]
    BY <1>2, i + 2 \in Nat, i <= i + 2, SliceAt
  <2> HIDE DEF d
  <2>2. Len(d) = 2 /\ d[1] = data[i + 1] /\ d[2] = data[i + 2]
    BY <2>1, (i + 2) - i = 2
  <2>3. d = PREFIX => data[i + 1] = 161 /\ data[i + 2] = 26
    BY <1>1, <2>2
  <2>4. ASSUME data[i + 1] = 161, data[i + 2] = 26 PROVE d = PREFIX
    <3>1. PREFIX \in Seq(Nat) /\ d \in Seq(S \cup Nat) /\ PREFIX \in Seq(S \cup Nat)
      <4>1. PREFIX \in Seq(Nat)
        BY DEF PREFIX
      <4>2. QED
        BY <2>1, <4>1, SeqMonotonic, S \subseteq S \cup Nat, Nat \subseteq S \cup Nat
    <3>2. Len(d) = Len(PREFIX) /\ \A x \in 1..Len(d) : d[x] = PREFIX[x]
      BY <1>1, <2>2, <2>4
    <3>3. QED
      BY <3>1, <3>2, SeqEqual
  <2>5. d = PREFIX <=> Marked(data, i)
    BY <1>2, <2>3, <2>4 DEF Marked
  <2>6. QED
    BY <2>5 DEF d
<1>3. CASE ~ (i + 2 <= Len(data))
  <2>1. d = SubSeq(data, i + 1, Len(data))
    BY <1>0, <1>3 DEF Slice
  <2>2. \A x \in (i + 1)..Len(data) : data[x] \in S
    BY <1>0
  <2>3. Len(SubSeq(data, i + 1, Len(data))) = IF i + 1 <= Len(data) THEN Len(data) - (i + 1) + 1 ELSE 0
    BY <1>0, <2>2, i + 1 \in Int, SubSeqProperties
  <2> HIDE DEF d
  <2>4. Len(d) # 2
    BY <1>0, <1>3, <2>1, <2>3
  <2>5. d # PREFIX
    BY <1>1, <2>4
  <2>6. QED
    BY <1>3, <2>5 DEF Marked, d
<1>4. QED
  BY <1>2, <1>3

\* The fields that parse_frame fills, of an answer and of a refusal.
LEMMA DataFields ==
  ASSUME NEW w \in Seq(Byte), Len(w) >= 34, w[22] < 128
  PROVE  LET f == ParseDataFrame(w, Bare(w))
         IN  /\ f.raw = w /\ f.tcp_function = w[8] /\ f.device_function = w[22]
             /\ f.is_error = FALSE
             /\ f.register = U16At(w, 32)
             /\ f.values = ParsedValues(w, w[22])
             /\ f.write_count = IF w[22] = 16 /\ Len(w) >= 38 THEN U16At(w, 34) ELSE 0
<1>1. Len(w) \in Nat /\ w[22] \in Nat
  <2>1. Len(w) \in Nat /\ \A x \in 1..Len(w) : w[x] \in Byte
    BY LenProperties, ElementOfSeq
  <2>2. Byte \subseteq Nat
    BY DEF Byte
  <2>3. 22 \in 1..Len(w)
    BY <2>1
  <2>4. w[22] \in Byte
    BY <2>1, <2>3
  <2>5. QED
    BY <2>1, <2>2, <2>4
<1>2. At(w, 21) = w[22] /\ At(w, 7) = w[8]
  BY DEF At
<1> DEFINE serial == IF Len(w) >= 32 THEN Slice(w, 22, 32) ELSE << >>
           register == IF Len(w) >= 34 THEN U16At(w, 32) ELSE 0
           values == ParsedValues(w, At(w, 21))
           count == IF At(w, 21) = MODBUS_WRITE_MULTI /\ Len(w) >= 38 THEN U16At(w, 34) ELSE 0
           known == [Bare(w) EXCEPT !.address = At(w, 20), !.device_function = At(w, 21)]
           f == [known EXCEPT !.inverter_serial = serial, !.register = register,
                              !.values = values, !.write_count = count]
<1>3. ~ (Len(w) < 22) /\ ~ (At(w, 21) >= 128)
  BY <1>1, <1>2
<1>4. ParseDataFrame(w, Bare(w)) = f
  BY <1>3, Zenon DEF ParseDataFrame
<1>5. register = U16At(w, 32) /\ values = ParsedValues(w, w[22])
  BY <1>1, <1>2
<1>6. count = IF w[22] = 16 /\ Len(w) >= 38 THEN U16At(w, 34) ELSE 0
  BY <1>2 DEF MODBUS_WRITE_MULTI
<1> HIDE DEF serial, register, values, count
<1>7. /\ f.raw = w /\ f.tcp_function = At(w, 7) /\ f.device_function = At(w, 21)
      /\ f.is_error = FALSE /\ f.register = register /\ f.values = values
      /\ f.write_count = count
  BY DEF Bare
<1> HIDE DEF f
<1>8. QED
  BY <1>2, <1>4, <1>5, <1>6, <1>7

LEMMA RefusalFields ==
  ASSUME NEW w \in Seq(Byte), Len(w) > 22, w[22] >= 128, w[22] \in Nat
  PROVE  LET f == ParseDataFrame(w, Bare(w))
         IN  /\ f.raw = w /\ f.tcp_function = w[8] /\ f.device_function = w[22]
             /\ f.is_error = TRUE /\ f.error_code = w[23] /\ f.register = 0
<1>1. Len(w) \in Nat
  BY LenProperties
<1>2. At(w, 21) = w[22] /\ At(w, 7) = w[8] /\ At(w, 22) = w[23]
  BY DEF At
<1> DEFINE reason == IF Len(w) > 22 THEN At(w, 22) ELSE 0
           known == [Bare(w) EXCEPT !.address = At(w, 20), !.device_function = At(w, 21)]
           f == [known EXCEPT !.is_error = TRUE, !.error_code = reason]
<1>3. ~ (Len(w) < 22) /\ At(w, 21) >= 128
  BY <1>1, <1>2
<1>4. ParseDataFrame(w, Bare(w)) = f
  BY <1>3, Zenon DEF ParseDataFrame
<1>5. reason = w[23]
  BY <1>1, <1>2
<1> HIDE DEF reason
<1>6. /\ f.raw = w /\ f.tcp_function = At(w, 7) /\ f.device_function = At(w, 21)
      /\ f.is_error = TRUE /\ f.error_code = reason /\ f.register = 0
  BY DEF Bare
<1> HIDE DEF f
<1>7. QED
  BY <1>2, <1>4, <1>5, <1>6

\* Such bytes are parsed as a data frame.
LEMMA ParsedAsData ==
  ASSUME NEW w \in Seq(Byte), Len(w) >= 20, w[1] = 161, w[2] = 26,
         w[8] = TCP_FUNC_TRANSLATED_DATA
  PROVE  ParseFrame(w) = ParseDataFrame(w, Bare(w))
<1>1. Len(w) \in Nat
  BY LenProperties
<1>2. Slice(w, 0, 2) = PREFIX
  <2>1. Slice(w, 0, 0 + 2) = PREFIX
    <3>1. Marked(w, 0)
      BY <1>1 DEF Marked
    <3>2. QED
      BY <3>1, SlicePrefix, 0 \in Nat
  <2>2. QED
    BY <2>1
<1>3. ~ (Len(w) < HEADER_SIZE) /\ Len(w) >= 20
  BY <1>1 DEF HEADER_SIZE
<1>4. At(w, 7) = TCP_FUNC_TRANSLATED_DATA
  BY DEF At
<1>5. QED
  BY <1>2, <1>3, <1>4, Zenon DEF ParseFrame

----------------------------------------------------------------------------
(* Every packet is understood: the parser gets back what the packet says,  *)
(* whatever its kind.                                                      *)

\* The packet w of this size carries this function, register and what follows.
Conveys(w, size, function, register, tail) ==
  /\ Len(w) = 36 + Len(tail)
  /\ w[1] = 161 /\ w[2] = 26 /\ U16At(w, 4) = size
  /\ w[8] = TCP_FUNC_TRANSLATED_DATA
  /\ w[22] = function /\ U16At(w, 32) = register
  /\ \A i \in 1..Len(tail) : w[34 + i] = tail[i]

\* How a packet with a data head is laid out.
LEMMA DataPacket ==
  ASSUME NEW protocol \in Nat, NEW size \in Nat, NEW n \in Nat,
         NEW function \in Nat, NEW register \in Nat, NEW tail \in Seq(Nat)
  PROVE  Conveys(Header(protocol, size, TCP_FUNC_TRANSLATED_DATA, Datalog) \o U16(n)
                   \o Sealed(DataHead(function, Inverter, register) \o tail),
                 size, function, register, tail)
<1> DEFINE head == DataHead(function, Inverter, register)
           frame == head \o tail
           w == Header(protocol, size, TCP_FUNC_TRANSLATED_DATA, Datalog) \o U16(n) \o Sealed(frame)
<1>1. head \in Seq(Nat) /\ Addresses(head, function, register)
  BY DataHeadType
<1> HIDE DEF head
<1>2. Len(head) = 14 /\ Len(tail) \in Nat
  BY <1>1, LenProperties DEF Addresses
<1>3. frame \in Seq(Nat) /\ Joins(frame, head, 14, tail, Len(tail))
  BY <1>1, <1>2, JoinedOf
<1> HIDE DEF frame
<1>4. Encloses(w, size, frame)
  BY <1>3, EnvelopeAt
<1> HIDE DEF w
<1>5. Len(frame) = 14 + Len(tail)
  BY <1>3 DEF Joins
<1>6. \A i \in 1..14 : w[20 + i] = head[i]
  <2>1. \A i \in 1..14 : i \in 1..Len(frame)
    BY <1>2, <1>5
  <2>2. \A i \in 1..14 : w[20 + i] = frame[i]
    BY <1>4, <2>1 DEF Encloses
  <2>3. \A i \in 1..14 : frame[i] = head[i]
    BY <1>3 DEF Joins
  <2>4. QED
    BY <2>2, <2>3
<1>7. w[22] = function /\ U16At(w, 32) = register
  <2>1. /\ w[20 + 2] = head[2]
        /\ w[32 + 1] = head[12 + 1] /\ w[32 + 2] = head[12 + 2]
    BY <1>6
  <2>2. U16At(w, 32) = U16At(head, 12)
    BY <2>1, SameWord, 32 \in Nat, 12 \in Nat
  <2>3. QED
    BY <1>1, <2>1, <2>2 DEF Addresses
<1>8. ASSUME NEW i \in 1..Len(tail) PROVE w[34 + i] = tail[i]
  <2> DEFINE j == 14 + i
  <2>1. j \in 1..Len(frame) /\ 20 + j = 34 + i
    BY <1>2, <1>5
  <2>2. frame[j] = tail[i]
    BY <1>3 DEF Joins
  <2> HIDE DEF j
  <2>3. w[20 + j] = frame[j]
    BY <1>4, <2>1 DEF Encloses
  <2>4. QED
    BY <2>1, <2>2, <2>3
<1>9. Conveys(w, size, function, register, tail)
  BY <1>2, <1>4, <1>5, <1>7, <1>8 DEF Conveys, Encloses
<1>10. QED
  BY <1>9 DEF w, frame, head

\* Its length field counts the bytes behind it.
Sized(w) ==
  Len(w) >= 19 /\ w[1] = 161 /\ w[2] = 26 /\ U16At(w, 4) = Len(w) - 6

\* The parser makes of the bytes w the frame f, and f is what p says.
Understood(f, w, p) ==
  /\ f # NoFrame
  /\ f.raw = w
  /\ f.tcp_function = IF p.function = TCP_FUNC_HEARTBEAT THEN TCP_FUNC_HEARTBEAT
                      ELSE TCP_FUNC_TRANSLATED_DATA
  /\ p.function # TCP_FUNC_HEARTBEAT => f.device_function = p.function
  /\ Reported(f) = Delivery!Visible(p)
  /\ IsRead(p.function) => f.register = p.register /\ f.values = p.values

\* The kinds of packets and what they carry.
LEMMA PacketShape ==
  ASSUME NEW p \in Packets
  PROVE  /\ p.function \in {3, 4, 6, 16, 131, 132, 134, 144, 193}
         /\ p.register \in Nat /\ p.values \in Seq(Nat) /\ Len(p.values) \in Nat
         /\ p.function \in {6, 131, 132, 134, 144} => Len(p.values) = 1 /\ p.values[1] \in Nat
         /\ p.function = 193 => p.register = 0 /\ p.values = << >>
<1>1. WellFormed(p)
  BY WireType
<1>2. Functions = {3, 4, 6, 16} /\ Refusals = {131, 132, 134, 144}
  BY DEF Functions, Refusals, MODBUS_READ_HOLD, MODBUS_READ_INPUT, MODBUS_WRITE_SINGLE, MODBUS_WRITE_MULTI
<1>3. /\ p.function \in Functions \cup Refusals \cup {TCP_FUNC_HEARTBEAT}
      /\ p.register \in Word /\ p.values \in Seq(Word)
  <2> DEFINE F == Functions \cup Refusals \cup {TCP_FUNC_HEARTBEAT}
             R == Word
             V == Seq(Word)
  <2>1. p \in [function : F, register : R, values : V]
    BY <1>1 DEF WellFormed
  <2> HIDE DEF F, R, V
  <2>2. p.function \in F /\ p.register \in R /\ p.values \in V
    BY <2>1
  <2>3. QED
    BY <2>2 DEF F, R, V
<1>4. p.values \in Seq(Nat) /\ Len(p.values) \in Nat
  <2>1. Word \subseteq Nat
    BY DEF Word
  <2>2. p.values \in Seq(Nat)
    BY <1>3, <2>1, SeqMonotonic
  <2>3. QED
    BY <2>2, LenProperties
<1>5. ASSUME Len(p.values) = 1 PROVE p.values[1] \in Nat
  <2>1. 1 \in 1..Len(p.values)
    BY <1>5
  <2>2. QED
    BY <1>4, <2>1, ElementOfSeq
<1>6. p.function \in {6, 131, 132, 134, 144} => Len(p.values) = 1
  <2>1. p.function = MODBUS_WRITE_SINGLE \/ p.function \in Refusals => Len(p.values) = 1
    BY <1>1 DEF WellFormed
  <2>2. QED
    BY <1>2, <2>1 DEF MODBUS_WRITE_SINGLE
<1>7. p.function = 193 => p.register = 0 /\ p.values = << >>
  BY <1>1 DEF WellFormed, TCP_FUNC_HEARTBEAT
<1>8. p.function \in {3, 4, 6, 16, 131, 132, 134, 144, 193}
  BY <1>2, <1>3 DEF TCP_FUNC_HEARTBEAT
<1>9. p.register \in Nat
  <2>1. p.register \in Word
    BY <1>3
  <2>2. Word \subseteq Nat
    BY DEF Word
  <2>3. QED
    BY <2>1, <2>2
<1>10. QED
  BY <1>4, <1>5, <1>6, <1>7, <1>8, <1>9

LEMMA JoinedLengths ==
  ASSUME NEW S, NEW s \in Seq(S), NEW t \in Seq(S), NEW m, NEW n, Len(s) = m, Len(t) = n
  PROVE  s \o t \in Seq(S) /\ Joins(s \o t, s, m, t, n)
<1> DEFINE u == s \o t
<1>1. u \in Seq(S) /\ Joins(u, s, Len(s), t, Len(t))
  BY JoinedOf
<1> HIDE DEF u
<1>2. u \in Seq(S) /\ Joins(u, s, m, t, n)
  BY <1>1
<1>3. QED
  BY <1>2 DEF u

\* A frame is told from none by its bytes.
LEMMA FrameOfBytes ==
  ASSUME NEW f, NEW w, Len(w) >= 19, f.raw = w
  PROVE  f # NoFrame
<1>1. NoFrame.raw = << >> /\ ~ (Len(<< >>) >= 19)
  BY DEF NoFrame
<1>2. SUFFICES ASSUME f = NoFrame PROVE FALSE
  OBVIOUS
<1>3. w = << >>
  BY <1>1, <1>2
<1>4. QED
  BY <1>1, <1>3

\* The parser reads from the bytes w this function and register.
Parsed(f, w, function, register) ==
  /\ f # NoFrame /\ f.raw = w
  /\ f.tcp_function = TCP_FUNC_TRANSLATED_DATA /\ f.device_function = function
  /\ f.is_error = FALSE /\ f.register = register
  /\ f.values = ParsedValues(w, function)
  /\ f.write_count = IF function = 16 /\ Len(w) >= 38 THEN U16At(w, 34) ELSE 0

\* What a packet was built from is what the parser reads from it.
LEMMA CarriesParsed ==
  ASSUME NEW w \in Seq(Byte), NEW function \in Nat, function < 128,
         NEW register, NEW tail \in Seq(Nat), NEW size, size = 30 + Len(tail),
         Conveys(w, size, function, register, tail)
  PROVE  Sized(w) /\ Parsed(ParseFrame(w), w, function, register)
<1> DEFINE f == ParseFrame(w)
<1>1. Len(tail) \in Nat /\ Len(w) = 36 + Len(tail)
  BY LenProperties DEF Conveys
<1>2. /\ w[1] = 161 /\ w[2] = 26 /\ U16At(w, 4) = size
      /\ w[8] = TCP_FUNC_TRANSLATED_DATA
      /\ w[22] = function /\ U16At(w, 32) = register
  BY DEF Conveys
<1>3. Len(w) >= 20 /\ Len(w) >= 34 /\ Len(w) >= 19 /\ Len(w) - 6 = size
  BY <1>1
<1>4. f = ParseDataFrame(w, Bare(w))
  BY <1>2, <1>3, ParsedAsData
<1>5. Sized(w)
  BY <1>2, <1>3 DEF Sized
<1> HIDE DEF f
<1>6. /\ f.raw = w /\ f.tcp_function = w[8] /\ f.device_function = w[22]
      /\ f.is_error = FALSE /\ f.register = U16At(w, 32)
      /\ f.values = ParsedValues(w, w[22])
      /\ f.write_count = IF w[22] = 16 /\ Len(w) >= 38 THEN U16At(w, 34) ELSE 0
  <2>1. w[22] < 128
    BY <1>2
  <2>2. QED
    BY <1>3, <1>4, <2>1, DataFields
<1>7. f # NoFrame
  BY <1>3, <1>6, FrameOfBytes
<1>8. Parsed(f, w, function, register)
  BY <1>2, <1>6, <1>7 DEF Parsed
<1>9. QED
  BY <1>5, <1>8 DEF f

\* What such a frame reports.
LEMMA ParsedUnderstood ==
  ASSUME NEW p \in Packets, p.function \in {3, 4, 6, 16}, NEW f, NEW w,
         Parsed(f, w, p.function, p.register),
         p.function = 16 => f.write_count = Len(p.values),
         p.function # 16 => f.values = p.values
  PROVE  Understood(f, w, p)
<1>1. /\ f # NoFrame /\ f.raw = w
      /\ f.tcp_function = TCP_FUNC_TRANSLATED_DATA /\ f.device_function = p.function
      /\ f.is_error = FALSE /\ f.register = p.register
  BY DEF Parsed
<1>2. p.function # TCP_FUNC_HEARTBEAT /\ ~ (p.function >= 128)
  BY DEF TCP_FUNC_HEARTBEAT
<1>3. Reported(f).values = Delivery!Visible(p).values
  <2>1. CASE p.function = 16
    BY <1>1, <2>1 DEF Reported, Delivery!Visible, MODBUS_WRITE_MULTI
  <2>2. CASE p.function # 16
    BY <1>1, <2>2 DEF Reported, Delivery!Visible, MODBUS_WRITE_MULTI
  <2>3. QED
    BY <2>1, <2>2
<1>4. Reported(f) = Delivery!Visible(p)
  BY <1>1, <1>2, <1>3 DEF Reported, Translated, Delivery!Visible
<1>5. IsRead(p.function) => f.values = p.values
  BY DEF IsRead, MODBUS_READ_HOLD, MODBUS_READ_INPUT
<1>6. QED
  BY <1>1, <1>2, <1>4, <1>5 DEF Understood

\* A read answer.
LEMMA AnswerUnderstood ==
  ASSUME NEW p \in Packets, IsRead(p.function)
  PROVE  Sized(Wire[p]) /\ Understood(ParseFrame(Wire[p]), Wire[p], p)
<1> DEFINE n == Len(p.values)
           words == Words(p.values)
           head == DataHead(p.function, Inverter, p.register)
           tail == <<2 * n>> \o words
           w == Wire[p]
           f == ParseFrame(w)
<1>1. /\ p.function \in {3, 4} /\ p.function \in Nat /\ p.register \in Nat
      /\ p.values \in Seq(Nat) /\ n \in Nat /\ 2 * n \in Nat
  BY PacketShape DEF IsRead, MODBUS_READ_HOLD, MODBUS_READ_INPUT
<1>2. /\ words \in Seq(Nat) /\ Len(words) = 2 * n
      /\ \A i \in 1..n : U16At(words, 2 * i - 2) = p.values[i]
  BY <1>1, WordsType
<1>3. head \in Seq(Nat) /\ Len(head) = 14
  BY <1>1, DataHeadType DEF Addresses
<1>4. <<2 * n>> \in Seq(Nat) /\ Len(<<2 * n>>) = 1 /\ <<2 * n>>[1] = 2 * n
  BY <1>1
<1> HIDE DEF words, head
<1>5. tail \in Seq(Nat) /\ Joins(tail, <<2 * n>>, 1, words, 2 * n)
  BY <1>2, <1>4, JoinedOf
<1>6. head \o <<2 * n>> \o words = head \o tail
  BY <1>2, <1>3, <1>4, ConcatAssociative, SMTT(40)
<1> HIDE DEF tail
<1>7. Len(tail) = 1 + 2 * n /\ tail[1] = 2 * n
  BY <1>1, <1>4, <1>5 DEF Joins
<1>8. Len(Sealed(head \o tail)) = 17 + 2 * n
  <2>1. head \o tail \in Seq(Nat) /\ Joins(head \o tail, head, 14, tail, 1 + 2 * n)
    BY <1>3, <1>5, <1>7, JoinedOf
  <2>2. Len(head \o tail) = 15 + 2 * n
    BY <1>1, <2>1 DEF Joins
  <2> DEFINE frame == head \o tail
  <2> HIDE DEF frame
  <2>3. frame \in Seq(Nat) /\ Len(frame) = 15 + 2 * n
    BY <2>1, <2>2 DEF frame
  <2>4. Len(Sealed(frame)) = Len(frame) + 2
    BY <2>3, SealedType DEF Joins
  <2>5. Len(Sealed(frame)) = 17 + 2 * n
    BY <1>1, <2>3, <2>4
  <2>6. QED
    BY <2>5 DEF frame
<1>9. w = Header(2, 14 + (17 + 2 * n), TCP_FUNC_TRANSLATED_DATA, Datalog) \o U16(17 + 2 * n)
            \o Sealed(head \o tail)
  BY <1>6, <1>8 DEF Wire, Bytes, ReadAnswer, words, head
<1>10. Conveys(w, 31 + 2 * n, p.function, p.register, tail)
  <2>1. 14 + (17 + 2 * n) = 31 + 2 * n /\ 31 + 2 * n \in Nat /\ 17 + 2 * n \in Nat /\ 2 \in Nat
    BY <1>1
  <2> DEFINE size == 31 + 2 * n
             m == 17 + 2 * n
  <2>2. size \in Nat /\ m \in Nat
    BY <2>1
  <2>3. w = Header(2, size, TCP_FUNC_TRANSLATED_DATA, Datalog) \o U16(m) \o Sealed(head \o tail)
    BY <1>9, <2>1
  <2> HIDE DEF size, m, w
  <2>4. Conveys(w, size, p.function, p.register, tail)
    BY <1>1, <1>5, <2>1, <2>2, <2>3, DataPacket DEF head
  <2>5. QED
    BY <2>4 DEF size
<1>11. w \in Seq(Byte)
  BY WireType
<1>12. Sized(w) /\ Parsed(f, w, p.function, p.register) /\ Len(w) = 37 + 2 * n
  <2> DEFINE size == 31 + 2 * n
  <2>1. size = 30 + Len(tail) /\ p.function < 128
    BY <1>1, <1>7
  <2>2. Conveys(w, size, p.function, p.register, tail)
    BY <1>10
  <2>3. Len(w) = 37 + 2 * n
    BY <1>1, <1>7, <1>10 DEF Conveys
  <2> HIDE DEF size, w, n
  <2>4. QED
    BY <1>1, <1>5, <1>11, <2>1, <2>2, <2>3, CarriesParsed
<1> HIDE DEF w, n
<1>15. ASSUME NEW i \in 1..n PROVE U16At(w, 33 + 2 * i) = p.values[i]
  <2>1. tail[2 * i] = words[2 * i - 1] /\ tail[2 * i + 1] = words[2 * i]
    <3>1. /\ 2 * i - 1 \in 1..2 * n /\ 1 + (2 * i - 1) = 2 * i
          /\ 2 * i \in 1..2 * n /\ 1 + 2 * i = 2 * i + 1
      BY <1>1
    <3>2. tail[1 + (2 * i - 1)] = words[2 * i - 1] /\ tail[1 + 2 * i] = words[2 * i]
      BY <1>5, <3>1 DEF Joins
    <3>3. QED
      BY <3>1, <3>2
  <2>2. w[34 + 2 * i] = tail[2 * i] /\ w[35 + 2 * i] = tail[2 * i + 1]
    <3>1. /\ 2 * i \in 1..Len(tail) /\ 2 * i + 1 \in 1..Len(tail)
          /\ 34 + (2 * i + 1) = 35 + 2 * i
      BY <1>1, <1>7
    <3>2. w[34 + 2 * i] = tail[2 * i] /\ w[34 + (2 * i + 1)] = tail[2 * i + 1]
      BY <1>10, <3>1 DEF Conveys
    <3>3. QED
      BY <3>1, <3>2
  <2>3. U16At(w, 33 + 2 * i) = U16At(words, 2 * i - 2)
    <3>1. /\ 33 + 2 * i \in Nat /\ 33 + 2 * i + 1 = 34 + 2 * i /\ 33 + 2 * i + 2 = 35 + 2 * i
          /\ 2 * i - 2 \in Nat /\ 2 * i - 2 + 1 = 2 * i - 1 /\ 2 * i - 2 + 2 = 2 * i
      BY <1>1
    <3>2. w[34 + 2 * i] = words[2 * i - 1] /\ w[35 + 2 * i] = words[2 * i]
      BY <2>1, <2>2
    <3>3. QED
      BY <3>1, <3>2, SameWord
  <2>4. QED
    BY <1>2, <2>3
<1>16. ParsedValues(w, p.function) = p.values
  <2>1. IsRead(p.function) /\ Len(w) > 34
    BY <1>1, <1>12 DEF IsRead, MODBUS_READ_HOLD, MODBUS_READ_INPUT
  <2>2. (Len(w) - 37) \div 2 = n
    BY <1>1, <1>12
  <2>3. At(w, 34) \div 2 = n
    <3>1. w[34 + 1] = tail[1]
      BY <1>1, <1>7, <1>10 DEF Conveys
    <3>2. QED
      BY <1>1, <1>7, <3>1 DEF At
  <2>4. ParsedValues(w, p.function) = [i \in 1..n |-> U16At(w, 33 + 2 * i)]
    BY <1>1, <2>1, <2>2, <2>3 DEF ParsedValues
  <2>5. p.values = [i \in 1..n |-> p.values[i]]
    BY <1>1, LenProperties DEF n
  <2>6. QED
    BY <1>15, <2>4, <2>5
<1> HIDE DEF f
<1>17. Understood(f, w, p)
  <2>1. p.function \in {3, 4, 6, 16} /\ p.function # 16
    BY <1>1
  <2>2. f.values = p.values
    BY <1>12, <1>16 DEF Parsed
  <2>3. QED
    BY <1>12, <2>1, <2>2, ParsedUnderstood
<1>18. QED
  BY <1>12, <1>17 DEF f, w

\* The echo of a write of one register.
LEMMA EchoUnderstood ==
  ASSUME NEW p \in Packets, p.function = 6
  PROVE  Sized(Wire[p]) /\ Understood(ParseFrame(Wire[p]), Wire[p], p)
<1> DEFINE v == p.values[1]
           tail == U16(v)
           w == Wire[p]
           f == ParseFrame(w)
<1>1. /\ p.function \in Nat /\ p.register \in Nat /\ p.values \in Seq(Nat)
      /\ Len(p.values) = 1 /\ v \in Nat
  BY PacketShape
<1>2. p.values = <<v>>
  BY <1>1
<1>3. tail \in Seq(Nat) /\ Len(tail) = 2 /\ U16At(tail, 0) = v
  BY <1>1, U16Type
<1>4. w = Header(1, 32, TCP_FUNC_TRANSLATED_DATA, Datalog) \o U16(18)
            \o Sealed(DataHead(p.function, Inverter, p.register) \o tail)
  BY DEF Wire, Bytes, WriteRequest, IsRead, MODBUS_READ_HOLD, MODBUS_READ_INPUT,
         MODBUS_WRITE_SINGLE
<1> HIDE DEF v, tail, w
<1>5. Conveys(w, 32, p.function, p.register, tail)
  BY <1>1, <1>3, <1>4, DataPacket
<1>6. w \in Seq(Byte)
  BY WireType DEF w
<1>7. Sized(w) /\ Parsed(f, w, p.function, p.register)
  <2>1. 32 = 30 + Len(tail) /\ p.function < 128
    BY <1>3
  <2>2. QED
    BY <1>1, <1>3, <1>5, <1>6, <2>1, CarriesParsed
<1>8. Len(w) >= 38 /\ w[34 + 1] = tail[0 + 1] /\ w[34 + 2] = tail[0 + 2]
  <2>1. Len(w) = 36 + Len(tail) /\ \A i \in 1..Len(tail) : w[34 + i] = tail[i]
    BY <1>5 DEF Conveys
  <2>2. 1 \in 1..Len(tail) /\ 2 \in 1..Len(tail)
    BY <1>3
  <2>3. Len(w) >= 38
    BY <1>3, <2>1
  <2>4. w[34 + 1] = tail[1] /\ w[34 + 2] = tail[2]
    BY <2>1, <2>2
  <2>5. QED
    BY <2>3, <2>4
<1>9. ParsedValues(w, p.function) = p.values
  <2>1. U16At(w, 34) = v
    <3>1. 34 \in Nat /\ 0 \in Nat
      OBVIOUS
    <3>2. U16At(w, 34) = U16At(tail, 0)
      BY <1>8, <3>1, SameWord
    <3>3. QED
      BY <1>3, <3>2
  <2>2. ParsedValues(w, p.function) = <<U16At(w, 34)>>
    BY <1>8 DEF ParsedValues, IsRead, MODBUS_READ_HOLD, MODBUS_READ_INPUT, MODBUS_WRITE_SINGLE
  <2>3. QED
    BY <1>2, <2>1, <2>2
<1> HIDE DEF f
<1>10. Understood(f, w, p)
  <2>1. f.values = p.values /\ p.function \in {3, 4, 6, 16} /\ p.function # 16
    BY <1>7, <1>9 DEF Parsed
  <2>2. QED
    BY <1>7, <2>1, ParsedUnderstood
<1>11. QED
  BY <1>7, <1>10 DEF f, w

LEMMA Regrouped ==
  ASSUME NEW s \in Seq(Nat), NEW t \in Seq(Nat), NEW u \in Seq(Nat)
  PROVE  (s \o t) \o u = s \o (t \o u)
BY ConcatAssociative, SMTT(40)

\* The request of a write of several registers.
LEMMA WriteUnderstood ==
  ASSUME NEW p \in Packets, p.function = 16
  PROVE  Sized(Wire[p]) /\ Understood(ParseFrame(Wire[p]), Wire[p], p)
<1> DEFINE n == Len(p.values)
           words == Words(p.values)
           head == DataHead(p.function, Inverter, p.register)
           count == U16(n)
           bytes == <<2 * n>>
           few == count \o bytes
           tail == few \o words
           w == Wire[p]
           f == ParseFrame(w)
<1>1. /\ p.function \in Nat /\ p.register \in Nat /\ p.values \in Seq(Nat)
      /\ n \in Nat /\ 2 * n \in Nat
  BY PacketShape
<1>2. words \in Seq(Nat) /\ Len(words) = 2 * n
  BY <1>1, WordsType
<1>3. head \in Seq(Nat) /\ Len(head) = 14
  BY <1>1, DataHeadType DEF Addresses
<1>4. /\ bytes \in Seq(Nat) /\ Len(bytes) = 1
      /\ count \in Seq(Nat) /\ Len(count) = 2 /\ U16At(count, 0) = n
  BY <1>1, U16Type
<1>5. w = Header(1, 18 + 2 + (1 + 1 + 10 + 2 + 2 + 1 + 2 * n + 2) - 6, TCP_FUNC_TRANSLATED_DATA, Datalog)
             \o U16(1 + 1 + 10 + 2 + 2 + 1 + 2 * n + 2) \o Sealed(head \o count \o bytes \o words)
  <2>1. Bytes(p) = WriteMultiRequest(Datalog, Inverter, p.register, p.values)
    BY DEF Bytes, IsRead, MODBUS_READ_HOLD, MODBUS_READ_INPUT,
           MODBUS_WRITE_SINGLE, MODBUS_WRITE_MULTI
  <2>2. head = DataHead(MODBUS_WRITE_MULTI, Inverter, p.register)
    BY DEF MODBUS_WRITE_MULTI
  <2> HIDE DEF head
  <2>3. WriteMultiRequest(Datalog, Inverter, p.register, p.values)
          = Header(1, 18 + 2 + (1 + 1 + 10 + 2 + 2 + 1 + 2 * n + 2) - 6, TCP_FUNC_TRANSLATED_DATA, Datalog)
             \o U16(1 + 1 + 10 + 2 + 2 + 1 + 2 * n + 2) \o Sealed(head \o count \o bytes \o words)
    BY <2>2, Zenon DEF WriteMultiRequest
  <2>4. QED
    BY <2>1, <2>3 DEF Wire
<1> HIDE DEF words, head, count, bytes
<1>6. few \in Seq(Nat) /\ Joins(few, count, 2, bytes, 1)
  BY <1>4, JoinedLengths
<1>7. (head \o count) \o bytes = head \o few
  <2>1. head \in Seq(Nat) /\ count \in Seq(Nat) /\ bytes \in Seq(Nat)
    BY <1>3, <1>4
  <2>2. QED
    BY <2>1, Regrouped
<1> HIDE DEF few
<1>8. Len(few) = 3 /\ few[1] = count[1] /\ few[2] = count[2]
  BY <1>6 DEF Joins
<1>9. tail \in Seq(Nat) /\ Joins(tail, few, 3, words, 2 * n)
  BY <1>2, <1>6, <1>8, JoinedLengths
<1>10. head \o count \o bytes \o words = head \o tail
  <2>1. (head \o few) \o words = head \o (few \o words)
    <3>1. head \in Seq(Nat) /\ few \in Seq(Nat) /\ words \in Seq(Nat)
      BY <1>2, <1>3, <1>6
    <3>2. QED
      BY <3>1, Regrouped
  <2>2. QED
    BY <1>7, <2>1
<1> HIDE DEF tail
<1>11. Len(tail) = 3 + 2 * n /\ tail[1] = few[1] /\ tail[2] = few[2]
  BY <1>1, <1>9 DEF Joins
<1>12. Conveys(w, 33 + 2 * n, p.function, p.register, tail)
  <2> DEFINE size == 18 + 2 + (1 + 1 + 10 + 2 + 2 + 1 + 2 * n + 2) - 6
             m == 1 + 1 + 10 + 2 + 2 + 1 + 2 * n + 2
  <2>1. size \in Nat /\ m \in Nat /\ size = 33 + 2 * n
    BY <1>1
  <2>2. w = Header(1, size, TCP_FUNC_TRANSLATED_DATA, Datalog) \o U16(m) \o Sealed(head \o tail)
    BY <1>5, <1>10
  <2> HIDE DEF size, m, w
  <2>3. Conveys(w, size, p.function, p.register, tail)
    BY <1>1, <1>9, <2>1, <2>2, DataPacket DEF head
  <2>4. QED
    BY <2>1, <2>3
<1>13. w \in Seq(Byte)
  BY WireType
<1> HIDE DEF w
<1>14. Sized(w) /\ Parsed(f, w, p.function, p.register)
  <2> DEFINE size == 33 + 2 * n
  <2>1. size = 30 + Len(tail) /\ p.function < 128
    BY <1>1, <1>11
  <2>2. Conveys(w, size, p.function, p.register, tail)
    BY <1>12
  <2> HIDE DEF size, n
  <2>3. QED
    BY <1>1, <1>9, <1>13, <2>1, <2>2, CarriesParsed
<1>15. Len(w) >= 38 /\ w[34 + 1] = tail[1] /\ w[34 + 2] = tail[2]
  <2>1. Len(w) = 36 + Len(tail) /\ \A i \in 1..Len(tail) : w[34 + i] = tail[i]
    BY <1>12 DEF Conveys
  <2>2. 1 \in 1..Len(tail) /\ 2 \in 1..Len(tail)
    BY <1>1, <1>11
  <2>3. Len(w) >= 38
    BY <1>1, <1>11, <2>1
  <2>4. QED
    BY <2>1, <2>2, <2>3
<1>16. U16At(w, 34) = n
  <2>1. w[34 + 1] = count[0 + 1] /\ w[34 + 2] = count[0 + 2]
    BY <1>8, <1>11, <1>15
  <2>2. U16At(w, 34) = U16At(count, 0)
    BY <2>1, SameWord, 34 \in Nat, 0 \in Nat
  <2>3. QED
    BY <1>4, <2>2
<1> HIDE DEF f
<1>17. Understood(f, w, p)
  <2>1. f.write_count = n
    BY <1>14, <1>15, <1>16 DEF Parsed
  <2>2. p.function \in {3, 4, 6, 16} /\ ~ (p.function # 16)
    OBVIOUS
  <2>3. QED
    BY <1>14, <2>1, <2>2, ParsedUnderstood
<1>18. QED
  BY <1>14, <1>17 DEF f, w

\* The refusal of a request.
LEMMA RefusalUnderstood ==
  ASSUME NEW p \in Packets, p.function \in {131, 132, 134, 144}
  PROVE  Sized(Wire[p]) /\ Understood(ParseFrame(Wire[p]), Wire[p], p)
<1> DEFINE reason == p.values[1]
           values == p.values
           pair == <<0, p.function>>
           frame == pair \o values
           w == Wire[p]
           f == ParseFrame(w)
<1>1. /\ p.function \in Nat /\ values \in Seq(Nat)
      /\ Len(values) = 1 /\ reason \in Nat
  BY PacketShape
<1>2. p.values = <<reason>> /\ reason = values[1]
  BY <1>1
<1>3. pair \in Seq(Nat) /\ Len(pair) = 2 /\ pair[2] = p.function
  BY <1>1
<1>4. Bytes(p) = Refusal(p)
  BY DEF Bytes, IsRead, MODBUS_READ_HOLD, MODBUS_READ_INPUT,
         MODBUS_WRITE_SINGLE, MODBUS_WRITE_MULTI, TCP_FUNC_HEARTBEAT
<1>5. Refusal(p) = Header(2, 14 + Len(Sealed(frame)), TCP_FUNC_TRANSLATED_DATA, Datalog)
                     \o U16(Len(Sealed(frame))) \o Sealed(frame)
  BY DEF Refusal
<1> HIDE DEF pair, reason, values
<1>6. frame \in Seq(Nat) /\ Joins(frame, pair, 2, values, 1)
  BY <1>1, <1>3, JoinedLengths
<1> HIDE DEF frame
<1>7. Len(frame) = 3 /\ frame[2] = p.function /\ frame[3] = reason
  <2>1. Len(frame) = 3 /\ frame[2] = pair[2] /\ frame[2 + 1] = values[1]
    BY <1>6 DEF Joins
  <2>2. QED
    BY <1>2, <1>3, <2>1
<1>8. Len(Sealed(frame)) = 5
  <2>1. Len(Sealed(frame)) = Len(frame) + 2
    BY <1>6, SealedType DEF Joins
  <2>2. QED
    BY <1>7, <2>1
<1>9. w = Header(2, 14 + 5, TCP_FUNC_TRANSLATED_DATA, Datalog) \o U16(5) \o Sealed(frame)
  BY <1>4, <1>5, <1>8 DEF Wire
<1> HIDE DEF w
<1>10. Encloses(w, 19, frame)
  BY <1>6, <1>9, 14 + 5 = 19, EnvelopeAt
<1>11. /\ Len(w) = 25 /\ w[22] = p.function /\ w[23] = reason
       /\ w[1] = 161 /\ w[2] = 26 /\ U16At(w, 4) = 19 /\ w[8] = TCP_FUNC_TRANSLATED_DATA
  <2>1. /\ Len(w) = 22 + Len(frame) /\ \A i \in 1..Len(frame) : w[20 + i] = frame[i]
        /\ w[1] = 161 /\ w[2] = 26 /\ U16At(w, 4) = 19 /\ w[8] = TCP_FUNC_TRANSLATED_DATA
    BY <1>10 DEF Encloses
  <2>2. 2 \in 1..Len(frame) /\ 3 \in 1..Len(frame)
    BY <1>7
  <2>3. w[20 + 2] = frame[2] /\ w[20 + 3] = frame[3]
    BY <2>1, <2>2
  <2>4. QED
    BY <1>7, <2>1, <2>3
<1>12. w \in Seq(Byte)
  BY WireType DEF w
<1>13. f = ParseDataFrame(w, Bare(w))
  <2>1. Len(w) >= 20
    BY <1>11
  <2>2. QED
    BY <1>11, <1>12, <2>1, ParsedAsData
<1> HIDE DEF f
<1>14. /\ f.raw = w /\ f.tcp_function = TCP_FUNC_TRANSLATED_DATA /\ f.device_function = p.function
       /\ f.is_error = TRUE /\ f.error_code = reason /\ f.register = 0
  <2>1. Len(w) > 22 /\ w[22] >= 128 /\ w[22] \in Nat
    BY <1>11
  <2> DEFINE g == ParseDataFrame(w, Bare(w))
  <2>2. /\ g.raw = w /\ g.tcp_function = w[8] /\ g.device_function = w[22]
        /\ g.is_error = TRUE /\ g.error_code = w[23] /\ g.register = 0
    BY <1>12, <2>1, RefusalFields
  <2>3. f = g
    BY <1>13
  <2> HIDE DEF g
  <2>4. QED
    BY <1>11, <2>2, <2>3
<1>15. Sized(w)
  <2>1. Len(w) >= 19 /\ Len(w) - 6 = 19
    BY <1>11
  <2>2. QED
    BY <1>11, <2>1 DEF Sized
<1>16. f # NoFrame
  <2>1. Len(w) >= 19
    BY <1>11
  <2>2. QED
    BY <1>14, <2>1, FrameOfBytes
<1>17. p.function >= 128 /\ p.function # 16 /\ p.function # TCP_FUNC_HEARTBEAT /\ ~ IsRead(p.function)
  BY DEF TCP_FUNC_HEARTBEAT, IsRead, MODBUS_READ_HOLD, MODBUS_READ_INPUT
<1>18. Reported(f) = Delivery!Visible(p)
  BY <1>2, <1>14, <1>17 DEF Reported, Translated, Delivery!Visible
<1>19. Understood(f, w, p)
  BY <1>14, <1>16, <1>17, <1>18 DEF Understood
<1>20. QED
  BY <1>15, <1>19 DEF f, w

\* The heartbeat.
LEMMA HeartbeatUnderstood ==
  ASSUME NEW p \in Packets, p.function = 193
  PROVE  Sized(Wire[p]) /\ Understood(ParseFrame(Wire[p]), Wire[p], p)
<1> DEFINE h == Header(2, 13, TCP_FUNC_HEARTBEAT, Datalog)
           rest == <<0>>
           w == Wire[p]
           f == ParseFrame(w)
<1>1. p.register = 0 /\ p.values = << >>
  BY PacketShape
<1>2. h \in Seq(Nat) /\ Announces(h, 13, TCP_FUNC_HEARTBEAT)
  <2>1. TCP_FUNC_HEARTBEAT \in Nat
    BY DEF TCP_FUNC_HEARTBEAT
  <2>2. 2 \in Nat /\ 13 \in Nat
    OBVIOUS
  <2> DEFINE two == 2
             size == 13
             beat == TCP_FUNC_HEARTBEAT
  <2>3. two \in Nat /\ size \in Nat /\ beat \in Nat
    BY <2>1, <2>2
  <2> HIDE DEF two, size, beat
  <2>4. /\ Header(two, size, beat, Datalog) \in Seq(Nat)
        /\ Announces(Header(two, size, beat, Datalog), size, beat)
    BY <2>3, HeaderType
  <2>5. QED
    BY <2>4 DEF two, size, beat
<1>3. w = h \o rest
  BY DEF Wire, Bytes, HeartbeatPacket, IsRead, MODBUS_READ_HOLD, MODBUS_READ_INPUT,
         MODBUS_WRITE_SINGLE, MODBUS_WRITE_MULTI, TCP_FUNC_HEARTBEAT
<1>4. rest \in Seq(Nat) /\ Len(rest) = 1
  OBVIOUS
<1> HIDE DEF h, w, rest
<1>5. Joins(w, h, 18, rest, 1)
  <2>1. Len(h) = 18
    BY <1>2 DEF Announces
  <2>2. Joins(h \o rest, h, 18, rest, 1)
    <3>1. h \in Seq(Nat) /\ rest \in Seq(Nat)
      BY <1>2, <1>4
    <3>2. Joins(h \o rest, h, Len(h), rest, Len(rest))
      BY <3>1, JoinedOf
    <3>3. Len(rest) = 1
      BY <1>4
    <3>4. QED
      BY <2>1, <3>2, <3>3
  <2>3. QED
    BY <1>3, <2>2
<1>6. Len(w) = 19 /\ w[1] = 161 /\ w[2] = 26 /\ w[8] = TCP_FUNC_HEARTBEAT
  BY <1>2, <1>5 DEF Joins, Announces
<1>7. U16At(w, 4) = 13
  <2>1. w[4 + 1] = h[4 + 1] /\ w[4 + 2] = h[4 + 2]
    BY <1>5 DEF Joins
  <2>2. U16At(w, 4) = U16At(h, 4)
    BY <2>1, SameWord, 4 \in Nat
  <2>3. QED
    BY <1>2, <2>2 DEF Announces
<1>8. f = Bare(w)
  <2>1. w \in Seq(Byte)
    BY WireType DEF w
  <2>2. Slice(w, 0, 0 + 2) = PREFIX
    <3>1. Marked(w, 0)
      BY <1>6 DEF Marked
    <3>2. QED
      BY <2>1, <3>1, SlicePrefix, 0 \in Nat
  <2>3. Slice(w, 0, 2) = PREFIX
    BY <2>2
  <2>4. ~ (Len(w) < HEADER_SIZE) /\ At(w, 7) # TCP_FUNC_TRANSLATED_DATA
    BY <1>6 DEF HEADER_SIZE, At, TCP_FUNC_TRANSLATED_DATA, TCP_FUNC_HEARTBEAT
  <2>5. QED
    BY <2>3, <2>4, Zenon DEF ParseFrame
<1>9. /\ f.raw = w /\ f.tcp_function = w[8] /\ f.device_function = 0
      /\ f.is_error = FALSE /\ f.register = 0 /\ f.values = << >>
  BY <1>8 DEF Bare, At
<1>10. Sized(w)
  <2>1. Len(w) >= 19 /\ Len(w) - 6 = 13
    BY <1>6
  <2>2. QED
    BY <1>6, <1>7, <2>1 DEF Sized
<1> HIDE DEF f
<1>11. f # NoFrame
  <2>1. Len(w) >= 19
    BY <1>6
  <2>2. QED
    BY <1>9, <2>1, FrameOfBytes
<1>12. Reported(f) = Delivery!Visible(p)
  <2>1. /\ f.tcp_function = 193 /\ ~ Translated(f) /\ ~ (f.device_function = MODBUS_WRITE_MULTI)
    BY <1>6, <1>9 DEF Translated, TCP_FUNC_TRANSLATED_DATA, TCP_FUNC_HEARTBEAT, MODBUS_WRITE_MULTI
  <2>2. QED
    BY <1>1, <1>9, <2>1 DEF Reported, Delivery!Visible
<1>13. Understood(f, w, p)
  BY <1>6, <1>9, <1>11, <1>12
     DEF Understood, IsRead, MODBUS_READ_HOLD, MODBUS_READ_INPUT,
         TCP_FUNC_HEARTBEAT, TCP_FUNC_TRANSLATED_DATA
<1>14. QED
  BY <1>10, <1>13 DEF f, w

\* parse_frame() makes of the bytes of any packet that comes from the dongle
\* (read answers, echoes of writes, refusals and heartbeats; an echo and a
\* heartbeat are built like the program's own, protocol.py 661-796) a frame
\* that reports what the packet says (protocol.py 802-890): for all functions,
\* registers, values and serials.  A read request is none of them: it has the
\* form of an answer without the length byte, which parse_frame() expects.
THEOREM PacketUnderstood ==
  ASSUME NEW p \in Packets
  PROVE  Sized(Wire[p]) /\ Understood(ParseFrame(Wire[p]), Wire[p], p)
<1>1. p.function \in {3, 4, 6, 16, 131, 132, 134, 144, 193}
  BY PacketShape
<1>2. p.function \in {3, 4} => IsRead(p.function)
  BY DEF IsRead, MODBUS_READ_HOLD, MODBUS_READ_INPUT
<1>3. QED
  BY <1>1, <1>2, AnswerUnderstood, EchoUnderstood, WriteUnderstood, RefusalUnderstood,
     HeartbeatUnderstood

----------------------------------------------------------------------------
(* A buffer of whole packets with the beginning of another. Packets start  *)
(* with the prefix and have it nowhere else, so that it stands where       *)
(* packets start.                                                          *)

\* Where part stands in data.
Places(data, part, start) ==
  {i \in start..(Len(data) - Len(part)) : Slice(data, i, i + Len(part)) = part}

\* The first place, if there is one.
LEMMA FirstPlace ==
  ASSUME NEW S, NEW data \in Seq(S), NEW part, Len(part) \in Nat, NEW start \in Nat
  PROVE  /\ Places(data, part, start) = {} => FindBytes(data, part, start) = -1
         /\ Places(data, part, start) # {} =>
              /\ FindBytes(data, part, start) \in Places(data, part, start)
              /\ \A j \in Places(data, part, start) : FindBytes(data, part, start) <= j
<1> DEFINE P == Places(data, part, start)
           f == FindBytes(data, part, start)
<1>1. P \subseteq Nat
  BY LenProperties DEF Places
<1>2. f = IF P = {} THEN -1 ELSE CHOOSE i \in P : \A j \in P : i <= j
  BY DEF FindBytes, Places
<1> HIDE DEF P, f
<1>3. CASE P = {}
  BY <1>2, <1>3 DEF P, f
<1>4. CASE P # {}
  <2>1. \E i \in P : \A j \in P : i <= j
    BY <1>1, <1>4, Least
  <2>2. f = CHOOSE i \in P : \A j \in P : i <= j
    BY <1>2, <1>4
  <2>3. f \in P /\ \A j \in P : f <= j
    BY <2>1, <2>2
  <2>4. QED
    BY <1>4, <2>3 DEF P, f
<1>5. QED
  BY <1>3, <1>4

\* What the parser needs to know of a packet's bytes.
LEMMA PacketBytes ==
  ASSUME NEW p \in Packets
  PROVE  /\ Wire[p] \in Seq(Byte) /\ Len(Wire[p]) \in Nat
         /\ Len(Wire[p]) >= 19 /\ Len(Wire[p]) < MaxBuffer
         /\ Wire[p][1] = 161 /\ Wire[p][2] = 26
         /\ U16At(Wire[p], 4) = Len(Wire[p]) - 6
         /\ \A x \in Nat : x >= 1 => ~ Marked(Wire[p], x)
<1> DEFINE w == Wire[p]
<1>1. /\ w \in Seq(Byte) /\ Len(w) \in Nat /\ Len(w) < MaxBuffer
      /\ FindBytes(w, PREFIX, 1) = -1
  BY WireType
<1>2. Len(w) >= 19 /\ w[1] = 161 /\ w[2] = 26 /\ U16At(w, 4) = Len(w) - 6
  BY PacketUnderstood DEF Sized
<1> HIDE DEF w
<1>3. ASSUME NEW x \in Nat, x >= 1, Marked(w, x) PROVE FALSE
  <2>1. Slice(w, x, x + 2) = PREFIX
    BY <1>1, <1>3, SlicePrefix
  <2>2. Len(PREFIX) = 2
    BY DEF PREFIX
  <2>3. x + 2 <= Len(w)
    BY <1>3 DEF Marked
  <2>4. x \in Places(w, PREFIX, 1)
    BY <1>1, <1>3, <2>1, <2>2, <2>3 DEF Places
  <2>5. FindBytes(w, PREFIX, 1) \in Places(w, PREFIX, 1)
    BY <1>1, <2>2, <2>4, FirstPlace
  <2>6. FindBytes(w, PREFIX, 1) \in 1..(Len(w) - Len(PREFIX))
    BY <2>5 DEF Places
  <2>7. QED
    BY <1>1, <2>2, <2>6
<1>4. QED
  BY <1>1, <1>2, <1>3 DEF w

\* The buffer holds these packets, the k-th up to offset cut[k], ...
Laid(bytes, e, cut) ==
  /\ bytes \in Seq(Byte) /\ e \in Seq(Packets)
  /\ cut \in [0..Len(e) -> Nat] /\ cut[0] = 0
  /\ \A k \in 0..Len(e) : cut[k] <= Len(bytes)
  /\ \A k \in 1..Len(e) : cut[k] = cut[k - 1] + Len(Wire[e[k]])
  /\ \A k \in 1..Len(e) : \A x \in 1..Len(Wire[e[k]]) :
       bytes[cut[k - 1] + x] = Wire[e[k]][x]

\* ... and behind them less than a packet, if anything.
Begun(bytes, at) ==
  \/ at = Len(bytes)
  \/ \E p \in Packets :
       /\ Len(bytes) - at < Len(Wire[p])
       /\ \A x \in 1..(Len(bytes) - at) : bytes[at + x] = Wire[p][x]

\* Packets take nineteen bytes at least.
LEMMA CutsRise ==
  ASSUME NEW bytes, NEW e, NEW cut, Laid(bytes, e, cut), NEW k \in 0..Len(e)
  PROVE  \A j \in 0..Len(e) : j < k => cut[j] + 19 <= cut[k]
<1> DEFINE n == Len(e)
           G == {i \in 0..n : \A j \in 0..n : j < i => cut[j] + 19 <= cut[i]}
<1>1. /\ n \in Nat /\ \A i \in 0..n : cut[i] \in Nat
      /\ \A i \in 1..n : e[i] \in Packets
  BY LenProperties, ElementOfSeq DEF Laid
<1>2. ASSUME NEW i \in 1..n PROVE cut[i - 1] + 19 <= cut[i]
  <2>1. cut[i] = cut[i - 1] + Len(Wire[e[i]])
    BY DEF Laid
  <2>2. Len(Wire[e[i]]) \in Nat /\ Len(Wire[e[i]]) >= 19
    BY <1>1, PacketBytes
  <2>3. i - 1 \in 0..n /\ i \in 0..n
    BY <1>1
  <2>4. cut[i - 1] \in Nat
    BY <1>1, <2>3
  <2>5. QED
    BY <2>1, <2>2, <2>4
<1> HIDE DEF n
<1>3. ASSUME NEW i \in 0..n, \A j \in 0..(i - 1) : j \in G PROVE i \in G
  <2>1. ASSUME NEW j \in 0..n, j < i PROVE cut[j] + 19 <= cut[i]
    <3>1. i \in 1..n /\ i - 1 \in 0..(i - 1) /\ i - 1 \in 0..n
      BY <1>1, <2>1
    <3>2. cut[i - 1] + 19 <= cut[i] /\ cut[i - 1] \in Nat /\ cut[i] \in Nat /\ cut[j] \in Nat
      BY <1>1, <1>2, <3>1
    <3>3. CASE j = i - 1
      BY <3>2, <3>3
    <3>4. CASE j # i - 1
      <4>1. j < i - 1
        BY <2>1, <3>4
      <4>2. cut[j] + 19 <= cut[i - 1]
        BY <1>3, <3>1, <4>1
      <4>3. QED
        BY <3>2, <4>2
    <3>5. QED
      BY <3>3, <3>4
  <2>2. QED
    BY <2>1
<1>4. \A i \in 0..n : i \in G
  <2> HIDE DEF G
  <2> QED
    BY <1>1, <1>3, Upward
<1>5. QED
  BY <1>4 DEF n

\* An offset lies in one of the packets or behind them.
LEMMA Within ==
  ASSUME NEW bytes, NEW e, NEW cut, Laid(bytes, e, cut), NEW i \in Nat
  PROVE  \/ \E k \in 1..Len(e) : cut[k - 1] <= i /\ i < cut[k]
         \/ cut[Len(e)] <= i
<1> DEFINE n == Len(e)
           S == {k \in 0..n : i < cut[k]}
<1>1. n \in Nat /\ cut[0] = 0 /\ \A k \in 0..n : cut[k] \in Nat
  BY LenProperties DEF Laid
<1> HIDE DEF n
<1>2. ASSUME i < cut[n] PROVE \E k \in 1..n : cut[k - 1] <= i /\ i < cut[k]
  <2>1. n \in S /\ S \subseteq Nat
    BY <1>1, <1>2
  <2>2. PICK k \in S : \A j \in S : k <= j
    <3> HIDE DEF S
    <3> QED
      BY <2>1, Least
  <2>3. k \in 1..n /\ k - 1 \in 0..n /\ i < cut[k]
    BY <1>1, <2>2
  <2>4. k - 1 \notin S
    BY <2>1, <2>2, <2>3
  <2>5. cut[k - 1] <= i
    BY <1>1, <2>3, <2>4
  <2>6. QED
    BY <2>3, <2>5
<1>3. n \in 0..n /\ cut[n] \in Nat
  BY <1>1
<1>4. QED
  BY <1>2, <1>3 DEF n

\* A packet of the buffer stands there as it was sent.
LEMMA PacketAt ==
  ASSUME NEW bytes, NEW e, NEW cut, Laid(bytes, e, cut), NEW k \in 1..Len(e)
  PROVE  /\ e[k] \in Packets /\ cut[k - 1] \in Nat /\ cut[k] \in Nat
         /\ cut[k] = cut[k - 1] + Len(Wire[e[k]]) /\ cut[k] <= Len(bytes)
         /\ \A x \in 1..Len(Wire[e[k]]) : bytes[cut[k - 1] + x] = Wire[e[k]][x]
<1>1. Len(e) \in Nat /\ e[k] \in Packets
  BY LenProperties, ElementOfSeq DEF Laid
<1>2. k \in 0..Len(e) /\ k - 1 \in 0..Len(e)
  BY <1>1
<1>3. QED
  BY <1>1, <1>2 DEF Laid

\* Behind a packet another one starts, or nothing.
LEMMA StartsAt ==
  ASSUME NEW bytes, NEW e, NEW cut, Laid(bytes, e, cut), Begun(bytes, cut[Len(e)]),
         NEW k \in 0..Len(e), cut[k] < Len(bytes)
  PROVE  bytes[cut[k] + 1] = 161
<1>1. Len(e) \in Nat /\ Len(bytes) \in Nat /\ cut[k] \in Nat
  BY LenProperties DEF Laid
<1>2. CASE k = Len(e)
  <2>1. PICK p \in Packets : \A x \in 1..(Len(bytes) - cut[k]) : bytes[cut[k] + x] = Wire[p][x]
    BY <1>1, <1>2 DEF Begun
  <2>2. 1 \in 1..(Len(bytes) - cut[k])
    BY <1>1
  <2>3. bytes[cut[k] + 1] = Wire[p][1]
    BY <2>1, <2>2
  <2>4. QED
    BY <2>3, PacketBytes
<1>3. CASE k # Len(e)
  <2> DEFINE j == k + 1
             w == Wire[e[j]]
  <2>1. j \in 1..Len(e) /\ j - 1 = k
    BY <1>1, <1>3
  <2> HIDE DEF j
  <2>2. e[j] \in Packets /\ \A x \in 1..Len(w) : bytes[cut[j - 1] + x] = w[x]
    <3>1. j \in 1..Len(e)
      BY <2>1
    <3>2. QED
      BY <3>1, PacketAt
  <2>3. 1 \in 1..Len(w) /\ w[1] = 161
    BY <2>2, PacketBytes
  <2> HIDE DEF w
  <2>4. bytes[cut[j - 1] + 1] = 161
    BY <2>2, <2>3
  <2>5. QED
    BY <2>1, <2>4
<1>4. QED
  BY <1>2, <1>3

\* Only packets start with the prefix.
LEMMA PrefixPlaces ==
  ASSUME NEW bytes, NEW e, NEW cut, Laid(bytes, e, cut), Begun(bytes, cut[Len(e)]),
         NEW i \in Nat, Marked(bytes, i)
  PROVE  \E k \in 0..Len(e) : i = cut[k]
<1> DEFINE n == Len(e)
           N == Len(bytes)
<1>1. n \in Nat /\ N \in Nat /\ cut[n] \in Nat
  BY LenProperties DEF Laid
<1>2. i + 2 <= N /\ bytes[i + 1] = 161 /\ bytes[i + 2] = 26
  BY DEF Marked
<1>3. ASSUME NEW k \in 1..n, cut[k - 1] < i, i < cut[k] PROVE FALSE
  <2> DEFINE w == Wire[e[k]]
             a == cut[k - 1]
             b == cut[k]
             l == Len(w)
             x == i - a
  <2>0. /\ e[k] \in Packets /\ a \in Nat /\ b \in Nat
        /\ b = a + l /\ b <= N
        /\ \A y \in 1..l : bytes[a + y] = w[y]
    BY PacketAt
  <2>2. /\ w \in Seq(Byte) /\ Len(w) \in Nat
        /\ \A y \in Nat : y >= 1 => ~ Marked(w, y)
    BY <2>0, PacketBytes
  <2>1. a \in Nat /\ b \in Nat /\ l \in Nat /\ b = a + l /\ b <= N /\ a < i /\ i < b
    BY <1>3, <2>0, <2>2
  <2> HIDE DEF w, a, b, l
  <2>3. x \in Nat /\ x >= 1 /\ x + 1 <= l
    BY <2>1
  <2>4. CASE x + 2 <= l
    <3>1. x + 1 \in 1..l /\ x + 2 \in 1..l /\ a + (x + 1) = i + 1 /\ a + (x + 2) = i + 2
      BY <2>1, <2>4
    <3> HIDE DEF x
    <3>2. bytes[a + (x + 1)] = w[x + 1] /\ bytes[a + (x + 2)] = w[x + 2]
      BY <2>0, <3>1
    <3>3. w[x + 1] = 161 /\ w[x + 2] = 26
      BY <1>2, <3>1, <3>2
    <3>4. Marked(w, x)
      BY <2>4, <3>3 DEF Marked, l
    <3>5. QED
      BY <2>2, <2>3, <3>4
  <2>5. CASE ~ (x + 2 <= l)
    <3>1. i + 1 = b /\ i + 2 = b + 1
      BY <2>1, <2>3, <2>5
    <3>2. b < N /\ k \in 0..Len(e)
      BY <1>1, <1>2, <2>1, <3>1
    <3>3. bytes[b + 1] = 161
      BY <3>2, StartsAt DEF b
    <3>4. QED
      BY <1>2, <3>1, <3>3
  <2>6. QED
    BY <2>4, <2>5
<1>4. ASSUME cut[n] < i PROVE FALSE
  <2> DEFINE a == cut[n]
             x == i - a
             m == N - a
  <2>1. cut[n] # N
    BY <1>1, <1>2, <1>4
  <2>2. PICK p \in Packets :
          m < Len(Wire[p]) /\ \A y \in 1..m : bytes[a + y] = Wire[p][y]
    BY <2>1 DEF Begun
  <2> DEFINE w == Wire[p]
             l == Len(w)
  <2>3. /\ w \in Seq(Byte) /\ Len(w) \in Nat
        /\ \A y \in Nat : y >= 1 => ~ Marked(w, y)
    BY PacketBytes
  <2>4. m < l /\ \A y \in 1..m : bytes[a + y] = w[y]
    BY <2>2
  <2>5. /\ x \in Nat /\ x >= 1 /\ x + 2 <= l
        /\ x + 1 \in 1..m /\ x + 2 \in 1..m
        /\ a + (x + 1) = i + 1 /\ a + (x + 2) = i + 2
    <3>1. a \in Nat /\ l \in Nat /\ a < i /\ i + 2 <= N /\ N - a < l
      BY <1>1, <1>2, <1>4, <2>3, <2>4
    <3> HIDE DEF a, l, w, N
    <3> QED
      BY <1>1, <3>1
  <2> HIDE DEF w, x, m, a
  <2>6. bytes[a + (x + 1)] = w[x + 1] /\ bytes[a + (x + 2)] = w[x + 2]
    BY <2>4, <2>5
  <2>7. w[x + 1] = 161 /\ w[x + 2] = 26
    BY <1>2, <2>5, <2>6
  <2>8. Marked(w, x)
    BY <2>5, <2>7 DEF Marked, l
  <2>9. QED
    BY <2>3, <2>5, <2>8
<1>5. CASE \E k \in 1..n : cut[k - 1] <= i /\ i < cut[k]
  <2>1. PICK k \in 1..n : cut[k - 1] <= i /\ i < cut[k]
    BY <1>5
  <2>2. cut[k - 1] \in Nat /\ k - 1 \in 0..n
    BY <1>1, PacketAt
  <2>3. ~ (cut[k - 1] < i)
    BY <1>3, <2>1
  <2>4. cut[k - 1] = i
    BY <2>1, <2>2, <2>3
  <2>5. QED
    BY <2>2, <2>4
<1>6. CASE cut[n] <= i
  <2>1. cut[n] = i
    BY <1>1, <1>4, <1>6
  <2>2. n \in 0..n
    BY <1>1
  <2>3. QED
    BY <2>1, <2>2
<1>7. QED
  BY <1>5, <1>6, Within

----------------------------------------------------------------------------
(* find_frames: the scan finds a frame where a packet of the buffer        *)
(* starts, and goes on behind it; elsewhere it finds none, not in the      *)
(* incomplete last one either.                                             *)

\* A whole frame starts at offset i.
CompleteAt(data, i) ==
  /\ Slice(data, i, i + 2) = PREFIX
  /\ i + 6 <= Len(data)
  /\ i + 6 + U16At(data, i + 4) <= Len(data)

\* Where the frame at offset i ends, as its length field says.
FrameEnd(data, i) == i + 6 + U16At(data, i + 4)

\* What the scan finds where a packet starts.
LEMMA CompleteAtCut ==
  ASSUME NEW bytes, NEW e, NEW cut, Laid(bytes, e, cut), NEW k \in 1..Len(e)
  PROVE  /\ CompleteAt(bytes, cut[k - 1]) /\ FrameEnd(bytes, cut[k - 1]) = cut[k]
         /\ Slice(bytes, cut[k - 1], cut[k]) = Wire[e[k]]
<1> DEFINE w == Wire[e[k]]
           a == cut[k - 1]
           b == cut[k]
           l == Len(w)
           N == Len(bytes)
<1>1. /\ e[k] \in Packets /\ a \in Nat /\ b \in Nat
      /\ b = a + l /\ b <= N
      /\ \A x \in 1..l : bytes[a + x] = w[x]
  BY PacketAt
<1>2. /\ w \in Seq(Byte) /\ l \in Nat /\ l >= 19 /\ w[1] = 161 /\ w[2] = 26
      /\ U16At(w, 4) = l - 6
  BY <1>1, PacketBytes, SMTT(20)
<1>3. bytes \in Seq(Byte) /\ N \in Nat
  BY LenProperties DEF Laid
<1> HIDE DEF w, a, b
<1>4. Slice(bytes, a, a + 2) = PREFIX
  <2>1. bytes[a + 1] = 161 /\ bytes[a + 2] = 26
    <3>1. 1 \in 1..l /\ 2 \in 1..l
      BY <1>2
    <3>2. bytes[a + 1] = w[1] /\ bytes[a + 2] = w[2]
      BY <1>1, <3>1
    <3>3. QED
      BY <1>2, <3>2
  <2>2. a + 2 <= N
    <3> HIDE DEF l, N
    <3> QED
      BY <1>1, <1>2, <1>3
  <2>3. Marked(bytes, a)
    BY <2>1, <2>2 DEF Marked
  <2>4. QED
    BY <1>1, <1>3, <2>3, SlicePrefix
<1>5. U16At(bytes, a + 4) = l - 6
  <2>1. bytes[a + 5] = w[5] /\ bytes[a + 6] = w[6]
    BY <1>1, <1>2, 5 \in 1..l, 6 \in 1..l
  <2>2. a + 4 \in Nat /\ (a + 4) + 1 = a + 5 /\ (a + 4) + 2 = a + 6 /\ 4 \in Nat /\ 4 + 1 = 5 /\ 4 + 2 = 6
    BY <1>1
  <2>3. bytes[(a + 4) + 1] = w[4 + 1] /\ bytes[(a + 4) + 2] = w[4 + 2]
    BY <2>1, <2>2
  <2>4. U16At(bytes, a + 4) = U16At(w, 4)
    BY <2>2, <2>3, SameWord
  <2>5. QED
    BY <1>2, <2>4
<1>6. FrameEnd(bytes, a) = b
  <2> HIDE DEF l
  <2>1. a + 6 + (l - 6) = b
    BY <1>1, <1>2
  <2>2. QED
    BY <1>5, <2>1 DEF FrameEnd
<1>7. CompleteAt(bytes, a)
  <2>1. a + 6 <= N
    <3> HIDE DEF l, N
    <3> QED
      BY <1>1, <1>2, <1>3
  <2>2. QED
    BY <1>1, <1>4, <1>6, <2>1 DEF CompleteAt, FrameEnd
<1>8. Slice(bytes, a, b) = w
  <2> DEFINE d == Slice(bytes, a, b)
  <2>0. a <= b /\ b - a = l
    <3> HIDE DEF l
    <3> QED
      BY <1>1, <1>2
  <2>1. d \in Seq(Byte) /\ Len(d) = b - a /\ \A x \in 1..b - a : d[x] = bytes[a + x]
    <3>1. a \in Nat /\ b \in Nat /\ a <= b /\ b <= Len(bytes) /\ bytes \in Seq(Byte)
      BY <1>1, <1>3, <2>0
    <3>2. QED
      BY <3>1, SliceAt
  <2> HIDE DEF d
  <2>2. Len(d) = l /\ \A x \in 1..l : d[x] = w[x]
    BY <1>1, <2>0, <2>1
  <2>3. d = w
    BY <1>2, <2>1, <2>2, SeqEqual
  <2>4. QED
    BY <2>3 DEF d
<1>9. QED
  BY <1>6, <1>7, <1>8 DEF a, b, w

\* It finds a frame nowhere else.
LEMMA CompleteOnly ==
  ASSUME NEW bytes, NEW e, NEW cut, Laid(bytes, e, cut), Begun(bytes, cut[Len(e)]),
         NEW i \in Nat, CompleteAt(bytes, i)
  PROVE  \E k \in 1..Len(e) : i = cut[k - 1]
<1> DEFINE n == Len(e)
           N == Len(bytes)
<1>1. bytes \in Seq(Byte) /\ n \in Nat /\ N \in Nat
  BY LenProperties DEF Laid
<1>2. Marked(bytes, i)
  BY <1>1, SlicePrefix DEF CompleteAt
<1>3. PICK k \in 0..n : i = cut[k]
  BY <1>2, PrefixPlaces
<1>4. CASE k # n
  <2>1. k + 1 \in 1..n /\ (k + 1) - 1 = k
    BY <1>1, <1>4
  <2>2. QED
    BY <1>3, <2>1
<1>5. CASE k = n
  <2>1. i + 6 <= N /\ i + 6 + U16At(bytes, i + 4) <= N
    BY DEF CompleteAt
  <2>2. i = cut[n] /\ i # N
    BY <1>1, <1>3, <1>5, <2>1
  <2>3. PICK p \in Packets :
          /\ N - i < Len(Wire[p])
          /\ \A x \in 1..(N - i) : bytes[i + x] = Wire[p][x]
    BY <2>2 DEF Begun
  <2> DEFINE w == Wire[p]
             l == Len(w)
  <2>4. l \in Nat /\ l >= 19 /\ U16At(w, 4) = l - 6
    BY PacketBytes
  <2>5. N - i < l /\ \A x \in 1..(N - i) : bytes[i + x] = w[x]
    BY <2>3
  <2> HIDE DEF w, l, N
  <2>6. 5 \in 1..(N - i) /\ 6 \in 1..(N - i)
    BY <1>1, <2>1
  <2>7. bytes[i + 5] = w[5] /\ bytes[i + 6] = w[6]
    BY <2>5, <2>6
  <2>8. i + 4 \in Nat /\ (i + 4) + 1 = i + 5 /\ (i + 4) + 2 = i + 6 /\ 4 \in Nat /\ 4 + 1 = 5 /\ 4 + 2 = 6
    OBVIOUS
  <2>9. U16At(bytes, i + 4) = U16At(w, 4)
    BY <2>7, <2>8, SameWord
  <2>10. i + 6 + (l - 6) <= N
    BY <2>1, <2>4, <2>9
  <2>11. QED
    BY <1>1, <2>4, <2>5, <2>10
<1>6. QED
  BY <1>4, <1>5

\* The scan of N bytes: nothing at the end, on to the next byte outside C,
\* and past the frame in C.
Scans(f, m, N, C, next, head) ==
  f = [i \in (N - m)..N |->
        IF i >= N - 1 THEN << >>
        ELSE IF i \notin C THEN f[i + 1] ELSE head[i] \o f[next[i]]]

\* The scan is defined for every buffer.
LEMMA ScanExists ==
  ASSUME NEW N \in Nat, NEW C, NEW next, NEW head,
         \A i \in C : i \in Nat => next[i] \in (i + 1)..N
  PROVE  \E f : Scans(f, N, N, C, next, head)
<1> DEFINE G == {m \in 0..N : \E f : Scans(f, m, N, C, next, head)}
<1>1. ASSUME NEW m \in 0..N, \A j \in 0..(m - 1) : j \in G PROVE m \in G
  <2>1. CASE m = 0
    <3> DEFINE f == [i \in (N - 0)..N |-> << >>]
    <3>1. \A i \in (N - 0)..N : i >= N - 1
      OBVIOUS
    <3>2. Scans(f, 0, N, C, next, head)
      BY <3>1 DEF Scans
    <3>3. QED
      BY <2>1, <3>2
  <2>2. CASE m # 0
    <3>1. m - 1 \in 0..(m - 1)
      BY <2>2
    <3>2. PICK f : Scans(f, m - 1, N, C, next, head)
      BY <1>1, <3>1
    <3> DEFINE body(i, h) == IF i >= N - 1 THEN << >>
                             ELSE IF i \notin C THEN h[i + 1] ELSE head[i] \o h[next[i]]
               g == [i \in (N - m)..N |-> body(i, f)]
    <3>3. f = [i \in (N - (m - 1))..N |-> body(i, f)]
      BY <3>2 DEF Scans
    <3>4. ASSUME NEW i \in (N - (m - 1))..N PROVE g[i] = f[i]
      <4>1. i \in (N - m)..N
        OBVIOUS
      <4>2. g[i] = body(i, f)
        BY <4>1
      <4> HIDE DEF g, body
      <4>3. QED
        BY <3>3, <4>2
    <3>5. ASSUME NEW i \in (N - m)..N PROVE body(i, f) = body(i, g)
      <4>1. CASE i >= N - 1
        BY <4>1
      <4>2. CASE ~ (i >= N - 1)
        <5>1. i + 1 \in (N - (m - 1))..N /\ i \in Nat
          BY <4>2
        <5>2. g[i + 1] = f[i + 1]
          BY <3>4, <5>1
        <5>3. ASSUME i \in C PROVE g[next[i]] = f[next[i]]
          <6>1. next[i] \in (i + 1)..N
            BY <5>1, <5>3
          <6>2. next[i] \in (N - (m - 1))..N
            BY <6>1
          <6>3. QED
            BY <3>4, <6>2
        <5> HIDE DEF g
        <5>4. QED
          BY <5>2, <5>3
      <4>3. QED
        BY <4>1, <4>2
    <3>6. g = [i \in (N - m)..N |-> body(i, g)]
      <4> HIDE DEF body
      <4> QED
        BY <3>5
    <3>7. Scans(g, m, N, C, next, head)
      <4> HIDE DEF g
      <4> QED
        BY <3>6 DEF Scans
    <3>8. QED
      BY <3>7
  <2>3. QED
    BY <2>1, <2>2
<1>2. \A m \in 0..N : m \in G
  <2> HIDE DEF G
  <2> QED
    BY <1>1, Upward
<1>3. QED
  BY <1>2

FrameAt(data, i) == ParseFrame(Slice(data, i, FrameEnd(data, i)))

OneFrame(frame) == IF frame = NoFrame THEN << >> ELSE <<frame>>

\* What the scan makes of offset i, given what it finds behind it.
ScanStep(data, S, i) ==
  IF i >= Len(data) - 1 THEN << >>
  ELSE IF ~ CompleteAt(data, i) THEN S[i + 1]
  ELSE OneFrame(FrameAt(data, i)) \o S[FrameEnd(data, i)]

\* find_frames is this scan.
LEMMA ScanUnfold ==
  ASSUME NEW data \in Seq(Byte)
  PROVE  \E S : /\ FindFrames(data) = S[0]
                /\ \A i \in 0..Len(data) : S[i] = ScanStep(data, S, i)
<1> DEFINE N == Len(data)
           C == {i \in 0..N : CompleteAt(data, i)}
           next == [i \in 0..N |-> FrameEnd(data, i)]
           head == [i \in 0..N |-> OneFrame(FrameAt(data, i))]
           step(S, i) == ScanStep(data, S, i)
<1>1. N \in Nat /\ \A i \in 1..N : data[i] \in Nat
  <2>1. N \in Nat /\ \A i \in 1..N : data[i] \in Byte
    BY LenProperties, ElementOfSeq
  <2>2. Byte \subseteq Nat
    BY DEF Byte
  <2>3. QED
    BY <2>1, <2>2
<1>2. ASSUME NEW i \in C PROVE next[i] \in (i + 1)..N
  <2> DEFINE u == U16At(data, i + 4)
  <2>1. i \in Nat /\ i \in 0..N /\ i + 6 <= N /\ i + 6 + u <= N
    BY <1>1 DEF CompleteAt
  <2>2. u \in Nat
    <3>1. i + 5 \in 1..N /\ i + 6 \in 1..N
      BY <1>1, <2>1
    <3>2. data[i + 5] \in Nat /\ data[i + 6] \in Nat
      BY <1>1, <3>1
    <3>3. u = data[i + 5] + 256 * data[i + 6]
      BY <2>1, i + 4 + 1 = i + 5, i + 4 + 1 + 1 = i + 6 DEF U16At, At
    <3>4. QED
      BY <3>2, <3>3
  <2>3. next[i] = i + 6 + u
    BY <2>1 DEF FrameEnd
  <2> HIDE DEF next, u
  <2>4. QED
    BY <1>1, <2>1, <2>2, <2>3
<1>3. PICK f : Scans(f, N, N, C, next, head)
  <2> HIDE DEF N, C, next, head
  <2> QED
    BY <1>1, <1>2, ScanExists
<1>4. f = [i \in (N - N)..N |->
            IF i >= N - 1 THEN << >>
            ELSE IF i \notin C THEN f[i + 1] ELSE head[i] \o f[next[i]]]
  BY <1>3 DEF Scans
<1>5. ASSUME NEW i \in 0..N
      PROVE  (IF i >= N - 1 THEN << >>
              ELSE IF i \notin C THEN f[i + 1] ELSE head[i] \o f[next[i]]) = step(f, i)
  <2>1. i \in C <=> CompleteAt(data, i)
    OBVIOUS
  <2>2. next[i] = FrameEnd(data, i) /\ head[i] = OneFrame(FrameAt(data, i))
    OBVIOUS
  <2> HIDE DEF C, next, head
  <2>3. QED
    BY <2>1, <2>2 DEF ScanStep
<1>6. f = [i \in 0..N |-> step(f, i)]
  <2> HIDE DEF C, next, head, step, N
  <2>1. N - N = 0
    BY <1>1
  <2>2. QED
    BY <1>4, <1>5, <2>1
<1> DEFINE S == CHOOSE g : g = [i \in 0..N |-> step(g, i)]
<1>7. S = [i \in 0..N |-> step(S, i)]
  <2> HIDE DEF step, N
  <2> QED
    BY <1>6
<1>8. FindFrames(data) = S[0]
  BY DEF FindFrames, ScanStep, CompleteAt, FrameAt, FrameEnd, OneFrame
<1> HIDE DEF S, step
<1>9. \A i \in 0..N : S[i] = step(S, i)
  BY <1>7
<1>10. QED
  BY <1>8, <1>9 DEF step

\* The frame that the parser makes of a packet.
FrameOf(p) == ParseFrame(Wire[p])

\* The frames of these packets, from the k-th on.
FramesFrom(e, k) == [j \in 1..(Len(e) - k) |-> FrameOf(e[k + j])]

FramesOf(e) == [j \in 1..Len(e) |-> FrameOf(e[j])]

\* A function on 1..n is a sequence.
LEMMA TypedSequence ==
  ASSUME NEW n \in Nat, NEW S, NEW f \in [1..n -> S]
  PROVE  f \in Seq(S) /\ Len(f) = n
<1>1. f \in Seq(S)
  BY SeqDef
<1>2. QED
  BY <1>1, LenProperties

LEMMA FramesFromStep ==
  ASSUME NEW e \in Seq(Packets), NEW k \in 1..Len(e)
  PROVE  FramesFrom(e, k - 1) = <<FrameOf(e[k])>> \o FramesFrom(e, k)
<1> DEFINE n == Len(e)
           F == {FrameOf(e[i]) : i \in 1..n}
           one == <<FrameOf(e[k])>>
           rest == FramesFrom(e, k)
           all == FramesFrom(e, k - 1)
           both == one \o rest
<1>1. n \in Nat /\ n - k \in Nat /\ n - (k - 1) \in Nat /\ n - (k - 1) = 1 + (n - k)
  BY LenProperties
<1>2. one \in Seq(F) /\ Len(one) = 1
  OBVIOUS
<1>3. rest \in Seq(F) /\ Len(rest) = n - k
  <2>1. \A j \in 1..(n - k) : k + j \in 1..n
    BY <1>1
  <2>2. rest \in [1..(n - k) -> F]
    BY <2>1 DEF FramesFrom
  <2> HIDE DEF rest, F, n
  <2>3. QED
    BY <1>1, <2>2, TypedSequence
<1>4. all \in Seq(F) /\ Len(all) = n - (k - 1)
  <2>1. \A j \in 1..(n - (k - 1)) : k - 1 + j \in 1..n
    BY <1>1
  <2>2. all \in [1..(n - (k - 1)) -> F]
    BY <2>1 DEF FramesFrom
  <2> HIDE DEF all, F, n
  <2>3. QED
    BY <1>1, <2>2, TypedSequence
<1>5. all[1] = FrameOf(e[k])
  BY <1>1, 1 \in 1..(n - (k - 1)), k - 1 + 1 = k DEF FramesFrom
<1>6. ASSUME NEW i \in 1..(n - k) PROVE all[1 + i] = rest[i]
  BY <1>1, 1 + i \in 1..(n - (k - 1)), k - 1 + (1 + i) = k + i DEF FramesFrom
<1>7. one[1] = FrameOf(e[k])
  OBVIOUS
<1> HIDE DEF F, one, rest, all, n
<1>8. both \in Seq(F) /\ Joins(both, one, 1, rest, n - k)
  BY <1>2, <1>3, JoinedLengths
<1> HIDE DEF both
<1>9. /\ Len(both) = 1 + (n - k) /\ \A i \in 1..1 : both[i] = one[i]
      /\ \A i \in 1..(n - k) : both[1 + i] = rest[i]
  BY <1>8 DEF Joins
<1>10. Len(both) = Len(all)
  BY <1>1, <1>4, <1>9
<1>11. ASSUME NEW i \in 1..Len(all) PROVE all[i] = both[i]
  <2>1. CASE i = 1
    BY <1>5, <1>7, <1>9, <2>1
  <2>2. CASE i # 1
    <3> DEFINE j == i - 1
    <3>1. j \in 1..(n - k) /\ i = 1 + j
      BY <1>1, <1>4, <2>2
    <3> HIDE DEF j
    <3>2. QED
      BY <1>6, <1>9, <3>1
  <2>3. QED
    BY <2>1, <2>2
<1>12. all = both
  BY <1>4, <1>8, <1>10, <1>11, SeqEqual
<1>13. QED
  BY <1>12 DEF all, both, one, rest

\* The next packet to start at or behind offset i is the (k+1)-th.
NextAt(cut, n, i, k) ==
  /\ k \in 0..n
  /\ k = 0 \/ cut[k - 1] < i
  /\ k = n \/ i <= cut[k]

\* find_frames() makes of a buffer of packets, the last one incomplete or not,
\* the frames of these packets, whole, in order and no other (protocol.py
\* 893-913).
THEOREM FramesFound ==
  ASSUME NEW bytes, NEW e, NEW cut, Laid(bytes, e, cut), Begun(bytes, cut[Len(e)])
  PROVE  FindFrames(bytes) = FramesOf(e)
<1> DEFINE n == Len(e)
           N == Len(bytes)
<1>1. /\ bytes \in Seq(Byte) /\ e \in Seq(Packets) /\ n \in Nat /\ N \in Nat /\ cut[0] = 0
      /\ \A k \in 0..n : cut[k] \in Nat /\ cut[k] <= N
  BY LenProperties DEF Laid
<1>2. PICK S : FindFrames(bytes) = S[0] /\ \A i \in 0..N : S[i] = ScanStep(bytes, S, i)
  BY <1>1, ScanUnfold
<1>3. \A k \in 0..n : \A j \in 0..n : j < k => cut[j] + 19 <= cut[k]
  BY CutsRise
<1> DEFINE G == {i \in 0..N : \A k \in 0..n : NextAt(cut, n, i, k) => S[i] = FramesFrom(e, k)}
<1>4. ASSUME NEW i \in 0..N, \A j \in (i + 1)..N : j \in G PROVE i \in G
  <2> SUFFICES ASSUME NEW k \in 0..n, NextAt(cut, n, i, k) PROVE S[i] = FramesFrom(e, k)
    OBVIOUS
  <2>1. CASE i >= N - 1
    <3>1. S[i] = << >>
      BY <1>2, <2>1 DEF ScanStep
    <3>2. k = n
      <4>1. SUFFICES ASSUME k # n PROVE FALSE
        OBVIOUS
      <4>2. k + 1 \in 0..n /\ k \in 0..n /\ k < k + 1
        BY <1>1, <4>1
      <4>3. cut[k] + 19 <= cut[k + 1] /\ cut[k + 1] <= N /\ cut[k] \in Nat /\ cut[k + 1] \in Nat
        BY <1>1, <1>3, <4>2
      <4>4. i <= cut[k]
        BY <4>1 DEF NextAt
      <4>5. QED
        BY <1>1, <2>1, <4>3, <4>4
    <3>3. FramesFrom(e, n) = << >>
      <4>1. 1..(n - n) = {}
        BY <1>1
      <4>2. QED
        BY <4>1 DEF FramesFrom
    <3>4. QED
      BY <3>1, <3>2, <3>3
  <2>2. CASE ~ (i >= N - 1) /\ CompleteAt(bytes, i)
    <3>1. S[i] = OneFrame(FrameAt(bytes, i)) \o S[FrameEnd(bytes, i)]
      BY <1>2, <2>2 DEF ScanStep
    <3>2. PICK j \in 1..n : i = cut[j - 1]
      BY <2>2, CompleteOnly
    <3>3. /\ FrameEnd(bytes, i) = cut[j] /\ Slice(bytes, i, cut[j]) = Wire[e[j]]
      BY <3>2, CompleteAtCut
    <3>4. j \in 0..n /\ j - 1 \in 0..n /\ e[j] \in Packets
      BY <1>1, <3>2, ElementOfSeq
    <3>5. k = j - 1
      <4>1. ASSUME k < j - 1 PROVE FALSE
        <5>1. k # n /\ i <= cut[k]
          BY <1>1, <3>4, <4>1 DEF NextAt
        <5>2. cut[k] + 19 <= cut[j - 1] /\ cut[k] \in Nat /\ cut[j - 1] \in Nat
          BY <1>1, <1>3, <3>4, <4>1
        <5>3. QED
          BY <3>2, <5>1, <5>2
      <4>2. ASSUME j - 1 < k PROVE FALSE
        <5>1. k - 1 \in 0..n /\ cut[k - 1] < i
          BY <1>1, <3>4, <4>2 DEF NextAt
        <5>2. cut[j - 1] \in Nat /\ cut[k - 1] \in Nat
          BY <1>1, <3>4, <5>1
        <5>3. CASE j - 1 = k - 1
          BY <3>2, <5>1, <5>2, <5>3
        <5>4. CASE j - 1 < k - 1
          <6>1. cut[j - 1] + 19 <= cut[k - 1]
            BY <1>3, <3>4, <5>1, <5>4
          <6>2. QED
            BY <3>2, <5>1, <5>2, <6>1
        <5>5. QED
          BY <1>1, <3>4, <4>2, <5>3, <5>4
      <4>3. QED
        BY <1>1, <3>4, <4>1, <4>2
    <3>6. S[cut[j]] = FramesFrom(e, j)
      <4>1. cut[j - 1] + 19 <= cut[j] /\ cut[j] <= N /\ cut[j] \in Nat /\ cut[j - 1] \in Nat
        BY <1>1, <1>3, <3>4, j - 1 < j
      <4>2. cut[j] \in (i + 1)..N
        BY <1>1, <3>2, <4>1
      <4>3. cut[j] \in G
        BY <1>4, <4>2
      <4>4. NextAt(cut, n, cut[j], j)
        BY <3>2, <3>4, <4>1 DEF NextAt
      <4>5. QED
        BY <3>4, <4>3, <4>4
    <3>7. OneFrame(FrameAt(bytes, i)) = <<FrameOf(e[j])>>
      <4>1. FrameAt(bytes, i) = FrameOf(e[j])
        BY <3>3 DEF FrameAt, FrameOf
      <4>2. FrameOf(e[j]) # NoFrame
        BY <3>4, PacketUnderstood DEF Understood, FrameOf
      <4>3. QED
        BY <4>1, <4>2 DEF OneFrame
    <3>8. S[i] = FramesFrom(e, j - 1)
      BY <1>1, <3>1, <3>3, <3>6, <3>7, FramesFromStep
    <3>9. QED
      BY <3>5, <3>8
  <2>3. CASE ~ (i >= N - 1) /\ ~ CompleteAt(bytes, i)
    <3>1. S[i] = S[i + 1]
      BY <1>2, <2>3 DEF ScanStep
    <3>2. i + 1 \in (i + 1)..N
      BY <1>1, <2>3
    <3>3. i + 1 \in G
      BY <1>4, <3>2
    <3>4. ASSUME k # n PROVE i # cut[k]
      <4>1. k + 1 \in 1..n /\ (k + 1) - 1 = k
        BY <1>1, <3>4
      <4>2. CompleteAt(bytes, cut[k])
        BY <4>1, CompleteAtCut
      <4>3. QED
        BY <2>3, <4>2
    <3>5. NextAt(cut, n, i + 1, k)
      <4>1. k = 0 \/ cut[k - 1] < i + 1
        <5>1. CASE k = 0
          BY <5>1
        <5>2. CASE k # 0
          <6>1. cut[k - 1] < i /\ cut[k - 1] \in Nat
            BY <1>1, <5>2, k - 1 \in 0..n DEF NextAt
          <6>2. QED
            BY <6>1
        <5>3. QED
          BY <5>1, <5>2
      <4>2. k = n \/ i + 1 <= cut[k]
        <5>1. CASE k = n
          BY <5>1
        <5>2. CASE k # n
          <6>1. i <= cut[k] /\ i # cut[k] /\ cut[k] \in Nat
            BY <1>1, <3>4, <5>2 DEF NextAt
          <6>2. QED
            BY <6>1
        <5>3. QED
          BY <5>1, <5>2
      <4>3. QED
        BY <4>1, <4>2 DEF NextAt
    <3>6. QED
      BY <3>1, <3>3, <3>5
  <2>4. QED
    BY <2>1, <2>2, <2>3
<1>5. \A i \in 0..N : i \in G
  <2> HIDE DEF G, N
  <2> QED
    BY <1>1, <1>4, Downward
<1>6. 0 \in 0..N /\ 0 \in 0..n /\ NextAt(cut, n, 0, 0)
  BY <1>1 DEF NextAt
<1>7. S[0] = FramesFrom(e, 0)
  BY <1>5, <1>6
<1>8. FramesFrom(e, 0) = FramesOf(e)
  BY <1>1 DEF FramesFrom, FramesOf
<1>9. QED
  BY <1>2, <1>7, <1>8

----------------------------------------------------------------------------
(* The buffer between two pieces of the stream: what is cut off at its     *)
(* head are whole packets.                                                 *)

LEMMA SliceWhole ==
  ASSUME NEW S, NEW data \in Seq(S)
  PROVE  Slice(data, 0, Len(data)) = data
<1> DEFINE start == 0
           d == Slice(data, start, Len(data))
<1>1. Len(data) \in Nat /\ start \in Nat /\ start <= Len(data) /\ Len(data) <= Len(data)
      /\ Len(data) - start = Len(data) /\ \A x \in 1..Len(data) : start + x = x
  BY LenProperties
<1> HIDE DEF start
<1>2. /\ d \in Seq(S) /\ Len(d) = Len(data) - start
      /\ \A x \in 1..Len(data) - start : d[x] = data[start + x]
  <2> DEFINE m == Len(data)
  <2>1. start \in Nat /\ m \in Nat /\ start <= m /\ m <= Len(data)
    BY <1>1
  <2> HIDE DEF m
  <2>2. /\ Slice(data, start, m) \in Seq(S) /\ Len(Slice(data, start, m)) = m - start
        /\ \A x \in 1..m - start : Slice(data, start, m)[x] = data[start + x]
    BY <2>1, SliceAt
  <2>3. QED
    BY <2>2 DEF m
<1> HIDE DEF d
<1>3. ASSUME NEW x \in 1..Len(data) PROVE d[x] = data[x]
  BY <1>1, <1>2
<1>4. d = data
  BY <1>1, <1>2, <1>3, SeqEqual
<1>5. QED
  BY <1>4 DEF d, start

\* Where two bytes are left behind a packet, they are the prefix of the next.
LEMMA MarkedAt ==
  ASSUME NEW bytes, NEW e, NEW cut, Laid(bytes, e, cut), Begun(bytes, cut[Len(e)]),
         NEW k \in 0..Len(e), cut[k] + 2 <= Len(bytes)
  PROVE  Marked(bytes, cut[k])
<1>1. Len(e) \in Nat /\ Len(bytes) \in Nat /\ cut[k] \in Nat
  BY LenProperties DEF Laid
<1>2. CASE k = Len(e)
  <2> DEFINE a == cut[k]
             N == Len(bytes)
  <2>1. a # N
    BY <1>1
  <2>2. PICK p \in Packets : \A x \in 1..(N - a) : bytes[a + x] = Wire[p][x]
    BY <1>2, <2>1 DEF Begun
  <2> HIDE DEF a, N
  <2>3. 1 \in 1..(N - a) /\ 2 \in 1..(N - a)
    BY <1>1 DEF a, N
  <2>4. bytes[a + 1] = Wire[p][1] /\ bytes[a + 2] = Wire[p][2]
    BY <2>2, <2>3
  <2>5. bytes[a + 1] = 161 /\ bytes[a + 2] = 26
    BY <2>4, PacketBytes
  <2>6. QED
    BY <2>5 DEF Marked, a
<1>3. CASE k # Len(e)
  <2>1. k + 1 \in 1..Len(e) /\ (k + 1) - 1 = k
    BY <1>1, <1>3
  <2>2. CompleteAt(bytes, cut[k])
    BY <2>1, CompleteAtCut
  <2>3. bytes \in Seq(Byte)
    BY DEF Laid
  <2>4. QED
    BY <1>1, <2>2, <2>3, SlicePrefix DEF CompleteAt
<1>4. QED
  BY <1>2, <1>3

\* Behind the packets e stand the first g bytes of the packet sent next.
Pending(bytes, at, s, g) ==
  /\ Len(bytes) = at + g /\ g \in Nat
  /\ s = << >> => g = 0
  /\ s # << >> => g < Len(Wire[s[1]]) /\ \A x \in 1..g : bytes[at + x] = Wire[s[1]][x]

\* The first bytes of the packet sent next are less than a packet.
LEMMA PendingBegun ==
  ASSUME NEW bytes, NEW at \in Nat, NEW s \in Seq(Packets), NEW g, Pending(bytes, at, s, g)
  PROVE  Begun(bytes, at)
<1>1. g \in Nat /\ Len(bytes) = at + g /\ Len(bytes) - at = g
  BY DEF Pending
<1>2. CASE s = << >>
  BY <1>1, <1>2 DEF Pending, Begun
<1>3. CASE s # << >>
  <2>1. s[1] \in Packets
    <3>1. Len(s) \in Nat /\ Len(s) # 0
      BY <1>3, LenProperties, EmptySeq
    <3>2. QED
      BY <3>1, ElementOfSeq, 1 \in 1..Len(s)
  <2> DEFINE p == s[1]
  <2>2. p \in Packets /\ g < Len(Wire[p]) /\ \A x \in 1..g : bytes[at + x] = Wire[p][x]
    BY <1>3, <2>1 DEF Pending
  <2> HIDE DEF p
  <2>3. QED
    BY <1>1, <2>2 DEF Begun
<1>4. QED
  BY <1>2, <1>3

\* The buffer: whole packets e up to the offsets cut, then g bytes of the
\* first of s.
Trail(bytes, e, cut, s, g) ==
  Laid(bytes, e, cut) /\ Pending(bytes, cut[Len(e)], s, g)

\* Cut off at a packet, a buffer stays one.
LEMMA TrailCut ==
  ASSUME NEW bytes, NEW e, NEW cut, NEW s, NEW g, Trail(bytes, e, cut, s, g),
         NEW k \in 0..Len(e)
  PROVE  \E c : Trail(Slice(bytes, cut[k], Len(bytes)), SubSeq(e, k + 1, Len(e)), c, s, g)
<1> DEFINE n == Len(e)
           N == Len(bytes)
           a == cut[k]
           d == Slice(bytes, a, N)
           t == SubSeq(e, k + 1, n)
           c == [j \in 0..(n - k) |-> cut[k + j] - a]
<1>1. /\ Laid(bytes, e, cut) /\ Pending(bytes, cut[n], s, g)
      /\ bytes \in Seq(Byte) /\ e \in Seq(Packets) /\ n \in Nat /\ N \in Nat
      /\ \A j \in 0..n : cut[j] \in Nat /\ cut[j] <= N
      /\ \A j \in 1..n : e[j] \in Packets
  BY LenProperties, ElementOfSeq DEF Trail, Laid
<1>2. a \in Nat /\ a <= N /\ N - a \in Nat
  BY <1>1
<1>3. d \in Seq(Byte) /\ Len(d) = N - a /\ \A x \in 1..N - a : d[x] = bytes[a + x]
  <2>1. a \in Nat /\ N \in Nat /\ a <= N /\ N <= Len(bytes) /\ bytes \in Seq(Byte)
    BY <1>1, <1>2
  <2> HIDE DEF a, N
  <2>2. QED
    BY <2>1, SliceAt
<1>4. /\ t \in Seq(Packets) /\ Len(t) = n - k /\ n - k \in Nat
      /\ \A j \in 1..(n - k) : t[j] = e[k + j]
  <2>1. \A j \in (k + 1)..n : e[j] \in Packets
    BY <1>1
  <2>2. /\ t \in Seq(Packets) /\ Len(t) = IF k + 1 <= n THEN n - (k + 1) + 1 ELSE 0
        /\ \A j \in 1..n - (k + 1) + 1 : t[j] = e[(k + 1) + j - 1]
    BY <1>1, <2>1, k + 1 \in Int, n \in Int, SubSeqProperties
  <2> HIDE DEF t, n
  <2>3. Len(t) = n - k /\ n - k \in Nat /\ n - (k + 1) + 1 = n - k
    <3>1. Len(t) = IF k + 1 <= n THEN n - (k + 1) + 1 ELSE 0
      BY <2>2
    <3>2. n \in Nat /\ k \in 0..n
      BY <1>1 DEF n
    <3>3. QED
      BY <3>1, <3>2
  <2>4. ASSUME NEW j \in 1..(n - k) PROVE t[j] = e[k + j]
    BY <2>2, <2>3, (k + 1) + j - 1 = k + j
  <2>5. QED
    BY <2>2, <2>3, <2>4
<1>5. ASSUME NEW j \in 0..(n - k) PROVE c[j] = cut[k + j] - a /\ c[j] \in Nat /\ c[j] <= N - a
  <2>1. k + j \in 0..n /\ k \in 0..n
    BY <1>1
  <2>2. a <= cut[k + j]
    <3>1. CASE j = 0
      BY <1>2, <3>1, k + 0 = k
    <3>2. CASE j # 0
      <4>1. k < k + j
        BY <3>2
      <4>2. a + 19 <= cut[k + j] /\ cut[k + j] \in Nat
        BY <1>1, <2>1, <4>1, CutsRise
      <4> HIDE DEF a
      <4>3. QED
        BY <1>2, <4>2
    <3>3. QED
      BY <3>1, <3>2
  <2>3. c[j] = cut[k + j] - a /\ cut[k + j] \in Nat /\ cut[k + j] <= N
    BY <1>1, <2>1
  <2> DEFINE b == cut[k + j]
  <2> HIDE DEF a, c, b, N
  <2>4. c[j] = b - a /\ b \in Nat /\ b <= N /\ a <= b
    BY <2>2, <2>3 DEF b
  <2>5. c[j] \in Nat /\ c[j] <= N - a
    BY <1>1, <1>2, <2>4
  <2>6. QED
    BY <2>3, <2>5
<1>6. c \in [0..(n - k) -> Nat]
  <2>1. c = [j \in 0..(n - k) |-> c[j]]
    OBVIOUS
  <2> HIDE DEF c, n, a
  <2>2. QED
    BY <1>5, <2>1
<1>7. c[0] = 0
  BY <1>2, <1>4, <1>5, 0 \in 0..(n - k), k + 0 = k
<1>8. ASSUME NEW j \in 1..(n - k)
      PROVE  c[j] = c[j - 1] + Len(Wire[t[j]])
  <2>1. k + j \in 1..n /\ k + (j - 1) = (k + j) - 1 /\ j \in 0..(n - k) /\ j - 1 \in 0..(n - k)
    BY <1>1
  <2>2. /\ cut[k + j] = cut[(k + j) - 1] + Len(Wire[e[k + j]])
        /\ cut[(k + j) - 1] \in Nat /\ Len(Wire[e[k + j]]) \in Nat
    BY <1>1, <2>1, PacketAt, PacketBytes
  <2>3. c[j] = cut[k + j] - a /\ c[j - 1] = cut[(k + j) - 1] - a /\ t[j] = e[k + j]
    BY <1>4, <1>5, <2>1
  <2> DEFINE b == cut[k + j]
             b0 == cut[(k + j) - 1]
             l == Len(Wire[e[k + j]])
  <2>4. b = b0 + l /\ b0 \in Nat /\ l \in Nat /\ c[j] = b - a /\ c[j - 1] = b0 - a /\ Len(Wire[t[j]]) = l
    BY <2>2, <2>3
  <2> HIDE DEF a, c, b, b0, l
  <2>5. QED
    BY <1>2, <2>4
<1>9. ASSUME NEW j \in 1..(n - k), NEW x \in 1..Len(Wire[t[j]])
      PROVE  d[c[j - 1] + x] = Wire[t[j]][x]
  <2>1. k + j \in 1..n /\ k + (j - 1) = (k + j) - 1 /\ j \in 0..(n - k) /\ j - 1 \in 0..(n - k)
    BY <1>1
  <2>2. t[j] = e[k + j]
    BY <1>4
  <2>3. bytes[cut[(k + j) - 1] + x] = Wire[t[j]][x]
    BY <2>1, <2>2, <1>1, PacketAt
  <2>4. /\ c[j - 1] = cut[(k + j) - 1] - a /\ c[j - 1] \in Nat
        /\ c[j] = c[j - 1] + Len(Wire[t[j]]) /\ c[j] <= N - a /\ Len(Wire[t[j]]) \in Nat
        /\ cut[(k + j) - 1] \in Nat
    BY <1>1, <1>5, <1>8, <2>1, <2>2, PacketBytes, PacketAt
  <2> DEFINE b0 == cut[(k + j) - 1]
             l == Len(Wire[t[j]])
             y == c[j - 1] + x
  <2>5. y \in 1..(N - a) /\ a + y = b0 + x
    <3>1. /\ c[j - 1] = b0 - a /\ c[j - 1] \in Nat /\ c[j] = c[j - 1] + l /\ c[j] <= N - a
          /\ l \in Nat /\ b0 \in Nat /\ x \in 1..l
      BY <2>4
    <3> HIDE DEF a, c, b0, l, N
    <3>2. QED
      BY <1>1, <1>2, <3>1
  <2>6. d[y] = bytes[a + y]
    <3> HIDE DEF d, y, a, N
    <3> QED
      BY <1>3, <2>5
  <2>7. d[y] = bytes[b0 + x]
    <3> HIDE DEF d, y, a, b0
    <3> QED
      BY <2>5, <2>6
  <2>8. QED
    BY <2>3, <2>7
<1>10. Laid(d, t, c)
  <2> HIDE DEF d, t, c, a, n, N
  <2>1. \A j \in 0..Len(t) : c[j] <= Len(d)
    BY <1>3, <1>4, <1>5
  <2>2. \A j \in 1..Len(t) : c[j] = c[j - 1] + Len(Wire[t[j]])
    BY <1>4, <1>8
  <2>3. \A j \in 1..Len(t) : \A x \in 1..Len(Wire[t[j]]) : d[c[j - 1] + x] = Wire[t[j]][x]
    BY <1>4, <1>9
  <2>4. c \in [0..Len(t) -> Nat]
    BY <1>4, <1>6
  <2>5. QED
    BY <1>3, <1>4, <1>7, <2>1, <2>2, <2>3, <2>4 DEF Laid
<1>11. Pending(d, c[n - k], s, g)
  <2>1. n - k \in 0..(n - k) /\ k + (n - k) = n /\ n \in 0..n
    BY <1>1, <1>4
  <2>2. c[n - k] = cut[n] - a /\ c[n - k] \in Nat /\ cut[n] \in Nat
    BY <1>1, <1>5, <2>1
  <2>3. g \in Nat /\ N = cut[n] + g
    BY <1>1 DEF Pending
  <2> DEFINE b == cut[n]
             c0 == c[n - k]
  <2>4. c0 = b - a /\ c0 \in Nat /\ b \in Nat /\ N = b + g /\ g \in Nat
    BY <2>2, <2>3
  <2>5. Len(d) = c0 + g
    <3>1. Len(d) = N - a
      BY <1>3
    <3> HIDE DEF a, c0, b, N, d
    <3>2. QED
      BY <1>1, <1>2, <2>4, <3>1
  <2>6. ASSUME NEW x \in 1..g PROVE d[c0 + x] = bytes[b + x]
    <3> DEFINE y == c0 + x
    <3>1. y \in 1..(N - a) /\ a + y = b + x
      <4> HIDE DEF a, c0, b, N
      <4> QED
        BY <1>1, <1>2, <2>4
    <3> HIDE DEF y, d, a, b, N
    <3>2. d[y] = bytes[a + y]
      BY <1>3, <3>1
    <3>3. d[y] = bytes[b + x]
      BY <3>1, <3>2
    <3>4. QED
      BY <3>3 DEF y
  <2>7. s = << >> => g = 0
    BY <1>1 DEF Pending
  <2>8. s # << >> => g < Len(Wire[s[1]]) /\ \A x \in 1..g : bytes[b + x] = Wire[s[1]][x]
    BY <1>1 DEF Pending
  <2> HIDE DEF d, c0, b
  <2>9. Pending(d, c0, s, g)
    BY <2>4, <2>5, <2>6, <2>7, <2>8 DEF Pending
  <2>10. QED
    BY <2>9 DEF c0
<1>12. Trail(d, t, c, s, g)
  <2> HIDE DEF d, t, c, n
  <2> QED
    BY <1>4, <1>10, <1>11 DEF Trail
<1>13. QED
  BY <1>12

\* What _consume_frames leaves starts with a packet too.
LEMMA RemainderCut ==
  ASSUME NEW bytes, NEW e, NEW cut, Laid(bytes, e, cut), Begun(bytes, cut[Len(e)])
  PROVE  \E k \in 0..Len(e) :
           Remainder(bytes, FindFrames(bytes)) = Slice(bytes, cut[k], Len(bytes))
<1> DEFINE n == Len(e)
           N == Len(bytes)
           frames == FramesOf(e)
<1>1. /\ bytes \in Seq(Byte) /\ n \in Nat /\ N \in Nat /\ cut[0] = 0
      /\ \A k \in 0..n : cut[k] \in Nat /\ cut[k] <= N
  BY LenProperties DEF Laid
<1>2. FindFrames(bytes) = frames
  BY FramesFound
<1>3. CASE n = 0
  <2>1. frames = << >>
    <3>1. 1..n = {}
      BY <1>3
    <3>2. QED
      BY <3>1 DEF FramesOf
  <2>2. Remainder(bytes, frames) = bytes
    BY <2>1 DEF Remainder
  <2>3. bytes = Slice(bytes, cut[0], N)
    BY <1>1, SliceWhole
  <2>4. 0 \in 0..n
    BY <1>1
  <2>5. QED
    BY <1>2, <2>2, <2>3, <2>4
<1>4. CASE n # 0
  <2>1. n \in 1..n /\ n - 1 \in 0..n /\ e[n] \in Packets /\ n \in 0..n
    BY <1>1, <1>4, PacketAt
  <2> DEFINE w == Wire[e[n]]
             l == Len(w)
             a == cut[n - 1]
             i == FindBytes(bytes, w, 0)
  <2>2. /\ w \in Seq(Byte) /\ l \in Nat /\ l >= 19 /\ w[1] = 161 /\ w[2] = 26
        /\ U16At(w, 4) = l - 6
    BY <2>1, PacketBytes
  <2>3. frames # << >> /\ Last(frames).raw = w
    <3>1. frames \in [1..n -> {FrameOf(e[j]) : j \in 1..n}]
      BY DEF FramesOf
    <3>2. Len(frames) = n
      <4> HIDE DEF frames, n
      <4> QED
        BY <1>1, <3>1, TypedSequence
    <3>3. frames # << >>
      BY <1>4, <3>2
    <3>4. Last(frames) = frames[n]
      BY <3>2 DEF Last
    <3>5. frames[n] = FrameOf(e[n])
      BY <2>1 DEF FramesOf
    <3>6. FrameOf(e[n]).raw = w
      BY <2>1, PacketUnderstood DEF Understood, FrameOf
    <3>7. QED
      BY <3>3, <3>4, <3>5, <3>6
  <2>4. Remainder(bytes, frames) = Slice(bytes, i + l, N)
    BY <2>3 DEF Remainder
  <2>5. /\ Slice(bytes, a, cut[n]) = w /\ cut[n] = a + l /\ cut[n] <= N
        /\ a \in Nat /\ cut[n] \in Nat /\ a + 19 <= cut[n]
    BY <1>1, <2>1, CompleteAtCut, PacketAt, CutsRise, n - 1 < n
  <2> HIDE DEF w, l, a, frames
  <2>6. a \in Places(bytes, w, 0)
    <3>1. a \in 0..(N - l) /\ Slice(bytes, a, a + l) = w
      BY <1>1, <2>2, <2>5
    <3>2. QED
      BY <3>1 DEF Places, l
  <2>7. i \in Places(bytes, w, 0) /\ i <= a
    BY <1>1, <2>2, <2>6, FirstPlace, 0 \in Nat DEF l
  <2> HIDE DEF i
  <2>8. i \in 0..(N - l) /\ Slice(bytes, i, i + l) = w
    BY <2>7 DEF Places, l
  <2>9. i \in Nat /\ i + l <= N /\ i + l \in Nat /\ i <= i + l /\ (i + l) - i = l
    BY <1>1, <2>2, <2>8
  <2>10. \A x \in 1..l : w[x] = bytes[i + x]
    <3> DEFINE j == i + l
    <3>1. i \in Nat /\ j \in Nat /\ i <= j /\ j <= Len(bytes) /\ j - i = l /\ Slice(bytes, i, j) = w
      BY <2>8, <2>9
    <3> HIDE DEF j
    <3>2. \A x \in 1..j - i : Slice(bytes, i, j)[x] = bytes[i + x]
      BY <1>1, <3>1, SliceAt
    <3>3. QED
      BY <3>1, <3>2
  <2>11. Marked(bytes, i)
    <3>1. 1 \in 1..l /\ 2 \in 1..l /\ i + 2 <= N
      BY <1>1, <2>2, <2>9
    <3>2. w[1] = bytes[i + 1] /\ w[2] = bytes[i + 2]
      BY <2>10, <3>1
    <3>3. QED
      BY <2>2, <3>1, <3>2 DEF Marked
  <2>12. PICK k \in 0..n : i = cut[k]
    BY <2>9, <2>11, PrefixPlaces
  <2>13. k # n
    BY <2>5, <2>7, <2>12
  <2> DEFINE j == k + 1
             w2 == Wire[e[j]]
             l2 == Len(w2)
  <2>14. j \in 1..n /\ j - 1 = k /\ j \in 0..n
    BY <1>1, <2>13
  <2> HIDE DEF j
  <2>15. /\ e[j] \in Packets /\ cut[j] = cut[j - 1] + l2
         /\ \A x \in 1..l2 : bytes[cut[j - 1] + x] = w2[x]
    BY <2>14, PacketAt, SMTT(20)
  <2>16. l2 \in Nat /\ l2 >= 19 /\ U16At(w2, 4) = l2 - 6
    BY <2>15, PacketBytes
  <2> HIDE DEF w2, l2
  <2>17. w[5] = w2[5] /\ w[6] = w2[6]
    <3>1. 5 \in 1..l /\ 6 \in 1..l /\ 5 \in 1..l2 /\ 6 \in 1..l2
      BY <2>2, <2>16
    <3>2. w[5] = bytes[i + 5] /\ w[6] = bytes[i + 6]
      BY <2>10, <3>1
    <3>3. bytes[cut[j - 1] + 5] = w2[5] /\ bytes[cut[j - 1] + 6] = w2[6]
      BY <2>15, <3>1
    <3>4. cut[j - 1] = i
      BY <2>12, <2>14
    <3>5. QED
      BY <3>2, <3>3, <3>4
  <2>18. U16At(w, 4) = U16At(w2, 4)
    <3>1. w[4 + 1] = w2[4 + 1] /\ w[4 + 2] = w2[4 + 2]
      BY <2>17
    <3>2. QED
      BY <3>1, SameWord, 4 \in Nat
  <2>19. l = l2
    BY <2>2, <2>16, <2>18
  <2>20. i + l = cut[j]
    BY <2>12, <2>14, <2>15, <2>19
  <2>21. QED
    BY <1>2, <2>4, <2>14, <2>20
<1>5. QED
  BY <1>3, <1>4

\* And so does what is left when the buffer is trimmed: it is never emptied.
LEMMA TrimmedCut ==
  ASSUME NEW bytes, NEW e, NEW cut, Laid(bytes, e, cut), Begun(bytes, cut[Len(e)])
  PROVE  \E k \in 0..Len(e) : Trimmed(bytes) = Slice(bytes, cut[k], Len(bytes))
<1> DEFINE n == Len(e)
           N == Len(bytes)
<1>1. /\ bytes \in Seq(Byte) /\ n \in Nat /\ N \in Nat /\ cut[0] = 0 /\ MaxBuffer \in Nat
      /\ \A k \in 0..n : cut[k] \in Nat /\ cut[k] <= N
  BY LenProperties, PassiveStreamAssumption DEF Laid, PassiveStreamAssumption
<1>2. CASE N <= MaxBuffer
  <2>1. Trimmed(bytes) = bytes
    BY <1>2 DEF Trimmed
  <2>2. bytes = Slice(bytes, cut[0], N)
    BY <1>1, SliceWhole
  <2>3. 0 \in 0..n
    BY <1>1
  <2>4. QED
    BY <2>1, <2>2, <2>3
<1>3. CASE ~ (N <= MaxBuffer)
  <2> DEFINE i == FindBytes(bytes, PREFIX, 1)
  <2>1. n # 0
    <3>1. SUFFICES ASSUME n = 0 PROVE FALSE
      OBVIOUS
    <3>2. cut[n] = 0 /\ N # 0
      BY <1>1, <1>3, <3>1
    <3>3. PICK p \in Packets : N - 0 < Len(Wire[p])
      BY <3>2 DEF Begun
    <3>4. Len(Wire[p]) \in Nat /\ Len(Wire[p]) < MaxBuffer
      BY PacketBytes
    <3>5. QED
      BY <1>1, <1>3, <3>3, <3>4
  <2>2. 1 \in 1..n /\ 1 \in 0..n /\ 0 \in 0..n /\ 1 - 1 = 0
    BY <1>1, <2>1
  <2> DEFINE a == cut[1]
             l == Len(Wire[e[1]])
  <2>3. e[1] \in Packets /\ a = cut[0] + l
    BY <2>2, PacketAt
  <2>4. l \in Nat /\ l >= 19 /\ l < MaxBuffer
    BY <2>3, PacketBytes
  <2>5. a \in Nat /\ a >= 1 /\ a + 2 <= N
    <3>1. a = 0 + l
      BY <1>1, <2>3
    <3> HIDE DEF a, l, N
    <3>2. QED
      BY <1>1, <1>3, <2>4, <3>1
  <2>6. Marked(bytes, a)
    BY <2>2, <2>5, MarkedAt
  <2>7. Len(PREFIX) = 2
    BY DEF PREFIX
  <2>8. a \in Places(bytes, PREFIX, 1)
    <3>1. Slice(bytes, a, a + 2) = PREFIX
      BY <1>1, <2>5, <2>6, SlicePrefix
    <3>2. a \in 1..(N - 2)
      <4> HIDE DEF a, N
      <4> QED
        BY <1>1, <2>5
    <3>3. QED
      BY <2>7, <3>1, <3>2 DEF Places
  <2>9. i \in Places(bytes, PREFIX, 1)
    BY <1>1, <2>7, <2>8, FirstPlace, 1 \in Nat, 2 \in Nat
  <2> HIDE DEF i
  <2>10. i \in 1..(N - 2) /\ Slice(bytes, i, i + 2) = PREFIX
    BY <2>7, <2>9 DEF Places
  <2>11. i \in Nat /\ i > 0
    BY <1>1, <2>10
  <2>12. Marked(bytes, i)
    BY <1>1, <2>10, <2>11, SlicePrefix
  <2>13. Trimmed(bytes) = Slice(bytes, i, N)
    BY <1>3, <2>11 DEF Trimmed, i
  <2>14. PICK k \in 0..n : i = cut[k]
    BY <2>11, <2>12, PrefixPlaces
  <2>15. QED
    BY <2>13, <2>14
<1>4. QED
  BY <1>2, <1>3

\* t are the last packets of e.
SuffixOf(t, e) == \E k \in 0..Len(e) : t = SubSeq(e, k + 1, Len(e))

\* Such a buffer is one that the parser finds the packets of.
LEMMA TrailFacts ==
  ASSUME NEW bytes, NEW e, NEW cut, NEW s \in Seq(Packets), NEW g, Trail(bytes, e, cut, s, g)
  PROVE  Laid(bytes, e, cut) /\ Begun(bytes, cut[Len(e)])
<1>1. Laid(bytes, e, cut) /\ Pending(bytes, cut[Len(e)], s, g)
  BY DEF Trail
<1>2. cut[Len(e)] \in Nat
  BY <1>1, LenProperties, Len(e) \in 0..Len(e) DEF Laid
<1>3. QED
  BY <1>1, <1>2, PendingBegun

\* What is left by _consume_frames() and by trimming is a buffer again, of the
\* last of these packets.
LEMMA RemainderTrail ==
  ASSUME NEW bytes, NEW e, NEW cut, NEW s \in Seq(Packets), NEW g, Trail(bytes, e, cut, s, g)
  PROVE  \E t, c : SuffixOf(t, e) /\ Trail(Remainder(bytes, FindFrames(bytes)), t, c, s, g)
<1>1. Laid(bytes, e, cut) /\ Begun(bytes, cut[Len(e)])
  BY TrailFacts
<1>2. PICK k \in 0..Len(e) :
        Remainder(bytes, FindFrames(bytes)) = Slice(bytes, cut[k], Len(bytes))
  BY <1>1, RemainderCut
<1>3. PICK c : Trail(Slice(bytes, cut[k], Len(bytes)), SubSeq(e, k + 1, Len(e)), c, s, g)
  BY TrailCut
<1>4. SuffixOf(SubSeq(e, k + 1, Len(e)), e)
  BY DEF SuffixOf
<1>5. QED
  BY <1>2, <1>3, <1>4

LEMMA TrimmedTrail ==
  ASSUME NEW bytes, NEW e, NEW cut, NEW s \in Seq(Packets), NEW g, Trail(bytes, e, cut, s, g)
  PROVE  \E t, c : SuffixOf(t, e) /\ Trail(Trimmed(bytes), t, c, s, g)
<1>1. Laid(bytes, e, cut) /\ Begun(bytes, cut[Len(e)])
  BY TrailFacts
<1>2. PICK k \in 0..Len(e) : Trimmed(bytes) = Slice(bytes, cut[k], Len(bytes))
  BY <1>1, TrimmedCut
<1>3. PICK c : Trail(Slice(bytes, cut[k], Len(bytes)), SubSeq(e, k + 1, Len(e)), c, s, g)
  BY TrailCut
<1>4. SuffixOf(SubSeq(e, k + 1, Len(e)), e)
  BY DEF SuffixOf
<1>5. QED
  BY <1>2, <1>3, <1>4

----------------------------------------------------------------------------
(* One piece more of the stream: the packets that it completes join the    *)
(* buffer.                                                                 *)

\* The bytes of the packets s, and where the k-th of them ends.
StreamOf(s) == Upto(s)[Len(s)]
EndOf(s, k) == Len(Upto(s)[k])

\* The packets in the stream.
LEMMA StreamFacts ==
  ASSUME NEW s \in Seq(Packets)
  PROVE  /\ Len(s) \in Nat /\ StreamOf(s) \in Seq(Byte) /\ Len(StreamOf(s)) \in Nat
         /\ EndOf(s, 0) = 0 /\ EndOf(s, Len(s)) = Len(StreamOf(s))
         /\ \A k \in 0..Len(s) : EndOf(s, k) \in Nat
         /\ \A k \in 0..Len(s) : \A j \in 0..k : EndOf(s, j) <= EndOf(s, k)
         /\ \A k \in 1..Len(s) :
              /\ s[k] \in Packets
              /\ EndOf(s, k) = EndOf(s, k - 1) + Len(Wire[s[k]])
              /\ \A x \in 1..Len(Wire[s[k]]) : StreamOf(s)[EndOf(s, k - 1) + x] = Wire[s[k]][x]
<1> DEFINE U == Upto(s)
           n == Len(s)
<1>1. /\ U[0] = <<>>
      /\ \A k \in 1..n : U[k] = U[k - 1] \o Wire[s[k]]
      /\ \A k \in 0..n : Holds(U, s, k)
  BY UptoFacts
<1>2. n \in Nat /\ \A k \in 1..n : s[k] \in Packets
  BY LenProperties, ElementOfSeq
<1>3. n \in 0..n
  BY <1>2
<1>4. U[n] \in Seq(Byte) /\ Len(U[n]) \in Nat
  BY <1>1, <1>3, LenProperties DEF Holds
<1>5. \A k \in 0..n : U[k] \in Seq(Byte) /\ Len(U[k]) \in Nat
  BY <1>1, LenProperties DEF Holds
<1>6. \A k \in 0..n : \A j \in 0..k : Len(U[j]) <= Len(U[k])
  BY <1>1 DEF Holds
<1>7. ASSUME NEW k \in 1..n
      PROVE  /\ Len(U[k]) = Len(U[k - 1]) + Len(Wire[s[k]])
             /\ \A x \in 1..Len(Wire[s[k]]) : U[n][Len(U[k - 1]) + x] = Wire[s[k]][x]
  <2>1. k - 1 \in 0..n /\ s[k] \in Packets
    BY <1>2
  <2>2. U[k - 1] \in Seq(Byte) /\ Wire[s[k]] \in Seq(Byte)
    BY <1>5, <2>1, PacketBytes
  <2>3. U[k] = U[k - 1] \o Wire[s[k]]
    BY <1>1
  <2> HIDE DEF U
  <2>4. Len(U[k]) = Len(U[k - 1]) + Len(Wire[s[k]])
    BY <2>2, <2>3, ConcatProperties
  <2>5. \A x \in 1..Len(Wire[s[k]]) : U[n][Len(U[k - 1]) + x] = Wire[s[k]][x]
    <3>1. Holds(U, s, n)
      BY <1>1, <1>3
    <3>2. QED
      BY <3>1 DEF Holds
  <2>6. QED
    BY <2>4, <2>5
<1>8. Len(U[0]) = 0
  BY <1>1
<1> HIDE DEF U
<1>9. /\ \A k \in 0..n : EndOf(s, k) = Len(U[k])
      /\ StreamOf(s) = U[n]
  BY DEF EndOf, StreamOf, U
<1>10. \A k \in 1..n : k \in 0..n /\ k - 1 \in 0..n
  BY <1>2
<1>11. \A k \in 0..n : \A j \in 0..k : EndOf(s, j) <= EndOf(s, k)
  <2>1. \A k \in 0..n : \A j \in 0..k : j \in 0..n
    BY <1>2
  <2>2. QED
    BY <1>6, <1>9, <2>1
<1>12. 0 \in 0..n
  BY <1>2
<1>13. EndOf(s, 0) = 0 /\ EndOf(s, n) = Len(StreamOf(s))
  BY <1>3, <1>8, <1>9, <1>12
<1>14. ASSUME NEW k \in 1..n
       PROVE  /\ s[k] \in Packets
              /\ EndOf(s, k) = EndOf(s, k - 1) + Len(Wire[s[k]])
              /\ \A x \in 1..Len(Wire[s[k]]) : StreamOf(s)[EndOf(s, k - 1) + x] = Wire[s[k]][x]
  <2>1. EndOf(s, k) = Len(U[k]) /\ EndOf(s, k - 1) = Len(U[k - 1]) /\ StreamOf(s) = U[n]
    BY <1>9, <1>10
  <2>2. QED
    BY <1>2, <1>7, <2>1
<1>15. QED
  BY <1>2, <1>4, <1>5, <1>9, <1>11, <1>13, <1>14

\* From offset b on, bytes holds the first m bytes of stream.
Streams(bytes, b, stream, m) ==
  Len(bytes) = b + m /\ \A x \in 1..m : bytes[b + x] = stream[x]

\* One piece of the stream is added to the buffer.
LEMMA PieceAdded ==
  ASSUME NEW bytes, NEW e, NEW cut, NEW s \in Seq(Packets), NEW g, Trail(bytes, e, cut, s, g),
         NEW size \in Nat, g + size <= Len(StreamOf(s))
  PROVE  LET all == bytes \o Slice(StreamOf(s), g, g + size)
         IN  /\ all \in Seq(Byte) /\ Laid(all, e, cut)
             /\ Streams(all, cut[Len(e)], StreamOf(s), g + size)
<1> DEFINE n == Len(e)
           stream == StreamOf(s)
           d == Slice(stream, g, g + size)
           all == bytes \o d
           b == cut[n]
           L == Len(bytes)
<1>1. /\ bytes \in Seq(Byte) /\ L \in Nat /\ e \in Seq(Packets) /\ n \in Nat
      /\ cut \in [0..n -> Nat] /\ cut[0] = 0 /\ b \in Nat
      /\ \A k \in 0..n : cut[k] \in Nat /\ cut[k] <= L
  <2>1. /\ bytes \in Seq(Byte) /\ e \in Seq(Packets) /\ cut \in [0..n -> Nat] /\ cut[0] = 0
        /\ \A k \in 0..n : cut[k] <= L
    BY DEF Trail, Laid
  <2>2. n \in Nat /\ L \in Nat
    BY <2>1, LenProperties
  <2>3. n \in 0..n
    BY <2>2
  <2>4. QED
    BY <2>1, <2>2, <2>3
<1>2. g \in Nat /\ L = b + g
  BY DEF Trail, Pending
<1>3. stream \in Seq(Byte) /\ Len(stream) \in Nat
  BY StreamFacts
<1>4. d \in Seq(Byte) /\ Len(d) = size /\ \A x \in 1..size : d[x] = stream[g + x]
  <2> DEFINE j == g + size
  <2>1. j \in Nat /\ g <= j /\ j <= Len(stream) /\ j - g = size
    BY <1>2
  <2> HIDE DEF j, stream
  <2>2. /\ Slice(stream, g, j) \in Seq(Byte) /\ Len(Slice(stream, g, j)) = j - g
        /\ \A x \in 1..j - g : Slice(stream, g, j)[x] = stream[g + x]
    BY <1>2, <1>3, <2>1, SliceAt
  <2>3. QED
    BY <2>1, <2>2 DEF j
<1> HIDE DEF d, stream
<1>5. all \in Seq(Byte) /\ Joins(all, bytes, L, d, size)
  BY <1>1, <1>4, JoinedLengths
<1> HIDE DEF all
<1>6. /\ Len(all) = L + size /\ \A i \in 1..L : all[i] = bytes[i]
      /\ \A i \in 1..size : all[L + i] = d[i]
  BY <1>5 DEF Joins
<1>7. Laid(all, e, cut)
  <2>1. \A k \in 0..n : cut[k] <= Len(all)
    BY <1>1, <1>6
  <2>2. \A k \in 1..n : cut[k] = cut[k - 1] + Len(Wire[e[k]])
    BY DEF Trail, Laid
  <2>3. ASSUME NEW k \in 1..n, NEW x \in 1..Len(Wire[e[k]])
        PROVE  all[cut[k - 1] + x] = Wire[e[k]][x]
    <3> DEFINE y == cut[k - 1] + x
               l == Len(Wire[e[k]])
               a == cut[k - 1]
               c == cut[k]
    <3>1. /\ bytes[a + x] = Wire[e[k]][x] /\ a \in Nat
          /\ c = a + l /\ c <= L /\ e[k] \in Packets
      BY PacketAt DEF Trail
    <3>2. l \in Nat
      BY <3>1, PacketBytes
    <3>3. y \in 1..L
      <4> HIDE DEF l, a, c, L
      <4>1. a + x \in 1..L
        BY <1>1, <3>1, <3>2 DEF l
      <4>2. QED
        BY <4>1 DEF a
    <3> HIDE DEF y
    <3>4. all[y] = bytes[y]
      BY <1>6, <3>3
    <3>5. QED
      BY <3>1, <3>4 DEF y
  <2>4. QED
    BY <1>1, <1>5, <2>1, <2>2, <2>3 DEF Laid
<1>8. ASSUME NEW x \in 1..(g + size) PROVE all[b + x] = stream[x]
  <2>1. CASE x <= g
    <3>1. s # << >>
      <4>1. g # 0
        BY <1>2, <2>1
      <4>2. QED
        BY <4>1 DEF Trail, Pending
    <3>2. x \in 1..g
      BY <1>2, <2>1
    <3>3. g < Len(Wire[s[1]]) /\ bytes[b + x] = Wire[s[1]][x]
      BY <3>1, <3>2 DEF Trail, Pending
    <3>4. 1 \in 1..Len(s) /\ 1 - 1 = 0
      <4>1. Len(s) \in Nat /\ Len(s) # 0
        BY <3>1, LenProperties, EmptySeq
      <4>2. QED
        BY <4>1
    <3>5. EndOf(s, 0) = 0 /\ s[1] \in Packets
          /\ \A y \in 1..Len(Wire[s[1]]) : stream[EndOf(s, 0) + y] = Wire[s[1]][y]
      BY <3>4, StreamFacts DEF stream
    <3>6. x \in 1..Len(Wire[s[1]]) /\ 0 + x = x
      <4>1. Len(Wire[s[1]]) \in Nat
        BY <3>5, PacketBytes
      <4>2. QED
        BY <1>2, <3>2, <3>3, <4>1
    <3>7. stream[x] = Wire[s[1]][x]
      BY <3>5, <3>6
    <3>8. b + x \in 1..L
      <4> HIDE DEF b, L
      <4> QED
        BY <1>1, <1>2, <3>2
    <3>9. all[b + x] = bytes[b + x]
      <4> DEFINE y == b + x
      <4>1. y \in 1..L
        BY <3>8
      <4> HIDE DEF y
      <4>2. all[y] = bytes[y]
        BY <1>6, <4>1
      <4>3. QED
        BY <4>2 DEF y
    <3>10. QED
      BY <3>3, <3>7, <3>9
  <2>2. CASE ~ (x <= g)
    <3> DEFINE i == x - g
    <3>1. i \in 1..size /\ g + i = x
      BY <1>2, <2>2
    <3>2. L + i = b + x
      <4> HIDE DEF b, L
      <4> QED
        BY <1>1, <1>2, <3>1
    <3> HIDE DEF i
    <3>3. all[L + i] = d[i] /\ d[i] = stream[g + i]
      BY <1>4, <1>6, <3>1
    <3>4. QED
      BY <3>1, <3>2, <3>3
  <2>3. QED
    BY <2>1, <2>2
<1>9. Streams(all, b, stream, g + size)
  <2>1. Len(all) = b + (g + size)
    <3>1. Len(all) = L + size
      BY <1>6
    <3> HIDE DEF b, L
    <3>2. QED
      BY <1>1, <1>2, <3>1
  <2>2. QED
    BY <1>8, <2>1 DEF Streams
<1>10. QED
  BY <1>5, <1>7, <1>9 DEF all, d, stream

\* A piece of a sequence.
LEMMA SubSeqFacts ==
  ASSUME NEW S, NEW s \in Seq(S), NEW a \in 0..Len(s), NEW b \in 0..Len(s), a <= b
  PROVE  /\ SubSeq(s, a + 1, b) \in Seq(S) /\ Len(SubSeq(s, a + 1, b)) = b - a
         /\ \A i \in 1..(b - a) : SubSeq(s, a + 1, b)[i] = s[a + i]
<1> DEFINE t == SubSeq(s, a + 1, b)
           N == Len(s)
<1>1. N \in Nat /\ \A i \in 1..N : s[i] \in S
  BY LenProperties, ElementOfSeq
<1> HIDE DEF N
<1>2. a \in Nat /\ b \in Nat /\ b <= N /\ a + 1 \in Int /\ b \in Int
  BY <1>1 DEF N
<1>3. \A i \in (a + 1)..b : s[i] \in S
  BY <1>1, <1>2
<1>4. /\ t \in Seq(S) /\ Len(t) = IF a + 1 <= b THEN b - (a + 1) + 1 ELSE 0
      /\ \A i \in 1..b - (a + 1) + 1 : t[i] = s[(a + 1) + i - 1]
  BY <1>2, <1>3, SubSeqProperties
<1> HIDE DEF t
<1>5. Len(t) = b - a
  <2>1. Len(t) = IF a + 1 <= b THEN b - (a + 1) + 1 ELSE 0
    BY <1>4
  <2>2. QED
    BY <1>2, <2>1
<1>6. ASSUME NEW i \in 1..(b - a) PROVE t[i] = s[a + i]
  BY <1>2, <1>4, b - (a + 1) + 1 = b - a, (a + 1) + i - 1 = a + i
<1>7. QED
  BY <1>4, <1>5, <1>6 DEF t

\* The packets of the stream that are now complete belong to the buffer.
LEMMA PacketsAdded ==
  ASSUME NEW all, NEW e, NEW cut, Laid(all, e, cut), NEW s \in Seq(Packets), NEW m \in Nat,
         m <= Len(StreamOf(s)), Streams(all, cut[Len(e)], StreamOf(s), m),
         NEW read \in 0..Len(s), EndOf(s, read) <= m,
         read < Len(s) => EndOf(s, read + 1) > m
  PROVE  \E c : Trail(all, e \o SubSeq(s, 1, read), c, SubSeq(s, read + 1, Len(s)),
                      m - EndOf(s, read))
<1> DEFINE n == Len(e)
           N == Len(all)
           b == cut[n]
           E(k) == EndOf(s, k)
           stream == StreamOf(s)
           done == SubSeq(s, 1, read)
           e2 == e \o done
           rest == SubSeq(s, read + 1, Len(s))
           c == [j \in 0..(n + read) |-> IF j <= n THEN cut[j] ELSE b + E(j - n)]
           g == m - E(read)
<1>1. /\ all \in Seq(Byte) /\ N \in Nat /\ e \in Seq(Packets) /\ n \in Nat /\ cut[0] = 0
      /\ \A k \in 0..n : cut[k] \in Nat /\ cut[k] <= N
      /\ \A k \in 1..n : cut[k] = cut[k - 1] + Len(Wire[e[k]])
      /\ \A k \in 1..n : \A x \in 1..Len(Wire[e[k]]) : all[cut[k - 1] + x] = Wire[e[k]][x]
  BY LenProperties DEF Laid
<1>2. N = b + m /\ \A x \in 1..m : all[b + x] = stream[x]
  BY DEF Streams
<1>3. /\ Len(s) \in Nat /\ Len(stream) \in Nat /\ E(0) = 0 /\ E(Len(s)) = Len(stream)
      /\ \A k \in 0..Len(s) : E(k) \in Nat
      /\ \A k \in 0..Len(s) : \A j \in 0..k : E(j) <= E(k)
      /\ \A k \in 1..Len(s) :
           /\ s[k] \in Packets
           /\ E(k) = E(k - 1) + Len(Wire[s[k]])
           /\ \A x \in 1..Len(Wire[s[k]]) : stream[E(k - 1) + x] = Wire[s[k]][x]
  BY StreamFacts
<1>4. read \in Nat /\ read <= Len(s) /\ E(read) \in Nat /\ b \in Nat /\ n \in 0..n
  BY <1>1, <1>3
<1>5. done \in Seq(Packets) /\ Len(done) = read /\ \A i \in 1..read : done[i] = s[i]
  <2> DEFINE z == 0
  <2>1. z \in 0..Len(s) /\ z <= read /\ z + 1 = 1 /\ read - z = read /\ \A i \in 1..read : z + i = i
    BY <1>3, <1>4
  <2> HIDE DEF z
  <2>2. /\ SubSeq(s, z + 1, read) \in Seq(Packets) /\ Len(SubSeq(s, z + 1, read)) = read - z
        /\ \A i \in 1..(read - z) : SubSeq(s, z + 1, read)[i] = s[z + i]
    <3>1. z \in 0..Len(s) /\ z <= read
      BY <2>1
    <3>2. QED
      BY <3>1, SubSeqFacts
  <2>3. QED
    BY <2>1, <2>2
<1>6. /\ rest \in Seq(Packets) /\ Len(rest) = Len(s) - read
      /\ \A i \in 1..(Len(s) - read) : rest[i] = s[read + i]
  <2>1. Len(s) \in 0..Len(s) /\ read <= Len(s)
    BY <1>3, <1>4
  <2>2. QED
    BY <2>1, SubSeqFacts
<1> HIDE DEF done, rest
<1>7. e2 \in Seq(Packets) /\ Joins(e2, e, n, done, read)
  BY <1>1, <1>5, JoinedLengths
<1> HIDE DEF e2
<1>8. /\ Len(e2) = n + read /\ \A j \in 1..n : e2[j] = e[j]
      /\ \A i \in 1..read : e2[n + i] = s[i]
  BY <1>5, <1>7 DEF Joins
<1> HIDE DEF E, stream
<1>9. \A j \in 0..n : c[j] = cut[j]
  BY <1>1, <1>4
<1>10. ASSUME NEW i \in 0..read PROVE c[n + i] = b + E(i)
  <2>1. CASE i = 0
    <3>1. n + i = n /\ n \in 0..(n + read) /\ n <= n
      BY <1>1, <1>4, <2>1
    <3>2. c[n] = b
      BY <3>1
    <3> HIDE DEF c, b
    <3>3. b = b + 0
      BY <1>4
    <3>4. QED
      BY <1>3, <2>1, <3>1, <3>2, <3>3
  <2>2. CASE i # 0
    <3> DEFINE j == n + i
    <3>1. j \in 0..(n + read) /\ ~ (j <= n) /\ j - n = i
      BY <1>1, <1>4, <2>2
    <3> HIDE DEF j
    <3>2. c[j] = b + E(j - n)
      BY <3>1
    <3>3. QED
      BY <3>1, <3>2 DEF j
  <2>3. QED
    BY <2>1, <2>2
<1>11. \A i \in 0..read : E(i) \in Nat /\ E(i) <= E(read) /\ E(i) <= m
  <2>1. ASSUME NEW i \in 0..read PROVE E(i) \in Nat /\ E(i) <= E(read) /\ E(i) <= m
    <3>1. i \in 0..Len(s) /\ read \in 0..Len(s)
      BY <1>3, <1>4
    <3>2. E(i) \in Nat /\ E(i) <= E(read) /\ E(read) <= m
      BY <1>3, <3>1 DEF E
    <3>3. QED
      BY <1>4, <3>2
  <2>2. QED
    BY <2>1
<1> HIDE DEF c
<1>12. ASSUME NEW j \in 0..(n + read) PROVE c[j] \in Nat /\ c[j] <= N
  <2>1. CASE j <= n
    <3>1. j \in 0..n
      BY <1>1, <2>1
    <3>2. cut[j] \in Nat /\ cut[j] <= N
      BY <1>1, <3>1
    <3>3. c[j] = cut[j]
      BY <1>9, <3>1
    <3>4. QED
      BY <3>2, <3>3
  <2>2. CASE ~ (j <= n)
    <3> DEFINE i == j - n
    <3>1. i \in 0..read /\ n + i = j
      BY <1>1, <1>4, <2>2
    <3> HIDE DEF i
    <3>2. c[j] = b + E(i) /\ E(i) \in Nat /\ E(i) <= m
      BY <1>10, <1>11, <3>1
    <3> HIDE DEF b, N
    <3>3. QED
      BY <1>2, <1>4, <3>2
  <2>3. QED
    BY <2>1, <2>2
<1>13. c \in [0..(n + read) -> Nat]
  <2>1. c = [j \in 0..(n + read) |-> c[j]]
    BY DEF c
  <2>2. QED
    BY <1>12, <2>1
<1>14. c[0] = 0
  BY <1>1, <1>9, 0 \in 0..n
<1>15. ASSUME NEW j \in 1..(n + read)
       PROVE  /\ c[j] = c[j - 1] + Len(Wire[e2[j]])
              /\ \A x \in 1..Len(Wire[e2[j]]) : all[c[j - 1] + x] = Wire[e2[j]][x]
  <2>1. CASE j <= n
    <3>1. j \in 1..n /\ j \in 0..n /\ j - 1 \in 0..n
      BY <1>1, <2>1
    <3>2. c[j] = cut[j] /\ c[j - 1] = cut[j - 1] /\ e2[j] = e[j]
      BY <1>8, <1>9, <3>1
    <3>3. /\ cut[j] = cut[j - 1] + Len(Wire[e[j]])
          /\ \A x \in 1..Len(Wire[e[j]]) : all[cut[j - 1] + x] = Wire[e[j]][x]
      BY <1>1, <3>1
    <3>4. QED
      BY <3>2, <3>3
  <2>2. CASE ~ (j <= n)
    <3> DEFINE i == j - n
               k == i - 1
               l == Len(Wire[s[i]])
    <3>1. i \in 1..read /\ i \in 0..read /\ k \in 0..read /\ i \in 1..Len(s)
          /\ n + i = j /\ n + k = j - 1
      BY <1>1, <1>3, <1>4, <2>2
    <3>2. c[j] = b + E(i) /\ c[j - 1] = b + E(k) /\ e2[j] = s[i]
      BY <1>8, <1>10, <3>1
    <3>3. /\ s[i] \in Packets /\ E(i) = E(k) + l
          /\ \A x \in 1..l : stream[E(k) + x] = Wire[s[i]][x]
      BY <1>3, <3>1
    <3>4. l \in Nat
      BY <3>3, PacketBytes
    <3>5. E(i) \in Nat /\ E(i) <= m /\ E(k) \in Nat
      BY <1>11, <3>1
    <3>6. c[j] = c[j - 1] + l
      <4> DEFINE p == E(i)
                 q == E(k)
      <4>1. p = q + l /\ p \in Nat /\ q \in Nat /\ c[j] = b + p /\ c[j - 1] = b + q
        BY <3>2, <3>3, <3>5
      <4> HIDE DEF p, q, l, b
      <4>2. QED
        BY <1>4, <3>4, <4>1
    <3>7. ASSUME NEW x \in 1..l PROVE all[c[j - 1] + x] = Wire[s[i]][x]
      <4> DEFINE p == E(i)
                 q == E(k)
                 y == q + x
      <4>1. p = q + l /\ p \in Nat /\ q \in Nat /\ p <= m /\ c[j - 1] = b + q
        BY <3>2, <3>3, <3>5
      <4>2. stream[y] = Wire[s[i]][x]
        BY <3>3
      <4> HIDE DEF p, q, l, b, k, i
      <4>3. y \in 1..m /\ c[j - 1] + x = b + y
        BY <1>4, <3>4, <4>1
      <4> HIDE DEF y
      <4>4. all[b + y] = stream[y]
        BY <1>2, <4>3
      <4>5. QED
        BY <4>2, <4>3, <4>4
    <3> HIDE DEF l, i, k
    <3>8. QED
      BY <3>2, <3>6, <3>7 DEF l
  <2>3. QED
    BY <2>1, <2>2
<1>16. Laid(all, e2, c)
  <2> HIDE DEF n, N, b
  <2>1. \A j \in 0..Len(e2) : c[j] <= Len(all)
    BY <1>8, <1>12 DEF N
  <2>2. c \in [0..Len(e2) -> Nat]
    BY <1>8, <1>13
  <2>3. \A j \in 1..Len(e2) : c[j] = c[j - 1] + Len(Wire[e2[j]])
    BY <1>8, <1>15
  <2>4. \A j \in 1..Len(e2) : \A x \in 1..Len(Wire[e2[j]]) : all[c[j - 1] + x] = Wire[e2[j]][x]
    BY <1>8, <1>15
  <2>5. QED
    BY <1>1, <1>7, <1>14, <2>1, <2>2, <2>3, <2>4 DEF Laid
<1>17. Pending(all, c[Len(e2)], rest, g)
  <2>1. read \in 0..read
    BY <1>4
  <2>2. c[Len(e2)] = b + E(read)
    BY <1>8, <1>10, <2>1
  <2>3. E(read) <= m
    BY DEF E
  <2>4. g \in Nat /\ N = (b + E(read)) + g
    <3> DEFINE q == E(read)
    <3>1. q \in Nat /\ q <= m /\ g = m - q
      BY <1>4, <2>3
    <3> HIDE DEF q, g, b, N
    <3>2. g \in Nat /\ N = (b + q) + g
      BY <1>2, <1>4, <3>1
    <3>3. QED
      BY <3>2 DEF q
  <2>5. ASSUME rest = << >> PROVE g = 0
    <3>1. Len(s) = read
      <4>1. Len(rest) = 0
        BY <2>5
      <4>2. QED
        BY <1>3, <1>4, <1>6, <4>1
    <3>2. E(read) = Len(stream)
      BY <1>3, <3>1
    <3>3. m <= Len(stream)
      BY DEF stream
    <3>4. QED
      BY <1>4, <2>3, <3>2, <3>3
  <2>6. ASSUME rest # << >>
        PROVE  g < Len(Wire[rest[1]]) /\ \A x \in 1..g : all[(b + E(read)) + x] = Wire[rest[1]][x]
    <3> DEFINE i == read + 1
               l == Len(Wire[s[i]])
               q == E(read)
               p == E(i)
    <3>1. read < Len(s)
      <4>1. Len(rest) # 0
        BY <1>6, <2>6, EmptySeq
      <4>2. QED
        BY <1>3, <1>4, <1>6, <4>1
    <3>2. rest[1] = s[i]
      BY <1>3, <1>4, <1>6, <3>1, 1 \in 1..(Len(s) - read)
    <3>3. i \in 1..Len(s) /\ i - 1 = read /\ i \in 0..Len(s)
      BY <1>3, <1>4, <3>1
    <3>4. p > m
      BY <3>1 DEF E
    <3> HIDE DEF i
    <3>5. s[i] \in Packets /\ p = q + l /\ \A x \in 1..l : stream[q + x] = Wire[s[i]][x]
      BY <1>3, <3>3
    <3>6. l \in Nat
      BY <3>5, PacketBytes
    <3>7. q \in Nat /\ p \in Nat
      BY <1>3, <1>4, <3>3
    <3>8. g = m - q
      OBVIOUS
    <3> HIDE DEF l, q, p, g
    <3>9. g < l /\ g \in Nat
      BY <2>4, <3>4, <3>5, <3>6, <3>7, <3>8
    <3>10. ASSUME NEW x \in 1..g PROVE all[(b + q) + x] = Wire[s[i]][x]
      <4> DEFINE y == q + x
      <4>1. x \in 1..l /\ y \in 1..m
        BY <3>6, <3>7, <3>8, <3>9
      <4>2. b + y = (b + q) + x
        <5> HIDE DEF b
        <5> QED
          BY <1>4, <3>7, <3>9
      <4>3. stream[y] = Wire[s[i]][x]
        BY <3>5, <4>1
      <4> HIDE DEF y, b
      <4>4. all[b + y] = stream[y]
        BY <1>2, <4>1
      <4>5. QED
        BY <4>2, <4>3, <4>4
    <3>11. QED
      BY <3>2, <3>9, <3>10 DEF l, q
  <2> HIDE DEF g, b
  <2>7. Pending(all, b + E(read), rest, g)
    BY <2>4, <2>5, <2>6 DEF Pending
  <2>8. QED
    BY <2>2, <2>7
<1>18. Trail(all, e2, c, rest, g)
  BY <1>16, <1>17 DEF Trail
<1>19. QED
  BY <1>18 DEF e2, done, rest, g, E

----------------------------------------------------------------------------
(* The collector's view: reports one after the other, and reports that     *)
(* come again.                                                             *)

\* The greatest index of a bounded set.
LEMMA LatestIs ==
  ASSUME NEW n \in Nat, NEW I, I \subseteq 1..n, NEW k \in I, \A j \in I : j <= k
  PROVE  Latest(I) = k
<1>1. Latest(I) \in I /\ \A j \in I : j <= Latest(I)
  <2>1. \E i \in I : \A j \in I : j <= i
    OBVIOUS
  <2>2. QED
    BY <2>1 DEF Latest
<1> DEFINE l == Latest(I)
<1>2. l \in I /\ k <= l
  BY <1>1
<1> HIDE DEF l
<1>3. l <= k
  BY <1>2
<1>4. l \in 1..n /\ k \in 1..n
  BY <1>2
<1>5. l = k
  BY <1>2, <1>3, <1>4
<1>6. QED
  BY <1>5 DEF l

LEMMA LatestExists ==
  ASSUME NEW n \in Nat, NEW I, I \subseteq 1..n, I # {}
  PROVE  Latest(I) \in I /\ \A j \in I : j <= Latest(I)
<1> DEFINE H == {n - i : i \in I}
<1>1. H \subseteq Nat /\ H # {}
  <2>1. ASSUME NEW i \in I PROVE n - i \in Nat
    <3>1. i \in 1..n
      OBVIOUS
    <3>2. QED
      BY <3>1
  <2>2. PICK i : i \in I
    OBVIOUS
  <2>3. n - i \in H
    BY <2>2
  <2>4. QED
    BY <2>1, <2>3
<1>2. PICK h \in H : \A j \in H : h <= j
  <2> HIDE DEF H
  <2> QED
    BY <1>1, Least
<1>3. PICK i \in I : h = n - i
  BY <1>2
<1>4. ASSUME NEW j \in I PROVE j <= i
  <2>1. n - j \in H
    OBVIOUS
  <2>2. h <= n - j
    BY <1>2, <2>1
  <2>3. i \in 1..n /\ j \in 1..n
    OBVIOUS
  <2>4. QED
    BY <1>3, <2>2, <2>3
<1>5. Latest(I) = i
  BY <1>4, LatestIs
<1>6. QED
  BY <1>4, <1>5

\* A register is carried by some report if its carriers are not empty.
LEMMA CarriedBy ==
  ASSUME NEW s, NEW function, NEW r
  PROVE  r \in Carried(s, function) <=> Carriers(s, function, r) # {}
BY DEF Carried, Carriers

\* The value that the reports s leave in register r.
ShownValue(g, s, function, r) ==
  IF r \in Carried(s, function)
  THEN ValueAt(s[Latest(Carriers(s, function, r))], r)
  ELSE g[r]

LEMMA ShownFunction ==
  ASSUME NEW g, NEW s, NEW function
  PROVE  Shown(g, s, function) =
           [r \in Carried(s, function) \cup DOMAIN g |-> ShownValue(g, s, function, r)]
BY DEF Shown, ShownValue

LEMMA ShownIs ==
  ASSUME NEW g, NEW s, NEW function
  PROVE  /\ DOMAIN Shown(g, s, function) = Carried(s, function) \cup DOMAIN g
         /\ \A r \in Carried(s, function) \cup DOMAIN g :
              Shown(g, s, function)[r] = ShownValue(g, s, function, r)
<1>1. Shown(g, s, function) =
        [r \in Carried(s, function) \cup DOMAIN g |-> ShownValue(g, s, function, r)]
  BY ShownFunction
<1>2. QED
  BY <1>1

\* The carriers of a register in two batches.
LEMMA CarriersJoined ==
  ASSUME NEW S, NEW s \in Seq(S), NEW t \in Seq(S), NEW function, NEW r
  PROVE  /\ \A i \in 1..Len(s) : i \in Carriers(s \o t, function, r) <=> i \in Carriers(s, function, r)
         /\ \A i \in 1..Len(t) :
              Len(s) + i \in Carriers(s \o t, function, r) <=> i \in Carriers(t, function, r)
         /\ \A k \in Carriers(s \o t, function, r) :
              k \in Carriers(s, function, r) \/ k - Len(s) \in Carriers(t, function, r)
         /\ Carriers(s \o t, function, r) \subseteq 1..(Len(s) + Len(t))
<1> DEFINE u == s \o t
           m == Len(s)
           n == Len(t)
           Has(x) == x.function = function /\ r \in Span(x)
<1>1. m \in Nat /\ n \in Nat
  BY LenProperties
<1>2. u \in Seq(S) /\ Joins(u, s, m, t, n)
  BY JoinedOf
<1> HIDE DEF u, m, n
<1>3. /\ Len(u) = m + n /\ \A i \in 1..m : u[i] = s[i]
      /\ \A i \in 1..n : u[m + i] = t[i]
  BY <1>2 DEF Joins
<1>4. /\ \A i : i \in Carriers(u, function, r) <=> i \in 1..(m + n) /\ Has(u[i])
      /\ \A i : i \in Carriers(s, function, r) <=> i \in 1..m /\ Has(s[i])
      /\ \A i : i \in Carriers(t, function, r) <=> i \in 1..n /\ Has(t[i])
  BY <1>3 DEF Carriers, m, n
<1> HIDE DEF Has
<1>5. ASSUME NEW i \in 1..m PROVE i \in Carriers(u, function, r) <=> i \in Carriers(s, function, r)
  <2>1. i \in 1..(m + n)
    BY <1>1
  <2>2. u[i] = s[i]
    BY <1>3
  <2>3. QED
    BY <1>4, <2>1, <2>2
<1>6. ASSUME NEW i \in 1..n PROVE m + i \in Carriers(u, function, r) <=> i \in Carriers(t, function, r)
  <2>1. m + i \in 1..(m + n)
    BY <1>1
  <2>2. u[m + i] = t[i]
    BY <1>3
  <2>3. QED
    BY <1>4, <2>1, <2>2
<1>7. ASSUME NEW k \in Carriers(u, function, r)
      PROVE  k \in Carriers(s, function, r) \/ k - m \in Carriers(t, function, r)
  <2>1. k \in 1..(m + n)
    BY <1>4
  <2>2. CASE k \in 1..m
    BY <1>5, <2>2
  <2>3. CASE k \notin 1..m
    <3> DEFINE i == k - m
    <3>1. i \in 1..n /\ m + i = k
      BY <1>1, <2>1, <2>3
    <3> HIDE DEF i
    <3>2. i \in Carriers(t, function, r)
      BY <1>6, <3>1
    <3>3. QED
      BY <3>2 DEF i
  <2>4. QED
    BY <2>2, <2>3
<1>8. Carriers(u, function, r) \subseteq 1..(m + n)
  BY <1>4
<1>9. QED
  BY <1>5, <1>6, <1>7, <1>8 DEF u, m, n

\* Registers after two batches of reports are those after both as one.
LEMMA ShownJoined ==
  ASSUME NEW S, NEW s \in Seq(S), NEW t \in Seq(S), NEW function, NEW g
  PROVE  Shown(Shown(g, s, function), t, function) = Shown(g, s \o t, function)
<1> DEFINE u == s \o t
           m == Len(s)
           n == Len(t)
           gs == Shown(g, s, function)
           C(x, r) == Carriers(x, function, r)
           D(x) == Carried(x, function)
<1>1. m \in Nat /\ n \in Nat
  BY LenProperties
<1>2. Joins(u, s, m, t, n)
  BY JoinedOf
<1>3. /\ \A i \in 1..m : u[i] = s[i]
      /\ \A i \in 1..n : u[m + i] = t[i]
  BY <1>2 DEF Joins
<1>4. ASSUME NEW r
      PROVE  /\ \A i \in 1..m : i \in C(u, r) <=> i \in C(s, r)
             /\ \A i \in 1..n : m + i \in C(u, r) <=> i \in C(t, r)
             /\ \A k \in C(u, r) : k \in C(s, r) \/ k - m \in C(t, r)
             /\ C(u, r) \subseteq 1..(m + n)
             /\ C(s, r) \subseteq 1..m /\ C(t, r) \subseteq 1..n
  <2>1. C(s, r) \subseteq 1..m /\ C(t, r) \subseteq 1..n
    BY DEF Carriers
  <2>2. QED
    BY <2>1, CarriersJoined
<1>5. \A x, r : r \in D(x) <=> C(x, r) # {}
  BY CarriedBy
<1> HIDE DEF u, m, n, C, D
<1>6. ASSUME NEW r PROVE r \in D(u) <=> r \in D(s) \/ r \in D(t)
  <2>1. ASSUME NEW i \in C(s, r) PROVE C(u, r) # {}
    BY <1>4, <2>1
  <2>2. ASSUME NEW i \in C(t, r) PROVE C(u, r) # {}
    <3>1. m + i \in C(u, r)
      BY <1>4
    <3>2. QED
      BY <3>1
  <2>3. ASSUME NEW k \in C(u, r) PROVE C(s, r) # {} \/ C(t, r) # {}
    BY <1>4
  <2>4. QED
    BY <1>5, <2>1, <2>2, <2>3
<1>7. ASSUME NEW r \in D(t) PROVE ShownValue(gs, t, function, r) = ShownValue(g, u, function, r)
  <2> DEFINE k == Latest(C(t, r))
  <2>1. k \in C(t, r) /\ \A j \in C(t, r) : j <= k
    <3>1. C(t, r) # {} /\ C(t, r) \subseteq 1..n
      BY <1>4, <1>5
    <3>2. QED
      BY <1>1, <3>1, LatestExists
  <2> HIDE DEF k
  <2>2. k \in 1..n /\ m + k \in C(u, r) /\ u[m + k] = t[k]
    BY <1>3, <1>4, <2>1
  <2>3. ASSUME NEW j \in C(u, r) PROVE j <= m + k
    <3>1. CASE j \in C(s, r)
      <4>1. j \in 1..m
        BY <1>4, <3>1
      <4>2. QED
        BY <1>1, <2>2, <4>1
    <3>2. CASE j - m \in C(t, r)
      <4>1. j - m <= k /\ j \in 1..(m + n)
        BY <1>4, <2>1, <3>2
      <4>2. QED
        BY <1>1, <2>2, <4>1
    <3>3. QED
      BY <1>4, <3>1, <3>2
  <2>4. Latest(C(u, r)) = m + k
    <3>1. m + n \in Nat /\ C(u, r) \subseteq 1..(m + n)
      BY <1>1, <1>4
    <3>2. QED
      BY <2>2, <2>3, <3>1, LatestIs
  <2>5. r \in D(u)
    BY <1>6
  <2>6. ShownValue(gs, t, function, r) = ValueAt(t[k], r)
    BY DEF ShownValue, k, C, D
  <2>7. ShownValue(g, u, function, r) = ValueAt(u[Latest(C(u, r))], r)
    BY <2>5 DEF ShownValue, C, D
  <2>8. QED
    BY <2>2, <2>4, <2>6, <2>7
<1>8. ASSUME NEW r, r \notin D(t), r \in D(s) PROVE ShownValue(gs, t, function, r) = ShownValue(g, u, function, r)
  <2> DEFINE k == Latest(C(s, r))
  <2>1. k \in C(s, r) /\ \A j \in C(s, r) : j <= k
    <3>1. C(s, r) # {} /\ C(s, r) \subseteq 1..m
      BY <1>4, <1>5, <1>8
    <3>2. QED
      BY <1>1, <3>1, LatestExists
  <2> HIDE DEF k
  <2>2. k \in 1..m /\ k \in C(u, r) /\ u[k] = s[k]
    BY <1>3, <1>4, <2>1
  <2>3. \A j \in C(u, r) : j <= k
    <3>1. C(t, r) = {}
      BY <1>5, <1>8
    <3>2. QED
      BY <1>4, <2>1, <3>1
  <2>4. Latest(C(u, r)) = k
    <3>1. m + n \in Nat /\ C(u, r) \subseteq 1..(m + n)
      BY <1>1, <1>4
    <3>2. QED
      BY <2>2, <2>3, <3>1, LatestIs
  <2>5. r \in D(u)
    BY <1>6, <1>8
  <2>6. ShownValue(gs, t, function, r) = ShownValue(g, s, function, r)
    <3>1. gs[r] = ShownValue(g, s, function, r)
      BY <1>8, ShownIs DEF D
    <3>2. ShownValue(gs, t, function, r) = gs[r]
      BY <1>8 DEF ShownValue, D
    <3>3. QED
      BY <3>1, <3>2
  <2>7. ShownValue(g, s, function, r) = ValueAt(s[k], r)
    BY <1>8 DEF ShownValue, k, C, D
  <2>8. ShownValue(g, u, function, r) = ValueAt(u[Latest(C(u, r))], r)
    BY <2>5 DEF ShownValue, C, D
  <2>9. QED
    BY <2>2, <2>4, <2>6, <2>7, <2>8
<1>9. ASSUME NEW r \in DOMAIN g, r \notin D(t), r \notin D(s)
      PROVE  ShownValue(gs, t, function, r) = ShownValue(g, u, function, r)
  <2>1. r \notin D(u)
    BY <1>6, <1>9
  <2>2. ShownValue(gs, t, function, r) = gs[r]
    BY <1>9 DEF ShownValue, D
  <2>3. gs[r] = ShownValue(g, s, function, r)
    BY ShownIs
  <2>4. ShownValue(g, s, function, r) = g[r]
    BY <1>9 DEF ShownValue, D
  <2>5. ShownValue(g, u, function, r) = g[r]
    BY <2>1 DEF ShownValue, D
  <2>6. QED
    BY <2>2, <2>3, <2>4, <2>5
<1>10. DOMAIN gs = D(s) \cup DOMAIN g
  BY ShownIs DEF D
<1>11. D(t) \cup DOMAIN gs = D(u) \cup DOMAIN g
  BY <1>6, <1>10
<1>12. \A r \in D(t) \cup DOMAIN gs : ShownValue(gs, t, function, r) = ShownValue(g, u, function, r)
  BY <1>7, <1>8, <1>9, <1>10
<1> HIDE DEF gs
<1>13. Shown(gs, t, function) = [r \in D(t) \cup DOMAIN gs |-> ShownValue(gs, t, function, r)]
  BY ShownFunction DEF D
<1>14. Shown(g, u, function) = [r \in D(u) \cup DOMAIN g |-> ShownValue(g, u, function, r)]
  BY ShownFunction DEF D
<1>15. Shown(gs, t, function) = Shown(g, u, function)
  BY <1>11, <1>12, <1>13, <1>14
<1>16. QED
  BY <1>15 DEF gs, u

\* A batch that comes again changes no register.
LEMMA ShownTwice ==
  ASSUME NEW t, NEW function, NEW g
  PROVE  Shown(Shown(g, t, function), t, function) = Shown(g, t, function)
<1> DEFINE gs == Shown(g, t, function)
           D == Carried(t, function)
<1>1. DOMAIN gs = D \cup DOMAIN g
  BY ShownIs, Zenon
<1>2. \A r \in D \cup DOMAIN g : gs[r] = ShownValue(g, t, function, r)
  BY ShownIs, Zenon
<1>3. gs = [r \in D \cup DOMAIN g |-> ShownValue(g, t, function, r)]
  BY ShownFunction
<1> HIDE DEF gs
<1>4. Shown(gs, t, function) = [r \in D \cup DOMAIN gs |-> ShownValue(gs, t, function, r)]
  BY ShownFunction
<1>5. ASSUME NEW r \in D \cup DOMAIN g
      PROVE  ShownValue(gs, t, function, r) = ShownValue(g, t, function, r)
  <2>1. CASE r \in D
    BY <2>1 DEF ShownValue
  <2>2. CASE r \notin D
    <3>1. ShownValue(gs, t, function, r) = gs[r]
      BY <2>2 DEF ShownValue
    <3>2. QED
      BY <1>2, <3>1
  <2>3. QED
    BY <2>1, <2>2
<1>6. D \cup DOMAIN gs = D \cup DOMAIN g
  BY <1>1
<1> HIDE DEF D
<1>7. Shown(gs, t, function) = gs
  BY <1>3, <1>4, <1>5, <1>6
<1>8. QED
  BY <1>7 DEF gs

LEMMA ViewParts ==
  ASSUME NEW v, NEW s
  PROVE  /\ After(v, s).input = Shown(v.input, s, 4)
         /\ After(v, s).hold = Shown(v.hold, s, 3)
         /\ After(v, s).last = (IF s = << >> THEN v.last ELSE s[Len(s)])
BY DEF After

\* Two batches of reports one after the other are one batch.
LEMMA AfterJoined ==
  ASSUME NEW S, NEW s \in Seq(S), NEW t \in Seq(S), NEW v
  PROVE  After(After(v, s), t) = After(v, s \o t)
<1> DEFINE w == After(v, s)
           u == s \o t
           m == Len(s)
           n == Len(t)
<1>1. /\ w.input = Shown(v.input, s, 4) /\ w.hold = Shown(v.hold, s, 3)
      /\ w.last = (IF s = << >> THEN v.last ELSE s[m])
  BY ViewParts
<1>2. /\ Shown(Shown(v.input, s, 4), t, 4) = Shown(v.input, u, 4)
      /\ Shown(Shown(v.hold, s, 3), t, 3) = Shown(v.hold, u, 3)
  BY ShownJoined
<1>3. u \in Seq(S) /\ Joins(u, s, m, t, n)
  BY JoinedOf
<1>4. m \in Nat /\ n \in Nat /\ (s = << >> <=> m = 0) /\ (t = << >> <=> n = 0)
  BY LenProperties, EmptySeq
<1>5. u = << >> <=> Len(u) = 0
  BY <1>3, EmptySeq
<1> HIDE DEF w, u, m, n
<1>6. Len(u) = m + n
  BY <1>3 DEF Joins
<1>7. (IF t = << >> THEN w.last ELSE t[n]) = (IF u = << >> THEN v.last ELSE u[m + n])
  <2>1. CASE n = 0 /\ m = 0
    BY <1>1, <1>4, <1>5, <1>6, <2>1
  <2>2. CASE n = 0 /\ m # 0
    <3>1. u[m] = s[m]
      <4>1. m \in 1..m
        BY <1>4, <2>2
      <4>2. QED
        BY <1>3, <4>1 DEF Joins
    <3>2. m + n = m /\ u # << >> /\ t = << >> /\ s # << >>
      BY <1>4, <1>5, <1>6, <2>2
    <3>3. QED
      BY <1>1, <3>1, <3>2
  <2>3. CASE n # 0
    <3>1. u[m + n] = t[n]
      <4>1. n \in 1..n
        BY <1>4, <2>3
      <4>2. QED
        BY <1>3, <4>1 DEF Joins
    <3>2. u # << >> /\ t # << >>
      BY <1>4, <1>5, <1>6, <2>3
    <3>3. QED
      BY <3>1, <3>2
  <2>4. QED
    BY <1>4, <2>1, <2>2, <2>3
<1>8. After(w, t) = [input |-> Shown(w.input, t, 4), hold |-> Shown(w.hold, t, 3),
                     last |-> IF t = << >> THEN w.last ELSE t[n]]
  BY DEF After, n
<1>9. After(v, u) = [input |-> Shown(v.input, u, 4), hold |-> Shown(v.hold, u, 3),
                     last |-> IF u = << >> THEN v.last ELSE u[m + n]]
  BY <1>6 DEF After
<1>10. After(w, t) = After(v, u)
  BY <1>1, <1>2, <1>7, <1>8, <1>9
<1>11. QED
  BY <1>10 DEF w, u

\* A batch that comes again changes nothing.
LEMMA AfterTwice ==
  ASSUME NEW t, NEW v
  PROVE  After(After(v, t), t) = After(v, t)
<1> DEFINE w == After(v, t)
<1>1. /\ w.input = Shown(v.input, t, 4) /\ w.hold = Shown(v.hold, t, 3)
      /\ w.last = (IF t = << >> THEN v.last ELSE t[Len(t)])
  BY ViewParts
<1>2. w = [input |-> Shown(v.input, t, 4), hold |-> Shown(v.hold, t, 3),
           last |-> IF t = << >> THEN v.last ELSE t[Len(t)]]
  BY DEF After
<1> HIDE DEF w
<1>3. After(w, t) = [input |-> Shown(w.input, t, 4), hold |-> Shown(w.hold, t, 3),
                     last |-> IF t = << >> THEN w.last ELSE t[Len(t)]]
  BY DEF After
<1>4. Shown(w.input, t, 4) = w.input /\ Shown(w.hold, t, 3) = w.hold
  BY <1>1, ShownTwice
<1>5. (IF t = << >> THEN w.last ELSE t[Len(t)]) = w.last
  BY <1>1
<1>6. After(w, t) = w
  BY <1>1, <1>2, <1>3, <1>4, <1>5
<1>7. QED
  BY <1>6 DEF w

\* Nothing would change if these reports came again.
Settled(v, s) == After(v, s) = v

\* What is settled for a batch is settled for the end of it.
LEMMA SettledAfter ==
  ASSUME NEW S, NEW s \in Seq(S), NEW t \in Seq(S), NEW v, Settled(v, s \o t)
  PROVE  Settled(v, t)
<1> DEFINE w == After(v, s)
<1>1. v = After(w, t)
  BY AfterJoined DEF Settled
<1> HIDE DEF w
<1>2. After(After(w, t), t) = After(w, t)
  BY AfterTwice
<1>3. QED
  BY <1>1, <1>2 DEF Settled

\* A view, whose registers are functions.
IsView(v) ==
  /\ v = [input |-> v.input, hold |-> v.hold, last |-> v.last]
  /\ v.input = [r \in DOMAIN v.input |-> v.input[r]]
  /\ v.hold = [r \in DOMAIN v.hold |-> v.hold[r]]

LEMMA ShownNothing ==
  ASSUME NEW g, g = [r \in DOMAIN g |-> g[r]], NEW s, NEW function, Carried(s, function) = {}
  PROVE  Shown(g, s, function) = g
<1>1. Shown(g, s, function) = [r \in DOMAIN g |-> g[r]]
  BY DEF Shown
<1>2. QED
  BY <1>1, Zenon

\* No report, no change.
LEMMA AfterNothing ==
  ASSUME NEW v, IsView(v)
  PROVE  After(v, << >>) = v
<1>1. Carried(<< >>, 4) = {} /\ Carried(<< >>, 3) = {}
  BY DEF Carried
<1>2. Shown(v.input, << >>, 4) = v.input
  BY <1>1, ShownNothing DEF IsView
<1>3. Shown(v.hold, << >>, 3) = v.hold
  BY <1>1, ShownNothing DEF IsView
<1>4. After(v, << >>) = [input |-> v.input, hold |-> v.hold, last |-> v.last]
  BY <1>2, <1>3 DEF After
<1>5. QED
  BY <1>4 DEF IsView

\* What a reader sees of packets, and what the frames found report.
Seen(ps) == [i \in 1..Len(ps) |-> Delivery!Visible(ps[i])]
Reports(frames) == [i \in 1..Len(frames) |-> Reported(frames[i])]
Sights == {Delivery!Visible(p) : p \in Packets}

\* Reports of packets, and those of two batches.
LEMMA SeenType ==
  ASSUME NEW ps \in Seq(Packets)
  PROVE  /\ Seen(ps) \in Seq(Sights) /\ Len(Seen(ps)) = Len(ps) /\ Len(ps) \in Nat
         /\ \A i \in 1..Len(ps) : Seen(ps)[i] = Delivery!Visible(ps[i])
<1>1. Len(ps) \in Nat /\ \A i \in 1..Len(ps) : ps[i] \in Packets
  BY LenProperties, ElementOfSeq
<1>2. \A i \in 1..Len(ps) : Delivery!Visible(ps[i]) \in Sights
  BY <1>1 DEF Sights
<1>3. Seen(ps) \in [1..Len(ps) -> Sights]
  BY <1>2 DEF Seen
<1>4. \A i \in 1..Len(ps) : Seen(ps)[i] = Delivery!Visible(ps[i])
  BY DEF Seen
<1> HIDE DEF Sights
<1>5. QED
  BY <1>1, <1>3, <1>4, TypedSequence

LEMMA SeenJoined ==
  ASSUME NEW s \in Seq(Packets), NEW t \in Seq(Packets)
  PROVE  Seen(s \o t) = Seen(s) \o Seen(t)
<1> DEFINE u == s \o t
           m == Len(s)
           n == Len(t)
           a == Seen(s)
           b == Seen(t)
           c == Seen(u)
           w == a \o b
<1>1. u \in Seq(Packets) /\ Joins(u, s, m, t, n)
  BY JoinedOf
<1>2. /\ a \in Seq(Sights) /\ Len(a) = m /\ m \in Nat
      /\ \A i \in 1..m : a[i] = Delivery!Visible(s[i])
  BY SeenType
<1>3. /\ b \in Seq(Sights) /\ Len(b) = n /\ n \in Nat
      /\ \A i \in 1..n : b[i] = Delivery!Visible(t[i])
  BY SeenType
<1>4. /\ c \in Seq(Sights) /\ Len(c) = Len(u)
      /\ \A i \in 1..Len(u) : c[i] = Delivery!Visible(u[i])
  BY <1>1, SeenType
<1>5. w \in Seq(Sights) /\ Joins(w, a, m, b, n)
  BY <1>2, <1>3, JoinedOf
<1> HIDE DEF u, m, n, a, b, c, w
<1>6. Len(u) = m + n /\ Len(w) = m + n
  BY <1>1, <1>5 DEF Joins
<1>7. ASSUME NEW i \in 1..(m + n) PROVE c[i] = w[i]
  <2>1. c[i] = Delivery!Visible(u[i])
    BY <1>4, <1>6
  <2>2. CASE i \in 1..m
    <3>1. u[i] = s[i] /\ w[i] = a[i]
      BY <1>1, <1>5, <2>2 DEF Joins
    <3>2. QED
      BY <1>2, <2>1, <2>2, <3>1
  <2>3. CASE i \notin 1..m
    <3> DEFINE j == i - m
    <3>1. j \in 1..n /\ i = m + j
      BY <1>2, <1>3, <2>3
    <3> HIDE DEF j
    <3>2. u[m + j] = t[j] /\ w[m + j] = b[j]
      BY <1>1, <1>5, <3>1 DEF Joins
    <3>3. b[j] = Delivery!Visible(t[j])
      BY <1>3, <3>1
    <3>4. QED
      BY <2>1, <3>1, <3>2, <3>3
  <2>4. QED
    BY <2>2, <2>3
<1>8. c = w
  BY <1>4, <1>5, <1>6, <1>7, SeqEqual
<1>9. QED
  BY <1>8 DEF c, w, u, a, b

\* A suffix joined to what stands before it.
LEMMA SuffixJoined ==
  ASSUME NEW e \in Seq(Packets), NEW t, SuffixOf(t, e)
  PROVE  t \in Seq(Packets) /\ \E s \in Seq(Packets) : e = s \o t
<1> DEFINE n == Len(e)
<1>1. PICK k \in 0..n : t = SubSeq(e, k + 1, n)
  BY DEF SuffixOf
<1>2. n \in Nat
  BY LenProperties
<1> DEFINE s == SubSeq(e, 1, k)
           w == s \o t
<1>3. t \in Seq(Packets) /\ Len(t) = n - k /\ \A i \in 1..(n - k) : t[i] = e[k + i]
  <2>1. n \in 0..n /\ k <= n
    BY <1>2
  <2>2. QED
    BY <1>1, <2>1, SubSeqFacts
<1>4. s \in Seq(Packets) /\ Len(s) = k /\ \A i \in 1..k : s[i] = e[i]
  <2> DEFINE z == 0
  <2>1. z \in 0..n /\ z <= k /\ z + 1 = 1 /\ k - z = k /\ \A i \in 1..k : z + i = i
    BY <1>2
  <2> HIDE DEF z
  <2>2. /\ SubSeq(e, z + 1, k) \in Seq(Packets) /\ Len(SubSeq(e, z + 1, k)) = k - z
        /\ \A i \in 1..(k - z) : SubSeq(e, z + 1, k)[i] = e[z + i]
    BY <2>1, SubSeqFacts
  <2>3. QED
    BY <2>1, <2>2
<1>5. w \in Seq(Packets) /\ Joins(w, s, k, t, n - k)
  BY <1>3, <1>4, JoinedOf
<1> HIDE DEF n, s, w
<1>6. Len(w) = n
  BY <1>2, <1>5 DEF Joins
<1>7. ASSUME NEW i \in 1..n PROVE w[i] = e[i]
  <2>1. CASE i \in 1..k
    BY <1>4, <1>5, <2>1 DEF Joins
  <2>2. CASE i \notin 1..k
    <3> DEFINE j == i - k
    <3>1. j \in 1..(n - k) /\ i = k + j
      BY <1>2, <2>2
    <3> HIDE DEF j
    <3>2. w[k + j] = t[j] /\ t[j] = e[k + j]
      BY <1>3, <1>5, <3>1 DEF Joins
    <3>3. QED
      BY <3>1, <3>2
  <2>3. QED
    BY <2>1, <2>2
<1>8. e = w
  BY <1>5, <1>6, <1>7, SeqEqual DEF n
<1>9. QED
  BY <1>3, <1>4, <1>8 DEF w

\* A buffer that loses its first packets stays settled.
LEMMA SettledSuffix ==
  ASSUME NEW e \in Seq(Packets), NEW t, SuffixOf(t, e), NEW v, Settled(v, Seen(e))
  PROVE  Settled(v, Seen(t))
<1>1. t \in Seq(Packets)
  BY SuffixJoined
<1>2. PICK s \in Seq(Packets) : e = s \o t
  BY SuffixJoined
<1>3. Settled(v, Seen(s) \o Seen(t))
  BY <1>1, <1>2, SeenJoined
<1>4. Seen(s) \in Seq(Sights) /\ Seen(t) \in Seq(Sights)
  BY <1>1, SeenType
<1>5. QED
  BY <1>3, <1>4, SettledAfter

\* The frames of packets report what their readers see of them.
LEMMA ReportsOfFrames ==
  ASSUME NEW ps \in Seq(Packets)
  PROVE  Reports(FramesOf(ps)) = Seen(ps)
<1> DEFINE n == Len(ps)
           fs == FramesOf(ps)
<1>1. n \in Nat /\ \A i \in 1..n : ps[i] \in Packets
  BY LenProperties, ElementOfSeq
<1>2. fs = [i \in 1..n |-> FrameOf(ps[i])]
  BY DEF FramesOf
<1> HIDE DEF n, fs
<1>3. Len(fs) = n
  <2> DEFINE A == {FrameOf(p) : p \in Packets}
  <2>1. \A i \in 1..n : FrameOf(ps[i]) \in A
    BY <1>1
  <2> HIDE DEF A
  <2>2. fs \in [1..n -> A]
    BY <1>2, <2>1
  <2>3. QED
    BY <1>1, <2>2, TypedSequence
<1>4. ASSUME NEW i \in 1..n PROVE Reported(fs[i]) = Delivery!Visible(ps[i])
  <2>1. fs[i] = ParseFrame(Wire[ps[i]])
    BY <1>2 DEF FrameOf
  <2>2. QED
    BY <1>1, <2>1, PacketUnderstood DEF Understood
<1>5. [i \in 1..n |-> Reported(fs[i])] = [i \in 1..n |-> Delivery!Visible(ps[i])]
  BY <1>4
<1>6. QED
  BY <1>3, <1>5 DEF Reports, Seen, n, fs

\* One report.
LEMMA OneShown ==
  ASSUME NEW g, g = [r \in DOMAIN g |-> g[r]], NEW report, NEW function
  PROVE  Shown(g, <<report>>, function) =
           (IF report.function = function THEN Overlaid(g, report) ELSE g)
<1> DEFINE s == <<report>>
<1>1. Len(s) = 1 /\ s[1] = report
  OBVIOUS
<1> HIDE DEF s
<1>2. CASE report.function = function
  <2>1. Carried(s, function) = Span(report)
    BY <1>1, <1>2 DEF Carried
  <2>2. ASSUME NEW r \in Span(report) PROVE s[Latest(Carriers(s, function, r))] = report
    <3>1. Carriers(s, function, r) = {1}
      BY <1>1, <1>2 DEF Carriers
    <3>2. Latest({1}) = 1
      BY DEF Latest
    <3>3. QED
      BY <1>1, <3>1, <3>2
  <2>3. Shown(g, s, function) =
          [r \in Span(report) \cup DOMAIN g |->
             IF r \in Span(report)
             THEN ValueAt(s[Latest(Carriers(s, function, r))], r) ELSE g[r]]
    BY <2>1 DEF Shown
  <2>4. Shown(g, s, function) =
          [r \in Span(report) \cup DOMAIN g |->
             IF r \in Span(report) THEN ValueAt(report, r) ELSE g[r]]
    BY <2>2, <2>3
  <2>5. Shown(g, s, function) = Overlaid(g, report)
    BY <2>4 DEF Overlaid
  <2>6. QED
    BY <1>2, <2>5 DEF s
<1>3. CASE report.function # function
  <2>1. Carried(s, function) = {}
    BY <1>1, <1>3 DEF Carried
  <2>2. Shown(g, s, function) = g
    BY <2>1, ShownNothing
  <2>3. QED
    BY <1>3, <2>2 DEF s
<1>4. QED
  BY <1>2, <1>3

\* Registers stay functions.
LEMMA ViewAfter ==
  ASSUME NEW v, NEW s
  PROVE  IsView(After(v, s))
<1> DEFINE w == After(v, s)
           a == Shown(v.input, s, 4)
           b == Shown(v.hold, s, 3)
           c == IF s = << >> THEN v.last ELSE s[Len(s)]
<1>1. a = [r \in DOMAIN a |-> a[r]] /\ b = [r \in DOMAIN b |-> b[r]]
  BY DEF Shown
<1>2. w = [input |-> a, hold |-> b, last |-> c]
  BY DEF After
<1> HIDE DEF a, b, c, w
<1>3. w.input = a /\ w.hold = b /\ w.last = c
  BY <1>2
<1>4. IsView(w)
  BY <1>1, <1>2, <1>3 DEF IsView
<1>5. QED
  BY <1>4 DEF w

\* _handle_frame() does to the view what the frame reports.
LEMMA HandledAsReported ==
  ASSUME NEW p \in Packets, NEW v, IsView(v)
  PROVE  HandleFrame(v, FrameOf(p)) = After(v, <<Delivery!Visible(p)>>)
<1> DEFINE f == FrameOf(p)
           report == Delivery!Visible(p)
           a == IF Translated(f) /\ f.device_function = MODBUS_READ_INPUT
                THEN Overlaid(v.input, f) ELSE v.input
           b == IF Translated(f) /\ f.device_function = MODBUS_READ_HOLD
                THEN Overlaid(v.hold, f) ELSE v.hold
<1>1. /\ f.tcp_function = (IF p.function = TCP_FUNC_HEARTBEAT THEN TCP_FUNC_HEARTBEAT
                           ELSE TCP_FUNC_TRANSLATED_DATA)
      /\ p.function # TCP_FUNC_HEARTBEAT => f.device_function = p.function
      /\ Reported(f) = report
      /\ IsRead(p.function) => f.register = p.register /\ f.values = p.values
  BY PacketUnderstood DEF FrameOf, Understood
<1>2. /\ report.function = p.function
      /\ IsRead(p.function) => report.register = p.register /\ report.values = p.values
  <2>1. report.function = p.function
    BY DEF Delivery!Visible
  <2>2. IsRead(p.function) => ~ (p.function >= 128) /\ p.function # 16
    BY DEF IsRead, MODBUS_READ_HOLD, MODBUS_READ_INPUT
  <2>3. QED
    BY <2>1, <2>2 DEF Delivery!Visible
<1> HIDE DEF f, report
<1>3. Translated(f) <=> p.function # TCP_FUNC_HEARTBEAT
  BY <1>1 DEF Translated, TCP_FUNC_HEARTBEAT, TCP_FUNC_TRANSLATED_DATA
<1>4. ASSUME NEW g, IsRead(p.function) PROVE Overlaid(g, f) = Overlaid(g, report)
  BY <1>1, <1>2, <1>4 DEF Overlaid, Span, ValueAt
<1>5. a = Shown(v.input, <<report>>, 4)
  <2>1. Shown(v.input, <<report>>, 4) =
          (IF report.function = 4 THEN Overlaid(v.input, report) ELSE v.input)
    BY OneShown DEF IsView
  <2>2. CASE p.function = 4
    <3>1. IsRead(p.function) /\ p.function # TCP_FUNC_HEARTBEAT
      BY <2>2 DEF IsRead, MODBUS_READ_INPUT, TCP_FUNC_HEARTBEAT
    <3>2. Translated(f) /\ f.device_function = MODBUS_READ_INPUT
      BY <1>1, <1>3, <2>2, <3>1 DEF MODBUS_READ_INPUT
    <3>3. a = Overlaid(v.input, f)
      BY <3>2
    <3>4. QED
      BY <1>2, <1>4, <2>1, <2>2, <3>1, <3>3
  <2>3. CASE p.function # 4
    <3>1. ~ (Translated(f) /\ f.device_function = MODBUS_READ_INPUT)
      BY <1>1, <1>3, <2>3 DEF MODBUS_READ_INPUT
    <3>2. a = v.input
      BY <3>1
    <3>3. QED
      BY <1>2, <2>1, <2>3, <3>2
  <2>4. QED
    BY <2>2, <2>3
<1>6. b = Shown(v.hold, <<report>>, 3)
  <2>1. Shown(v.hold, <<report>>, 3) =
          (IF report.function = 3 THEN Overlaid(v.hold, report) ELSE v.hold)
    BY OneShown DEF IsView
  <2>2. CASE p.function = 3
    <3>1. IsRead(p.function) /\ p.function # TCP_FUNC_HEARTBEAT
      BY <2>2 DEF IsRead, MODBUS_READ_HOLD, TCP_FUNC_HEARTBEAT
    <3>2. Translated(f) /\ f.device_function = MODBUS_READ_HOLD
      BY <1>1, <1>3, <2>2, <3>1 DEF MODBUS_READ_HOLD
    <3>3. b = Overlaid(v.hold, f)
      BY <3>2
    <3>4. QED
      BY <1>2, <1>4, <2>1, <2>2, <3>1, <3>3
  <2>3. CASE p.function # 3
    <3>1. ~ (Translated(f) /\ f.device_function = MODBUS_READ_HOLD)
      BY <1>1, <1>3, <2>3 DEF MODBUS_READ_HOLD
    <3>2. b = v.hold
      BY <3>1
    <3>3. QED
      BY <1>2, <2>1, <2>3, <3>2
  <2>4. QED
    BY <2>2, <2>3
<1>7. HandleFrame(v, f) = [input |-> a, hold |-> b, last |-> report]
  BY <1>1 DEF HandleFrame
<1> HIDE DEF a, b
<1>8. After(v, <<report>>) =
        [input |-> Shown(v.input, <<report>>, 4), hold |-> Shown(v.hold, <<report>>, 3),
         last |-> report]
  BY DEF After
<1>9. HandleFrame(v, f) = After(v, <<report>>)
  BY <1>5, <1>6, <1>7, <1>8
<1>10. QED
  BY <1>9 DEF f, report

\* FrameDelivery counts the reports the same way.
LEMMA DeliveryView ==
  /\ \A v, s : Delivery!After(v, s) = After(v, s)
  /\ Delivery!Blank = Blank
<1>1. ASSUME NEW v, NEW s PROVE Delivery!After(v, s) = After(v, s)
  BY DEF Delivery!After, After, Delivery!Shown, Shown, Delivery!Carried, Carried,
         Delivery!Carriers, Carriers, Delivery!Latest, Latest, Delivery!ValueAt, ValueAt,
         Delivery!Span, Span
<1>2. Delivery!Blank = Blank
  BY DEF Delivery!Blank, Blank, Delivery!NoRegisters, NoRegisters, Delivery!Nothing, Nothing
<1>3. QED
  BY <1>1, <1>2

\* The frames found, the first of them apart.
LEMMA FramesTail ==
  ASSUME NEW ps \in Seq(Packets), FramesOf(ps) # << >>
  PROVE  /\ ps # << >> /\ ps[1] \in Packets /\ Tail(ps) \in Seq(Packets)
         /\ Head(FramesOf(ps)) = FrameOf(ps[1])
         /\ Tail(FramesOf(ps)) = FramesOf(Tail(ps))
         /\ Seen(ps) = <<Delivery!Visible(ps[1])>> \o Seen(Tail(ps))
<1> DEFINE n == Len(ps)
           fs == FramesOf(ps)
           A == {FrameOf(p) : p \in Packets}
<1>1. n \in Nat /\ \A i \in 1..n : ps[i] \in Packets
  BY LenProperties, ElementOfSeq
<1>2. \A i \in 1..n : FrameOf(ps[i]) \in A
  BY <1>1
<1>3. fs = [i \in 1..n |-> FrameOf(ps[i])]
  BY DEF FramesOf
<1> HIDE DEF A, fs, n
<1>4. fs \in Seq(A) /\ Len(fs) = n
  <2>1. fs \in [1..n -> A]
    BY <1>2, <1>3
  <2>2. QED
    BY <1>1, <2>1, TypedSequence
<1>5. n # 0 /\ ps # << >>
  <2>1. n # 0
    BY <1>4, EmptySeq DEF fs
  <2>2. QED
    BY <2>1 DEF n
<1>6. ps[1] \in Packets
  BY <1>1, <1>5
<1>7. Head(fs) = FrameOf(ps[1])
  <2>1. 1 \in 1..n
    BY <1>1, <1>5
  <2>2. Head(fs) = fs[1]
    OBVIOUS
  <2>3. QED
    BY <1>3, <2>1, <2>2
<1> DEFINE t == Tail(ps)
           tf == Tail(fs)
           ts == FramesOf(t)
<1>8. t \in Seq(Packets) /\ Len(t) = n - 1 /\ \A i \in 1..(n - 1) : t[i] = ps[i + 1]
  BY <1>5, HeadTailProperties DEF n
<1>9. tf \in Seq(A) /\ Len(tf) = n - 1 /\ \A i \in 1..(n - 1) : tf[i] = fs[i + 1]
  <2>1. fs # << >>
    BY DEF fs
  <2>2. QED
    BY <1>4, <2>1, HeadTailProperties
<1>10. ts = [i \in 1..(n - 1) |-> FrameOf(t[i])]
  BY <1>8 DEF FramesOf
<1> HIDE DEF t, tf, ts
<1>11. ASSUME NEW i \in 1..(n - 1) PROVE tf[i] = ts[i] /\ FrameOf(t[i]) \in A
  <2>1. i + 1 \in 1..n
    BY <1>1
  <2>2. fs[i + 1] = FrameOf(ps[i + 1])
    BY <1>3, <2>1
  <2>3. QED
    BY <1>2, <1>8, <1>9, <1>10, <2>1, <2>2
<1>12. ts \in Seq(A) /\ Len(ts) = n - 1
  <2>1. ts \in [1..(n - 1) -> A]
    BY <1>10, <1>11
  <2>2. n - 1 \in Nat
    BY <1>1, <1>5
  <2>3. QED
    BY <2>1, <2>2, TypedSequence
<1>13. tf = ts
  BY <1>9, <1>11, <1>12, SeqEqual
<1>14. Seen(ps) = <<Delivery!Visible(ps[1])>> \o Seen(t)
  <2> DEFINE one == <<ps[1]>>
  <2>1. one \in Seq(Packets) /\ Len(one) = 1 /\ one[1] = ps[1]
    BY <1>6
  <2>2. Seen(one) = <<Delivery!Visible(ps[1])>>
    <3>1. Seen(one) = [i \in 1..1 |-> Delivery!Visible(ps[1])]
      BY <2>1 DEF Seen
    <3>2. QED
      BY <3>1
  <2> DEFINE w == one \o t
  <2>3. w \in Seq(Packets) /\ Joins(w, one, 1, t, n - 1)
    BY <1>8, <2>1, JoinedOf
  <2> HIDE DEF one, w
  <2>4. Len(w) = n
    BY <1>1, <2>3 DEF Joins
  <2>5. ASSUME NEW i \in 1..n PROVE w[i] = ps[i]
    <3>1. CASE i = 1
      <4>1. w[1] = one[1]
        BY <2>3 DEF Joins
      <4>2. QED
        BY <2>1, <3>1, <4>1
    <3>2. CASE i # 1
      <4> DEFINE j == i - 1
      <4>1. j \in 1..(n - 1) /\ 1 + j = i /\ j + 1 = i
        BY <1>1, <3>2
      <4> HIDE DEF j
      <4>2. w[1 + j] = t[j] /\ t[j] = ps[j + 1]
        BY <1>8, <2>3, <4>1 DEF Joins
      <4>3. QED
        BY <4>1, <4>2
    <3>3. QED
      BY <3>1, <3>2
  <2>6. ps = w
    BY <2>3, <2>4, <2>5, SeqEqual DEF n
  <2>7. Seen(w) = Seen(one) \o Seen(t)
    BY <1>8, <2>1, SeenJoined DEF w
  <2>8. QED
    BY <2>2, <2>6, <2>7
<1>15. QED
  BY <1>5, <1>6, <1>7, <1>8, <1>13, <1>14 DEF fs, t, tf, ts

----------------------------------------------------------------------------
(* One piece read, from the stream to the view.                            *)

\* The reports of the first k packets.
LEMMA SeenOfFirst ==
  ASSUME NEW s \in Seq(Packets), NEW k \in 0..Len(s)
  PROVE  /\ SubSeq(s, 1, k) \in Seq(Packets)
         /\ Seen(SubSeq(s, 1, k)) = [i \in 1..k |-> Delivery!Visible(s[i])]
<1> DEFINE z == 0
           n == Len(s)
<1>1. n \in Nat /\ z \in 0..n /\ z <= k /\ z + 1 = 1 /\ k - z = k /\ \A i \in 1..k : z + i = i
  BY LenProperties
<1>2. k \in 0..n
  OBVIOUS
<1> HIDE DEF z
<1>3. /\ SubSeq(s, z + 1, k) \in Seq(Packets) /\ Len(SubSeq(s, z + 1, k)) = k - z
      /\ \A i \in 1..(k - z) : SubSeq(s, z + 1, k)[i] = s[z + i]
  BY <1>1, SubSeqFacts
<1> DEFINE t == SubSeq(s, 1, k)
<1>4. t \in Seq(Packets) /\ Len(t) = k /\ \A i \in 1..k : t[i] = s[i]
  BY <1>1, <1>3
<1> HIDE DEF t
<1>5. Seen(t) = [i \in 1..k |-> Delivery!Visible(s[i])]
  BY <1>4 DEF Seen
<1>6. QED
  BY <1>4, <1>5 DEF t

\* The buffer bytes with the next size bytes of the packets s.
Extended(all, bytes, s, g, size) == all = bytes \o Slice(StreamOf(s), g, g + size)

\* Of the packets s, g bytes of which were read before, size more bytes
\* complete the first read ones: rest and h are what is left of s and g.
Completes(s, g, size, read, rest, h) ==
  /\ size \in Nat /\ g + size <= Len(StreamOf(s))
  /\ read \in 0..Len(s) /\ EndOf(s, read) <= g + size
  /\ read < Len(s) => EndOf(s, read + 1) > g + size
  /\ rest = SubSeq(s, read + 1, Len(s))
  /\ h = (g + size) - EndOf(s, read)

\* A piece is read: what is shown once the frames found are handed over takes
\* the packets completed by it, and the buffer that is left stays settled.
LEMMA PieceTaken ==
  ASSUME NEW bytes, NEW e, NEW cut, NEW s \in Seq(Packets), NEW g, Trail(bytes, e, cut, s, g),
         NEW v, Settled(v, Seen(e)),
         NEW all, NEW size, Extended(all, bytes, s, g, size),
         NEW read, NEW rest, NEW h, Completes(s, g, size, read, rest, h),
         NEW w, w = After(v, Seen(SubSeq(s, 1, read)))
  PROVE  /\ rest \in Seq(Packets)
         /\ \E ps \in Seq(Packets) : FindFrames(all) = FramesOf(ps)
         /\ After(v, Reports(FindFrames(all))) = w
         /\ \E t, c : /\ Trail(Remainder(all, FindFrames(all)), t, c, rest, h)
                      /\ Settled(w, Seen(t))
         /\ \E t, c : /\ Trail(Trimmed(Remainder(all, FindFrames(all))), t, c, rest, h)
                      /\ Settled(w, Seen(t))
<1> DEFINE m == g + size
           new == SubSeq(s, 1, read)
           ps == e \o new
<1>0. /\ size \in Nat /\ g + size <= Len(StreamOf(s))
      /\ read \in 0..Len(s) /\ EndOf(s, read) <= g + size
      /\ read < Len(s) => EndOf(s, read + 1) > g + size
      /\ rest = SubSeq(s, read + 1, Len(s)) /\ h = (g + size) - EndOf(s, read)
  BY DEF Completes
<1>1. g \in Nat /\ e \in Seq(Packets)
  BY DEF Trail, Pending, Laid
<1>2. all \in Seq(Byte) /\ Laid(all, e, cut) /\ Streams(all, cut[Len(e)], StreamOf(s), m)
  BY <1>0, PieceAdded, Zenon DEF Extended
<1>3. m \in Nat
  BY <1>0, <1>1
<1>4. new \in Seq(Packets)
  BY <1>0, SeenOfFirst
<1>5. rest \in Seq(Packets)
  <2>1. Len(s) \in Nat
    BY LenProperties
  <2>2. Len(s) \in 0..Len(s) /\ read <= Len(s)
    BY <1>0, <2>1
  <2>3. QED
    BY <1>0, <2>2, SubSeqFacts
<1> HIDE DEF m
<1>6. PICK c : Trail(all, ps, c, SubSeq(s, read + 1, Len(s)), m - EndOf(s, read))
  BY <1>0, <1>2, <1>3, PacketsAdded DEF m
<1>7. Trail(all, ps, c, rest, h)
  <2>1. h = m - EndOf(s, read)
    BY <1>0, Zenon DEF m
  <2>2. QED
    BY <1>0, <1>6, <2>1, Zenon
<1>8. ps \in Seq(Packets) /\ Seen(ps) = Seen(e) \o Seen(new)
  <2>1. ps \in Seq(Packets)
    BY <1>1, <1>4, JoinedOf
  <2>2. QED
    BY <1>1, <1>4, <2>1, SeenJoined
<1> HIDE DEF new, ps
<1>9. FindFrames(all) = FramesOf(ps)
  BY <1>5, <1>7, TrailFacts, FramesFound
<1>10. Reports(FindFrames(all)) = Seen(ps)
  BY <1>8, <1>9, ReportsOfFrames
<1>11. After(v, Seen(ps)) = w
  <2>1. Seen(e) \in Seq(Sights) /\ Seen(new) \in Seq(Sights)
    BY <1>1, <1>4, SeenType
  <2>2. After(v, Seen(ps)) = After(After(v, Seen(e)), Seen(new))
    BY <1>8, <2>1, AfterJoined
  <2>3. QED
    BY <2>2 DEF Settled, new
<1>12. Settled(w, Seen(ps))
  BY <1>11, AfterTwice DEF Settled
<1> DEFINE left == Remainder(all, FindFrames(all))
<1>13. PICK t, d : SuffixOf(t, ps) /\ Trail(left, t, d, rest, h)
  BY <1>5, <1>7, RemainderTrail
<1>14. t \in Seq(Packets) /\ Settled(w, Seen(t))
  BY <1>8, <1>12, <1>13, SuffixJoined, SettledSuffix
<1> HIDE DEF left
<1>15. PICK t2, d2 : SuffixOf(t2, t) /\ Trail(Trimmed(left), t2, d2, rest, h)
  BY <1>5, <1>13, TrimmedTrail
<1>16. Settled(w, Seen(t2))
  BY <1>14, <1>15, SettledSuffix
<1>17. QED
  BY <1>5, <1>8, <1>9, <1>10, <1>11, <1>13, <1>14, <1>15, <1>16 DEF left


\* What the collector shows once it was handed the frames found.
Shows == After(View, Reports(found))

\* On a connection the buffer ends with the bytes read of the next packet.
\* Before them stand whole packets, and to hand these over again would show
\* nothing else: this is why the cut after the first equal frame does no harm.
BufferFollows ==
  conn \in {"up", "lost"} =>
    \E e, cut : Trail(buffer, e, cut, sent, got) /\ Settled(Shows, Seen(e))

\* The inductive invariant.
PassiveInv ==
  /\ transport \in Transports /\ conn \in {"down", "up", "lost", "stopped"}
  /\ transport = "replay" => conn \in {"up", "stopped"}
  /\ sent \in Seq(Packets)
  /\ conn \in {"down", "stopped"} => sent = << >> /\ got = 0
  /\ buffer \in Seq(Byte)
  /\ \E ps \in Seq(Packets) : found = FramesOf(ps)
  /\ IsView(View)
  /\ sends \in 0..MaxSends /\ losses \in 0..MaxLosses
  /\ BufferFollows

\* What is assumed of the bounds.
LEMMA PassiveConstants ==
  /\ Chunks \subseteq Nat \ {0} /\ ReplayChunk \in Nat \ {0} /\ Broadcast \subseteq Packets
  /\ MaxSends \in Nat /\ MaxFile \in Nat /\ MaxLosses \in Nat
BY PassiveStreamAssumption DEF PassiveStreamAssumption

LEMMA NoPackets ==
  /\ << >> \in Seq(Packets) /\ Seen(<< >>) = << >> /\ FramesOf(<< >>) = << >>
  /\ Reports(<< >>) = << >>
<1>1. << >> \in Seq(Packets)
  OBVIOUS
<1>2. Seen(<< >>) = << >>
  BY DEF Seen
<1>3. FramesOf(<< >>) = << >>
  BY DEF FramesOf
<1>4. Reports(<< >>) = << >>
  BY DEF Reports
<1>5. QED
  BY <1>1, <1>2, <1>3, <1>4

\* A connection starts with an empty buffer, in which nothing is found.
LEMMA EmptyTrail ==
  ASSUME NEW s \in Seq(Packets), NEW v, IsView(v)
  PROVE  \E e, cut : Trail(<< >>, e, cut, s, 0) /\ Settled(v, Seen(e))
<1> DEFINE bytes == << >>
           e == << >>
           cut == [k \in 0..0 |-> 0]
           g == 0
<1>1. bytes \in Seq(Byte) /\ Len(bytes) = 0 /\ e \in Seq(Packets) /\ Len(e) = 0
  OBVIOUS
<1>2. cut \in [0..0 -> Nat] /\ cut[0] = 0
  OBVIOUS
<1>3. Laid(bytes, e, cut)
  <2> HIDE DEF bytes, e, cut
  <2>1. 0..Len(e) = {0} /\ 1..Len(e) = {} /\ 0..0 = {0}
    BY <1>1
  <2>2. QED
    BY <1>1, <1>2, <2>1 DEF Laid
<1>4. Pending(bytes, 0, s, g)
  <2>1. s # << >> => 0 < Len(Wire[s[1]])
    <3>1. ASSUME s # << >> PROVE s[1] \in Packets
      <4>1. Len(s) \in Nat \ {0}
        BY <3>1, EmptySeq
      <4>2. 1 \in 1..Len(s)
        BY <4>1
      <4>3. QED
        BY <4>2, ElementOfSeq
    <3>2. ASSUME s # << >> PROVE 0 < Len(Wire[s[1]])
      BY <3>1, <3>2, PacketBytes
    <3>3. QED
      BY <3>2
  <2> HIDE DEF bytes
  <2>2. QED
    BY <1>1, <2>1 DEF Pending
<1>5. Settled(v, Seen(e))
  BY NoPackets, AfterNothing DEF Settled
<1>6. Trail(bytes, e, cut, s, g)
  BY <1>1, <1>2, <1>3, <1>4 DEF Trail
<1>7. QED
  BY <1>5, <1>6

----------------------------------------------------------------------------
(* The steps of PassiveStream.                                             *)

\* The view and the frames found, shown at last.
LEMMA MappedView ==
  After(View, [i \in 1..Len(found) |-> Reported(found[i])]) = Shows
BY DEF Shows, Reports

\* Receive() and ReplayNext() take a piece of the stream and leave the buffer
\* cut, or cut and trimmed.
LEMMA PieceFacts ==
  ASSUME NEW n, PassiveInv, Take(n, Trimmed) \/ Take(n, Whole), n \in Nat \ {0},
         conn \in {"up", "lost"}
  PROVE  \E size, read, all :
           /\ size \in Nat /\ read \in 0..Len(sent)
           /\ Extended(all, buffer, sent, got, size)
           /\ got + size <= Len(StreamOf(sent))
           /\ EndOf(sent, read) <= got + size
           /\ read < Len(sent) => EndOf(sent, read + 1) > got + size
           /\ found' = FindFrames(all)
           /\ \/ buffer' = Trimmed(Remainder(all, FindFrames(all)))
              \/ buffer' = Remainder(all, FindFrames(all))
           /\ sent' = SubSeq(sent, read + 1, Len(sent))
           /\ got' = (got + size) - EndOf(sent, read)
           /\ UNCHANGED <<transport, conn, input, hold, last, sends, losses>>
<1> DEFINE size == IF n < Available THEN n ELSE Available
           all == buffer \o Slice(Stream, got, got + size)
           frames == FindFrames(all)
<1>1. PICK read \in 0..Len(sent) :
        /\ Available > 0
        /\ found' = frames
        /\ \/ buffer' = Trimmed(Remainder(all, frames))
           \/ buffer' = Remainder(all, frames)
        /\ End(read) <= got + size
        /\ read < Len(sent) => End(read + 1) > got + size
        /\ sent' = SubSeq(sent, read + 1, Len(sent))
        /\ got' = got + size - End(read)
        /\ UNCHANGED <<transport, conn, input, hold, last, sends, losses>>
  <2>1. CASE Take(n, Trimmed)
    BY <2>1, Zenon DEF Take
  <2>2. CASE Take(n, Whole)
    BY <2>2, Zenon DEF Take, Whole
  <2>3. QED
    BY <2>1, <2>2
<1>2. Stream = StreamOf(sent) /\ End(read) = EndOf(sent, read)
      /\ End(read + 1) = EndOf(sent, read + 1)
  BY DEF Stream, StreamOf, End, EndOf
<1>3. sent \in Seq(Packets) /\ got \in Nat
  <2>1. sent \in Seq(Packets) /\ BufferFollows
    BY DEF PassiveInv
  <2>2. PICK e, cut : Trail(buffer, e, cut, sent, got)
    BY <2>1 DEF BufferFollows
  <2>3. QED
    BY <2>1, <2>2 DEF Trail, Pending
<1>4. Len(StreamOf(sent)) \in Nat /\ EndOf(sent, read) \in Nat
  BY <1>3, StreamFacts
<1>5. size \in Nat /\ got + size <= Len(StreamOf(sent))
  <2>1. Available = Len(StreamOf(sent)) - got
    BY <1>2 DEF Available
  <2>2. QED
    BY <1>1, <1>3, <1>4, <2>1
<1> HIDE DEF size
<1>6. (got + size) - EndOf(sent, read) = got + size - End(read)
  BY <1>2, <1>3, <1>4, <1>5
<1>7. Extended(all, buffer, sent, got, size)
  BY <1>2, Zenon DEF Extended
<1> HIDE DEF all
<1>8. /\ EndOf(sent, read) <= got + size
      /\ read < Len(sent) => EndOf(sent, read + 1) > got + size
      /\ got' = (got + size) - EndOf(sent, read)
  BY <1>1, <1>2, <1>6, Zenon
<1>9. /\ found' = FindFrames(all)
      /\ \/ buffer' = Trimmed(Remainder(all, FindFrames(all)))
         \/ buffer' = Remainder(all, FindFrames(all))
      /\ sent' = SubSeq(sent, read + 1, Len(sent))
      /\ UNCHANGED <<transport, conn, input, hold, last, sends, losses>>
  BY <1>1, Zenon
<1>10. QED
  BY <1>5, <1>7, <1>8, <1>9, Zenon

\* Either of them delivers the packets that the piece completes.
LEMMA PieceStep ==
  ASSUME NEW n, PassiveInv, Take(n, Trimmed) \/ Take(n, Whole), n \in Nat \ {0},
         conn \in {"up", "lost"}, found = << >>
  PROVE  PassiveInv' /\ [Delivery!Next]_(Delivery!vars)
<1>1. PICK size, read, all :
        /\ size \in Nat /\ read \in 0..Len(sent)
        /\ Extended(all, buffer, sent, got, size)
        /\ got + size <= Len(StreamOf(sent))
        /\ EndOf(sent, read) <= got + size
        /\ read < Len(sent) => EndOf(sent, read + 1) > got + size
        /\ found' = FindFrames(all)
        /\ \/ buffer' = Trimmed(Remainder(all, FindFrames(all)))
           \/ buffer' = Remainder(all, FindFrames(all))
        /\ sent' = SubSeq(sent, read + 1, Len(sent))
        /\ got' = (got + size) - EndOf(sent, read)
        /\ UNCHANGED <<transport, conn, input, hold, last, sends, losses>>
  BY PieceFacts
<1>2. sent \in Seq(Packets) /\ IsView(View)
  BY DEF PassiveInv
<1>3. PICK e, cut : Trail(buffer, e, cut, sent, got) /\ Settled(Shows, Seen(e))
  BY DEF PassiveInv, BufferFollows
<1>4. Shows = View
  BY <1>2, AfterNothing, NoPackets DEF Shows
<1> DEFINE w == After(View, Seen(SubSeq(sent, 1, read)))
<1>5. /\ sent' \in Seq(Packets)
      /\ \E ps \in Seq(Packets) : found' = FramesOf(ps)
      /\ After(View, Reports(found')) = w
      /\ \E t, c : Trail(buffer', t, c, sent', got') /\ Settled(w, Seen(t))
  <2> DEFINE frames == FindFrames(all)
             left == Remainder(all, frames)
             rest == SubSeq(sent, read + 1, Len(sent))
             h == (got + size) - EndOf(sent, read)
  <2>1. /\ rest \in Seq(Packets)
        /\ \E ps \in Seq(Packets) : frames = FramesOf(ps)
        /\ After(View, Reports(frames)) = w
        /\ \E t, c : Trail(left, t, c, rest, h) /\ Settled(w, Seen(t))
        /\ \E t, c : Trail(Trimmed(left), t, c, rest, h) /\ Settled(w, Seen(t))
    <3>1. Settled(View, Seen(e))
      BY <1>3, <1>4
    <3>2. Completes(sent, got, size, read, rest, h)
      BY <1>1 DEF Completes
    <3> DEFINE new == SubSeq(sent, 1, read)
    <3>3. w = After(View, Seen(new))
      OBVIOUS
    <3> HIDE DEF rest, h, w, frames, left
    <3>4. /\ rest \in Seq(Packets)
          /\ \E ps \in Seq(Packets) : FindFrames(all) = FramesOf(ps)
          /\ After(View, Reports(FindFrames(all))) = w
          /\ \E t, c : /\ Trail(Remainder(all, FindFrames(all)), t, c, rest, h)
                       /\ Settled(w, Seen(t))
          /\ \E t, c : /\ Trail(Trimmed(Remainder(all, FindFrames(all))), t, c, rest, h)
                       /\ Settled(w, Seen(t))
      BY <1>1, <1>2, <1>3, <3>1, <3>2, <3>3, PieceTaken
    <3>5. QED
      BY <3>4, Zenon DEF frames, left
  <2> HIDE DEF frames, left, rest, h, w
  <2>2. /\ found' = frames /\ sent' = rest /\ got' = h
        /\ buffer' = Trimmed(left) \/ buffer' = left
    BY <1>1, Zenon DEF frames, left, rest, h
  <2>3. QED
    BY <2>1, <2>2, Zenon
<1>6. View' = View /\ conn' = conn
  BY <1>1 DEF View
<1>7. Shows' = w
  BY <1>5, <1>6 DEF Shows
<1> HIDE DEF w
<1>8. buffer' \in Seq(Byte)
  BY <1>5 DEF Trail, Laid
<1>9. PassiveInv'
  <2>1. BufferFollows'
    BY <1>5, <1>7 DEF BufferFollows
  <2>2. /\ transport' \in Transports /\ conn' \in {"down", "up", "lost", "stopped"}
        /\ transport' = "replay" => conn' \in {"up", "stopped"}
        /\ sends' \in 0..MaxSends /\ losses' \in 0..MaxLosses
    BY <1>1 DEF PassiveInv
  <2>3. IsView(View)'
    BY <1>2, <1>6
  <2>4. conn' \in {"down", "stopped"} => sent' = << >> /\ got' = 0
    BY <1>6
  <2>5. QED
    BY <1>5, <1>8, <2>1, <2>2, <2>3, <2>4 DEF PassiveInv
<1>10. CASE read = 0
  <2>1. SubSeq(sent, 1, 0) = << >> /\ SubSeq(sent, 1, Len(sent)) = sent
    BY <1>2
  <2>2. w = View
    BY <1>2, <1>10, <2>1, AfterNothing, NoPackets DEF w
  <2>3. sent' = sent
    BY <1>1, <1>10, <2>1
  <2>4. Shows' = Shows
    BY <1>4, <1>7, <2>2
  <2>5. UNCHANGED Delivery!vars
    BY <1>6, <2>3, <2>4, MappedView DEF Delivery!vars, Shows, Reports
  <2>6. QED
    BY <1>9, <2>5
<1>11. CASE read # 0
  <2>1. read \in 1..Len(sent)
    BY <1>1, <1>11
  <2>2. Shows' = After(Shows, [i \in 1..read |-> Delivery!Visible(sent[i])])
    <3>1. read \in 0..Len(sent)
      BY <1>1
    <3>2. Seen(SubSeq(sent, 1, read)) = [i \in 1..read |-> Delivery!Visible(sent[i])]
      BY <1>2, <3>1, SeenOfFirst
    <3>3. QED
      BY <1>4, <1>7, <3>2 DEF w
  <2>3. Delivery!Deliver(read)
    <3>1. (conn \in {"up", "lost"})' = (conn \in {"up", "lost"})
      BY <1>6
    <3>2. sent' = SubSeq(sent, read + 1, Len(sent))
      BY <1>1
    <3>3. QED
      BY <2>2, <3>1, <3>2, DeliveryView DEF Delivery!Deliver, Shows, Reports
  <2>4. QED
    BY <1>9, <2>1, <2>3 DEF Delivery!Next, Delivery!Hand
<1>12. QED
  BY <1>10, <1>11

\* The initial states: an empty buffer, and in a replay the whole file to
\* come.
LEMMA PassiveInitially ==
  ASSUME PassiveInit
  PROVE  PassiveInv /\ Delivery!Init
<1>1. View = Blank /\ IsView(Blank)
  <2>1. View = Blank
    BY DEF PassiveInit, View, Blank
  <2>2. NoRegisters = [r \in DOMAIN NoRegisters |-> NoRegisters[r]]
    BY DEF NoRegisters
  <2>3. IsView(Blank)
    BY <2>2 DEF IsView, Blank
  <2>4. QED
    BY <2>1, <2>3
<1>2. Shows = Blank
  BY <1>1, NoPackets, AfterNothing DEF PassiveInit, Shows
<1>3. sent \in Seq(Packets)
  <2>1. CASE transport = "replay"
    <3>1. sent \in BoundedSeq(Packets, MaxFile)
      BY <2>1 DEF PassiveInit
    <3>2. MaxFile \in Nat
      BY PassiveConstants
    <3>3. PICK n \in 0..MaxFile : sent \in [1..n -> Packets]
      BY <3>1 DEF BoundedSeq, SeqOf
    <3>4. n \in Nat
      BY <3>2
    <3>5. QED
      BY <3>3, <3>4, TypedSequence
  <2>2. CASE transport # "replay"
    <3>1. sent = << >>
      BY <2>2 DEF PassiveInit
    <3>2. QED
      BY <3>1
  <2>3. QED
    BY <2>1, <2>2
<1>4. BufferFollows
  <2>1. buffer = << >> /\ got = 0
    BY DEF PassiveInit
  <2>2. QED
    BY <1>1, <1>2, <1>3, <2>1, EmptyTrail DEF BufferFollows
<1>5. PassiveInv
  <2>1. buffer \in Seq(Byte) /\ \E ps \in Seq(Packets) : found = FramesOf(ps)
    <3>1. buffer = << >> /\ found = << >>
      BY DEF PassiveInit
    <3>2. << >> \in Seq(Packets) /\ found = FramesOf(<< >>)
      BY <3>1, NoPackets
    <3>3. buffer \in Seq(Byte)
      BY <3>1
    <3>4. QED
      BY <3>2, <3>3, Zenon
  <2>2. sends \in 0..MaxSends /\ losses \in 0..MaxLosses
    BY PassiveConstants DEF PassiveInit
  <2>3. /\ transport \in Transports /\ conn \in {"down", "up", "lost", "stopped"}
        /\ transport = "replay" => conn \in {"up", "stopped"}
        /\ conn \in {"down", "stopped"} => sent = << >> /\ got = 0
    BY DEF PassiveInit
  <2>4. QED
    BY <1>1, <1>3, <1>4, <2>1, <2>2, <2>3 DEF PassiveInv
<1>6. Delivery!Init
  <2>1. ~ (conn \in {"up", "lost"}) => sent = << >>
    BY DEF PassiveInit
  <2>2. After(View, [i \in 1..Len(found) |-> Reported(found[i])]) = Delivery!Blank
    BY <1>2, MappedView, DeliveryView
  <2>3. QED
    BY <1>3, <2>1, <2>2 DEF Delivery!Init
<1>7. QED
  BY <1>5, <1>6

\* What only changes the connection or what is sent leaves the view alone.
LEMMA ViewKept ==
  ASSUME UNCHANGED <<found, input, hold, last>>
  PROVE  /\ View' = View /\ Shows' = Shows
         /\ After(View, [i \in 1..Len(found) |-> Reported(found[i])])' =
              After(View, [i \in 1..Len(found) |-> Reported(found[i])])
BY DEF View, Shows, Reports

\* A packet is put on the connection.
LEMMA SendStep ==
  ASSUME PassiveInv, NEW p \in Packets, SendPacket(p)
  PROVE  PassiveInv' /\ Delivery!Send(p)
<1>1. /\ conn = "up" /\ sent' = Append(sent, p) /\ sends < MaxSends /\ sends' = sends + 1
      /\ UNCHANGED <<transport, conn, got, buffer, found, input, hold, last, losses>>
  BY DEF SendPacket
<1>2. sent \in Seq(Packets)
  BY DEF PassiveInv
<1>3. sent' \in Seq(Packets) /\ sent' # << >>
      /\ (sent # << >> => sent'[1] = sent[1]) /\ (sent = << >> => sent'[1] = p)
  <2>1. sent # << >> => Len(sent) \in Nat \ {0}
    BY <1>2, EmptySeq
  <2>2. QED
    BY <1>1, <1>2, <2>1
<1>4. View' = View /\ Shows' = Shows
  BY <1>1, ViewKept
<1>5. PICK e, cut : Trail(buffer, e, cut, sent, got) /\ Settled(Shows, Seen(e))
  BY <1>1 DEF PassiveInv, BufferFollows
<1>6. Pending(buffer, cut[Len(e)], sent', got)
  <2>1. Pending(buffer, cut[Len(e)], sent, got)
    BY <1>5 DEF Trail
  <2>2. CASE sent # << >>
    BY <1>3, <2>1, <2>2 DEF Pending
  <2>3. CASE sent = << >>
    <3>1. got = 0 /\ Len(buffer) = cut[Len(e)] + got
      BY <2>1, <2>3 DEF Pending
    <3>2. 0 < Len(Wire[p])
      BY PacketBytes
    <3>3. QED
      BY <1>3, <2>3, <3>1, <3>2 DEF Pending
  <2>4. QED
    BY <2>2, <2>3
<1>7. BufferFollows'
  <2>1. Trail(buffer', e, cut, sent', got') /\ Settled(Shows', Seen(e))
    BY <1>1, <1>4, <1>5, <1>6 DEF Trail
  <2>2. QED
    BY <2>1 DEF BufferFollows
<1>8. PassiveInv'
  <2>1. sends' \in 0..MaxSends
    BY <1>1, PassiveConstants DEF PassiveInv
  <2>2. IsView(View)'
    BY <1>4 DEF PassiveInv
  <2>3. \E ps \in Seq(Packets) : found' = FramesOf(ps)
    BY <1>1 DEF PassiveInv
  <2>4. QED
    BY <1>1, <1>3, <1>7, <2>1, <2>2, <2>3 DEF PassiveInv
<1>9. Delivery!Send(p)
  BY <1>1, ViewKept DEF Delivery!Send
<1>10. QED
  BY <1>8, <1>9

\* The dongle's end of the connection is no step of FrameDelivery yet: what it
\* sent may still be read.
LEMMA LoseStep ==
  ASSUME PassiveInv, Lose
  PROVE  PassiveInv' /\ UNCHANGED Delivery!vars
<1>1. /\ transport = "tcp" /\ conn = "up" /\ conn' = "lost" /\ losses < MaxLosses /\ losses' = losses + 1
      /\ UNCHANGED <<transport, sent, got, buffer, found, input, hold, last, sends>>
  BY DEF Lose
<1>2. View' = View /\ Shows' = Shows
  BY <1>1, ViewKept
<1>3. BufferFollows'
  BY <1>1, <1>2 DEF PassiveInv, BufferFollows
<1>4. PassiveInv'
  <2>1. losses' \in 0..MaxLosses
    BY <1>1, PassiveConstants DEF PassiveInv
  <2>2. IsView(View)'
    BY <1>2 DEF PassiveInv
  <2>3. \E ps \in Seq(Packets) : found' = FramesOf(ps)
    BY <1>1 DEF PassiveInv
  <2>4. QED
    BY <1>1, <1>3, <2>1, <2>2, <2>3 DEF PassiveInv
<1>5. (conn \in {"up", "lost"})' = (conn \in {"up", "lost"})
  BY <1>1
<1>6. UNCHANGED Delivery!vars
  BY <1>1, <1>5, ViewKept DEF Delivery!vars
<1>7. QED
  BY <1>4, <1>6

\* A new connection starts with an empty buffer.
LEMMA ConnectStep ==
  ASSUME PassiveInv, Connect
  PROVE  PassiveInv' /\ Delivery!Open
<1>1. /\ conn = "down" /\ conn' = "up" /\ buffer' = << >>
      /\ UNCHANGED <<transport, sent, got, found, input, hold, last, sends, losses>>
  BY DEF Connect
<1>2. View' = View /\ Shows' = Shows
  BY <1>1, ViewKept
<1>3. sent' \in Seq(Packets) /\ got' = 0
  BY <1>1 DEF PassiveInv
<1>4. BufferFollows'
  <2>1. IsView(Shows')
    BY ViewAfter DEF Shows
  <2>2. \E e, cut : Trail(<< >>, e, cut, sent', 0) /\ Settled(Shows', Seen(e))
    BY <1>3, <2>1, EmptyTrail
  <2>3. QED
    BY <1>1, <1>3, <2>2 DEF BufferFollows
<1>5. PassiveInv'
  <2>1. buffer' \in Seq(Byte)
    BY <1>1
  <2>2. IsView(View)'
    BY <1>2 DEF PassiveInv
  <2>3. \E ps \in Seq(Packets) : found' = FramesOf(ps)
    BY <1>1 DEF PassiveInv
  <2>4. transport' # "replay"
    BY <1>1 DEF PassiveInv
  <2>5. QED
    BY <1>1, <1>3, <1>4, <2>1, <2>2, <2>3, <2>4 DEF PassiveInv
<1>6. Delivery!Open
  <2>1. ~ (conn \in {"up", "lost"}) /\ (conn \in {"up", "lost"})'
    BY <1>1
  <2>2. QED
    BY <1>1, <2>1, ViewKept DEF Delivery!Open
<1>7. QED
  BY <1>5, <1>6

\* _handle_frame() shows what was found: no step of FrameDelivery, whose view
\* counts the frames found as shown.
LEMMA EmitStep ==
  ASSUME PassiveInv, Emit
  PROVE  PassiveInv' /\ UNCHANGED Delivery!vars
<1> DEFINE f == Head(found)
           v == HandleFrame(View, f)
<1>1. /\ found # << >> /\ found' = Tail(found)
      /\ input' = v.input /\ hold' = v.hold /\ last' = v.last
      /\ UNCHANGED <<transport, conn, sent, got, buffer, sends, losses>>
  BY DEF Emit
<1>2. PICK ps \in Seq(Packets) : found = FramesOf(ps)
  BY DEF PassiveInv
<1>3. /\ ps[1] \in Packets /\ Tail(ps) \in Seq(Packets)
      /\ f = FrameOf(ps[1]) /\ found' = FramesOf(Tail(ps))
      /\ Seen(ps) = <<Delivery!Visible(ps[1])>> \o Seen(Tail(ps))
  BY <1>1, <1>2, FramesTail
<1> DEFINE one == <<Delivery!Visible(ps[1])>>
           more == Seen(Tail(ps))
<1>4. one \in Seq(Sights) /\ more \in Seq(Sights)
  <2>1. Delivery!Visible(ps[1]) \in Sights
    BY <1>3 DEF Sights
  <2>2. more \in Seq(Sights)
    BY <1>3, SeenType
  <2> HIDE DEF Sights
  <2>3. QED
    BY <2>1, <2>2
<1>5. v = After(View, one)
  BY <1>3, HandledAsReported DEF PassiveInv
<1>6. View' = v
  <2>1. v = [input |-> v.input, hold |-> v.hold, last |-> v.last]
    BY DEF HandleFrame
  <2> HIDE DEF v
  <2>2. QED
    BY <1>1, <2>1 DEF View
<1> HIDE DEF v, one, more
<1>7. Shows' = After(View, Seen(ps))
  <2>1. Reports(found') = more
    BY <1>3, ReportsOfFrames DEF more
  <2>2. Shows' = After(v, more)
    BY <1>6, <2>1 DEF Shows
  <2>3. After(After(View, one), more) = After(View, one \o more)
    BY <1>4, AfterJoined
  <2>4. Seen(ps) = one \o more
    BY <1>3 DEF one, more
  <2>5. QED
    BY <1>5, <2>2, <2>3, <2>4
<1>8. Shows' = Shows
  BY <1>2, <1>7, ReportsOfFrames DEF Shows
<1>9. BufferFollows'
  BY <1>1, <1>8 DEF PassiveInv, BufferFollows
<1>10. PassiveInv'
  <2>1. IsView(View)'
    BY <1>5, <1>6, ViewAfter
  <2>2. \E qs \in Seq(Packets) : found' = FramesOf(qs)
    BY <1>3
  <2>3. QED
    BY <1>1, <1>9, <2>1, <2>2 DEF PassiveInv
<1>11. UNCHANGED Delivery!vars
  <2>1. (conn \in {"up", "lost"})' = (conn \in {"up", "lost"})
    BY <1>1
  <2>2. After(View, [i \in 1..Len(found) |-> Reported(found[i])])' =
          After(View, [i \in 1..Len(found) |-> Reported(found[i])])
    BY <1>8 DEF Shows, Reports
  <2>3. QED
    BY <1>1, <2>1, <2>2 DEF Delivery!vars
<1>12. QED
  BY <1>10, <1>11

\* Close() and Stop() end the connection with what was not read of it.
LEMMA EndStep ==
  ASSUME PassiveInv, Close \/ Stop
  PROVE  PassiveInv' /\ Delivery!Lose
<1>1. /\ conn' \in {"down", "stopped"} /\ sent' = << >> /\ got' = 0
      /\ UNCHANGED <<transport, buffer, found, input, hold, last, sends, losses>>
      /\ transport = "replay" => conn' = "stopped"
  BY DEF Close, Stop
<1>2. View' = View
  BY <1>1, ViewKept
<1>3. PassiveInv'
  <2>1. BufferFollows'
    BY <1>1 DEF BufferFollows
  <2>2. IsView(View)'
    BY <1>2 DEF PassiveInv
  <2>3. \E ps \in Seq(Packets) : found' = FramesOf(ps)
    BY <1>1 DEF PassiveInv
  <2>4. sent' \in Seq(Packets)
    BY <1>1
  <2>5. QED
    BY <1>1, <2>1, <2>2, <2>3, <2>4 DEF PassiveInv
<1>4. Delivery!Lose
  <2>1. (conn \in {"up", "lost"})' = FALSE
    BY <1>1
  <2>2. QED
    BY <1>1, <2>1, ViewKept DEF Delivery!Lose
<1>5. QED
  BY <1>3, <1>4

\* Every step keeps the invariant and is one of FrameDelivery or leaves its
\* state.
LEMMA PassiveStep ==
  ASSUME PassiveInv, [PassiveNext]_passiveVars
  PROVE  PassiveInv' /\ [Delivery!Next]_(Delivery!vars)
<1>1. CASE Connect
  BY <1>1, ConnectStep DEF Delivery!Next
<1>2. ASSUME NEW n \in Chunks, Receive(n) PROVE PassiveInv' /\ [Delivery!Next]_(Delivery!vars)
  <2>1. n \in Nat \ {0} /\ Take(n, Trimmed) /\ conn \in {"up", "lost"} /\ found = << >>
    BY <1>2, PassiveConstants DEF Receive, Ready
  <2>2. QED
    BY <2>1, PieceStep
<1>3. CASE ReplayNext
  <2>1. ReplayChunk \in Nat \ {0} /\ Take(ReplayChunk, Whole) /\ found = << >>
    BY <1>3, PassiveConstants DEF ReplayNext, Ready
  <2>2. conn \in {"up", "lost"}
    BY <1>3 DEF ReplayNext, Ready, PassiveInv
  <2>3. QED
    BY <2>1, <2>2, PieceStep
<1>4. CASE Emit
  BY <1>4, EmitStep
<1>5. CASE Close \/ Stop
  BY <1>5, EndStep DEF Delivery!Next
<1>6. CASE Lose
  BY <1>6, LoseStep
<1>7. ASSUME NEW p \in Broadcast, SendPacket(p) PROVE PassiveInv' /\ [Delivery!Next]_(Delivery!vars)
  <2>1. p \in Packets
    BY PassiveConstants
  <2>2. PassiveInv' /\ Delivery!Send(p)
    BY <1>7, <2>1, SendStep
  <2>3. QED
    BY <2>1, <2>2 DEF Delivery!Next
<1>8. CASE UNCHANGED passiveVars
  <2>1. UNCHANGED <<transport, conn, sent, got, buffer, found, input, hold, last, sends, losses>>
    BY <1>8 DEF passiveVars
  <2>2. View' = View /\ Shows' = Shows
    BY <2>1, ViewKept
  <2>3. BufferFollows'
    BY <2>1, <2>2 DEF PassiveInv, BufferFollows
  <2>4. PassiveInv'
    <3>1. IsView(View)'
      BY <2>2 DEF PassiveInv
    <3>2. \E ps \in Seq(Packets) : found' = FramesOf(ps)
      BY <2>1 DEF PassiveInv
    <3>3. QED
      BY <2>1, <2>3, <3>1, <3>2 DEF PassiveInv
  <2>5. UNCHANGED Delivery!vars
    BY <2>1, ViewKept DEF Delivery!vars
  <2>6. QED
    BY <2>4, <2>5
<1>9. QED
  BY <1>1, <1>2, <1>3, <1>4, <1>5, <1>6, <1>7, <1>8 DEF PassiveNext, Work

\* On a connection the buffer always holds whole packets, which would show
\* nothing new if they were handed over again, and behind them the bytes read
\* of the next packet (tcp_passive.py _run and _consume_frames, replay.py
\* _run).
THEOREM PassiveInvariant == PassiveSpec => []PassiveInv
<1>1. PassiveInit => PassiveInv
  BY PassiveInitially
<1>2. PassiveInv /\ [PassiveNext]_passiveVars => PassiveInv'
  BY PassiveStep
<1>3. QED
  BY <1>1, <1>2, PTL DEF PassiveSpec

\* The invariant gives the types.
LEMMA InvariantGivesType ==
  ASSUME PassiveInv
  PROVE  PassiveTypeOK
<1>1. sent \in Seq(Packets) /\ buffer \in Seq(Byte)
  BY DEF PassiveInv
<1>2. Len(Stream) \in Nat /\ Stream = StreamOf(sent)
  BY <1>1, StreamFacts DEF Stream, StreamOf
<1>3. got \in Nat /\ (sent = << >> => got = 0) /\ (sent # << >> => got < Len(Wire[sent[1]]))
  <2>1. CASE conn \in {"up", "lost"}
    <3>1. PICK e, cut : Trail(buffer, e, cut, sent, got)
      BY <2>1 DEF PassiveInv, BufferFollows
    <3>2. QED
      BY <3>1 DEF Trail, Pending
  <2>2. CASE conn \in {"down", "stopped"}
    BY <2>2 DEF PassiveInv
  <2>3. QED
    BY <2>1, <2>2 DEF PassiveInv
<1>4. got \in 0..(Len(Stream)) /\ (sent # << >> => got < Len(Wire[Head(sent)]))
  <2>1. CASE sent = << >>
    BY <1>2, <1>3, <2>1
  <2>2. CASE sent # << >>
    <3>1. Len(sent) \in Nat \ {0}
      BY <1>1, <2>2, EmptySeq
    <3> DEFINE n == Len(sent)
               k == 1
    <3>2. k \in 0..n /\ k \in 1..n /\ n \in 0..n /\ k \in 0..n /\ k - 1 = 0
      BY <3>1
    <3> HIDE DEF k, n
    <3>3. /\ EndOf(sent, k) = EndOf(sent, k - 1) + Len(Wire[sent[k]])
          /\ sent[k] \in Packets
          /\ EndOf(sent, 0) = 0 /\ EndOf(sent, n) = Len(StreamOf(sent))
          /\ EndOf(sent, k) <= EndOf(sent, n)
      BY <1>1, <3>2, StreamFacts DEF n
    <3>4. Len(Wire[sent[k]]) \in Nat
      BY <3>3, PacketBytes
    <3>5. Len(Wire[sent[k]]) <= Len(Stream)
      BY <1>2, <3>2, <3>3, <3>4
    <3>6. Head(sent) = sent[k]
      BY <1>1, <2>2 DEF k
    <3>7. got < Len(Wire[sent[k]])
      BY <1>3, <2>2 DEF k
    <3>8. QED
      BY <1>2, <1>3, <3>4, <3>5, <3>6, <3>7
  <2>3. QED
    BY <2>1, <2>2
<1>5. \A i \in DOMAIN buffer : buffer[i] \in Byte
  BY <1>1, LenProperties, ElementOfSeq
<1>6. \A i \in DOMAIN found : found[i].tcp_function \in {TCP_FUNC_HEARTBEAT, TCP_FUNC_TRANSLATED_DATA}
  <2>1. PICK ps \in Seq(Packets) : found = FramesOf(ps)
    BY DEF PassiveInv
  <2>2. found = [i \in 1..Len(ps) |-> FrameOf(ps[i])]
    BY <2>1 DEF FramesOf
  <2>3. ASSUME NEW i \in 1..Len(ps)
        PROVE  found[i].tcp_function \in {TCP_FUNC_HEARTBEAT, TCP_FUNC_TRANSLATED_DATA}
    <3>1. ps[i] \in Packets
      BY ElementOfSeq
    <3>2. found[i] = ParseFrame(Wire[ps[i]])
      BY <2>2 DEF FrameOf
    <3>3. QED
      BY <3>1, <3>2, PacketUnderstood DEF Understood
  <2>4. QED
    BY <2>2, <2>3
<1>7. QED
  BY <1>1, <1>4, <1>5, <1>6 DEF PassiveInv, PassiveTypeOK

\* Every frame found is of one of the two functions that the collector
\* handles, every element of the buffer is a byte, and no more was read than
\* was sent.
THEOREM PassiveTypeCorrect == PassiveSpec => []PassiveTypeOK
<1>1. PassiveInv => PassiveTypeOK
  BY InvariantGivesType
<1>2. QED
  BY <1>1, PassiveInvariant, PTL

\* However recv() or the replay cuts the stream, whatever is lost with
\* connections and although frames are handed over again, the collector shows
\* the registers of the packets read, in the order they were sent
\* (tcp_passive.py, replay.py, protocol.py find_frames, collector.py
\* _handle_frame): for all packets, serials, pieces and limits.
THEOREM FramesDelivered == PassiveSpec => DeliversFrames
<1>1. PassiveInit => Delivery!Init
  BY PassiveInitially
<1>2. PassiveInv /\ [PassiveNext]_passiveVars => [Delivery!Next]_(Delivery!vars)
  BY PassiveStep
<1>3. QED
  BY <1>1, <1>2, PassiveInvariant, PTL DEF PassiveSpec, DeliversFrames, Delivery!Spec

=============================================================================
