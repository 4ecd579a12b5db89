-------------------------- MODULE DongleConnection --------------------------
(***************************************************************************)
(* The process-wide persistent connection to the WiFi dongle               *)
(* (collector/comm/persistent.py) with the threads that use it: the        *)
(* active poller (collector/comm/tcp_active.py), the threads that read and *)
(* write holding registers (collector/automation.py, the API's handlers)   *)
(* and the heartbeat thread.  Each process has one such connection; this   *)
(* module models one process and the dongle at the other end of its        *)
(* socket.                                                                 *)
(*                                                                         *)
(* The dongle is external: it answers a request, ignores it, answers late, *)
(* reports a Modbus error, closes or resets the connection, or refuses a   *)
(* new one.  Frames are whole; cutting the byte stream into frames is a    *)
(* matter of find_frames and not of this module.                           *)
(***************************************************************************)
EXTENDS Naturals, Sequences

CONSTANTS
  Callers,         \* threads that call transact()
  Poller,          \* the thread of TcpActiveTransport
  NoThread,        \* the lock is free
  Batches,         \* TcpActiveTransport.batches: a sequence of requests
  Commands,        \* requests of the other callers (holding reads and writes)
  Values,          \* payloads the dongle may answer with
  Err,             \* the payload of a Modbus error frame
  MaxRetries,      \* PersistentDongleConnection.max_retries (3 in the code)
  StaleThreshold,  \* _stale_threshold (5 in the code)
  MaxInFlight      \* bound: requests the dongle keeps while it is slow

Requests == {Batches[i] : i \in DOMAIN Batches} \cup Commands

ASSUME ConstantsAssumption ==
  /\ NoThread \notin Callers
  /\ Poller \in Callers
  /\ Batches \in Seq(Requests)
  /\ Len(Batches) > 0
  /\ Err \notin Values
  /\ MaxRetries \in Nat
  /\ StaleThreshold \in Nat \ {0}
  /\ MaxInFlight \in Nat \ {0}

VARIABLES
  shared,   \* _shared is not None
  hb,       \* the heartbeat thread runs
  lock,     \* the owner of PersistentDongleConnection._lock
  sock,     \* _sock: "none", or the state of the connection behind it
  sig,      \* _last_resp_sig
  stale,    \* _stale_count
  pc,       \* where each caller is in transact()
  att,      \* attempts started by the running transaction
  req,      \* the request of the running transaction
  batch,    \* batch_idx of the poller
  elapsed,  \* heartbeat: whole 60 s intervals since last_rx
  reachable,\* the dongle accepts connections (external)
  pending,  \* requests the dongle holds and has not answered (external)
  inbox,    \* answers in the socket's receive buffer (external)
  res       \* what the transaction that ended last returned to its caller

(***************************************************************************)
(* Observation variables: no guard and no other variable depends on them.  *)
(***************************************************************************)
VARIABLES
  timedOut, \* an attempt has timed out on the current connection
  run       \* identical answers in a row on the current connection

code == <<shared, hb, lock, sock, sig, stale, pc, att, req, batch, elapsed, res>>
net  == <<reachable, pending, inbox>>
obs  == <<timedOut, run>>
vars == <<code, net, obs>>

-----------------------------------------------------------------------------
(***************************************************************************)
(* Frames.  A request or an answer remembers whether it belongs to the     *)
(* transaction that is running now (own).                                  *)
(***************************************************************************)
Payloads == Values \cup {Err}
Question == [req : Requests, own : BOOLEAN]
Frame    == [req : Requests, val : Payloads, own : BOOLEAN]
Raw(f)   == <<f.req, f.val>>
NoSig    == <<>>

NoResult == [kind |-> "initial"]
Result   == [kind : {"initial", "none", "raised"}]
            \cup [kind : {"frame"}, frame : Frame, asked : Requests,
                  afterTimeout : BOOLEAN]

Busy == {"ensure", "send", "recv", "sleep"}

\* match(frame) of the poller and of the register helpers: the first error
\* frame, whatever it answers, or the answer to the same request.
Matches(f, r) == f.val = Err \/ f.req = r

Disown(s) == [i \in DOMAIN s |-> [s[i] EXCEPT !.own = FALSE]]

-----------------------------------------------------------------------------
(***************************************************************************)
(* _connect(): a new socket knows nothing of what the old one carried.     *)
(***************************************************************************)
Connected ==
  /\ sock' = "up"
  /\ pending' = <<>>
  /\ inbox' = <<>>
  /\ timedOut' = FALSE
  /\ run' = 0

\* The socket object is dropped; whatever it still carried is gone.
Dropped ==
  /\ sock' = "none"
  /\ pending' = <<>>
  /\ inbox' = <<>>
  /\ timedOut' = FALSE
  /\ run' = 0

KeepSocket == UNCHANGED <<sock, pending, inbox, timedOut, run>>

\* Mutant of Leave: batch_idx is advanced without wrapping.
LeaveNoWrap(t, result) ==
  /\ lock' = NoThread
  /\ res' = result
  /\ pc' = [pc EXCEPT ![t] = IF result.kind = "raised" /\ t = Poller
                             THEN "dead" ELSE "idle"]
  /\ batch' = IF t = Poller /\ result.kind # "raised"
              THEN batch + 1 ELSE batch
  /\ UNCHANGED <<att, req>>

(***************************************************************************)
(* transact() returns or raises: the lock is released.  The poller moves   *)
(* to its next batch after every return and dies of an exception (its      *)
(* thread function has no handler); other callers report the failure.      *)
(***************************************************************************)
Leave(t, result) ==
  /\ lock' = NoThread
  /\ res' = result
  /\ pc' = [pc EXCEPT ![t] = IF result.kind = "raised" /\ t = Poller
                             THEN "dead" ELSE "idle"]
  /\ batch' = IF t = Poller /\ result.kind # "raised"
              THEN (batch % Len(Batches)) + 1 ELSE batch
  /\ UNCHANGED <<att, req>>

Goto(t, label) ==
  /\ pc' = [pc EXCEPT ![t] = label]
  /\ UNCHANGED <<lock, res, batch>>

(***************************************************************************)
(* get_shared_connection(): _shared is assigned before start() connects,   *)
(* so a refused connection leaves the object behind without a heartbeat    *)
(* thread and raises in the caller.  (In the poller's case the caller is   *)
(* TcpActiveTransport.start and the process ends with the exception.)      *)
(***************************************************************************)
OpenShared(t) ==
  /\ ~shared /\ pc[t] = "idle"
  /\ reachable
  /\ shared' = TRUE
  /\ hb' = TRUE
  /\ Connected
  /\ UNCHANGED <<lock, sig, stale, pc, att, req, batch, elapsed, res,
                 reachable>>

OpenSharedRefused(t) ==
  /\ ~shared /\ pc[t] = "idle"
  /\ ~reachable /\ t # Poller
  /\ shared' = TRUE
  /\ res' = [kind |-> "raised"]
  /\ KeepSocket
  /\ UNCHANGED <<hb, lock, sig, stale, pc, att, req, batch, elapsed,
                 reachable>>

-----------------------------------------------------------------------------
(***************************************************************************)
(* transact(), one action per step between two points at which the dongle  *)
(* or the clock can interfere.                                             *)
(***************************************************************************)
\* Mutant of Begin: the lock is not taken before the transaction.
BeginWithoutLock(t, r) ==
  /\ shared /\ pc[t] = "idle"
  /\ r \in (IF t = Poller THEN {Batches[batch]} ELSE Commands)
  /\ lock' = t
  /\ req' = r
  /\ att' = 1
  /\ pc' = [pc EXCEPT ![t] = "ensure"]
  /\ pending' = Disown(pending)
  /\ inbox' = Disown(inbox)
  /\ UNCHANGED <<shared, hb, sock, sig, stale, batch, elapsed, res,
                 reachable, obs>>

Begin(t, r) ==
  /\ shared /\ lock = NoThread /\ pc[t] = "idle"
  /\ r \in (IF t = Poller THEN {Batches[batch]} ELSE Commands)
  /\ lock' = t
  /\ req' = r
  /\ att' = 1
  /\ pc' = [pc EXCEPT ![t] = "ensure"]
  /\ pending' = Disown(pending)
  /\ inbox' = Disown(inbox)
  /\ UNCHANGED <<shared, hb, sock, sig, stale, batch, elapsed, res,
                 reachable, obs>>

\* _ensure_connected(): the peek raises only on a reset connection; one the
\* dongle has closed peeks as b"" and passes for alive.
SocketLooksAlive == sock \in {"up", "closed"}

EnsureAlive(t) ==
  /\ pc[t] = "ensure" /\ SocketLooksAlive
  /\ Goto(t, "send")
  /\ KeepSocket
  /\ UNCHANGED <<shared, hb, sig, stale, att, req, elapsed, reachable>>

EnsureConnect(t) ==
  /\ pc[t] = "ensure" /\ ~SocketLooksAlive
  /\ reachable
  /\ Connected
  /\ Goto(t, "send")
  /\ UNCHANGED <<shared, hb, sig, stale, att, req, elapsed, reachable>>

\* The connection is refused: _connect raises, and transact's handler for
\* OSError does not enclose the call.
EnsureRefused(t) ==
  /\ pc[t] = "ensure" /\ ~SocketLooksAlive
  /\ ~reachable
  /\ Dropped
  /\ Leave(t, [kind |-> "raised"])
  /\ UNCHANGED <<shared, hb, sig, stale, elapsed, reachable>>

\* sendall() on an open connection; the dongle ignores what it cannot hold.
Send(t) ==
  /\ pc[t] = "send" /\ SocketLooksAlive
  /\ pending' = IF sock = "up" /\ Len(pending) < MaxInFlight
                THEN Append(pending, [req |-> req, own |-> TRUE])
                ELSE pending
  /\ Goto(t, "recv")
  /\ UNCHANGED <<shared, hb, sock, sig, stale, att, req, elapsed, reachable,
                 inbox, obs>>

\* OSError from sendall() or recv(): close, forget the socket, sleep.
SocketError(t) ==
  /\ \/ pc[t] = "send" /\ sock \in {"closed", "reset"}
     \/ pc[t] = "recv" /\ sock = "reset"
  /\ Dropped
  /\ Goto(t, "sleep")
  /\ UNCHANGED <<shared, hb, sig, stale, att, req, elapsed, reachable>>

(***************************************************************************)
(* _note_response(): the signature of the last answer of any request, the  *)
(* number of times it was repeated, and whether the socket is given up.    *)
(***************************************************************************)
NextStale(f) ==
  IF Raw(f) # sig THEN 0
  ELSE IF stale + 1 >= StaleThreshold THEN 0 ELSE stale + 1

\* Mutant of ForcesReconnect: one repetition more than the threshold.
ForcesReconnectLate(f) == Raw(f) = sig /\ stale + 1 > StaleThreshold

ForcesReconnect(f) == Raw(f) = sig /\ stale + 1 >= StaleThreshold

NextRun(f) == IF Raw(f) = sig THEN run + 1 ELSE 1

(***************************************************************************)
(* recv() delivers the first k frames of the receive buffer in one chunk.  *)
(* The first frame that matches is returned and the rest of the chunk is   *)
(* discarded with the local buffer.                                        *)
(***************************************************************************)
RecvMatch(t, k, i) ==
  /\ pc[t] = "recv" /\ SocketLooksAlive
  /\ Matches(inbox[i], req)
  /\ \A j \in 1 .. (i - 1) : ~Matches(inbox[j], req)
  /\ sig' = Raw(inbox[i])
  /\ stale' = NextStale(inbox[i])
  /\ \/ /\ ForcesReconnect(inbox[i])
        /\ Dropped
     \/ /\ ~ForcesReconnect(inbox[i])
        /\ inbox' = SubSeq(inbox, k + 1, Len(inbox))
        /\ run' = NextRun(inbox[i])
        /\ UNCHANGED <<sock, pending, timedOut>>
  /\ Leave(t, [kind |-> "frame", frame |-> inbox[i], asked |-> req,
               afterTimeout |-> timedOut])
  /\ UNCHANGED <<shared, hb, elapsed, reachable>>

RecvNoMatch(t, k) ==
  /\ pc[t] = "recv" /\ SocketLooksAlive
  /\ \A j \in 1 .. k : ~Matches(inbox[j], req)
  /\ inbox' = SubSeq(inbox, k + 1, Len(inbox))
  /\ UNCHANGED <<code, reachable, pending, obs>>

Recv(t) ==
  \E k \in 1 .. Len(inbox) :
    \/ \E i \in 1 .. k : RecvMatch(t, k, i)
    \/ RecvNoMatch(t, k)

\* recv() returns b"": the dongle has closed the connection.
RecvClosed(t) ==
  /\ pc[t] = "recv" /\ sock = "closed" /\ inbox = <<>>
  /\ Dropped
  /\ Goto(t, "sleep")
  /\ UNCHANGED <<shared, hb, sig, stale, att, req, elapsed, reachable>>

\* The deadline passes with nothing left to read and no match; the socket
\* is kept for the retry, and the answer may still come.
Timeout(t) ==
  /\ pc[t] = "recv" /\ sock = "up" /\ inbox = <<>>
  /\ timedOut' = TRUE
  /\ Goto(t, "sleep")
  /\ UNCHANGED <<shared, hb, sock, sig, stale, att, req, elapsed, net,
                 run>>

\* Mutant of Retry: the attempt is not counted.
RetryUncounted(t) ==
  /\ pc[t] = "sleep" /\ att < MaxRetries + 1
  /\ Goto(t, "ensure")
  /\ KeepSocket
  /\ UNCHANGED <<shared, hb, sig, stale, att, req, elapsed, reachable>>

\* After the 5 s pause: the next attempt, or None after the last one.
Retry(t) ==
  /\ pc[t] = "sleep" /\ att < MaxRetries + 1
  /\ att' = att + 1
  /\ Goto(t, "ensure")
  /\ KeepSocket
  /\ UNCHANGED <<shared, hb, sig, stale, req, elapsed, reachable>>

GiveUp(t) ==
  /\ pc[t] = "sleep" /\ att = MaxRetries + 1
  /\ Leave(t, [kind |-> "none"])
  /\ KeepSocket
  /\ UNCHANGED <<shared, hb, sig, stale, elapsed, reachable>>

Transact(t) ==
  \/ EnsureAlive(t) \/ EnsureConnect(t) \/ EnsureRefused(t)
  \/ Send(t) \/ SocketError(t)
  \/ Recv(t) \/ RecvClosed(t) \/ Timeout(t)
  \/ Retry(t) \/ GiveUp(t)

-----------------------------------------------------------------------------
(***************************************************************************)
(* _heartbeat_loop(): wakes after d intervals of 60 s (more than one when  *)
(* it had to wait for the lock) and does all of its work under the lock.   *)
(* last_rx is set when the thread starts and when a heartbeat is sent, and *)
(* nowhere else; elapsed counts intervals since then, up to the two after  *)
(* which a heartbeat is due.                                               *)
(***************************************************************************)
UpTo2(n) == IF n > 2 THEN 2 ELSE n

HeartbeatWakes == hb /\ lock = NoThread

HeartbeatIdle(d) ==
  /\ HeartbeatWakes
  /\ sock = "none" \/ (SocketLooksAlive /\ elapsed + d < 2)
  /\ elapsed' = UpTo2(elapsed + d)
  /\ KeepSocket
  /\ UNCHANGED <<shared, hb, lock, sig, stale, pc, att, req, batch, res,
                 reachable>>

HeartbeatFindsReset(d) ==
  /\ HeartbeatWakes /\ sock = "reset"
  /\ Dropped
  /\ elapsed' = UpTo2(elapsed + d)
  /\ UNCHANGED <<shared, hb, lock, sig, stale, pc, att, req, batch, res,
                 reachable>>

HeartbeatSend(d) ==
  /\ HeartbeatWakes /\ SocketLooksAlive /\ elapsed + d >= 2
  /\ elapsed' = 0
  /\ \/ KeepSocket
     \/ sock = "closed" /\ Dropped
  /\ UNCHANGED <<shared, hb, lock, sig, stale, pc, att, req, batch, res,
                 reachable>>

Heartbeat ==
  \E d \in 1 .. 2 :
    HeartbeatIdle(d) \/ HeartbeatFindsReset(d) \/ HeartbeatSend(d)

-----------------------------------------------------------------------------
(***************************************************************************)
(* The dongle (external).                                                  *)
(***************************************************************************)
Answer(v) ==
  /\ sock = "up" /\ pending # <<>>
  /\ inbox' = Append(inbox, [req |-> Head(pending).req, val |-> v,
                             own |-> Head(pending).own])
  /\ pending' = Tail(pending)
  /\ UNCHANGED <<code, reachable, obs>>

Ignore ==
  /\ sock = "up" /\ pending # <<>>
  /\ pending' = Tail(pending)
  /\ UNCHANGED <<code, reachable, inbox, obs>>

CloseConnection ==
  /\ sock = "up"
  /\ sock' = "closed"
  /\ pending' = <<>>
  /\ UNCHANGED <<shared, hb, lock, sig, stale, pc, att, req, batch, elapsed,
                 res, reachable, inbox, obs>>

ResetConnection ==
  /\ SocketLooksAlive
  /\ sock' = "reset"
  /\ pending' = <<>>
  /\ inbox' = <<>>
  /\ UNCHANGED <<shared, hb, lock, sig, stale, pc, att, req, batch, elapsed,
                 res, reachable, obs>>

SwitchReachable ==
  /\ reachable' = ~reachable
  /\ UNCHANGED <<code, pending, inbox, obs>>

Dongle ==
  \/ \E v \in Payloads : Answer(v)
  \/ Ignore \/ CloseConnection \/ ResetConnection \/ SwitchReachable

-----------------------------------------------------------------------------
Init ==
  /\ shared = FALSE /\ hb = FALSE /\ lock = NoThread /\ sock = "none"
  /\ sig = NoSig /\ stale = 0
  /\ pc = [t \in Callers |-> "idle"]
  /\ att = 0
  /\ req = Batches[1]
  /\ batch = 1
  /\ elapsed = 0
  /\ res = NoResult
  /\ reachable = TRUE /\ pending = <<>> /\ inbox = <<>>
  /\ timedOut = FALSE /\ run = 0

Call(t) ==
  \/ OpenShared(t) \/ OpenSharedRefused(t)
  \/ \E r \in Requests : Begin(t, r)

Next ==
  \/ \E t \in Callers : Call(t) \/ Transact(t)
  \/ Heartbeat
  \/ Dongle

Spec == Init /\ [][Next]_vars

(***************************************************************************)
(* A thread inside transact() is always running or waiting for a socket    *)
(* operation that has a timeout, and the poller calls again whenever the   *)
(* lock is free.  Nothing is assumed of the dongle, of the other callers'  *)
(* decision to call, or of the heartbeat thread.                           *)
(***************************************************************************)
FairSpec ==
  /\ Spec
  /\ \A t \in Callers : WF_vars(Transact(t))
  /\ WF_vars(Call(Poller))

-----------------------------------------------------------------------------
TypeOK ==
  /\ shared \in BOOLEAN /\ hb \in BOOLEAN
  /\ lock \in Callers \cup {NoThread}
  /\ sock \in {"none", "up", "closed", "reset"}
  /\ sig \in {NoSig} \cup (Requests \X Payloads)
  /\ stale \in Nat
  /\ pc \in [Callers -> Busy \cup {"idle", "dead"}]
  /\ att \in 0 .. MaxRetries + 1
  /\ req \in Requests
  /\ batch \in 1 .. Len(Batches)
  /\ elapsed \in 0 .. 2
  /\ res \in Result
  /\ reachable \in BOOLEAN
  /\ pending \in Seq(Question)
  /\ inbox \in Seq(Frame)
  /\ timedOut \in BOOLEAN
  /\ run \in Nat

\* Freshness.  The frame transact() returns answers a request sent by that
\* very transaction, or is a left-over of an attempt that timed out on the
\* same connection: reconnecting always discards what the dongle still owed,
\* and serialising the callers keeps them from taking each other's answers.
AnswerIsOwnUnlessTimedOut ==
  res.kind = "frame" => res.frame.own \/ res.afterTimeout

\* Frozen data.  One connection delivers at most StaleThreshold + 1 identical
\* answers in a row before _note_response gives it up, also when the count
\* was started on an earlier connection.
IdenticalRunBounded == run <= StaleThreshold

(***************************************************************************)
(* The inductive invariant behind these two.                               *)
(***************************************************************************)

\* The lock belongs to the one thread that is inside transact().
LockInv == \A t \in Callers : pc[t] \in Busy <=> lock = t

\* Until an attempt times out, the connection carries nothing but the
\* request of the waiting transaction, or its answer.
Carries(n, m) == Len(pending) = n /\ Len(inbox) = m
OwnUnderWay ==
  \/ Carries(0, 0)
  \/ Carries(1, 0) /\ pending[1].own
  \/ Carries(0, 1) /\ inbox[1].own
FreshInv ==
  ~timedOut => IF \E t \in Callers : pc[t] = "recv"
               THEN OwnUnderWay ELSE Carries(0, 0)

\* The count of _note_response never falls behind the connection's own run.
RunInv == run <= stale + 1 /\ stale < StaleThreshold

ConnInv ==
  TypeOK /\ LockInv /\ FreshInv /\ RunInv /\ AnswerIsOwnUnlessTimedOut

\* Every transaction ends: transact() returns or raises whatever the dongle
\* does, because each wait has a deadline and the attempts are counted.
TransactionTerminates ==
  \A t \in Callers : (pc[t] \in Busy) ~> (pc[t] \notin Busy)

(***************************************************************************)
(* What the documentation says and the code does not do.                   *)
(***************************************************************************)

\* persistent.py:15: "automatic reconnect + retry when the dongle drops the
\* connection".  Once the dongle stays reachable, polling goes on.
PollingRecovers ==
  <>[]reachable => []<>(pc[Poller] \in Busy)
=============================================================================
