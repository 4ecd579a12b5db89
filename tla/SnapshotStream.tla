---------------------------- MODULE SnapshotStream ----------------------------
(***************************************************************************)
(* The live feed of the API: _ws_broadcaster_task(), the /ws endpoint and  *)
(* their clients (api/__init__.py 981-1109), over the tables that the      *)
(* collector of Outputs writes.                                            *)
(*                                                                         *)
(* Broadcaster and endpoints are tasks of one event loop: they take turns  *)
(* at their awaits.  The broadcaster reads the database in a worker        *)
(* thread, in two queries, between which everything else goes on.          *)
(***************************************************************************)
EXTENDS Outputs, FiniteSets

CONSTANTS
  Clients,    \* WebSocket clients
  MaxConnects \* bound: connections they make, all together

ASSUME StreamAssumption == MaxConnects \in Nat /\ IsFiniteSet(Clients)

VARIABLES
  task,    \* where the broadcaster is: "dead" after an exception it lets out
  fetched, \* the id its worker thread has read, 0 for none
  lastId,  \* last_id, 0 for None
  set,     \* _active_ws_clients
  size,    \* its size when the loop over it began
  visited, \* the clients this loop has sent to
  failed,  \* disconnected
  link,    \* a client's connection: "up", "down", or "away" before it is made
  got,     \* the id each client received last on its connection
  joined,  \* observation: the clients that came while a snapshot was fetched
  missed,  \* observation: the snapshot a client's first query failed for, or 0
  connects \* what is left of MaxConnects

streamVars == <<task, fetched, lastId, set, size, visited, failed, link, got,
                joined, missed, connects>>
vars == <<outputVars, streamVars>>

-----------------------------------------------------------------------------
(***************************************************************************)
(* The broadcaster.                                                        *)
(***************************************************************************)
Loop == <<set, size, visited, failed>>

\* Every second: nothing to do without clients.
Wake ==
  /\ task = "sleep"
  /\ IF set = {}
     THEN lastId' = 0 /\ UNCHANGED task
     ELSE task' = "newest" /\ UNCHANGED lastId
  /\ UNCHANGED <<fetched, Loop, link, got, joined, missed, connects>>

\* Mutant of ReadNewest: any row, for want of an ORDER BY.
ReadAny ==
  /\ task = "newest" /\ dbUp
  /\ IF snap.id = 0
     THEN task' = "sleep" /\ fetched' = 0
     ELSE task' = "registers" /\ fetched' \in 1..snap.id
  /\ UNCHANGED <<lastId, Loop, link, got, joined, missed, connects>>

\* _fetch_latest_snapshot(): the newest row, ...
ReadNewest ==
  /\ task = "newest" /\ dbUp
  /\ IF snap.id = 0
     THEN task' = "sleep" /\ fetched' = 0
     ELSE task' = "registers" /\ fetched' = snap.id
  /\ UNCHANGED <<lastId, Loop, link, got, joined, missed, connects>>

\* ... then its registers, which may not be there yet: the result is the same
\* to the broadcaster.  It sends what it has not sent last.
ReadRegisters ==
  /\ task = "registers" /\ dbUp
  /\ fetched' = 0
  /\ IF fetched = lastId
     THEN /\ task' = "sleep" /\ joined' = {}
          /\ UNCHANGED <<lastId, size, visited, failed>>
     ELSE /\ task' = "send" /\ UNCHANGED joined
          /\ lastId' = fetched
          /\ size' = Cardinality(set)
          /\ visited' = {} /\ failed' = {}
  /\ UNCHANGED <<set, link, got, missed, connects>>

\* A failed query is a missing snapshot.
FetchFails ==
  /\ task \in {"newest", "registers"} /\ ~dbUp
  /\ task' = "sleep" /\ fetched' = 0 /\ joined' = {}
  /\ UNCHANGED <<lastId, Loop, link, got, missed, connects>>

\* Each turn of "for ws in _active_ws_clients" first looks at the size, also
\* the turn that finds no client left.
Changed == Cardinality(set) # size

Send(c) ==
  /\ task = "send" /\ ~Changed
  /\ c \in set \ visited
  /\ visited' = visited \cup {c}
  /\ IF link[c] = "up"
     THEN got' = [got EXCEPT ![c] = lastId] /\ UNCHANGED failed
     ELSE failed' = failed \cup {c} /\ UNCHANGED got
  /\ UNCHANGED <<task, fetched, lastId, set, size, link, joined, missed, connects>>

\* Mutant of Sent: disconnected is not emptied.
SentKeepsFailed ==
  /\ task = "send" /\ ~Changed
  /\ set \subseteq visited
  /\ task' = "sleep"
  /\ set' = set \ failed
  /\ size' = 0 /\ visited' = {} /\ joined' = {}
  /\ UNCHANGED <<fetched, lastId, failed, link, got, missed, connects>>

\* Mutant of Sent: the clients that failed are forgotten with the good ones.
SentAll ==
  /\ task = "send" /\ ~Changed
  /\ set \subseteq visited
  /\ task' = "sleep"
  /\ set' = set \ visited
  /\ size' = 0 /\ visited' = {} /\ failed' = {} /\ joined' = {}
  /\ UNCHANGED <<fetched, lastId, link, got, missed, connects>>

Sent ==
  /\ task = "send" /\ ~Changed
  /\ set \subseteq visited
  /\ task' = "sleep"
  /\ set' = set \ failed
  /\ size' = 0 /\ visited' = {} /\ failed' = {} /\ joined' = {}
  /\ UNCHANGED <<fetched, lastId, link, got, missed, connects>>

\* RuntimeError: Set changed size during iteration.  Nothing catches it.
Die ==
  /\ task = "send" /\ Changed
  /\ task' = "dead"
  /\ size' = 0 /\ visited' = {} /\ failed' = {} /\ joined' = {}
  /\ UNCHANGED <<fetched, lastId, set, link, got, missed, connects>>

-----------------------------------------------------------------------------
(***************************************************************************)
(* The endpoint.  Between accepting a client and the first message nothing *)
(* is awaited that can wait.  A failed query is a missing snapshot here    *)
(* too, but a database that refuses the connection is an exception         *)
(* (_get_conn() stands outside the try): the client is cut off, and its    *)
(* connection stays in the set.                                            *)
(***************************************************************************)
\* What a client finds: the newest snapshot, nothing, or no database.
Replay(c) ==
  \/ /\ dbUp
     /\ link' = [link EXCEPT ![c] = "up"]
     /\ \/ /\ got' = [got EXCEPT ![c] = snap.id]
           /\ missed' = [missed EXCEPT ![c] = 0]
        \/ /\ got' = [got EXCEPT ![c] = 0]
           /\ missed' = [missed EXCEPT ![c] = snap.id]
  \/ /\ ~dbUp
     /\ link' = [link EXCEPT ![c] = "down"]
     /\ got' = [got EXCEPT ![c] = 0]
     /\ missed' = [missed EXCEPT ![c] = 0]

Join(c) ==
  /\ link[c] # "up" /\ c \notin set
  /\ connects > 0 /\ connects' = connects - 1
  /\ set' = set \cup {c}
  /\ Replay(c)
  /\ joined' = IF task \in {"registers", "send"} THEN joined \cup {c}
               ELSE joined
  /\ UNCHANGED <<task, fetched, lastId, size, visited, failed>>

\* A client leaves.  The endpoint notices WebSocketDisconnect; any other
\* exception leaves the client in the set until a message to it fails.
Disconnect(c) ==
  /\ link[c] = "up"
  /\ link' = [link EXCEPT ![c] = "down"]
  /\ \/ set' = set \ {c}
     \/ UNCHANGED set
  /\ got' = [got EXCEPT ![c] = 0] /\ missed' = [missed EXCEPT ![c] = 0]
  /\ UNCHANGED <<task, fetched, lastId, size, visited, failed, joined, connects>>

-----------------------------------------------------------------------------
StreamInit ==
  /\ task = "sleep" /\ fetched = 0 /\ lastId = 0
  /\ set = {} /\ size = 0 /\ visited = {} /\ failed = {}
  /\ link = [c \in Clients |-> "away"]
  /\ got = [c \in Clients |-> 0]
  /\ joined = {}
  /\ missed = [c \in Clients |-> 0]
  /\ connects = MaxConnects

Broadcast == Wake \/ ReadNewest \/ ReadRegisters \/ FetchFails
             \/ (\E c \in Clients : Send(c)) \/ Sent \/ Die

StreamNext == \/ Broadcast
              \/ \E c \in Clients : Join(c) \/ Disconnect(c)

Init == OutputsInit /\ StreamInit

Next == \/ OutputsNext /\ UNCHANGED streamVars
        \/ StreamNext /\ UNCHANGED outputVars

Spec == Init /\ [][Next]_vars

\* The writer loop and the event loop run, and the database comes back.
Fairness == /\ WF_vars(WriterStep /\ UNCHANGED streamVars)
            /\ WF_vars(DbUp /\ UNCHANGED streamVars)
            /\ WF_vars(Broadcast /\ UNCHANGED outputVars)

FairSpec == Spec /\ Fairness

-----------------------------------------------------------------------------
StreamTypeOK ==
  /\ task \in {"sleep", "newest", "registers", "send", "dead"}
  /\ fetched \in 0..MaxId /\ lastId \in 0..MaxId
  /\ set \subseteq Clients /\ size \in 0..Cardinality(Clients)
  /\ visited \subseteq Clients /\ failed \subseteq visited
  /\ link \in [Clients -> {"away", "up", "down"}]
  /\ got \in [Clients -> 0..MaxId]
  /\ joined \subseteq Clients
  /\ missed \in [Clients -> 0..MaxId]
  /\ connects \in 0..MaxConnects

(***************************************************************************)
(* A client never receives an older snapshot after a newer one, although   *)
(* it is served by two tasks that read the database on their own.  (One    *)
(* that joins while a snapshot is being fetched may.)                      *)
(***************************************************************************)
NeverBackwards ==
  [][\A c \in Clients : link[c] = "up" /\ link'[c] = "up" /\ c \notin joined
                          => got'[c] >= got[c]]_vars

(***************************************************************************)
(* A client that stays connected receives the newest snapshot in the end,  *)
(* unless the set of clients changed during a broadcast, which ends the    *)
(* broadcaster (BroadcasterLives).  One whose first query failed may have  *)
(* to wait for the next snapshot; one that comes while the database is     *)
(* away does not stay connected.                                           *)
(***************************************************************************)
ClientsFollow ==
  \A c \in Clients :
    <>[](link[c] = "up")
      => <>[](task = "dead") \/ []<>(snap.id \in {got[c], missed[c]})

(***************************************************************************)
(* api/__init__.py:1060: the broadcaster pushes the latest snapshot to     *)
(* every connected client.  It can only do so while it runs.               *)
(***************************************************************************)
BroadcasterLives == task # "dead"

-----------------------------------------------------------------------------
(***************************************************************************)
(* The inductive invariant behind NeverBackwards: no one is ahead of the   *)
(* table, and what is being fetched or sent is not older than what any     *)
(* client has that was there when it was read.                             *)
(***************************************************************************)
FeedOrder ==
  /\ lastId <= snap.id /\ fetched <= snap.id
  /\ \A c \in Clients : got[c] <= snap.id
  /\ \A c \in Clients \ joined :
       link[c] = "up" => /\ task = "registers" => got[c] <= fetched
                         /\ task = "send" => got[c] <= lastId
=============================================================================
