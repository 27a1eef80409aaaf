---------------------------- MODULE RoomManager ----------------------------
(***************************************************************************)
(* The service around the rooms: the HTTP handlers of pkg/session/api.go   *)
(* and cmd/transcribe-service, session.Manager with its table of rooms and *)
(* its lock, and main, which on SIGTERM shuts the HTTP server down and     *)
(* then closes the manager.                                                *)
(*                                                                         *)
(* A room is identified by the join request that made it: a token may be   *)
(* served by several rooms over time, and by two at once while an old one  *)
(* is torn down. What a room does inside is RoomSession; here it is only   *)
(* the two ways it can hold up a caller (hang).                            *)
(***************************************************************************)
EXTENDS Naturals, FiniteSets

CONSTANTS
  Tokens,       \* Nextcloud Talk room tokens
  Requests,     \* HTTP requests; bounds the requests of a behaviour
  Main,         \* the main goroutine
  NoRoom, Nobody

Procs == Requests \cup {Main}

Operations == {"join", "disable", "stop", "count"}
Calls == [op : Operations, token : Tokens]

ASSUME NamesAssumption ==
  /\ Main \notin Requests /\ NoRoom \notin Requests /\ Nobody \notin Procs
  /\ Tokens # {}

VARIABLES
  rooms,        \* m.rooms: token -> the request that made the room
  life,         \* of the room a join makes
  hang,         \* "peer": its teardown waits for a silent RTP peer or
                \* for a write that stalls;
                \* "lock": addSpeaker keeps its mu
  writer,       \* holder of m.mu.Lock across steps
  readers,      \* holders of m.mu.RLock across steps
  call,         \* what a request asks, from its arrival on
  pc,
  target,       \* the room a LeaveRoom call tears down
  answer,       \* the HTTP answer: ok (200) or error (500)
  todo,         \* the tokens Manager.Close has still to leave
  overrun       \* server.Shutdown gave up after 5 s with handlers running

tableVars == <<rooms, life, hang>>
lockVars  == <<writer, readers>>
mainVars  == <<todo, overrun>>
vars == <<tableVars, lockVars, call, pc, target, answer, mainVars>>

TypeOK ==
  /\ rooms \in [Tokens -> Requests \cup {NoRoom}]
  /\ life \in [Requests -> {"none", "dialled", "live", "ending", "gone"}]
  /\ hang \in [Requests -> {"no", "peer", "lock", "over"}]
  /\ writer \in Requests \cup {Nobody} /\ readers \subseteq Requests
  /\ call \in [Requests -> Calls]
  /\ pc \in [Procs -> {"idle", "lock", "dial", "send", "cancel", "close", "rooms",
                       "count", "reply", "done", "serving", "draining", "closing",
                       "exited"}]
  /\ target \in [Procs -> Requests \cup {NoRoom}]
  /\ \A p \in Procs : pc[p] \in {"cancel", "close"} => target[p] # NoRoom
  /\ answer \in [Requests -> {"none", "ok", "error"}]
  /\ todo \subseteq Tokens /\ overrun \in BOOLEAN

\* NewManager, and main waiting for a signal.
Init ==
  /\ rooms = [t \in Tokens |-> NoRoom]
  /\ life = [r \in Requests |-> "none"] /\ hang = [r \in Requests |-> "no"]
  /\ writer = Nobody /\ readers = {}
  /\ call = [r \in Requests |-> CHOOSE c \in Calls : TRUE]
  /\ pc = [p \in Procs |-> IF p = Main THEN "serving" ELSE "idle"]
  /\ target = [p \in Procs |-> NoRoom]
  /\ answer = [r \in Requests |-> "none"]
  /\ todo = {} /\ overrun = FALSE

\* r waits for m.mu to do op.
Wants(r, op) == pc[r] = "lock" /\ call[r].op = op
Goto(p, label) == pc' = [pc EXCEPT ![p] = label]
Move(p, from, to) == pc[p] = from /\ Goto(p, to)
Answer(r, ans) == answer' = [answer EXCEPT ![r] = ans]
LockFree == writer = Nobody /\ readers = {}

-----------------------------------------------------------------------------
(* HTTP handlers. Requests that never reach the manager (bad body, empty    *)
(* token, heartbeat, capabilities, languages, /health) are left out.        *)

Arrive(r) ==
  /\ pc[Main] = "serving" /\ pc[r] = "idle"
  /\ \E c \in Calls :
       /\ call' = [call EXCEPT ![r] = c]
       /\ Goto(r, IF c.op = "count" THEN "rooms" ELSE "lock")
  /\ UNCHANGED <<tableVars, lockVars, target, answer, mainVars>>

\* The handler writes its answer and returns.
Reply(r) ==
  /\ Move(r, "reply", "done")
  /\ UNCHANGED <<tableVars, lockVars, call, target, answer, mainVars>>

-----------------------------------------------------------------------------
(* JoinRoom: one critical section of m.mu, network calls included.          *)

JoinFinds(r) ==
  /\ Wants(r, "join") /\ LockFree /\ Goto(r, "reply")
  /\ rooms[call[r].token] # NoRoom
  /\ Answer(r, "ok")
  /\ UNCHANGED <<tableVars, lockVars, call, target, mainVars>>

\* Mutant: the room goes into the table before its HPB connection is made.
JoinLocks_InsertsFirst(r) ==
  /\ Wants(r, "join") /\ LockFree /\ Goto(r, "dial")
  /\ rooms[call[r].token] = NoRoom
  /\ writer' = r /\ rooms' = [rooms EXCEPT ![call[r].token] = r]
  /\ UNCHANGED <<life, hang, readers, call, target, answer, mainVars>>

\* Mutant: no test for a room that exists.
JoinLocks_NoExistsCheck(r) ==
  /\ Wants(r, "join") /\ LockFree /\ Goto(r, "dial")
  /\ writer' = r
  /\ UNCHANGED <<tableVars, readers, call, target, answer, mainVars>>

JoinLocks(r) ==
  /\ Wants(r, "join") /\ LockFree /\ Goto(r, "dial")
  /\ rooms[call[r].token] = NoRoom
  /\ writer' = r
  /\ UNCHANGED <<tableVars, readers, call, target, answer, mainVars>>

\* Connect fails: refused, its 10 s are over, or the request was abandoned.
DialFails(r) ==
  /\ Move(r, "dial", "reply") /\ Answer(r, "error") /\ writer' = Nobody
  /\ UNCHANGED <<tableVars, readers, call, target, mainVars>>

DialSucceeds(r) ==
  /\ Move(r, "dial", "send") /\ life' = [life EXCEPT ![r] = "dialled"]
  /\ UNCHANGED <<rooms, hang, lockVars, call, target, answer, mainVars>>

\* Mutant: the error return keeps the HPB connection.
SendJoinFails_NoClose(r) ==
  /\ Move(r, "send", "reply") /\ Answer(r, "error") /\ writer' = Nobody
  /\ UNCHANGED <<tableVars, readers, call, target, mainVars>>

\* The room message cannot be sent, or NewManager of webrtc fails: the HPB
\* client is closed again.
SendJoinFails(r) ==
  /\ Move(r, "send", "reply") /\ Answer(r, "error") /\ writer' = Nobody
  /\ life' = [life EXCEPT ![r] = "gone"]
  /\ UNCHANGED <<rooms, hang, readers, call, target, mainVars>>

\* Mutant: the manager's lock is kept.
StoreRoom_KeepsLock(r) ==
  /\ Move(r, "send", "reply") /\ Answer(r, "ok")
  /\ rooms' = [rooms EXCEPT ![call[r].token] = r]
  /\ life' = [life EXCEPT ![r] = "live"]
  /\ UNCHANGED <<hang, lockVars, call, target, mainVars>>

StoreRoom(r) ==
  /\ Move(r, "send", "reply") /\ Answer(r, "ok") /\ writer' = Nobody
  /\ rooms' = [rooms EXCEPT ![call[r].token] = r]
  /\ life' = [life EXCEPT ![r] = "live"]
  /\ UNCHANGED <<hang, readers, call, target, mainVars>>

-----------------------------------------------------------------------------
(* LeaveRoom(t), run by a request (DELETE, or POST with enable = false) and *)
(* by Manager.Close in main.                                                *)

Leaves(p, t) ==
  \/ p \in Requests /\ (Wants(p, "disable") \/ Wants(p, "stop"))
     /\ t = call[p].token
  \/ p = Main /\ pc[p] = "closing" /\ t \in todo

\* HandleTranscribeRequest ignores LeaveRoom's error, the DELETE handler
\* answers 500.
MissingAnswer(op) == IF op = "disable" THEN "ok" ELSE "error"

LeaveMisses(p, t) ==
  /\ Leaves(p, t) /\ LockFree /\ rooms[t] = NoRoom
  /\ IF p = Main
     THEN todo' = todo \ {t} /\ UNCHANGED <<pc, answer>>
     ELSE Goto(p, "reply") /\ Answer(p, MissingAnswer(call[p].op)) /\ UNCHANGED todo
  /\ UNCHANGED <<tableVars, lockVars, call, target, overrun>>

\* Mutant: the entry stays until someone else overwrites it.
LeaveDeletes_KeepsEntry(p, t) ==
  /\ Leaves(p, t) /\ LockFree /\ rooms[t] # NoRoom
  /\ target' = [target EXCEPT ![p] = rooms[t]]
  /\ Goto(p, "cancel")
  /\ IF p = Main THEN todo' = todo \ {t} /\ UNCHANGED answer
                 ELSE Answer(p, "ok") /\ UNCHANGED todo
  /\ UNCHANGED <<tableVars, lockVars, call, overrun>>

LeaveDeletes(p, t) ==
  /\ Leaves(p, t) /\ LockFree /\ rooms[t] # NoRoom
  /\ target' = [target EXCEPT ![p] = rooms[t]]
  /\ rooms' = [rooms EXCEPT ![t] = NoRoom]
  /\ Goto(p, "cancel")
  /\ IF p = Main THEN todo' = todo \ {t} /\ UNCHANGED answer
                 ELSE Answer(p, "ok") /\ UNCHANGED todo
  /\ UNCHANGED <<life, hang, lockVars, call, overrun>>

\* room.cancel(), outside the lock.
LeaveCancels(p) ==
  /\ Move(p, "cancel", "close") /\ life' = [life EXCEPT ![target[p]] = "ending"]
  /\ UNCHANGED <<rooms, hang, lockVars, call, target, answer, mainVars>>

\* Collecting the speakers needs the room's mu, removing them waits for their
\* readers, and then the WebRTC manager and the HPB client are closed. (The 5 s
\* LeaveRoom allows at the end are for the orchestration goroutine only.)
LeaveCloses(p) ==
  /\ Move(p, "close", IF p = Main THEN "closing" ELSE "reply")
  /\ hang[target[p]] \notin {"peer", "lock"}
  /\ life' = [life EXCEPT ![target[p]] = "gone"]
  /\ UNCHANGED <<rooms, hang, lockVars, call, target, answer, mainVars>>

-----------------------------------------------------------------------------
(* /healthz and /metrics: RoomCount, then SpeakerCount.                     *)

RoomCount(r) ==
  /\ writer = Nobody /\ Move(r, "rooms", "lock")
  /\ UNCHANGED <<tableVars, lockVars, call, target, answer, mainVars>>

SpeakerCountLocks(r) ==
  /\ Wants(r, "count") /\ writer = Nobody /\ Goto(r, "count")
  /\ readers' = readers \cup {r}
  /\ UNCHANGED <<tableVars, writer, call, target, answer, mainVars>>

InTable(i) == \E t \in Tokens : rooms[t] = i

\* Every room's mu is taken in turn while m.mu is held for reading.
SpeakerCount(r) ==
  /\ Move(r, "count", "reply") /\ Answer(r, "ok")
  /\ \A i \in Requests : InTable(i) => hang[i] # "lock"
  /\ readers' = readers \ {r}
  /\ UNCHANGED <<tableVars, writer, call, target, mainVars>>

-----------------------------------------------------------------------------
(* Rooms that hold up their callers.                                        *)

\* A peer that keeps its connection open and sends nothing holds up the removal
\* of its speaker, as a write of audio or to the HPB does that never ends;
\* under the room's mu, addSpeaker waits for that same removal
\* (CreatePeer), or for an HPB that does not read the requestoffer.
Hang(i) ==
  /\ life[i] \in {"live", "ending"} /\ hang[i] = "no"
  /\ \E h \in {"peer", "lock"} : hang' = [hang EXCEPT ![i] = h]
  /\ UNCHANGED <<rooms, life, lockVars, call, pc, target, answer, mainVars>>

\* The peer sends or goes away, the write returns. Nothing makes it happen.
HangPasses(i) ==
  /\ hang[i] \in {"peer", "lock"} /\ hang' = [hang EXCEPT ![i] = "over"]
  /\ UNCHANGED <<rooms, life, lockVars, call, pc, target, answer, mainVars>>

-----------------------------------------------------------------------------
(* main, from the signal to the end of the process.                         *)

Signal ==
  /\ Move(Main, "serving", "draining")
  /\ UNCHANGED <<tableVars, lockVars, call, target, answer, mainVars>>

Handled(r) == pc[r] \in {"idle", "done"}

\* server.Shutdown returns once no handler runs, or after 5 s; then the
\* deferred Manager.Close copies the tokens under the lock.
CopyTokens == todo' = {t \in Tokens : rooms[t] # NoRoom}

\* Mutant: main waits for the handlers without the 5 s limit.
ShutdownReturns_NoTimeout ==
  /\ LockFree /\ Move(Main, "draining", "closing") /\ CopyTokens
  /\ \A r \in Requests : Handled(r)
  /\ UNCHANGED <<tableVars, lockVars, call, target, answer, overrun>>

\* Mutant: the server is not shut down before the manager is closed.
ShutdownReturns_AtOnce ==
  /\ LockFree /\ Move(Main, "draining", "closing") /\ CopyTokens
  /\ UNCHANGED <<tableVars, lockVars, call, target, answer, overrun>>

ShutdownReturns ==
  /\ LockFree /\ Move(Main, "draining", "closing") /\ CopyTokens
  /\ overrun' = \E r \in Requests : ~Handled(r)
  /\ UNCHANGED <<tableVars, lockVars, call, target, answer>>

\* Manager.Close has left every room it listed; main returns and the process
\* ends with whatever still runs in it.
Exit ==
  /\ todo = {} /\ Move(Main, "closing", "exited")
  /\ UNCHANGED <<tableVars, lockVars, call, target, answer, mainVars>>

-----------------------------------------------------------------------------

Join(r) ==
  \/ JoinFinds(r) \/ JoinLocks(r) \/ DialFails(r) \/ DialSucceeds(r)
  \/ SendJoinFails(r) \/ StoreRoom(r)

Leave(p) ==
  \/ \E t \in Tokens : LeaveMisses(p, t) \/ LeaveDeletes(p, t)
  \/ LeaveCancels(p) \/ LeaveCloses(p)

Count(r) == RoomCount(r) \/ SpeakerCountLocks(r) \/ SpeakerCount(r)

Handle(r) == Join(r) \/ Leave(r) \/ Count(r) \/ Reply(r)
MainStep  == ShutdownReturns \/ Leave(Main) \/ Exit

Next ==
  /\ pc[Main] # "exited"
  /\ \/ \E r \in Requests : Arrive(r) \/ Handle(r) \/ Hang(r) \/ HangPasses(r)
     \/ Signal \/ MainStep

\* The scheduler runs every goroutine that can step. Requests, signals and
\* hangs come and go as they like.
Fairness ==
  /\ \A r \in Requests : WF_vars(pc[Main] # "exited" /\ Handle(r))
  /\ WF_vars(MainStep)

Spec == Init /\ [][Next]_vars /\ Fairness

-----------------------------------------------------------------------------
(* Safety                                                                   *)

TearsDown(p, i) == pc[p] \in {"cancel", "close"} /\ target[p] = i

\* A room that runs is in the table under its own token, where a stop request
\* and Manager.Close find it, or a LeaveRoom call is about to cancel it; a
\* connection that is not yet a room belongs to the join that holds the lock;
\* and nothing that was torn down is in the table (JoinRoom, LeaveRoom).
NoOrphans ==
  \A i \in Requests :
    /\ life[i] = "live" => \/ rooms[call[i].token] = i
                           \/ \E p \in Procs : pc[p] = "cancel" /\ target[p] = i
    /\ life[i] = "dialled" => writer = i /\ pc[i] = "send"
    /\ life[i] = "ending" => \E p \in Procs : pc[p] = "close" /\ target[p] = i
    /\ InTable(i) => life[i] = "live" /\ ~\E p \in Procs : TearsDown(p, i)

\* Two LeaveRoom calls never tear down the same room, whoever makes them: the
\* second Close of an HPB client or a WebRTC peer would close a closed channel
\* (manager.go 702).
TeardownOnce ==
  \A p, q \in Procs : \A i \in Requests :
    TearsDown(p, i) /\ TearsDown(q, i) => p = q

\* When server.Shutdown saw every handler return, the process ends with every
\* room closed: no join added a room behind the copy of the tokens and no
\* LeaveRoom was cut short (main.go 252, manager.go 774).
CleanExit ==
  pc[Main] = "exited" /\ ~overrun =>
    \A i \in Requests : life[i] \in {"none", "gone"}

\* DEPLOY.md says of SIGTERM that the service "Closes all rooms and connections".
ExitClosesAll ==
  pc[Main] = "exited" => \A i \in Requests : life[i] \in {"none", "gone"}

-----------------------------------------------------------------------------
(* Refinement                                                               *)

dirPhase == [r \in Requests |->
  CASE pc[r] = "idle" -> "idle"
    [] pc[r] \in {"cancel", "close", "reply"} -> "decided"
    [] pc[r] = "done" -> "answered"
    [] OTHER -> "open"]

Directory == INSTANCE RoomDirectory WITH
  on <- {t \in Tokens : rooms[t] # NoRoom},
  asked <- call, phase <- dirPhase, answer <- answer,
  serving <- pc[Main] = "serving"

\* Under any interleaving of the handlers and of main the API behaves as one
\* switch per token: what JoinRoom, LeaveRoom and the two handlers do and
\* answer is explained by one moment of each request.
DirectorySpec == Directory!DirSpec

-----------------------------------------------------------------------------
(* Liveness                                                                 *)

\* What can hold up process p: a room in the table whose mu is held for good
\* (through SpeakerCount, which then keeps m.mu), or the room p tears down.
HeldUp(p) ==
  \E i \in Requests :
    \/ InTable(i) /\ hang[i] = "lock"
    \/ TearsDown(p, i) /\ hang[i] \in {"peer", "lock"}

\* Every request is answered unless it is held up for good or the process
\* ends first: a silent peer delays only the request that tears down its own
\* room, and no lock is left behind on an error path (manager.go 120-191, 695).
RequestsAnswered ==
  \A r \in Requests :
    []<>~HeldUp(r) =>
      (pc[r] # "idle" ~> pc[r] = "done" \/ pc[Main] = "exited")

\* After SIGTERM the process ends, unless a room holds up main for good: main
\* waits for no handler beyond 5 s (main.go 249-257).
ShutdownExits ==
  []<>~HeldUp(Main) => (pc[Main] = "draining" ~> pc[Main] = "exited")

=============================================================================
