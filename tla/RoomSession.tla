---------------------------- MODULE RoomSession ----------------------------
(***************************************************************************)
(* One room of pkg/session, from the moment Manager.JoinRoom has put it in *)
(* m.rooms until Manager.LeaveRoom returns: the orchestration goroutine,   *)
(* the goroutine that runs LeaveRoom, the /healthz handler that counts     *)
(* speakers, the room's Speakers table, the WebRTC manager's peer table    *)
(* with its lock, one transcriber and one RTP reader per peer, and the     *)
(* lock of the HPB client with the writes made under it.                   *)
(*                                                                         *)
(* A "peer" is one incarnation of a speaker: addSpeaker makes a peer       *)
(* connection, a transcriber and (through OnTrack) a reader together, so   *)
(* one identity from Peers stands for the three.                           *)
(***************************************************************************)
EXTENDS Naturals, Sequences, FiniteSets

CONSTANTS
  Sessions,      \* HPB session IDs of participants
  Peers,         \* identities of peer connections; bounds the CreatePeer calls
  Messages,      \* HPB events, each the list of entries its handler goes through
  SpeakerCap,    \* per-room speaker limit (100 in the code)
  QueueCap,      \* capacity of the HPB client's msgChan (100 in the code)
  MaxMessages,   \* bound on the HPB events and pings of one behaviour
  NoSession, NoPeer

Orch   == "orch"
Leaver == "leave"
Procs  == {Orch, Leaver}
Ponger == "pong"      \* a read loop of the HPB client that answers a ping

\* What a handler does with a session: "in" calls addSpeaker, "out" calls
\* removeSpeaker, "offer" answers an SDP offer, "join" compares with SessionID().
Entries == [op : {"in", "out", "offer", "join"}, s : Sessions]

ASSUME ConstantsAssumption ==
  /\ Messages \subseteq Seq(Entries)
  /\ SpeakerCap \in Nat /\ QueueCap \in Nat /\ MaxMessages \in Nat
  /\ NoSession \notin Sessions /\ NoPeer \notin Peers

VARIABLES
  \* Manager and Room
  inRooms,       \* the room is in m.rooms
  health,        \* "reading": SpeakerCount holds m.mu.RLock and wants r.mu.RLock
  ctxDone,       \* r.ctx is cancelled
  roomMu,        \* holder of r.mu across steps ("free" between)
  speakers,      \* r.Speakers: session -> peer identity
  \* webrtc.Manager
  webrtcMu,      \* holder of the WebRTC manager's mu across steps
  peers,         \* m.peers: session -> peer identity
  signalled,     \* peers whose closeCh is closed
  media,         \* state of the pion peer connection
  answered,      \* peers whose offer was answered, so that OnTrack can fire
  reader,        \* readAndDecodeAudio goroutine of a peer
  \* transcribers
  transcriber,   \* run/processAudioLoop goroutines of a peer's transcriber
  cancelled,     \* transcribers whose own cancel was called
  \* HPB client as the room sees it
  hpb, inbox, received,
  hpbMu,         \* holder of the HPB client's c.mu, over a dial or a write
  \* goroutines
  pc, work, target, victim, todo

roomVars   == <<inRooms, health, ctxDone, roomMu, speakers>>
webrtcVars == <<webrtcMu, peers, signalled, media, answered, reader>>
transVars  == <<transcriber, cancelled>>
hpbVars    == <<hpb, inbox, received, hpbMu>>
procVars   == <<pc, work, target, victim, todo>>
vars == <<roomVars, webrtcVars, transVars, hpbVars, procVars>>

\* Where the orchestrator calls SendMessage: addSpeaker, handleOffer, reconnectHPB.
Sends == {"request", "answer", "rejoin"}

Labels == {"select", "handle", "create", "stop", "await", "unpeer", "reap",
           "reconnect", "connect", "dial", "hello", "exited"} \cup Sends \cup
          {"idle", "collect", "loop", "mgrlock", "mgrclose", "mgrreap",
           "hpbclose", "wait", "done"}

TypeOK ==
  /\ inRooms \in BOOLEAN /\ health \in {"idle", "reading"} /\ ctxDone \in BOOLEAN
  /\ roomMu \in {"free", Orch} /\ hpbMu \in {"free", Orch, Ponger} /\ webrtcMu \in Procs \cup {"free"}
  /\ speakers \in [Sessions -> Peers \cup {NoPeer}]
  /\ peers \in [Sessions -> Peers \cup {NoPeer}]
  /\ signalled \subseteq Peers /\ answered \subseteq Peers /\ cancelled \subseteq Peers
  /\ media \in [Peers -> {"none", "open", "closed"}]
  /\ reader \in [Peers -> {"none", "polling", "blocked", "exited"}]
  /\ transcriber \in [Peers -> {"none", "running", "writing", "done"}]
  /\ hpb \in {"open", "lost", "dead", "closed"}
  /\ inbox \in Seq(Messages) /\ received \in Nat
  /\ pc \in [Procs -> Labels] /\ work \in Seq(Entries)
  /\ target \in [Procs -> Sessions \cup {NoSession}]
  /\ victim \in [Procs -> Peers \cup {NoPeer}]
  /\ todo \subseteq Sessions

\* JoinRoom has connected, stored the room and started orchestrationLoop.
Init ==
  /\ inRooms = TRUE /\ health = "idle" /\ ctxDone = FALSE
  /\ roomMu = "free" /\ webrtcMu = "free"
  /\ speakers = [s \in Sessions |-> NoPeer] /\ peers = [s \in Sessions |-> NoPeer]
  /\ signalled = {} /\ answered = {} /\ cancelled = {}
  /\ media = [i \in Peers |-> "none"] /\ reader = [i \in Peers |-> "none"]
  /\ transcriber = [i \in Peers |-> "none"]
  /\ hpb = "open" /\ inbox = <<>> /\ received = 0 /\ hpbMu = "free"
  /\ pc = [p \in Procs |-> IF p = Orch THEN "select" ELSE "idle"]
  /\ work = <<>> /\ todo = {}
  /\ target = [p \in Procs |-> NoSession] /\ victim = [p \in Procs |-> NoPeer]

Goto(p, label) == pc' = [pc EXCEPT ![p] = label]
Move(p, from, to) == pc[p] = from /\ Goto(p, to)
Reading(i) == reader[i] \in {"polling", "blocked"}
InUse == {s \in Sessions : speakers[s] # NoPeer}

\* The local variables of addSpeaker and removeSpeaker go out of scope.
Forget(p) ==
  /\ target' = [target EXCEPT ![p] = NoSession]
  /\ victim' = [victim EXCEPT ![p] = NoPeer]

-----------------------------------------------------------------------------
(* The orchestration goroutine: one select, then the whole handler.        *)

OrchStops ==
  /\ ctxDone /\ Move(Orch, "select", "exited")
  /\ UNCHANGED <<roomVars, webrtcVars, transVars, hpbVars, work, target, victim, todo>>

\* The select takes a ready case at random: a queued event may win even when
\* r.ctx is done.
OrchReceives ==
  /\ inbox # <<>> /\ Move(Orch, "select", "handle")
  /\ work' = Head(inbox) /\ inbox' = Tail(inbox)
  /\ UNCHANGED <<roomVars, webrtcVars, transVars, hpb, received, hpbMu, target, victim, todo>>

HandlerReturns ==
  /\ work = <<>> /\ Move(Orch, "handle", "select")
  /\ UNCHANGED <<roomVars, webrtcVars, transVars, hpbVars, work, target, victim, todo>>

\* addSpeaker up to CreatePeer: r.mu is taken and, for a new speaker below the
\* cap, stays held while CreatePeer waits for the WebRTC manager's lock.
AddSpeakerKnown ==
  /\ work # <<>> /\ Head(work).op = "in"
  /\ pc[Orch] = "handle" /\ roomMu = "free"
  /\ \/ speakers[Head(work).s] # NoPeer
     \/ Cardinality(InUse) >= SpeakerCap
  /\ work' = Tail(work)
  /\ UNCHANGED <<roomVars, webrtcVars, transVars, hpbVars, pc, target, victim, todo>>

AddSpeakerLocks ==
  /\ work # <<>> /\ Head(work).op = "in" /\ roomMu = "free"
  /\ speakers[Head(work).s] = NoPeer /\ Cardinality(InUse) < SpeakerCap
  /\ Move(Orch, "handle", "create")
  /\ roomMu' = Orch /\ target' = [target EXCEPT ![Orch] = Head(work).s]
  /\ work' = Tail(work)
  /\ UNCHANGED <<inRooms, health, ctxDone, speakers, webrtcVars, transVars, hpbVars,
                 victim, todo>>

\* The rest of addSpeaker: the Speakers entry, the transcriber; r.mu stays held
\* for the requestoffer that comes next.
StartSpeaker(s, i) ==
  /\ speakers' = [speakers EXCEPT ![s] = i]
  /\ transcriber' = [transcriber EXCEPT ![i] = "running"]

\* A new peer connection is none of those made before, and no matter which.
Fresh == CHOOSE i \in Peers : media[i] = "none"

\* CreatePeer stores the new peer whatever m.peers held for the session.
CreatePeer ==
  /\ webrtcMu = "free" /\ Forget(Orch) /\ Move(Orch, "create", "request")
  /\ \E i \in Peers : media[i] = "none"
  /\ media' = [media EXCEPT ![Fresh] = "open"]
  /\ peers' = [peers EXCEPT ![target[Orch]] = Fresh]
  /\ StartSpeaker(target[Orch], Fresh)
  /\ UNCHANGED <<inRooms, health, ctxDone, roomMu, webrtcMu, signalled, answered, reader,
                 cancelled, hpbVars, work, todo>>

\* Mutant: the error return of addSpeaker forgets r.mu.Unlock.
CreatePeerFails_KeepsLock ==
  /\ webrtcMu = "free" /\ Forget(Orch) /\ Move(Orch, "create", "handle")
  /\ UNCHANGED <<roomVars, webrtcVars, transVars, hpbVars, work, todo>>

CreatePeerFails ==
  /\ webrtcMu = "free" /\ Forget(Orch) /\ Move(Orch, "create", "handle")
  /\ roomMu' = "free"
  /\ UNCHANGED <<inRooms, health, ctxDone, speakers, webrtcVars, transVars, hpbVars,
                 work, todo>>

\* GetPeer needs the lock; the answer is that of whatever peer the table holds.
\* CreateAnswer works on an open connection, and may fail on that too.
HandleOffer ==
  /\ work # <<>> /\ Head(work).op = "offer" /\ webrtcMu = "free"
  /\ LET i == peers[Head(work).s]
     IN  \/ i # NoPeer /\ media[i] = "open"
            /\ answered' = answered \cup {i} /\ Move(Orch, "handle", "answer")
         \/ Move(Orch, "handle", "handle") /\ UNCHANGED answered
  /\ work' = Tail(work)
  /\ UNCHANGED <<roomVars, webrtcMu, peers, signalled, media, reader, transVars, hpbVars,
                 target, victim, todo>>

\* SessionID() takes c.mu. That the session is marked is RoomMembership's.
HandleJoin ==
  /\ work # <<>> /\ Head(work).op = "join"
  /\ pc[Orch] = "handle" /\ hpbMu = "free" /\ roomMu = "free"
  /\ work' = Tail(work)
  /\ UNCHANGED <<roomVars, webrtcVars, transVars, hpbVars, pc, target, victim, todo>>

\* SendMessage: c.mu is kept over a write without deadline.
SendStarts ==
  /\ pc[Orch] \in Sends /\ hpbMu = "free" /\ hpb # "closed" /\ hpbMu' = Orch
  /\ UNCHANGED <<roomVars, webrtcVars, transVars, hpb, inbox, received, procVars>>

\* What follows the call: addSpeaker and handleOffer only log its error and return,
\* addSpeaker with r.mu.Unlock; reconnectHPB tries again.
AfterSend(ok) ==
  /\ pc[Orch] \in Sends
  /\ Goto(Orch, IF pc[Orch] # "rejoin" THEN "handle"
                ELSE IF ok THEN "select" ELSE "reconnect")
  /\ roomMu' = IF pc[Orch] = "request" THEN "free" ELSE roomMu
  /\ hpbMu' = "free"
  /\ UNCHANGED <<inRooms, health, ctxDone, speakers, webrtcVars, transVars, hpb, inbox,
                 received, work, target, victim, todo>>

SendRefused == hpbMu = "free" /\ hpb = "closed" /\ AfterSend(FALSE)

\* The write ends, if it does.
SendReturns == hpbMu = Orch /\ \E ok \in BOOLEAN : AfterSend(ok)

\* reconnectHPB: the loop looks at r.ctx before each attempt.
OrchSeesError ==
  /\ hpb = "lost" /\ hpb' = "dead" /\ Move(Orch, "select", "reconnect")
  /\ UNCHANGED <<roomVars, webrtcVars, transVars, inbox, received, hpbMu, work, target, victim,
                 todo>>

\* Mutant: the retry loop never looks at r.ctx.
ReconnectGivesUp_Never ==
  /\ FALSE /\ Move(Orch, "reconnect", "select")
  /\ UNCHANGED <<roomVars, webrtcVars, transVars, hpbVars, work, target, victim, todo>>

ReconnectGivesUp ==
  /\ ctxDone /\ Move(Orch, "reconnect", "select")
  /\ UNCHANGED <<roomVars, webrtcVars, transVars, hpbVars, work, target, victim, todo>>

ReconnectTries ==
  /\ ~ctxDone /\ Move(Orch, "reconnect", "connect")
  /\ UNCHANGED <<roomVars, webrtcVars, transVars, hpbVars, work, target, victim, todo>>

\* Connect closes the old connection and dials under c.mu. A dial begun under a
\* cancelled r.ctx fails at once; one that is under way may still succeed.
ConnectDials ==
  /\ hpbMu = "free" /\ ~ctxDone /\ Move(Orch, "connect", "dial")
  /\ hpbMu' = Orch /\ hpb' = "dead"
  /\ UNCHANGED <<roomVars, webrtcVars, transVars, inbox, received, work, target, victim, todo>>

ConnectCancelled ==
  /\ hpbMu = "free" /\ ctxDone /\ Move(Orch, "connect", "reconnect")
  /\ hpb' = IF hpb = "closed" THEN "closed" ELSE "dead"
  /\ UNCHANGED <<roomVars, webrtcVars, transVars, inbox, received, hpbMu, work, target, victim,
                 todo>>

\* Within 10 s the dial fails, or the hello is being written, still under c.mu.
DialEnds ==
  /\ \/ Move(Orch, "dial", "reconnect") /\ hpbMu' = "free"
     \/ Move(Orch, "dial", "hello") /\ UNCHANGED hpbMu
  /\ UNCHANGED <<roomVars, webrtcVars, transVars, hpb, inbox, received, work, target, victim,
                 todo>>

\* The write of the hello ends, if it does: the loops are started, or all is undone.
HelloReturns ==
  /\ \/ Move(Orch, "hello", "rejoin") /\ hpb' = "open"
     \/ Move(Orch, "hello", "reconnect") /\ UNCHANGED hpb
  /\ hpbMu' = "free"
  /\ UNCHANGED <<roomVars, webrtcVars, transVars, inbox, received, work, target, victim, todo>>

-----------------------------------------------------------------------------
(* removeSpeaker(s), run by the orchestrator for "out" entries and by       *)
(* LeaveRoom for each session it collected. p is the goroutine, home the    *)
(* place it returns to.                                                     *)

Home(p) == IF p = Orch THEN "handle" ELSE "loop"

\* What p is asked to remove now.
Removes(p, s) ==
  \/ /\ p = Orch /\ pc[p] = "handle"
     /\ work # <<>> /\ Head(work) = [op |-> "out", s |-> s]
  \/ p = Leaver /\ pc[p] = "loop" /\ s \in todo

Consume(p, s) ==
  /\ work' = IF p = Orch THEN Tail(work) ELSE work
  /\ todo' = IF p = Leaver THEN todo \ {s} ELSE todo

\* Mutant: the early return of removeSpeaker forgets r.mu.Unlock.
RemoveUnknown_KeepsLock(p, s) ==
  /\ Removes(p, s) /\ roomMu = "free" /\ speakers[s] = NoPeer
  /\ Consume(p, s) /\ roomMu' = p
  /\ UNCHANGED <<inRooms, health, ctxDone, speakers, webrtcVars, transVars, hpbVars, pc,
                 target, victim>>

RemoveUnknown(p, s) ==
  /\ Removes(p, s) /\ roomMu = "free" /\ speakers[s] = NoPeer
  /\ Consume(p, s)
  /\ UNCHANGED <<roomVars, webrtcVars, transVars, hpbVars, pc, target, victim>>

\* Mutant: the Speakers entry stays until the teardown is over.
RemoveFromTable_KeepsEntry(p, s) ==
  /\ Removes(p, s) /\ roomMu = "free" /\ speakers[s] # NoPeer
  /\ Goto(p, "stop") /\ Consume(p, s)
  /\ target' = [target EXCEPT ![p] = s]
  /\ victim' = [victim EXCEPT ![p] = speakers[s]]
  /\ UNCHANGED <<roomVars, webrtcVars, transVars, hpbVars>>

\* The table entry goes away under r.mu, before anything is torn down.
RemoveFromTable(p, s) ==
  /\ Removes(p, s) /\ roomMu = "free" /\ speakers[s] # NoPeer
  /\ Goto(p, "stop") /\ Consume(p, s)
  /\ speakers' = [speakers EXCEPT ![s] = NoPeer]
  /\ target' = [target EXCEPT ![p] = s]
  /\ victim' = [victim EXCEPT ![p] = speakers[s]]
  /\ UNCHANGED <<inRooms, health, ctxDone, roomMu, webrtcVars, transVars, hpbVars>>

\* Transcriber.Close: cancel, then wait for its goroutines.
CancelTranscriber(p) ==
  /\ Move(p, "stop", "await") /\ cancelled' = cancelled \cup {victim[p]}
  /\ UNCHANGED <<roomVars, webrtcVars, transcriber, hpbVars, work, target, victim, todo>>

\* Mutant: Transcriber.Close cancels but does not wait.
AwaitTranscriber_NoWait(p) ==
  /\ Move(p, "await", "unpeer")
  /\ UNCHANGED <<roomVars, webrtcVars, transVars, hpbVars, work, target, victim, todo>>

AwaitTranscriber(p) ==
  /\ Move(p, "await", "unpeer") /\ transcriber[victim[p]] = "done"
  /\ UNCHANGED <<roomVars, webrtcVars, transVars, hpbVars, work, target, victim, todo>>

\* RemovePeer looks the session up again, by then perhaps another peer.
RemovePeerUnknown(p) ==
  /\ Move(p, "unpeer", Home(p)) /\ webrtcMu = "free" /\ peers[target[p]] = NoPeer
  /\ Forget(p)
  /\ UNCHANGED <<roomVars, webrtcVars, transVars, hpbVars, work, todo>>

\* Mutant: RemovePeer looks the peer up under the lock but closes it without.
RemovePeerSignals_Unlocked(p) ==
  /\ Move(p, "unpeer", "reap") /\ webrtcMu = "free" /\ peers[target[p]] # NoPeer
  /\ victim' = [victim EXCEPT ![p] = peers[target[p]]]
  /\ signalled' = signalled \cup {peers[target[p]]}
  /\ UNCHANGED <<roomVars, webrtcMu, peers, media, answered, reader, transVars, hpbVars,
                 work, target, todo>>

RemovePeerSignals(p) ==
  /\ Move(p, "unpeer", "reap") /\ webrtcMu = "free" /\ peers[target[p]] # NoPeer
  /\ webrtcMu' = p
  /\ victim' = [victim EXCEPT ![p] = peers[target[p]]]
  /\ signalled' = signalled \cup {peers[target[p]]}
  /\ UNCHANGED <<roomVars, peers, media, answered, reader, transVars, hpbVars, work,
                 target, todo>>

\* Mutants: the closed peer stays in m.peers; the pion connection stays open.
RemovePeerReaps_KeepsEntry(p) ==
  /\ Move(p, "reap", Home(p)) /\ ~Reading(victim[p])
  /\ media' = [media EXCEPT ![victim[p]] = "closed"] /\ webrtcMu' = "free" /\ Forget(p)
  /\ UNCHANGED <<roomVars, peers, signalled, answered, reader, transVars, hpbVars, work, todo>>

RemovePeerReaps_KeepsMedia(p) ==
  /\ Move(p, "reap", Home(p)) /\ ~Reading(victim[p])
  /\ peers' = [peers EXCEPT ![target[p]] = NoPeer] /\ webrtcMu' = "free" /\ Forget(p)
  /\ UNCHANGED <<roomVars, media, signalled, answered, reader, transVars, hpbVars, work, todo>>

\* PeerConnection.Close waits for the reader before it closes the media.
RemovePeerReaps(p) ==
  /\ Move(p, "reap", Home(p)) /\ ~Reading(victim[p])
  /\ media' = [media EXCEPT ![victim[p]] = "closed"]
  /\ peers' = [peers EXCEPT ![target[p]] = NoPeer]
  /\ webrtcMu' = "free" /\ Forget(p)
  /\ UNCHANGED <<roomVars, signalled, answered, reader, transVars, hpbVars, work, todo>>

-----------------------------------------------------------------------------
(* LeaveRoom and the health check.                                          *)

\* m.mu.Lock excludes a running SpeakerCount; the cancel reaches every
\* transcriber of the room because their contexts derive from r.ctx.
LeaveRoom ==
  /\ inRooms /\ health = "idle" /\ Move(Leaver, "idle", "collect")
  /\ inRooms' = FALSE /\ ctxDone' = TRUE
  /\ UNCHANGED <<health, roomMu, speakers, webrtcVars, transVars, hpbVars, work, target,
                 victim, todo>>

LeaveCollects ==
  /\ roomMu = "free" /\ Move(Leaver, "collect", "loop")
  /\ todo' = InUse
  /\ UNCHANGED <<roomVars, webrtcVars, transVars, hpbVars, work, target, victim>>

LeaveRemovedAll ==
  /\ todo = {} /\ Move(Leaver, "loop", "mgrlock")
  /\ UNCHANGED <<roomVars, webrtcVars, transVars, hpbVars, work, target, victim, todo>>

\* webrtc.Manager.Close holds its lock over the whole loop.
MgrCloseLocks ==
  /\ webrtcMu = "free" /\ Move(Leaver, "mgrlock", "mgrclose")
  /\ webrtcMu' = Leaver /\ todo' = {s \in Sessions : peers[s] # NoPeer}
  /\ UNCHANGED <<roomVars, peers, signalled, media, answered, reader, transVars, hpbVars,
                 work, target, victim>>

MgrCloseSignals(s) ==
  /\ s \in todo /\ Move(Leaver, "mgrclose", "mgrreap")
  /\ todo' = todo \ {s}
  /\ victim' = [victim EXCEPT ![Leaver] = peers[s]]
  /\ signalled' = signalled \cup {peers[s]}
  /\ UNCHANGED <<roomVars, webrtcMu, peers, media, answered, reader, transVars, hpbVars,
                 work, target>>

MgrCloseReaps ==
  /\ Move(Leaver, "mgrreap", "mgrclose") /\ ~Reading(victim[Leaver])
  /\ media' = [media EXCEPT ![victim[Leaver]] = "closed"] /\ Forget(Leaver)
  /\ UNCHANGED <<roomVars, webrtcMu, peers, signalled, answered, reader, transVars, hpbVars,
                 work, todo>>

MgrCloseEnds ==
  /\ todo = {} /\ Move(Leaver, "mgrclose", "hpbclose")
  /\ peers' = [s \in Sessions |-> NoPeer] /\ webrtcMu' = "free"
  /\ UNCHANGED <<roomVars, signalled, media, answered, reader, transVars, hpbVars, work,
                 target, victim, todo>>

\* hpb.Client.Close waits for c.mu; once it has closed the connection under it, the
\* loops it waits for end by themselves.
LeaveClosesHPB ==
  /\ hpbMu = "free" /\ Move(Leaver, "hpbclose", "wait") /\ hpb' = "closed"
  /\ UNCHANGED <<roomVars, webrtcVars, transVars, inbox, received, hpbMu, work, target, victim,
                 todo>>

\* room.wg holds only the orchestrator; the 5 s timer may fire instead.
LeaveReturns ==
  /\ Move(Leaver, "wait", "done")
  /\ UNCHANGED <<roomVars, webrtcVars, transVars, hpbVars, work, target, victim, todo>>

\* SpeakerCount: m.mu.RLock while the room is in the table, then r.mu.RLock.
HealthStarts ==
  /\ inRooms /\ health = "idle" /\ health' = "reading"
  /\ UNCHANGED <<inRooms, ctxDone, roomMu, speakers, webrtcVars, transVars, hpbVars, procVars>>

HealthReads ==
  /\ health = "reading" /\ roomMu = "free" /\ health' = "idle"
  /\ UNCHANGED <<inRooms, ctxDone, roomMu, speakers, webrtcVars, transVars, hpbVars, procVars>>

-----------------------------------------------------------------------------
(* Readers, transcribers, and the outside world.                            *)

\* pion calls OnTrack once the answered connection delivers an audio track.
OnTrack(i) ==
  /\ i \in answered /\ media[i] = "open" /\ reader[i] = "none"
  /\ reader' = [reader EXCEPT ![i] = "polling"]
  /\ UNCHANGED <<roomVars, webrtcMu, peers, signalled, media, answered, transVars, hpbVars,
                 procVars>>

\* The top of the read loop looks at closeCh, then blocks in ReadRTP.
ReaderPolls(i) ==
  /\ reader[i] = "polling"
  /\ reader' = [reader EXCEPT ![i] = IF i \in signalled THEN "exited" ELSE "blocked"]
  /\ UNCHANGED <<roomVars, webrtcMu, peers, signalled, media, answered, transVars, hpbVars,
                 procVars>>

\* The remote side sends a packet, or ends the track: nothing obliges it to. That
\* ReadRTP fails because Close has closed the connection does not happen, since Close
\* waits for the reader first.
RemoteActs(i) ==
  /\ reader[i] = "blocked" /\ media[i] = "open"
  /\ \E r \in {"polling", "exited"} : reader' = [reader EXCEPT ![i] = r]
  /\ UNCHANGED <<roomVars, webrtcMu, peers, signalled, media, answered, transVars, hpbVars,
                 procVars>>

\* run, or its drain, writes a chunk to the speech service, with no deadline.
TranscriberWrites(i) ==
  /\ transcriber[i] = "running"
  /\ transcriber' = [transcriber EXCEPT ![i] = "writing"]
  /\ UNCHANGED <<roomVars, webrtcVars, cancelled, hpbVars, procVars>>

TranscriberWrote(i) ==
  /\ transcriber[i] = "writing"
  /\ transcriber' = [transcriber EXCEPT ![i] = "running"]
  /\ UNCHANGED <<roomVars, webrtcVars, cancelled, hpbVars, procVars>>

\* run and processAudioLoop end some time after their context is done, between two
\* writes: their own cancel, or the room's.
TranscriberEnds(i) ==
  /\ transcriber[i] = "running" /\ (i \in cancelled \/ ctxDone)
  /\ transcriber' = [transcriber EXCEPT ![i] = "done"]
  /\ UNCHANGED <<roomVars, webrtcVars, cancelled, hpbVars, procVars>>

\* An HPB event reaches msgChan; one that finds it full is dropped, which this
\* module cannot tell from one never sent.
EventArrives ==
  /\ hpb = "open" /\ received < MaxMessages /\ Len(inbox) < QueueCap
  /\ \E m \in Messages : inbox' = Append(inbox, m)
  /\ received' = received + 1
  /\ UNCHANGED <<roomVars, webrtcVars, transVars, hpb, hpbMu, procVars>>

\* A ping of the server is answered by the read loop, through SendMessage.
PingArrives ==
  /\ hpb = "open" /\ received < MaxMessages /\ hpbMu = "free"
  /\ hpbMu' = Ponger /\ received' = received + 1
  /\ UNCHANGED <<roomVars, webrtcVars, transVars, hpb, inbox, procVars>>

PongReturns ==
  /\ hpbMu = Ponger /\ hpbMu' = "free"
  /\ UNCHANGED <<roomVars, webrtcVars, transVars, hpb, inbox, received, procVars>>

ConnectionLost ==
  /\ hpb = "open" /\ hpb' = "lost"
  /\ UNCHANGED <<roomVars, webrtcVars, transVars, inbox, received, hpbMu, procVars>>

-----------------------------------------------------------------------------
RemoveSpeaker(p) ==
  \/ \E s \in Sessions : RemoveUnknown(p, s) \/ RemoveFromTable(p, s)
  \/ CancelTranscriber(p) \/ AwaitTranscriber(p)
  \/ RemovePeerUnknown(p) \/ RemovePeerSignals(p) \/ RemovePeerReaps(p)

OrchNext ==
  \/ OrchStops \/ OrchReceives \/ HandlerReturns
  \/ AddSpeakerKnown \/ AddSpeakerLocks \/ CreatePeer \/ CreatePeerFails
  \/ HandleOffer \/ HandleJoin \/ SendStarts \/ SendRefused
  \/ OrchSeesError \/ ReconnectGivesUp \/ ReconnectTries
  \/ ConnectDials \/ ConnectCancelled \/ DialEnds
  \/ RemoveSpeaker(Orch)

LeaveNext ==
  \/ LeaveCollects \/ LeaveRemovedAll \/ RemoveSpeaker(Leaver)
  \/ MgrCloseLocks \/ (\E s \in Sessions : MgrCloseSignals(s)) \/ MgrCloseReaps
  \/ MgrCloseEnds \/ LeaveClosesHPB \/ LeaveReturns

\* The ends of the writes, none of which has a deadline.
WritesEnd ==
  SendReturns \/ HelloReturns \/ PongReturns \/ \E i \in Peers : TranscriberWrote(i)

Environment ==
  \/ LeaveRoom \/ HealthStarts \/ EventArrives \/ PingArrives \/ ConnectionLost
  \/ \E i \in Peers : OnTrack(i) \/ RemoteActs(i) \/ TranscriberWrites(i)

Next ==
  \/ OrchNext \/ LeaveNext \/ HealthReads \/ WritesEnd \/ Environment
  \/ \E i \in Peers : ReaderPolls(i) \/ TranscriberEnds(i)

\* The Go scheduler runs every goroutine that can run, a mutex is handed to the
\* longest waiter, a select does not pass over a done context for ever. Nothing is
\* assumed of the outside: events, packets and requests may stop for ever, and
\* so may a write. An orchestrator whose context is done may still pick queued
\* events, but only finitely many.
Fairness ==
  /\ SF_vars(OrchNext) /\ SF_vars(LeaveNext) /\ WF_vars(HealthReads)
  /\ \A i \in Peers : WF_vars(ReaderPolls(i)) /\ SF_vars(TranscriberEnds(i))

Spec == Init /\ [][Next]_vars /\ Fairness

-----------------------------------------------------------------------------
(* Properties.                                                              *)

\* close(p.closeCh) panics on a closed channel. The orchestrator and LeaveRoom
\* both close peers, RemovePeer keeps the closed peer in m.peers while it waits:
\* a peer that either could close next has never been signalled.
CloseChannelOnce ==
  /\ webrtcMu = "free" => \A s \in Sessions : peers[s] \notin signalled
  /\ pc[Leaver] = "mgrclose" => \A s \in todo : peers[s] \notin signalled

\* removeSpeaker runs in two goroutines at once during LeaveRoom; because the
\* Speakers entry is deleted under r.mu they never tear down the same transcriber.
DisjointTeardown ==
  (\A p \in Procs : pc[p] \in {"stop", "await"}) => victim[Orch] # victim[Leaver]

\* While the room is live the two tables that addSpeaker and removeSpeaker keep
\* under different locks agree, except for the one speaker being removed, and
\* every open peer connection is in the table that can close it.
RoomTablesAgree ==
  ~ctxDone =>
    /\ \A s \in Sessions :
         \/ speakers[s] = peers[s]
         \/ /\ speakers[s] = NoPeer /\ target[Orch] = s /\ victim[Orch] = peers[s]
            /\ pc[Orch] \in {"stop", "await", "unpeer", "reap"}
    /\ \A i \in Peers : media[i] = "open" => \E s \in Sessions : peers[s] = i

\* In a live room a peer connection is closed only after its transcriber has
\* drained: no speaker loses its audio source while it still transcribes.
DrainBeforeClose ==
  ~ctxDone => \A i \in Peers : media[i] = "closed" => transcriber[i] = "done"

\* A reader that has exited because of a signal belongs to a peer that is being
\* closed: a goroutine of the WebRTC manager is waiting for it or has closed it.
SignalledPeersGetClosed ==
  \A i \in signalled :
    \/ media[i] = "closed"
    \/ \E p \in Procs : victim[p] = i /\ pc[p] \in {"reap", "mgrreap"} /\ webrtcMu = p

\* The step p takes next begins with the lock of r.mu, of the WebRTC manager, or of
\* the HPB client.
WantsRoomMu(p) ==
  \/ p = Orch /\ pc[p] = "handle" /\ work # <<>> /\ Head(work).op \in {"in", "out", "join"}
  \/ p = Leaver /\ (pc[p] = "collect" \/ (pc[p] = "loop" /\ todo # {}))

WantsWebrtcMu(p) ==
  \/ pc[p] \in {"create", "unpeer", "mgrlock"}
  \/ p = Orch /\ pc[p] = "handle" /\ work # <<>> /\ Head(work).op = "offer"

WantsHPBMu(p) ==
  \/ pc[p] \in Sends \cup {"connect"} /\ hpbMu # p
  \/ pc[p] = "hpbclose"
  \/ p = Orch /\ pc[p] = "handle" /\ work # <<>> /\ Head(work).op = "join"

\* Locks are taken in one order: r.mu comes before the WebRTC manager's and the
\* HPB client's, whose holders take no other; and a transcriber is awaited without
\* any, as the comment on removeSpeaker demands. So no goroutines wait for each
\* other's locks, and a wait for a lock is in the end a wait for a reader, a dial or a
\* write (manager.go 552, 656, 665-686, webrtc/manager.go 75, 356, 386, hpb/client.go
\* 108, 507, 653).
LockOrder ==
  \A p \in Procs :
    /\ p \in {webrtcMu, hpbMu} => ~WantsWebrtcMu(p) /\ ~WantsHPBMu(p)
    /\ p \in {webrtcMu, hpbMu, roomMu} =>
         ~WantsRoomMu(p) /\ pc[p] \notin {"stop", "await"}

\* What may hold a goroutine of the room for ever: a reader that waits for a packet
\* while its peer is being closed, a transcriber in a write while it is awaited,
\* a write to the HPB under c.mu.
SilentReader ==
  \E p \in Procs : pc[p] \in {"reap", "mgrreap"} /\ reader[victim[p]] = "blocked"

AudioStalls ==
  \E p \in Procs : pc[p] = "await" /\ transcriber[victim[p]] = "writing"

SignalingStalls == hpbMu = Ponger \/ (hpbMu = Orch /\ pc[Orch] # "dial")

HeldForEver == <>[]SilentReader \/ <>[]AudioStalls \/ <>[]SignalingStalls

\* LeaveRoom, once called, returns, unless one of the three holds it up: three
\* locks, taken in turn by three goroutines, never do.
LeaveReturnsUnlessHeld ==
  <>(pc[Leaver] = "collect") => (<>(pc[Leaver] = "done") \/ HeldForEver)

\* LeaveRoom, once called, returns, if only no write stalls: remote participants who
\* fall silent cannot hold it up.
LeaveReturnsIfWritesEnd ==
  (<>(pc[Leaver] = "collect") => <>(pc[Leaver] = "done"))
    \/ <>[]AudioStalls \/ <>[]SignalingStalls

\* The orchestrator handles each event to its end, with all removals and additions
\* in it, and is back at its select; and once the room is cancelled it leaves its
\* loop, whatever it was at: unless one of the three holds it, or the lock it needs.
OrchMovesOnUnlessHeld ==
  \/ (pc[Orch] = "handle" \/ ctxDone)
       ~> (pc[Orch] = "exited" \/ (pc[Orch] = "select" /\ ~ctxDone))
  \/ HeldForEver

\* A health check gets its answer even while a removal is stuck, since r.mu is never
\* held across the wait for a reader or a transcriber: only the requestoffer
\* that addSpeaker writes, or wants to write, under r.mu can keep it waiting.
HealthAnswersUnlessRequestStalls ==
  \/ (health = "reading") ~> (health = "idle")
  \/ <>[](pc[Orch] = "request" /\ SignalingStalls)

\* What the comment of LeaveRoom says it does: when it has returned and the
\* orchestrator is gone, no peer connection of the room is open.
LeaveClosesAll ==
  pc[Leaver] = "done" /\ pc[Orch] = "exited" => \A i \in Peers : media[i] # "open"

=============================================================================
