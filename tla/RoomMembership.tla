--------------------------- MODULE RoomMembership ---------------------------
(***************************************************************************)
(* Who is a speaker of a room: the participants of a call, the signaling   *)
(* server (HPB) that reports them, the HPB client's bounded msgChan, and   *)
(* the room's handlers, which keep r.Speakers and r.internalSessions and   *)
(* subscribe to each speaker's audio.                                      *)
(*                                                                         *)
(* Each connection of the bot is a session of its own in the room, and an  *)
(* old one stays visible until the server expires it. The server side and  *)
(* the participants are external: what the handlers rely on, no more. A    *)
(* handler that removes or adds a speaker is one step here; its inside,    *)
(* and LeaveRoom next to it, are module RoomSession.                       *)
(***************************************************************************)
EXTENDS Naturals, Sequences, FiniteSets

CONSTANTS
  Users,        \* HPB session IDs of participants
  MaxConn,      \* bound on the bot's connections
  QueueCap,     \* capacity of msgChan (100 in the code)
  SpeakerCap,   \* speakers per room (100 in the code)
  MaxChanges    \* bound on what participants do

Own == 1 .. MaxConn       \* the bot's own sessions, in the order of Connect
Sessions == Users \cup Own

ASSUME MembershipAssumption ==
  /\ MaxConn \in Nat \ {0} /\ QueueCap \in Nat /\ SpeakerCap \in Nat
  /\ MaxChanges \in Nat /\ Users \cap Nat = {}

VARIABLES
  \* external
  state,      \* of each user: away, in the room, in the call muted or with
              \* audio, or a "ghost": listed with audio, its pings stopped
  present,    \* own sessions the server shows in the room
  link,       \* the client's connection is up
  due,        \* what the server has yet to show the session that connected:
              \* its own join, the list of participants
  changes,
  \* hpb.Client
  own,        \* SessionID()
  queue,      \* msgChan
  \* Room
  todo,       \* entries of the participants update being handled
  speakers, internal,
  stream,     \* a speaker's audio: requested, received, or why it is not
  askedBy,    \* the own session that requested it
  \* history
  unsure,     \* users whose last change the room was not told, or refused
  early       \* own sessions that an unmarked list named before the room knew
              \* them for its own, and no marked list since

extVars  == <<state, present, link, due, changes>>
roomVars == <<speakers, internal, stream, askedBy>>
vars == <<extVars, own, queue, todo, roomVars, unsure, early>>

UserStates == {"away", "room", "muted", "audio", "ghost"}
Streams == {"none", "asked", "offered", "live", "failed", "expired"}

\* An entry of a participants update as the handler reads it: the internal
\* flag, lastPing and the inCall flags come to one of UserStates.
Entries == [s : Sessions, internal : BOOLEAN, state : UserStates]
Events ==
  [type : {"join", "leave", "offer"}, s : Sessions]
    \cup [type : {"update"}, entries : SUBSET Entries] \cup [type : {"ended"}]

TypeOK ==
  /\ state \in [Users -> UserStates] /\ present \subseteq Own
  /\ link \in BOOLEAN /\ due \subseteq {"join", "list"} /\ changes \in 0 .. MaxChanges
  /\ own \in Own /\ queue \in Seq(Events) /\ Len(queue) <= QueueCap
  /\ todo \subseteq Entries
  /\ speakers \subseteq Sessions /\ internal \subseteq Own
  /\ stream \in [Sessions -> Streams]
  /\ \A s \in Sessions : s \in speakers <=> stream[s] # "none"
  /\ askedBy \in [Sessions -> Own]
  /\ unsure \subseteq Users /\ early \subseteq Own

\* JoinRoom has connected and joined an empty room.
Init ==
  /\ state = [u \in Users |-> "away"] /\ present = {1}
  /\ link = TRUE /\ due = {"join", "list"} /\ changes = 0
  /\ own = 1 /\ queue = <<>> /\ todo = {}
  /\ speakers = {} /\ internal = {}
  /\ stream = [s \in Sessions |-> "none"] /\ askedBy = [s \in Sessions |-> 1]
  /\ unsure = {} /\ early = {}

-----------------------------------------------------------------------------
(* onEvent, onMessage, onBye: append to msgChan, or drop the event if it is  *)
(* full. The hello and room replies and the join events of participants     *)
(* take a slot too and change nothing; they are left out.                   *)

Post(q, e) == IF Len(q) < QueueCap THEN Append(q, e) ELSE q

\* The users whose present state an event tells.
Covered(e) ==
  CASE e.type = "update" -> {x.s : x \in e.entries} \cap Users
    [] e.type = "leave"  -> {e.s} \cap Users
    [] OTHER -> {}

\* The server sends e, after a change of the users us. It is lost with the
\* connection down, and dropped with msgChan full.
Publish(e, us) ==
  /\ queue' = IF link THEN Post(queue, e) ELSE queue
  /\ unsure' = IF queue' = queue THEN unsure \cup us
                                 ELSE (unsure \cup us) \ Covered(e)

-----------------------------------------------------------------------------
(* Participants and the server.                                             *)

UserEntry(u, st) == [s |-> u, internal |-> FALSE, state |-> st]

\* An own session shows as in the call with audio. Its entry is marked
\* internal, but for the edge case the tests provide for.
OwnEntry(n, flagged) == [s |-> n, internal |-> flagged, state |-> "audio"]

\* A participants update: everybody in the room, or only who changed.
Update(st, shown, flagged) ==
  [type |-> "update",
   entries |-> {UserEntry(u, st[u]) : u \in {v \in Users : st[v] # "away"}}
                 \cup {OwnEntry(n, flagged) : n \in shown}]
Changed(u, st) == [type |-> "update", entries |-> {UserEntry(u, st)}]

Counted == changes < MaxChanges /\ changes' = changes + 1

\* A participant enters the room, joins the call, mutes, leaves the call.
ChangeState(u, new) ==
  /\ Counted /\ new # state[u] /\ new \notin {"away", "ghost"}
  /\ state' = [state EXCEPT ![u] = new]
  /\ \/ Publish(Update(state', present, TRUE), {u})
     \/ Publish(Changed(u, new), {u})
  /\ UNCHANGED <<present, link, due, own, todo, roomVars, early>>

\* Leaving the room is a leave event or a bye, both end in removeSpeaker.
LeaveCall(u) ==
  /\ Counted /\ state[u] # "away" /\ state' = [state EXCEPT ![u] = "away"]
  /\ Publish([type |-> "leave", s |-> u], {u})
  /\ UNCHANGED <<present, link, due, own, todo, roomVars, early>>

\* A browser stops without a word. Only a later list shows its old ping.
Vanish(u) ==
  /\ Counted /\ state[u] = "audio" /\ state' = [state EXCEPT ![u] = "ghost"]
  /\ unsure' = unsure \cup {u}
  /\ UNCHANGED <<present, link, due, own, queue, todo, roomVars, early>>

\* The backend sends the list again, in the edge case without the marks.
Refresh ==
  /\ Counted
  /\ \E flagged \in BOOLEAN : Publish(Update(state, present, flagged), {})
  /\ UNCHANGED <<state, present, link, due, own, todo, roomVars, early>>

\* "End the call for everyone" is one event that names nobody.
EndForAll ==
  LET us == {u \in Users : state[u] \in {"muted", "audio", "ghost"}}
  IN  /\ Counted /\ us # {}
      /\ state' = [u \in Users |-> IF u \in us THEN "room" ELSE state[u]]
      /\ Publish([type |-> "ended"], us)
      /\ UNCHANGED <<present, link, due, own, todo, roomVars, early>>

\* The server answers a requestoffer of the connected session for somebody who
\* publishes; the bot does not.
SendOffer(s) ==
  /\ link /\ stream[s] = "asked" /\ askedBy[s] = own
  /\ queue' = Post(queue, [type |-> "offer", s |-> s])
  /\ stream' = [stream EXCEPT ![s] = IF queue' = queue THEN "failed" ELSE "offered"]
  /\ UNCHANGED <<extVars, own, todo, speakers, internal, askedBy, unsure, early>>

\* A session that lost its connection is dropped some time later, and its
\* subscriptions with it.
ExpireOwn(n) ==
  /\ n \in present /\ (n # own \/ ~link) /\ present' = present \ {n}
  /\ stream' = [s \in Sessions |->
       IF stream[s] = "live" /\ askedBy[s] = n THEN "expired" ELSE stream[s]]
  /\ Publish([type |-> "leave", s |-> n], {})
  /\ UNCHANGED <<state, link, due, changes, own, todo, speakers, internal, askedBy, early>>

\* What the client asked and did not get an offer for is lost.
LinkDrops ==
  /\ link /\ own < MaxConn /\ link' = FALSE /\ due' = {}
  /\ stream' = [s \in Sessions |-> IF stream[s] = "asked" THEN "failed" ELSE stream[s]]
  /\ UNCHANGED <<state, present, changes, own, queue, todo, speakers, internal,
                 askedBy, unsure, early>>

\* A session that has joined is shown its own join and a list. Nothing orders
\* the two, nor them and the other lists.
ShowOwnJoin ==
  /\ link /\ "join" \in due /\ due' = due \ {"join"}
  /\ Publish([type |-> "join", s |-> own], {})
  /\ UNCHANGED <<state, present, link, changes, own, todo, roomVars, early>>

ShowList ==
  /\ link /\ "list" \in due /\ due' = due \ {"list"}
  /\ Publish(Update(state, present, TRUE), {})
  /\ UNCHANGED <<state, present, link, changes, own, todo, roomVars, early>>

-----------------------------------------------------------------------------
(* The orchestration goroutine.                                             *)

\* reconnectHPB: a new session, whose ID onHello stores at once; the resume ID
\* is not used.
ReconnectHPB ==
  /\ ~link /\ own < MaxConn /\ todo = {}
  /\ link' = TRUE /\ due' = {"join", "list"}
  /\ own' = own + 1 /\ present' = present \cup {own'}
  /\ UNCHANGED <<state, changes, queue, todo, roomVars, unsure, early>>

Receives(type) ==
  /\ todo = {} /\ queue # <<>> /\ Head(queue).type = type /\ queue' = Tail(queue)

\* handleRoomEvent, join: only the session that is current now is marked.
HandleJoin ==
  /\ Receives("join")
  /\ internal' = internal \cup ({Head(queue).s} \cap {own})
  /\ UNCHANGED <<extVars, own, todo, speakers, stream, askedBy, unsure, early>>

RemoveSpeaker(s) ==
  /\ speakers' = speakers \ {s} /\ stream' = [stream EXCEPT ![s] = "none"]
  /\ UNCHANGED askedBy

\* handleRoomEvent, leave, and handleByeMessage.
HandleLeave ==
  /\ Receives("leave") /\ RemoveSpeaker(Head(queue).s)
  /\ UNCHANGED <<extVars, own, todo, internal, unsure, early>>

\* handleParticipantsEvent with All and no call: it returns.
HandleEnded ==
  /\ Receives("ended") /\ UNCHANGED <<extVars, own, todo, roomVars, unsure, early>>

HandleUpdate ==
  /\ Receives("update") /\ todo' = Head(queue).entries
  /\ UNCHANGED <<extVars, own, roomVars, unsure, early>>

\* handleOffer: without a peer nothing happens; the answer may fail, and
\* reaches the server only from the session that asked.
HandleOffer ==
  /\ Receives("offer")
  /\ LET s == Head(queue).s
     IN  \/ stream[s] = "offered" /\ link /\ askedBy[s] = own
            /\ stream' = [stream EXCEPT ![s] = "live"]
         \/ stream[s] = "offered" /\ stream' = [stream EXCEPT ![s] = "failed"]
         \/ stream[s] # "offered" /\ UNCHANGED stream
  /\ UNCHANGED <<extVars, own, todo, speakers, internal, askedBy, unsure, early>>

-----------------------------------------------------------------------------
(* handleParticipantsEvent, one entry. The order of the list is the server's.*)

Handles(x) ==
  /\ x \in todo /\ todo' = todo \ {x}
  /\ early' = IF x.internal THEN early \ {x.s}
                           ELSE early \cup ({x.s} \cap (Own \ internal))

\* Mutant: an internal session is marked and not removed.
EntryInternal_NotRemoved(x) ==
  /\ Handles(x) /\ x.internal /\ internal' = internal \cup {x.s}
  /\ UNCHANGED <<extVars, own, queue, speakers, stream, askedBy, unsure>>

EntryInternal(x) ==
  /\ Handles(x) /\ x.internal /\ internal' = internal \cup {x.s}
  /\ RemoveSpeaker(x.s)
  /\ UNCHANGED <<extVars, own, queue, unsure>>

\* A known internal session, or someone in the call without audio.
EntrySkipped(x) ==
  /\ Handles(x) /\ ~x.internal
  /\ x.s \in internal \/ x.state = "muted"
  /\ UNCHANGED <<extVars, own, queue, roomVars, unsure>>

Speaks(x) == ~x.internal /\ x.s \notin internal /\ x.state = "audio"

\* Mutant: an old ping is skipped but its speaker kept.
EntryGone_KeepsStale(x) ==
  /\ Handles(x) /\ ~x.internal /\ x.s \notin internal
  /\ \/ x.state \in {"away", "room"} /\ RemoveSpeaker(x.s)
     \/ x.state = "ghost" /\ UNCHANGED <<speakers, stream, askedBy>>
  /\ UNCHANGED <<extVars, own, queue, internal, unsure>>

\* A ping older than stalePingThreshold, or no call flag.
EntryGone(x) ==
  /\ Handles(x) /\ ~x.internal /\ x.s \notin internal
  /\ x.state \in {"away", "room", "ghost"} /\ RemoveSpeaker(x.s)
  /\ UNCHANGED <<extVars, own, queue, internal, unsure>>

EntryKnown(x) ==
  /\ Handles(x) /\ Speaks(x) /\ x.s \in speakers
  /\ UNCHANGED <<extVars, own, queue, roomVars, unsure>>

\* addSpeaker fails: the room is at its limit, or CreatePeer fails. The caller
\* ignores the error.
EntryRefused(x) ==
  /\ Handles(x) /\ Speaks(x) /\ x.s \notin speakers
  /\ unsure' = unsure \cup ({x.s} \cap Users)
  /\ UNCHANGED <<extVars, own, queue, roomVars>>

\* Mutant: the requestoffer is not sent.
EntryAdded_NoRequest(x) ==
  /\ Handles(x) /\ Speaks(x)
  /\ x.s \notin speakers /\ Cardinality(speakers) < SpeakerCap
  /\ speakers' = speakers \cup {x.s}
  /\ askedBy' = [askedBy EXCEPT ![x.s] = own]
  /\ stream' = [stream EXCEPT ![x.s] = "offered"]
  /\ UNCHANGED <<extVars, own, queue, internal, unsure>>

\* The speaker exists whether or not its requestoffer could be sent.
EntryAdded(x) ==
  /\ Handles(x) /\ Speaks(x)
  /\ x.s \notin speakers /\ Cardinality(speakers) < SpeakerCap
  /\ speakers' = speakers \cup {x.s}
  /\ askedBy' = [askedBy EXCEPT ![x.s] = own]
  /\ stream' = [stream EXCEPT ![x.s] = IF link THEN "asked" ELSE "failed"]
  /\ UNCHANGED <<extVars, own, queue, internal, unsure>>

HandleEntry(x) ==
  \/ EntryInternal(x) \/ EntrySkipped(x) \/ EntryGone(x)
  \/ EntryKnown(x) \/ EntryRefused(x) \/ EntryAdded(x)

-----------------------------------------------------------------------------

Orchestrate ==
  \/ HandleJoin \/ HandleLeave \/ HandleEnded \/ HandleUpdate \/ HandleOffer
  \/ \E x \in todo : HandleEntry(x)

Participants ==
  \/ \E u \in Users :
       \/ \E new \in UserStates : ChangeState(u, new)
       \/ LeaveCall(u) \/ Vanish(u)
  \/ Refresh \/ EndForAll

Server ==
  \/ \E u \in Users : SendOffer(u)
  \/ \E n \in Own : ExpireOwn(n)
  \/ LinkDrops \/ ShowOwnJoin \/ ShowList

Next == Orchestrate \/ ReconnectHPB \/ Participants \/ Server

\* The orchestrator runs, an outage ends, and the server answers requests.
\* Participants need not change, sessions need not expire.
Fairness ==
  /\ WF_vars(Orchestrate) /\ WF_vars(ReconnectHPB)
  /\ \A u \in Users : WF_vars(SendOffer(u))

Spec == Init /\ [][Next]_vars /\ Fairness

-----------------------------------------------------------------------------
(* Properties                                                               *)

Quiet == queue = <<>> /\ todo = {} /\ link

\* With nothing left to handle, whoever is in the call with audio is a speaker
\* and whoever is not, or has stopped pinging, is none; except for users whose
\* last change was lost, named by nobody or refused (manager.go 289-422).
SpeakersFollowCall ==
  Quiet => \A u \in Users \ unsure :
    /\ state[u] = "audio" => u \in speakers
    /\ state[u] \in {"away", "room", "ghost"} => u \notin speakers

\* The bot transcribes a session of its own only if an unmarked list named it
\* before its join or a marked list told the room what it is, and only until a
\* marked list is handled: of the two ways to know a session the join removes
\* no speaker, the list does (manager.go 299-303, 358-375).
InternalNotSpeakers == \A n \in Own : n \in speakers => n \in early

\* Whoever speaks is heard in the end, or stops, or one of the losses the code
\* only logs has hit: its change, its offer or answer, its subscription
\* (manager.go 416-420, 656).
SpeakersAreHeard ==
  \A u \in Users :
    state[u] = "audio" /\ u \notin unsure ~>
      \/ state[u] # "audio" \/ u \in unsure
      \/ stream[u] \in {"live", "failed", "expired"}

\* spec.md (Session Resumption) says that after a dropped connection the service
\* resumes without losing participant state, or resets it.
ResumesAfterReconnect ==
  Quiet => \A u \in Users \ unsure : state[u] = "audio" => stream[u] # "expired"

=============================================================================
