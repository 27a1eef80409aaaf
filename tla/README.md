# Live transcription service: TLA+ models and proofs

The service joins Nextcloud Talk calls as a bot, receives every speaker's audio
over WebRTC, streams it to a speech-to-text service (Modal, or a custom server)
and broadcasts the transcript to the room. It is a Go program of many small
goroutines: per room an orchestrator and the loops of a signaling client, per
speaker a run loop, an audio loop, a connection starter, a read loop of the
speech client and an RTP reader. Nearly everything that can go wrong lies in
how those meet: locks held while waiting, contexts cancelled while dialling,
connections replaced while in use, channels that drop. That is what is modelled.

## 1. Inventory

Source paths are relative to `src/`.

### Session manager (`pkg/session/manager.go`, `Manager`)
- State: `rooms` under `m.mu`.
- Operations: `JoinRoom`, `LeaveRoom`, `RoomCount`, `SpeakerCount`, `Close`.
- Interactions: called by the HTTP handlers and at shutdown; `JoinRoom` dials the
  HPB with `m.mu` held; `SpeakerCount` takes `m.mu`, then each `r.mu`.
- Hard: a leave deletes the entry first and tears down afterwards, so a join may
  run next to the teardown of the same token; `Close` works on a snapshot.
- Correct when: every room that runs is in the table or about to be torn down, none
  is torn down twice, each request takes effect at one moment and is answered, and
  the process ends with its rooms closed.

### Room: orchestration and speaker lifecycle (`manager.go`, `Room`)
- State: `Speakers`, `ModalClients`, `internalSessions` under `r.mu`, `r.ctx`.
- Operations: `orchestrationLoop`, `addSpeaker`, `removeSpeaker`, `handleOffer`,
  `handleICECandidate`, `reconnectHPB`; driven by HPB messages.
- Interactions: `addSpeaker` creates a peer in the WebRTC manager and starts a
  transcriber; `removeSpeaker` waits for the transcriber, then for the peer.
  `LeaveRoom` calls `removeSpeaker` from another goroutine.
- Hard: both goroutines tear down at once; two tables, two locks; waits under locks.
- Correct when: no channel is closed twice, no transcriber torn down twice, the
  tables agree, everything created is closed, and leaving terminates.

### Participants (`manager.go`, `handleParticipantsEvent`, `handleRoomEvent`)
- State: `internalSessions`; decides which sessions become speakers from call
  flags, the internal flag and the age of the last ping.
- Hard: events dropped at a full `msgChan`, joins processed after the bot's own
  session has changed, state kept over reconnections.
- Correct when: after the events have been handled, the speakers are the sessions
  in the call with audio, the bot is not one of them, and each one is heard.

### Transcriber: captions (`pkg/session/transcriber.go`)
- State: `pendingText`, `lastBroadcast`, `broadcastDirty`; `transcriptCh`, `errCh`
  of its Modal client; a flush ticker.
- Operations: `handleTranscript`, `flushPendingBroadcast`, `flushPendingFinal`,
  `drainOnShutdown`.
- Hard: throttling against "everything is shown"; closes and cancels that overtake
  queued tokens.
- Correct when: each word is in one caption, in order, and none stays unshown.

### Transcriber: connection handling, and Modal client (`pkg/modal/client.go`)
- State: `conn`, `connected` under `c.mu`; `errCh`; two contexts; reconnect counters.
- Operations: `Connect` (starter goroutine and run loop), `readLoop`, `SendAudio`,
  `IsConnected`, `Close`.
- Hard: `c.mu` is held over dials and writes; read loops use `conn` without it; the
  starter is in no wait group.
- Correct when: one reader per connection, a loss is noticed and retried, nothing
  comes up after `Close`, and `run` ends.

### Transcriber: audio path, and audio pipeline (`pkg/audio/pipeline.go`)
- State: two bounded queues, the chunk buffer.
- Operations: `processAudioLoop`, `ChunkBuffer.Add`/`Flush`, `Resample`, the drain.
- Hard: drops at full queues, the order of drain, flush and hang-up at shutdown.
- Correct when: samples come out in order and once, and the tail is not lost.

### HPB client (`pkg/hpb/client.go`)
- State: `conn` under `c.mu`, `errChan`, `msgChan`, session and resume IDs.
- Operations: `Connect`, `readLoop`, `writeLoop`, `SendMessage`, `SessionID`, `Close`,
  `SendTranscriptViaBackend` (HTTP).
- Hard: `Connect` is also the reconnection and runs while old loops are alive.
- Correct when: one open connection, a dead one is noticed, `Close` is final.

### WebRTC manager (`pkg/webrtc/manager.go`)
- State: `peers` under `m.mu`; per peer a close channel, a wait group, the pion
  connection.
- Operations: `CreatePeer`, `CreateAnswer`, `onTrack`, `readAndDecodeAudio`,
  `RemovePeer`, `Close`.
- Hard: `Close` of a peer waits for a reader that waits for a packet.
- Correct when: each peer is closed once, and closing terminates.

### HTTP API, service, others
`pkg/session/api.go` validates requests and calls the manager.
`cmd/transcribe-service/main.go` reads the configuration and, on SIGTERM, shuts the
server down and closes the manager. `pkg/hpb/types.go` declares messages.
`pkg/nextcloud` is an HTTP client for live test tooling which the service does not
import. `test/` holds a mock HPB and integration tests.

## 2. Modules

| Module | Models | Proofs |
|---|---|---|
| `RoomSession` (`MCRoomSession` gives its events to TLC) | one room: orchestrator, LeaveRoom, speakers, WebRTC peers | `RoomSession_proofs` |
| `CaptionStream` | what a transcriber's captions promise (abstract) | `CaptionStream_proofs` |
| `Captions` | the captioning half of a transcriber; implements `CaptionStream` | `Captions_proofs` |
| `Link` | what a reconnecting client promises its owner (abstract) | |
| `ModalSession` | one speaker's connection to the speech service; implements `Link` | `ModalSession_proofs` |
| `HPBConnection` | one room's connection to the HPB; implements `Link` | `HPBConnection_proofs` |
| `RoomMembership` | events, participants, own sessions, subscriptions | `RoomMembership_proofs` |
| `RoomDirectory` | what the HTTP API promises (abstract) | |
| `RoomManager` | rooms, HTTP requests, shutdown; implements `RoomDirectory` | `RoomManager_proofs` |
| `AudioStream` | what the audio path promises the speech service (abstract) | |
| `AudioPath` | a speaker's samples from the decoder to the speech service; implements `AudioStream` | `AudioPath_proofs` |

Each module leaves out, by name, what another one holds: `RoomManager` sees of a room
only whether it holds up its caller (`hang`), which is what `RoomSession` finds of
silent peers and stalled writes; `RoomSession` takes a participants event as a list of additions and
removals, which is what `RoomMembership` makes of it; `AudioPath` and `Captions` see the
speech connection come and go as `ModalSession` makes it.

### RoomSession
A *peer* is one incarnation of a speaker: peer connection, transcriber and reader
come and go together, so one identity stands for the three; `Speakers` and the WebRTC
`peers` map sessions to identities. `pc["orch"]` and `pc["leave"]` say where the two
goroutines are in `addSpeaker`, `removeSpeaker` and `LeaveRoom`; a step is what
happens between two lock operations or waits. `roomMu` and `webrtcMu` name a holder
only where the code keeps the lock over more than one step. An HPB event is the list
of entries ("in", "out", "offer") its handler goes through. A reader is `polling`
(looks at `closeCh`) or `blocked` (in `ReadRTP`). The transcriber is reduced to
"running until cancelled", with the write of audio that may keep it (`writing`); `Captions`,
`AudioPath` and `ModalSession` open it up. `hpbMu` is the HPB client's `c.mu`: held over a
reconnection's dial, and over every write, none of which has a deadline. The orchestrator
writes the requestoffer (with `r.mu` held too), the answer, the hello and the rejoin, a read loop
the pong; `pc` has a place for each of them and `HPBConnection` the rest of that client.

### Captions and CaptionStream
A text is the sequence of its tokens. `mode` is the run loop's select, the shutdown
drain, or the end. `heard`, `published` and `shown` are history: what the loop took,
what it sent as final, what participants see of the utterance. The refinement maps
`pendingText` to the utterance in progress and the end of the loop to `closed`.
`CaptionStream` leaves open when text is shown, and says what may be. `writing` is the loop in a
write of audio: the same select sends it, and while it writes no token, tick or timer is
looked at.

### ModalSession, HPBConnection and Link
Connections are numbered; read loop *k* was started with connection *k* but, as in the
code, uses whatever `c.conn` is when it looks. The nil check and the use are two
steps. `c.mu` has a holder where it is kept over a dial or a write: `lock` in `ModalSession`; in
`HPBConnection` the places of the orchestrator and of the read loops say it (`Locked`). `panicked`
records a use of a nil connection, after which the process, and the model, does
nothing more. A dial begun under a cancelled context fails; one under way when it is
cancelled may still succeed, since gorilla's handshake does not watch the context.

In `HPBConnection` the orchestrator is its reconnecting half, with one place for the requestoffers
and answers it writes, and LeaveRoom its cancel and its call of `Close`; `RoomSession` has the
other half of both. Every write under `c.mu` is a place of its own: hello, rejoin,
requestoffer or answer, and the pong of a read loop. `closeChan` is closed together with `c.ctx`
and left out, and so are the pings of the write loops, which have a deadline, wait for `c.mu` and
change nothing else. Backoff times are left out of both modules.

`Link` is the one thing both clients must be: a numbered connection that is made only when
none is up, may be lost, and does not come back after the close. The refinement maps
`current` to the connection the owner may use (`conn` in `HPBConnection`; in
`ModalSession`, where a lost connection stays in `c.conn` until the next dial, `conn` as long as
`connected` is set), `made` to the number of successful dials, and `closed` to the place
of the closing goroutine behind the critical section of `Close`.

### RoomMembership
A user has a `state` in the call; an entry of a list carries the state it had when the
list was made, which stands for the in-call flags, `lastPing` and the internal flag the
handler reads. The bot's sessions are numbered in the order of its connections;
`present` is which of them the server still shows. `queue` is `msgChan` with its bound:
`Publish` loses an event when the connection is down or the queue is full, as
`onEvent` does. `handleParticipantsEvent` takes one entry per step (`todo` is what is
left of the list, in any order) so that events arrive in between. `stream` says how far
the audio of a speaker has come: requested, offered, live, or why it is not; `askedBy`
is the session that requested it. `unsure` is history: the users whose last change was
dropped, named by nobody ("call ended for everyone") or refused by `addSpeaker`. Server
and participants are external and do no more than the handlers provide for: full
lists, lists of one changed user, pings that stop, sessions that expire late, and
lists without the internal mark. What a new session is shown (`due`) is its own join and a list;
nothing orders the two, nor them and the other lists. `early` is history: the own sessions that
an unmarked list named before the room knew them, until a marked one says what they are.

### RoomManager and RoomDirectory
A room is identified by the join that made it, because a token may have a live room and
an old one being torn down. `writer` and `readers` hold `m.mu` where it is kept over a
dial, a write, or a wait for a room's mutex. A request walks through the handler
and the manager with `pc`; main goes from serving to draining (`server.Shutdown`, 5 s)
to closing (`Manager.Close` works off `todo`) to the exit, which stops whoever is
still running. The refinement maps the table to the switches that are on, and the
places of a request to open, decided and answered; a request is decided in the step
that changes or reads the table under `m.mu`.

### AudioPath and AudioStream
Samples are numbered in the order they are decoded; frames, chunks and the buffer are
sequences of numbers, so "in order", "once" and "complete" are about numbers.
`Resample`, `Chunks` and `Rest` are the algorithms of `pkg/audio`: at 48 to 24 kHz the
resampler takes every other sample. `lost` records every sample given up, by cause.
After the cancellation the selects that push a chunk offer the context as well, so
`EnqueueCancelled` and `FlushTail` may drop what they could have queued. `writing` is a chunk on
its way through the connection, which keeps the run loop and may do so for ever. `Line` is all that
is left, from the connection back to the decoder. `AudioStream` knows neither frames, chunks
nor queues: samples are spoken, the earliest that wait are delivered, some are given up
while they wait, and the stream ends. The refinement maps `spoken` to the samples that survive
resampling, `delivered` to the sets of samples in `sent`, `dropped` to the union of `lost`.

## 3. What is checked

| Run | Question | Instance |
|---|---|---|
| `MCRoomSession` | Can two goroutines tear down speakers safely, and do leave, orchestrator and health checks make progress unless a silent reader or a stalled write holds them? | 2 sessions, 2 peers, 3 events and pings, queue of 1 |
| `MCRoomSession_silent` | Does LeaveRoom return if no write stalls? No. | 1 session, 2 peers, 3 events |
| `MCRoomSession_leak` | Does LeaveRoom close every peer? No. | 2 sessions, 2 peers, 2 events |
| `MCCaptions` | Are words lost, repeated or reordered, or left unshown while no write stalls? | 3 words, queue of 2, interval of 2 |
| `MCModalSession` | Do the goroutines of a client share it correctly, and are they one link? | 3 connections, 2 attempts, 2 errors |
| `MCHPBConnection` | Is there one live connection, one link, none after Close, and does Close return unless a write stalls? | 3 connections, 1 error |
| `MCHPBConnection_recovery` | Can a reconnection crash a read loop? Yes. | 2 connections, 2 errors |
| `MCRoomManager` | Do requests and shutdown keep the rooms in order, behave as one switch per token, and finish? | 2 tokens, 2 requests, main |
| `MCRoomMembership` | Are the speakers who is in the call, when may the bot be one of them, is each one heard? | 2 users, 2 connections, queue of 2, 2 changes |
| `MCRoomMembership_resume` | Does the audio go on after a reconnection? No. | 2 users, 2 connections, 2 changes |
| `MCAudioPath` | Is audio in order, once, accounted for and one stream, and does Close return unless a write stalls? | 4 frames of 2 or 6 samples, chunks of 2, queues of 2 |
| `MCAudioPath_tail` | Does the tail reach the speech service if it can? No. | same |

A run that answers "No" (or finds a crash) checks one sentence of the repository's
documents or comments against the code; `PROJECT.json` quotes the sentence.

What the passing runs show:
- **Room.** A peer in the table has never been signalled while the table's lock is
  free (`CloseChannelOnce`); the delete under `r.mu` decides who tears down
  (`DisjointTeardown`); `r.mu` comes before the WebRTC manager's lock and the HPB client's,
  whose holders take no other, and a transcriber is awaited without any (`LockOrder`), so that
  no goroutines wait for each other's locks; in a live room the tables differ at most in the
  speaker being removed (`RoomTablesAgree`) and audio sources outlive their transcribers
  (`DrainBeforeClose`); a signalled peer is closed or being closed
  (`SignalledPeersGetClosed`). Three things can keep LeaveRoom or the orchestrator from
  finishing, each for ever: a reader that gets no packet while its peer is being closed, a
  transcriber that is awaited while it writes audio, and a write to the HPB under `c.mu`
  (`LeaveReturnsUnlessHeld`, `OrchMovesOnUnlessHeld`). Nothing else can. A health check is answered
  although removals wait, since none waits with `r.mu`; what can keep it is the requestoffer that
  `addSpeaker` writes with `r.mu` held (`HealthAnswersUnlessRequestStalls`).
- **Captions.** `heard = published \o pendingText` always (`NothingLost`); the dirty
  flag means exactly "the pending text is not what is shown" (`DirtyMeansUnsent`);
  every word is shown or published later without a further token
  (`WordsGetShownUnlessStalled`); a cancelled transcriber ends with nothing pending, however much
  still arrives (`RemovalEndsUnlessStalled`), both unless a write of audio by the same loop
  never ends; and all of it implements `CaptionStream` (`StreamSpec`).
- **Modal client.** One read loop, on its own connection (`OneReader`); a connection
  believed to be up has a loop that will notice its loss (`LossGetsNoticed`); audio is
  written under the lock to a connection that was up at that moment
  (`WritesToLiveConn`); after `run` nothing comes up again, not even from a late
  starter (`ClosedForGood`); whoever dials, the client is a `Link` (`LinkSpec`); `run`
  ends unless a write blocks for ever.
- **HPB client.** At most one open connection (`OneConnection`); an orchestrator that
  waits has a connection with a reader on it or an error to handle
  (`NoSilentDeath`), although stale errors and stale readers do occur; `Close` is final
  and returns unless one of the writes under `c.mu` blocks for ever
  (`CloseReturnsUnlessStalled`); and a reconnection gives up the
  old connection before it makes the next (`LinkSpec`).
- **Membership.** With nothing left to handle, the speakers are those in the call with
  audio, except for users in `unsure` (`SpeakersFollowCall`); the bot
  transcribes itself only if an unmarked list named its session before the room knew it. Then
  the join marks the session and leaves it a speaker (`manager.go:299-303`); the next
  marked list ends it, in whatever order joins and lists come (`InternalNotSpeakers`); whoever speaks is heard in the end unless one of the losses
  the code only logs has hit (`SpeakersAreHeard`).
- **Manager.** No room runs unknown to the table and to a teardown, and a failed join
  leaves no connection (`NoOrphans`); no two leaves tear down one room
  (`TeardownOnce`), which is what keeps `close` from being called twice; an orderly
  shutdown ends with every room closed (`CleanExit`); the API is one switch per token
  (`DirectorySpec`); a request is answered, and main exits, unless a room holds it up
  for good (`RequestsAnswered`, `ShutdownExits`). The hypothesis of the last two is not
  idle: a health check waits, with `m.mu`, for a room whose mutex is kept. "Orderly"
  is not either: after the 5 s of `server.Shutdown` main closes what it finds and
  returns over running handlers, so a room joined late is left to the end of the
  process (`ExitClosesAll` states the contrary and does not hold).
- **Audio.** Two queues that drop in different units, a buffer that is cut, a drain and
  a tail leave what arrives in order and without repetition (`InOrder`), and every
  sample that was decoded is on its way, sent, or lost for a named reason (`Accounted`);
  only the last chunk may be short (`OnlyLastChunkShort`); what goes out is at each
  moment the earliest that waits, and nothing goes out after the end (`AudioStreamSpec`);
  `Close` returns unless a write of audio blocks for ever (`CloseReturnsUnlessStalled`).

What the violations show:
- A peer whose remote side goes silent blocks the teardown (`webrtc/manager.go:339`), though no
  write stalls.
- A speaker added during LeaveRoom is not closed (`manager.go:716`).
- The unlocked uses of `c.conn` can crash the process (`hpb/client.go:286`), without
  anyone leaving: a rejoin that fails leaves its read loop alive while the next Connect
  clears the connection. In `modal/client.go:147` only `Close` can do it.
- After a reconnection nobody subscribes again to the speakers of before; when the
  server expires the old session, their audio ends (`manager.go:556`).
- The tail of an utterance may be dropped though there is room for it
  (`transcriber.go:290`).

Four statements that do not hold either are kept in the modules with a configuration
each, to be looked at by hand: `MCCaptions_hangup` (a hang-up that overtakes queued
tokens leaves them unpublished, `transcriber.go:66`), `MCModalSession_retry` (posting
the error before clearing `connected` can lose a reconnection, `modal/client.go:156`),
`MCModalSession_attempts` (a failed dial ends the attempts, `transcriber.go:80`) and
`MCHPBConnection_writers` (write loops pile up over reconnections, `hpb/client.go:160`).

### Bounds
Two goroutines tear down, so two sessions and as many peers show every overlap of a
removal with the other's; `MCTwoSpeakers` has one speaker that joins, is offered and
leaves and one that joins next to it or in its place, and events of two entries, which
show a removal and an add, and a join and a removal, in one handler; a queue of one fills. Three words are enough for one published, one
shown and one throttled; a queue of two fills and drops. Three connections give a live
one, a stale one and one being made; with one error slot the second error is dropped.
Two requests and main are three actors on two tokens: two joins of one token, a leave
against a join, a leave against the shutdown, a count behind a dial. Two users and
two changes give a change, a lost change and its repair by the list a session is shown; a queue
of two loses the list behind the bot's own join, or the join behind two lists, and two
connections give an old and a new session. Frames of two and six samples make one and three chunks of two; an odd
rest stays in the buffer, and four frames overrun both queues. The capacities of the code
(50, 100, 120, 25, 10) are constants of the modules; `MaxMessages`, `MaxWords`,
`MaxDials`, `MaxChanges`, `MaxConn`, `MaxFrames`, `Peers` and `Requests` bound the length of a
behaviour. The proofs show that no safety property depends on any of these numbers.

### Fairness
Every goroutine that can run does (weak fairness). Strong fairness is used where a
select with several ready cases picks at random and so does not pass over one for
ever; where a Go mutex in starvation mode is handed to the longest waiter; and for a
context check between two messages, which is not missed for ever. Dials (10 s, 60 s) and
reads (120 s, 3 min) have deadlines in the code, so they end; so do the waits of the
shutdown (250 ms, 750 ms, 5 s). `SpeakersAreHeard` also assumes that an outage ends and
that the server answers a request for an offer. Nothing is assumed of packets, messages
of the servers otherwise, speakers or the arrival of HTTP requests.

Writes to a websocket have no deadline in either client. Every module that makes one therefore
has it as a place a goroutine enters and is never obliged to leave: the audio in
`ModalSession`, `Captions`, `AudioPath` and `RoomSession`, and hello, rejoin, requestoffer, answer
and pong in `HPBConnection` and `RoomSession`. A liveness property names the writes that could
refute it as its exception (`...UnlessStalled`, `...UnlessHeld`), and so do
`RequestsAnswered` and `ShutdownExits` with a room's `hang`. Two small assumptions remain:
the hello and the room message of `JoinRoom`, the first bytes on a fresh connection, are
written (`RoomManager`), and the server that answers requests in `RoomMembership` also reads.

## 4. What is proved

All proofs are of safety, for every value of the constants; each module's only
assumption is the named ASSUME on its constants.

| Module | Theorems |
|---|---|
| `RoomSession_proofs` | `TypeCorrect`, `ClosedOnce`, `TeardownsDisjoint`, `TablesAgree`, `DrainedBeforeClosed`, `SignalledAreClosed`, `LocksAreOrdered` |
| `Captions_proofs` | `TypeCorrect`, `NoWordLost`, `DirtyIsExact`, `GivesCaptionStream` |
| `CaptionStream_proofs` | `StreamIsFaithful` |
| `ModalSession_proofs` | `TypeCorrect`, `ReadsAlone`, `LossIsSeen`, `WritesAreSafe`, `StaysClosed`, `GivesLink` |
| `HPBConnection_proofs` | `TypeCorrect`, `ConnectsOnce`, `DeathIsNoticed`, `StaysClosed`, `GivesLink` |
| `RoomManager_proofs` | `TypeCorrect`, `RoomsAreKnown`, `TornDownOnce`, `ExitIsClean`, `GivesDirectory` |
| `RoomMembership_proofs` | `TypeCorrect`, `RoomFollowsCall`, `OwnSessionsAreSilent` |
| `AudioPath_proofs` | `TypeCorrect`, `StreamInOrder`, `EverySampleAccounted`, `ChunksWhole`, `ImplementsAudioStream` |

The type invariants of all modules are proved and not checked by a run.

**RoomSession.** None of the five safety invariants is inductive alone. `Inv` adds
what they silently rely on: which program counter goes with which lock and which victim
(control), that a created peer is in one table and that two sessions never share
one, that a peer in the speaker table is in the peer table of a live room, and
that a signalled peer has a closer which holds the lock. `NextCases` names the
actions; one lemma per part shows that every action preserves it; `InvInit`, `InvStep`
and `InvAlways` put them together. The WebRTC lock carries the argument: a peer may be
signalled and still in the table only while it is held. `LocksAreOrdered` needs only `Control`,
which says of all three locks at which places they are held.

**Captions.** The dirty flag is not inductive alone: that a throttled token makes the
pending text differ from the shown one needs `ShownFits`, that what is shown is never
longer than what is pending. There is one lemma per operation on the text, which each
step of the loop cites. `GivesCaptionStream` is the whole
refinement: `CaptionStream` promises no progress, since a write of audio may stop the loop.
`StreamIsFaithful` proves what the abstract specification promises (no word lost,
participants see a prefix, nothing pending at the end); no run checks it separately,
since the transcriber has it by refinement.

**ModalSession.** `OneReader` needs to know who dials: `Locking` ties `c.mu` to the one
goroutine that does, `FirstDial` says the run loop reconnects only after the starter is
done, and `Latest` that the only reader alive is the one of the last connection and that
none is while the run loop dials. `GivesLink` needs the same: a dial that succeeds finds no
connection up (`Latest`, `FirstDial`), and the close has not passed (`Closing`). `Closing` says how far the end of the run loop is.

**HPBConnection.** Here several read loops may live, so what is invariant is weaker:
`Noticed` says that from a successful dial on there is a watched connection or an error,
and `Dialling` that the orchestrator has closed the old connection, under `c.mu`, before
it dials; that is what excludes Close and a second connection, and what makes a
successful dial a `Connect` of the link (`GivesLink`).

**RoomManager.** `Locking` says that a join keeps `m.mu` from its dial to its end and that
its token stays off meanwhile, so that it cannot overwrite a room; `Joining` and `Rooms` relate
the place of a request to the room it made or tears down; `Closing` says that after an
orderly shutdown the list of main covers the table. `GivesDirectory` shows for every
action which action of `RoomDirectory` it is: the moment of a join is its store in the table, of
a leave its delete; everything else is a stutter, an arrival or an answer.

**RoomMembership.** `SpeakersFollowCall` speaks only of quiet states. `Told` extends it to all:
the last event queued about a user says where it is; with none queued the list being
handled does; with neither, the speakers do. The lemmas on `Silent` and `LastSays` say
what appending and taking an event does to that, `WorldStep` and `EntryStep` what a step
of the server or of the handler must do to keep it. `InternalNotSpeakers`
assumes no order of joins and lists: an own session becomes a speaker only through an
unmarked entry handled while it is not in `internalSessions`, which puts it in `early`, and the
marked entry that takes it out of `early` removes it from the speakers in the same step
(`EntryStep`). No other action adds a speaker. That a known own session may be a speaker in
between is what the code does and not what the marking suggests.

**AudioPath.** `InOrder` and `Accounted` speak of one long line of chunks, but a step moves a
piece between two of its parts. `PlacesInOrder` therefore splits the line into five places
(sent, queued chunks, chunks still to push, the buffer, frames), each in order and each before
the ones behind it; `LinePlaces` shows that this is `InOrder`, and the lemmas `ApartGrows` to
`ApartTail` say what moving the head of one place to the end of its neighbour does. The
algorithms come in through two lemmas: `CutBuffer` (`Chunks` and `Rest` together hold what the buffer
held, in order, in chunks of the right length, with less than a chunk left) and `ResampledFrame`
(a frame of even length gives its odd samples, so that `EvenDecoded` makes the samples kept the
odd numbers). The order is stated on sets of samples and pairs of chunks and not on a flattened
sequence, whose recursion would need induction over data. `AllAccounted` is `Accounted` by
places. `TailIsLast` says why only the last chunk is short: all chunks are whole until the loop
is done, and then it pushes none. `ImplementsAudioStream` rests on the same invariant: what is
held is what waits in the stream (`WaitingIsHeld`), and the chunk that is sent is all of it up
to its last sample.

Only model-checked: liveness, which needs ENABLED for its fairness and is out of the prover's reach
(`LeaveReturnsUnlessHeld`, `OrchMovesOnUnlessHeld`, `HealthAnswersUnlessRequestStalls`,
`WordsGetShownUnlessStalled`, `RemovalEndsUnlessStalled`, `RunEndsUnlessStalled`,
`CloseReturnsUnlessStalled` of the HPB client and of the audio path, `RequestsAnswered`,
`ShutdownExits`, `SpeakersAreHeard`). Every safety property of every passing run is proved.

## 5. What is left

- The second audio track of a peer after a renegotiation (`webrtc/manager.go:166`), if
  pion's rules for `onTrack` are taken into the model.
- A composition of `RoomMembership` with `HPBConnection` in place of `link`, to see a reconnection
  that fails half-way together with the events it delays.

## 6. Not modelled

Opus decoding and RTP, ICE and SDP contents (pion), ICE candidates; JSON and HMAC; the
text of transcripts and log messages; the HTTP broadcast, whose failure loses a caption
that the model counts as published; HTTP requests refused for their form, the static
endpoints, the languages and the TURN servers, which reach no state; the `maxSpeakers`
setting, which no code reads (the limit of 100 per room in `addSpeaker` is modelled); the
configuration. `pkg/nextcloud` is a client for live test tooling and has no caller in the
service. `Pipeline.Start`, its loop, `Close` and the int16 conversion, and
`Transcriber.AddAudioFrame`, are called by no code of the service. `test/`, the scripts and
the Dockerfile are read as documentation only.
