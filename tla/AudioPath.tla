----------------------------- MODULE AudioPath -----------------------------
(***************************************************************************)
(* The way of a speaker's audio from the decoder to the STT connection:    *)
(* the WebRTC callback, audioInputCh, processAudioLoop with resampler and  *)
(* chunk buffer, audioOutCh, and the run loop that sends the chunks; and   *)
(* how it ends when the transcriber's context is cancelled.                *)
(*                                                                         *)
(* The decoded samples of a speaker are numbered 1, 2, 3, ... at 48 kHz; a *)
(* frame, a chunk and the buffer are sequences of such numbers.            *)
(***************************************************************************)
EXTENDS Naturals, Sequences, Functions

CONSTANTS
  FrameSizes,  \* samples of a decoded frame (120 to 5760 in the code)
  ChunkSize,   \* samples of a chunk at 24 kHz (1920 in the code)
  InCap,       \* capacity of audioInputCh (120 in the code)
  OutCap,      \* capacity of audioOutCh (25 in the code)
  MaxFrames    \* bound on the frames of a behaviour

\* Opus frames are whole multiples of 2.5 ms, so 48 kHz frames are even.
ASSUME AudioAssumption ==
  /\ FrameSizes \subseteq {2 * n : n \in 1 .. 2880} /\ ChunkSize \in Nat \ {0}
  /\ InCap \in Nat \ {0} /\ OutCap \in Nat \ {0} /\ MaxFrames \in Nat

VARIABLES
  frames, decoded,   \* number of frames and of samples decoded so far
  inputCh, outputCh, \* audioInputCh, audioOutCh
  cache,             \* audioCache.buffer
  pending,           \* chunks enqueueAudioChunks has still to push
  loop,              \* processAudioLoop
  run,               \* the run loop
  ctxDone,           \* t.ctx is cancelled
  connected,         \* modalClient.IsConnected, and its sends succeed
  writing,           \* the run loop is in SendAudio's write, which has no deadline
  sent,              \* chunks written to the STT connection, one under way included
  lost,              \* history: samples given up, by cause
  late               \* history: a shutdown timer cut something off

readerVars == <<frames, decoded>>
runVars    == <<run, writing, ctxDone, connected, sent>>
vars == <<readerVars, inputCh, outputCh, cache, pending, loop, runVars, lost, late>>

Causes  == {"input full", "output full", "offline", "cancelled"}

TypeOK ==
  /\ frames \in 0 .. MaxFrames /\ decoded \in Nat
  /\ inputCh \in Seq(Seq(Nat)) /\ Len(inputCh) <= InCap
  /\ \A i \in DOMAIN inputCh : Len(inputCh[i]) \in FrameSizes
  /\ outputCh \in Seq(Seq(Nat)) /\ Len(outputCh) <= OutCap
  /\ \A i \in DOMAIN outputCh : Len(outputCh[i]) \in 1 .. ChunkSize
  /\ cache \in Seq(Nat) /\ Len(cache) < ChunkSize
  /\ pending \in Seq(Seq(Nat)) /\ \A i \in DOMAIN pending : Len(pending[i]) = ChunkSize
  /\ sent \in Seq(Seq(Nat))
  /\ loop \in {"select", "drain", "done"}
  /\ run \in {"select", "busy", "await", "final", "ended"}
  /\ writing \in BOOLEAN /\ ctxDone \in BOOLEAN /\ connected \in BOOLEAN /\ late \in BOOLEAN
  /\ lost \in [Causes -> SUBSET Nat]

\* addSpeaker has built the transcriber and started run.
Init ==
  /\ frames = 0 /\ decoded = 0
  /\ inputCh = <<>> /\ outputCh = <<>> /\ cache = <<>> /\ pending = <<>>
  /\ loop = "select" /\ run = "select"
  /\ writing = FALSE /\ ctxDone = FALSE /\ connected = FALSE
  /\ sent = <<>> /\ lost = [c \in Causes |-> {}] /\ late = FALSE

\* The samples of a sequence of chunks.
Samples(q) == UNION {Range(q[i]) : i \in DOMAIN q}

Lose(cause, S) == lost' = [lost EXCEPT ![cause] = @ \cup S]

-----------------------------------------------------------------------------
(* pkg/audio.                                                               *)

\* Resampler.Resample from 48 to 24 kHz. Every output position falls on an
\* input sample, so nothing is interpolated; a frame gives half its length.
Resample(frame) == [i \in 1 .. Len(frame) \div 2 |-> frame[2 * i - 1]]

\* ChunkBuffer.Add: the whole chunks in a buffer, and what stays in it.
Chunks(b) ==
  [k \in 1 .. Len(b) \div ChunkSize |-> SubSeq(b, (k - 1) * ChunkSize + 1, k * ChunkSize)]

\* Mutant: an off-by-one in the slice that is left.
Rest_OffByOne(b) ==
  LET n == (Len(b) \div ChunkSize) * ChunkSize
  IN  SubSeq(b, IF n = 0 THEN 1 ELSE n, Len(b))

\* Mutant: the rest is thrown away once a chunk was cut.
Rest_Dropped(b) == IF Len(b) < ChunkSize THEN b ELSE <<>>

Rest(b) == SubSeq(b, (Len(b) \div ChunkSize) * ChunkSize + 1, Len(b))

-----------------------------------------------------------------------------
(* The reader goroutine's callback, set in addSpeaker.                      *)

Frame(n) == [i \in 1 .. n |-> decoded + i]

\* A frame that finds the queue full is dropped.
DecodeFrame(n) ==
  /\ frames < MaxFrames /\ frames' = frames + 1 /\ decoded' = decoded + n
  /\ \/ Len(inputCh) < InCap /\ inputCh' = Append(inputCh, Frame(n)) /\ UNCHANGED lost
     \/ Len(inputCh) = InCap /\ Lose("input full", Range(Resample(Frame(n)))) /\ UNCHANGED inputCh
  /\ UNCHANGED <<outputCh, cache, pending, loop, runVars, late>>

-----------------------------------------------------------------------------
(* processAudioLoop.                                                        *)

\* processInputFrame up to enqueueAudioChunks. In the select a queued frame may
\* win over a cancelled context; drainAudioInput takes the rest.
ProcessInputFrame ==
  /\ loop \in {"select", "drain"} /\ pending = <<>> /\ inputCh # <<>>
  /\ LET b == cache \o Resample(Head(inputCh))
     IN  cache' = Rest(b) /\ pending' = Chunks(b)
  /\ inputCh' = Tail(inputCh)
  /\ UNCHANGED <<readerVars, outputCh, loop, runVars, lost, late>>

\* enqueueAudioChunks, one chunk that is pushed.
EnqueueChunk ==
  /\ pending # <<>> /\ Len(outputCh) < OutCap
  /\ outputCh' = Append(outputCh, Head(pending)) /\ pending' = Tail(pending)
  /\ UNCHANGED <<readerVars, inputCh, cache, loop, runVars, lost, late>>

\* The queue is full: this chunk is dropped, the next one is tried.
EnqueueFull ==
  /\ pending # <<>> /\ Len(outputCh) = OutCap /\ ~ctxDone
  /\ Lose("output full", Range(Head(pending))) /\ pending' = Tail(pending)
  /\ UNCHANGED <<readerVars, inputCh, outputCh, cache, loop, runVars, late>>

\* A cancelled context is as ready as the queue: all that is left is dropped.
EnqueueCancelled ==
  /\ pending # <<>> /\ ctxDone
  /\ Lose("cancelled", Samples(pending)) /\ pending' = <<>>
  /\ UNCHANGED <<readerVars, inputCh, outputCh, cache, loop, runVars, late>>

LoopCancelled ==
  /\ loop = "select" /\ pending = <<>> /\ ctxDone /\ loop' = "drain"
  /\ UNCHANGED <<readerVars, inputCh, outputCh, cache, pending, runVars, lost, late>>

\* Mutant: the tail is flushed before the queued frames are processed.
FlushTail_BeforeDrain ==
  /\ loop = "drain" /\ pending = <<>> /\ cache # <<>>
  /\ Len(outputCh) < OutCap
  /\ outputCh' = Append(outputCh, cache) /\ cache' = <<>>
  /\ loop' = IF inputCh = <<>> THEN "done" ELSE "drain"
  /\ UNCHANGED <<readerVars, inputCh, pending, runVars, lost, late>>

\* Mutant: the tail is pushed by a plain send that waits for room.
FlushTail_Waits ==
  /\ loop = "drain" /\ pending = <<>> /\ inputCh = <<>> /\ loop' = "done"
  /\ \/ cache = <<>> /\ UNCHANGED outputCh
     \/ cache # <<>> /\ Len(outputCh) < OutCap /\ outputCh' = Append(outputCh, cache)
  /\ cache' = <<>>
  /\ UNCHANGED <<readerVars, inputCh, pending, runVars, lost, late>>

\* flushAudioCacheTail, once the input is drained, and close(audioDoneCh). The
\* context is done by now, so the select may drop the tail though there is room.
FlushTail ==
  /\ loop = "drain" /\ pending = <<>> /\ inputCh = <<>> /\ loop' = "done"
  /\ \/ cache = <<>> /\ UNCHANGED <<outputCh, lost>>
     \/ cache # <<>> /\ Len(outputCh) < OutCap
        /\ outputCh' = Append(outputCh, cache) /\ UNCHANGED lost
     \/ cache # <<>> /\ Lose("cancelled", Range(cache)) /\ UNCHANGED outputCh
  /\ cache' = <<>>
  /\ UNCHANGED <<readerVars, inputCh, pending, runVars, late>>

-----------------------------------------------------------------------------
(* The run loop, as far as audio goes.                                      *)

\* Mutant: an arm of the loop sends on after the shutdown drain.
SendAudioChunk_AfterEnd ==
  /\ run \in {"select", "final", "ended"} /\ ~writing
  /\ outputCh # <<>> /\ outputCh' = Tail(outputCh) /\ writing' = connected
  /\ IF connected THEN sent' = Append(sent, Head(outputCh)) /\ UNCHANGED lost
                  ELSE Lose("offline", Range(Head(outputCh))) /\ UNCHANGED sent
  /\ UNCHANGED <<readerVars, inputCh, cache, pending, loop, run, ctxDone, connected, late>>

\* sendAudioChunk, in the loop and in drainOnShutdown, up to the write.
SendAudioChunk ==
  /\ run \in {"select", "final"} /\ ~writing
  /\ outputCh # <<>> /\ outputCh' = Tail(outputCh) /\ writing' = connected
  /\ IF connected THEN sent' = Append(sent, Head(outputCh)) /\ UNCHANGED lost
                  ELSE Lose("offline", Range(Head(outputCh))) /\ UNCHANGED sent
  /\ UNCHANGED <<readerVars, inputCh, cache, pending, loop, run, ctxDone, connected, late>>

\* The service has read on, or the connection broke.
WriteReturns ==
  /\ writing /\ writing' = FALSE
  /\ UNCHANGED <<readerVars, inputCh, outputCh, cache, pending, loop, run, ctxDone, connected,
                 sent, lost, late>>

\* The run loop goes from one of its places to another.
RunMoves(from, to) ==
  /\ run = from /\ ~writing /\ run' = to
  /\ UNCHANGED <<readerVars, inputCh, outputCh, cache, pending, loop, writing, ctxDone,
                 connected, sent, lost>>

\* Other work of the loop: a reconnect with its backoff, a caption broadcast.
RunBusy == RunMoves("select", "busy") /\ UNCHANGED late

RunReturns == RunMoves("busy", "select") /\ UNCHANGED late

RunCancelled == ctxDone /\ RunMoves("select", "await") /\ UNCHANGED late

\* drainOnShutdown: audioDoneCh, or 250 ms.
AwaitAudio == RunMoves("await", "final") /\ late' = (late \/ loop # "done")

\* The 750 ms of the drain are over, whatever is still queued.
DrainEnds == RunMoves("final", "ended") /\ late' = (late \/ outputCh # <<>>)

-----------------------------------------------------------------------------
(* The rest of the program.                                                 *)

\* Transcriber.Close, or the room's context.
Cancel ==
  /\ ~ctxDone /\ ctxDone' = TRUE
  /\ UNCHANGED <<readerVars, inputCh, outputCh, cache, pending, loop, run, writing, connected,
                 sent, lost, late>>

\* The STT connection comes and goes (module ModalSession).
ConnectionChanges ==
  /\ run # "ended" /\ connected' = ~connected
  /\ UNCHANGED <<readerVars, inputCh, outputCh, cache, pending, loop, run, writing, ctxDone, sent,
                 lost, late>>

AudioLoop ==
  \/ ProcessInputFrame \/ EnqueueChunk \/ EnqueueFull \/ EnqueueCancelled
  \/ LoopCancelled \/ FlushTail

RunLoop ==
  \/ SendAudioChunk \/ RunBusy \/ RunReturns \/ RunCancelled \/ AwaitAudio \/ DrainEnds

Next ==
  \/ \E n \in FrameSizes : DecodeFrame(n)
  \/ AudioLoop \/ RunLoop \/ WriteReturns \/ Cancel \/ ConnectionChanges

\* Both goroutines run. A select that is offered the cancelled context or the
\* timer again and again takes it in the end, and other work ends. Nothing is
\* assumed of WriteReturns.
Fairness ==
  /\ WF_vars(AudioLoop) /\ WF_vars(RunReturns \/ SendAudioChunk)
  /\ SF_vars(RunCancelled) /\ WF_vars(AwaitAudio) /\ SF_vars(DrainEnds)

Spec == Init /\ [][Next]_vars /\ Fairness

-----------------------------------------------------------------------------
(* Properties                                                               *)

Increasing(s) == \A i, j \in DOMAIN s : i < j => s[i] < s[j]

Before(A, B) == \A a \in A, b \in B : a < b

\* The chunks of q, one after the other, are increasing.
Ordered(q) ==
  /\ \A i \in DOMAIN q : Increasing(q[i])
  /\ \A i, j \in DOMAIN q : i < j => Before(Range(q[i]), Range(q[j]))

Resampled(q) == [i \in DOMAIN q |-> Resample(q[i])]

\* Everything that has been decoded and is not lost, first what left first.
Line == sent \o outputCh \o pending \o <<cache>> \o Resampled(inputCh)

Lost == UNION {lost[c] : c \in Causes}

Spoken == {n \in 1 .. decoded : n % 2 = 1}

\* The audio the STT service gets is in the order it was spoken and nothing is
\* in it twice, through both queues, the chunk buffer, the drain and the tail
\* (transcriber.go 98-113, 249-310, pipeline.go 257-288).
InOrder == Ordered(Line)

\* No sample vanishes: each one that survives the resampling is on its way, sent,
\* or given up for a reason the code has (pipeline.go 196-288).
Accounted ==
  /\ Samples(Line) \cup Lost = Spoken
  /\ Samples(Line) \cap Lost = {}

\* The service expects chunks of 80 ms: only the last chunk a speaker sends may
\* be short (transcriber.go 285-296).
OnlyLastChunkShort ==
  \A i \in 1 .. Len(sent) - 1 : Len(sent[i]) = ChunkSize

Ended == run = "ended" /\ loop = "done"

\* What the STT service is promised: at every step it gets the earliest samples
\* that are neither sent nor lost, a lost one never comes, and none comes once the
\* run loop has ended (transcriber.go 211-246, 299-348).
Speech == INSTANCE AudioStream WITH
  spoken <- Spoken, delivered <- [i \in DOMAIN sent |-> Range(sent[i])],
  dropped <- Lost, ended <- (run = "ended")

AudioStreamSpec == Speech!Spec

\* Once cancelled, both goroutines end, whatever the reader and the connection's ups
\* and downs, unless a write to it blocks for ever, which the drain's timer does not
\* interrupt: Transcriber.Close returns (transcriber.go 211, 220, 235).
CloseReturnsUnlessStalled == <>[]writing \/ (ctxDone ~> Ended)

\* The comment on flushAudioCacheTail says that the tail is emitted so that
\* trailing phonemes are not dropped when the stream ends mid-chunk.
TailReachesSTT ==
  Ended /\ connected /\ ~late => lost["cancelled"] = {}

=============================================================================
