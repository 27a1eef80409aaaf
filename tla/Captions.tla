------------------------------ MODULE Captions ------------------------------
(***************************************************************************)
(* The broadcasting half of a Transcriber: the tokens and vad_end markers  *)
(* that modal.Client.readLoop puts into transcriptCh, and the run loop     *)
(* that accumulates them, throttles what it sends to the room and flushes  *)
(* the rest when the speech service hangs up or the speaker is removed.    *)
(* The same goroutine writes the speaker's audio to the service, and does  *)
(* nothing else while it is in a write.                                    *)
(*                                                                         *)
(* A text is the sequence of its tokens. Time is a count of units since    *)
(* the last send and since the flush ticker's last tick.                   *)
(***************************************************************************)
EXTENDS Naturals, Sequences

CONSTANTS
  MaxWords,   \* tokens of one behaviour
  QueueCap,   \* capacity of transcriptCh (50 in the code)
  Interval    \* broadcastMinInterval in time units (80 ms in the code)

ASSUME CaptionsAssumption == MaxWords \in Nat /\ QueueCap \in Nat /\ Interval \in Nat \ {0}

VARIABLES
  \* modal client
  spoken,     \* tokens the service has sent so far
  online,     \* the connection to the service is open
  queue,      \* transcriptCh
  hangup,     \* errCh holds the error of a normal close (code 1000)
  \* Transcriber
  mode,       \* "run": select loop; "drain": drainOnShutdown; "done"
  writing,    \* the loop is in SendAudio, whose write has no deadline
  ctxDone,    \* t.ctx is cancelled
  pendingText, broadcastDirty,
  sinceSend,  \* time since lastBroadcast, up to Interval
  sinceTick,  \* time since flushTicker fired
  tick,       \* flushTicker.C holds a tick
  \* history, for the properties
  heard, published, shown

modalVars == <<spoken, online, queue, hangup>>
clockVars == <<sinceTick, tick>>
textVars  == <<pendingText, broadcastDirty, sinceSend, heard, published, shown>>
vars == <<modalVars, mode, writing, ctxDone, textVars, clockVars>>

Words  == 1 .. MaxWords
VadEnd == 0

TypeOK ==
  /\ spoken \in 0 .. MaxWords /\ online \in BOOLEAN /\ hangup \in BOOLEAN
  /\ queue \in Seq(Words \cup {VadEnd}) /\ Len(queue) <= QueueCap
  /\ mode \in {"run", "drain", "done"} /\ writing \in BOOLEAN /\ ctxDone \in BOOLEAN
  /\ pendingText \in Seq(Words) /\ broadcastDirty \in BOOLEAN
  /\ sinceSend \in 0 .. Interval /\ sinceTick \in 0 .. Interval - 1 /\ tick \in BOOLEAN
  /\ heard \in Seq(Words) /\ published \in Seq(Words) /\ shown \in Seq(Words)

\* lastBroadcast is the zero time, so the first token is sent at once.
Init ==
  /\ spoken = 0 /\ online = TRUE /\ queue = <<>> /\ hangup = FALSE
  /\ mode = "run" /\ writing = FALSE /\ ctxDone = FALSE
  /\ pendingText = <<>> /\ broadcastDirty = FALSE
  /\ sinceSend = Interval /\ sinceTick = 0 /\ tick = FALSE
  /\ heard = <<>> /\ published = <<>> /\ shown = <<>>

-----------------------------------------------------------------------------
(* The speech service and the client's read loop.                           *)

\* A message that finds transcriptCh full is dropped.
Enqueue(m) == queue' = IF Len(queue) < QueueCap THEN Append(queue, m) ELSE queue

ReceiveToken ==
  /\ online /\ spoken < MaxWords
  /\ spoken' = spoken + 1 /\ Enqueue(spoken + 1)
  /\ UNCHANGED <<online, hangup, mode, writing, ctxDone, textVars, clockVars>>

ReceiveVadEnd ==
  /\ online /\ spoken > 0 /\ Enqueue(VadEnd)
  /\ queue' # queue
  /\ UNCHANGED <<spoken, online, hangup, mode, writing, ctxDone, textVars, clockVars>>

\* The service closes the stream normally: readLoop posts the error and ends.
HangUp ==
  /\ online /\ online' = FALSE /\ hangup' = TRUE
  /\ UNCHANGED <<spoken, queue, mode, writing, ctxDone, textVars, clockVars>>

RemoveSpeaker ==
  /\ ~ctxDone /\ ctxDone' = TRUE
  /\ UNCHANGED <<modalVars, mode, writing, textVars, clockVars>>

TimePasses ==
  /\ sinceSend' = IF sinceSend < Interval THEN sinceSend + 1 ELSE Interval
  /\ sinceTick' = (sinceTick + 1) % Interval
  /\ tick' = (tick \/ sinceTick' = 0)
  /\ UNCHANGED <<modalVars, mode, writing, ctxDone>>
  /\ UNCHANGED <<pendingText, broadcastDirty, heard, published, shown>>

-----------------------------------------------------------------------------
(* What the run loop does to the text.                                      *)

\* A non-final send of the accumulated text.
SendPartial(text) ==
  /\ shown' = text /\ sinceSend' = 0 /\ broadcastDirty' = FALSE
  /\ UNCHANGED published

\* Mutants: the final send forgets to reset the text; the dirty flag.
SendFinal_KeepsText ==
  /\ published' = published \o pendingText
  /\ sinceSend' = 0 /\ broadcastDirty' = FALSE /\ shown' = <<>>
  /\ UNCHANGED <<pendingText, heard>>

SendFinal_KeepsDirty ==
  /\ published' = published \o pendingText
  /\ sinceSend' = 0 /\ pendingText' = <<>> /\ shown' = <<>>
  /\ UNCHANGED <<broadcastDirty, heard>>

\* A final send, and the reset for the next utterance.
SendFinal ==
  /\ published' = published \o pendingText
  /\ sinceSend' = 0 /\ pendingText' = <<>> /\ broadcastDirty' = FALSE
  /\ shown' = <<>> /\ UNCHANGED heard

\* Mutant: a throttled token is not marked as unsent.
AddToken_NotMarked(w) ==
  /\ heard' = Append(heard, w) /\ pendingText' = Append(pendingText, w)
  /\ IF sinceSend >= Interval
       THEN SendPartial(Append(pendingText, w))
       ELSE UNCHANGED <<broadcastDirty, sinceSend, published, shown>>

AddToken(w) ==
  /\ heard' = Append(heard, w) /\ pendingText' = Append(pendingText, w)
  /\ IF sinceSend >= Interval
       THEN SendPartial(Append(pendingText, w))
       ELSE broadcastDirty' = TRUE /\ UNCHANGED <<sinceSend, published, shown>>

FinishUtterance ==
  IF pendingText # <<>> THEN SendFinal ELSE UNCHANGED textVars

handleTranscript(m) == IF m = VadEnd THEN FinishUtterance ELSE AddToken(m)

flushPendingFinal == IF pendingText # <<>> THEN SendFinal ELSE UNCHANGED textVars

flushPendingBroadcast ==
  IF broadcastDirty /\ pendingText # <<>>
    THEN SendPartial(pendingText) /\ UNCHANGED <<pendingText, heard>>
    ELSE UNCHANGED textVars

-----------------------------------------------------------------------------
(* The select loop, and the drain that follows the cancel.                  *)

\* In a select, with the cases of the loop or those of the drain.
Selects(m) == mode = m /\ ~writing

TakeTranscript ==
  /\ Selects("run") \/ Selects("drain")
  /\ queue # <<>> /\ queue' = Tail(queue) /\ handleTranscript(Head(queue))
  /\ UNCHANGED <<spoken, online, hangup, mode, writing, ctxDone, clockVars>>

FlushTick ==
  /\ Selects("run") /\ tick /\ tick' = FALSE
  /\ flushPendingBroadcast
  /\ UNCHANGED <<modalVars, mode, writing, ctxDone, sinceTick>>

\* The loop flushes on a normal close; the drain only logs the error.
TakeHangUp ==
  /\ hangup /\ hangup' = FALSE
  /\ \/ Selects("run") /\ flushPendingFinal
     \/ Selects("drain") /\ UNCHANGED textVars
  /\ UNCHANGED <<spoken, online, queue, mode, writing, ctxDone, clockVars>>

\* An audio chunk; without a connection it is skipped.
AudioWriteStarts ==
  /\ Selects("run") \/ Selects("drain")
  /\ online /\ writing' = TRUE
  /\ UNCHANGED <<modalVars, mode, ctxDone, textVars, clockVars>>

\* When the service reads on or the connection breaks, if ever.
AudioWriteEnds ==
  /\ writing /\ writing' = FALSE
  /\ UNCHANGED <<modalVars, mode, ctxDone, textVars, clockVars>>

StartDrain ==
  /\ Selects("run") /\ ctxDone /\ mode' = "drain"
  /\ UNCHANGED <<modalVars, writing, ctxDone, textVars, clockVars>>

\* Mutants: the drain ends without the final flush; its timer is made anew in
\* every round of the loop, so that it only fires on an idle queue.
DrainTimeout_NoFlush ==
  /\ Selects("drain") /\ mode' = "done"
  /\ UNCHANGED <<modalVars, writing, ctxDone, textVars, clockVars>>

DrainTimeout_Rearmed ==
  /\ Selects("drain") /\ queue = <<>> /\ mode' = "done" /\ flushPendingFinal
  /\ UNCHANGED <<modalVars, writing, ctxDone, clockVars>>

\* The drain window closes, whatever is left in transcriptCh.
DrainTimeout ==
  /\ Selects("drain") /\ mode' = "done" /\ flushPendingFinal
  /\ UNCHANGED <<modalVars, writing, ctxDone, clockVars>>

RunLoop == TakeTranscript \/ FlushTick \/ TakeHangUp \/ StartDrain \/ DrainTimeout

Next ==
  \/ ReceiveToken \/ ReceiveVadEnd \/ HangUp \/ RemoveSpeaker \/ TimePasses
  \/ RunLoop \/ AudioWriteStarts \/ AudioWriteEnds

\* The goroutine is scheduled and the clock runs; nobody has to speak or leave. A
\* select picks among its ready cases at random, so none of the loop's other cases is
\* passed over for audio for ever, nor a cancelled context or an expired drain timer
\* for anything. Nothing is assumed of AudioWriteEnds.
Spec ==
  /\ Init /\ [][Next]_vars
  /\ SF_vars(RunLoop) /\ WF_vars(TimePasses)
  /\ SF_vars(StartDrain) /\ SF_vars(DrainTimeout)

-----------------------------------------------------------------------------
(* Properties.                                                              *)

\* The transcriber gives the participants a caption stream.
Stream == INSTANCE CaptionStream WITH
            utterance <- pendingText, closed <- (mode = "done")
StreamSpec == Stream!Spec

\* Every token the loop took is in the final captions or in the pending text, in
\* order and once: no path, neither hang-up nor shutdown, drops or repeats one.
NothingLost == heard = published \o pendingText

\* The dirty flag, set and cleared in four places, is exactly "the pending text is
\* not what participants see": a clear flag never hides unsent words.
DirtyMeansUnsent == broadcastDirty <=> (pendingText # shown)

\* The goroutine stays in an audio write for ever.
WriteStalls == <>[]writing

\* Every word taken in is on display or in a final caption some time later, with no
\* further token needed, unless the loop's audio write never ends.
WordsGetShownUnlessStalled ==
  \/ WriteStalls
  \/ \A w \in Words : (\E k \in DOMAIN heard : heard[k] = w)
                         ~> (\E k \in DOMAIN (published \o shown) : (published \o shown)[k] = w)

\* The transcriber of a removed speaker ends, however much is still arriving, and
\* leaves nothing pending, unless its audio write never ends: the drain's timer does
\* not interrupt one. removeSpeaker waits for this.
RemovalEndsUnlessStalled ==
  WriteStalls \/ (ctxDone ~> (mode = "done" /\ pendingText = <<>>))

\* What the comment on flushPendingFinal says of a stream close: once the close was
\* handled and the queue is empty, no trailing words wait for a vad_end that will
\* not come.
CloseFlushesAll ==
  ~online /\ ~hangup /\ queue = <<>> => pendingText = <<>>

=============================================================================
