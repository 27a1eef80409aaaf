-------------------------- MODULE Captions_proofs --------------------------
(***************************************************************************)
(* Captions keeps every word, and gives its participants a CaptionStream,  *)
(* for every queue capacity, broadcast interval and number of words.       *)
(***************************************************************************)
EXTENDS Captions, SequenceTheorems, TLAPS

\* What participants see is never longer than what is pending: a new token always
\* makes the two differ.
ShownFits == Len(shown) <= Len(pendingText)

TextTypes ==
  /\ heard \in Seq(Words) /\ pendingText \in Seq(Words)
  /\ published \in Seq(Words) /\ shown \in Seq(Words)
  /\ broadcastDirty \in BOOLEAN /\ sinceSend \in 0 .. Interval

\* All that is said of the text; every step keeps it, whatever the goroutines do.
TextInv == TextTypes /\ NothingLost /\ DirtyMeansUnsent /\ ShownFits

\* The rest of TypeOK: what the client, the loop and the clock keep.
ControlTypes ==
  /\ spoken \in 0 .. MaxWords /\ online \in BOOLEAN /\ hangup \in BOOLEAN
  /\ queue \in Seq(Words \cup {VadEnd}) /\ Len(queue) <= QueueCap
  /\ mode \in {"run", "drain", "done"} /\ writing \in BOOLEAN /\ ctxDone \in BOOLEAN
  /\ sinceTick \in 0 .. Interval - 1 /\ tick \in BOOLEAN

IInv == ControlTypes /\ TextInv

-----------------------------------------------------------------------------
(* Each operation on the text keeps it.                                     *)

LEMMA JustSent == 0 \in 0 .. Interval /\ Interval \in 0 .. Interval
BY CaptionsAssumption DEF CaptionsAssumption

\* A token joins the heard and the pending text at the same end.
LEMMA AddTokenKeepsText ==
  ASSUME TextInv, NEW w \in Words, AddToken(w)
  PROVE  TextInv'
<1> DEFINE longer == Append(pendingText, w)
<1>1. longer \in Seq(Words) /\ Len(longer) = Len(pendingText) + 1
  BY DEF TextInv, TextTypes
<1>2. longer # shown
  <2>1. Len(shown) \in Nat /\ Len(pendingText) \in Nat /\ Len(shown) <= Len(pendingText)
    BY DEF TextInv, TextTypes, ShownFits
  <2> QED BY <1>1, <2>1
<1>3. heard' = Append(heard, w) /\ pendingText' = longer /\ published' = published
  BY DEF AddToken, SendPartial
<1>0. heard' \in Seq(Words)
  BY <1>3 DEF TextInv, TextTypes
<1>4. NothingLost'
  <2>1. <<w>> \in Seq(Words)
    OBVIOUS
  <2>2. (published \o pendingText) \o <<w>> = published \o (pendingText \o <<w>>)
    BY <2>1, ConcatAssociative DEF TextInv, TextTypes
  <2>3. published \o pendingText \in Seq(Words)
    BY DEF TextInv, TextTypes
  <2>4. Append(published \o pendingText, w) = (published \o pendingText) \o <<w>>
    BY <2>3, AppendIsConcat
  <2>5. longer = pendingText \o <<w>>
    BY AppendIsConcat DEF TextInv, TextTypes
  <2> QED BY <1>3, <2>2, <2>4, <2>5 DEF TextInv, NothingLost
<1>5. CASE sinceSend >= Interval
  <2>1. shown' = longer /\ sinceSend' = 0 /\ broadcastDirty' = FALSE
    BY <1>5 DEF AddToken, SendPartial
  <2>2. Len(longer) <= Len(longer)
    BY <1>1
  <2>3. TextTypes'
    BY <1>0, <1>1, <1>3, <2>1, JustSent, Zenon DEF TextInv, TextTypes
  <2> QED BY <1>1, <1>3, <1>4, <2>1, <2>2, <2>3 DEF TextInv, DirtyMeansUnsent, ShownFits
<1>6. CASE ~(sinceSend >= Interval)
  <2>1. shown' = shown /\ sinceSend' = sinceSend /\ broadcastDirty' = TRUE
    BY <1>6 DEF AddToken
  <2>2. TextTypes'
    BY <1>1, <1>3, <2>1 DEF TextInv, TextTypes
  <2>3. DirtyMeansUnsent'
    BY <1>2, <1>3, <2>1 DEF DirtyMeansUnsent
  <2>4. ShownFits'
    BY <1>1, <1>3, <2>1 DEF TextInv, TextTypes, ShownFits
  <2> QED BY <1>4, <2>2, <2>3, <2>4 DEF TextInv
<1> QED BY <1>5, <1>6

\* A final send moves the pending text to the end of the published.
LEMMA SendFinalKeepsText ==
  ASSUME TextInv, SendFinal
  PROVE  TextInv'
<1>1. /\ published' = published \o pendingText /\ pendingText' = <<>> /\ shown' = <<>>
      /\ heard' = heard /\ sinceSend' = 0 /\ broadcastDirty' = FALSE
  BY DEF SendFinal
<1>2. published' \in Seq(Words)
  BY <1>1 DEF TextInv, TextTypes
<1>3. TextTypes'
  <2>1. <<>> \in Seq(Words)
    BY EmptySeq
  <2> QED BY <1>1, <1>2, <2>1, JustSent, Zenon DEF TextInv, TextTypes
<1>4. NothingLost'
  BY <1>1, <1>2, ConcatEmptySeq DEF TextInv, NothingLost
<1> QED BY <1>1, <1>3, <1>4 DEF TextInv, DirtyMeansUnsent, ShownFits

\* Text that nothing touches, but for the time since the last send, stays good.
LEMMA StillText ==
  ASSUME TextInv, sinceSend' \in 0 .. Interval,
         UNCHANGED <<pendingText, broadcastDirty, heard, published, shown>>
  PROVE  TextInv'
BY DEF TextInv, TextTypes, NothingLost, DirtyMeansUnsent, ShownFits

LEMMA UnchangedText == TextInv /\ UNCHANGED textVars => TextInv'
BY StillText DEF textVars, TextInv, TextTypes

\* The ticker's send shows all there is.
LEMMA FlushKeepsText ==
  ASSUME TextInv, flushPendingBroadcast
  PROVE  TextInv'
<1>1. CASE UNCHANGED textVars
  BY <1>1, UnchangedText
<1>2. CASE SendPartial(pendingText) /\ UNCHANGED <<pendingText, heard>>
  <2>1. /\ shown' = pendingText /\ pendingText' = pendingText /\ heard' = heard
        /\ published' = published /\ sinceSend' = 0 /\ broadcastDirty' = FALSE
    BY <1>2 DEF SendPartial
  <2>2. Len(pendingText) <= Len(pendingText)
    BY DEF TextInv, TextTypes
  <2>3. TextTypes'
    BY <2>1, JustSent, Zenon DEF TextInv, TextTypes
  <2>4. NothingLost' /\ ShownFits'
    BY <2>1, <2>2 DEF TextInv, NothingLost, ShownFits
  <2>5. DirtyMeansUnsent'
    BY <2>1 DEF DirtyMeansUnsent
  <2> QED BY <2>3, <2>4, <2>5 DEF TextInv
<1> QED BY <1>1, <1>2 DEF flushPendingBroadcast

LEMMA HandleKeepsText ==
  ASSUME TextInv, NEW m \in Words \cup {VadEnd}, handleTranscript(m)
  PROVE  TextInv'
<1>1. CASE m = VadEnd
  BY <1>1, UnchangedText, SendFinalKeepsText DEF handleTranscript, FinishUtterance
<1>2. CASE m # VadEnd
  BY <1>2, AddTokenKeepsText DEF handleTranscript
<1> QED BY <1>1, <1>2

LEMMA FinalKeepsText == TextInv /\ flushPendingFinal => TextInv'
BY UnchangedText, SendFinalKeepsText DEF flushPendingFinal

-----------------------------------------------------------------------------
(* The inductive invariant.                                                 *)

LEMMA InitInv == Init => IInv
<1> SUFFICES ASSUME Init PROVE IInv
  OBVIOUS
<1> USE DEF Init
<1>1. ControlTypes
  <2>1. 0 \in 0 .. MaxWords /\ 0 \in 0 .. Interval - 1
    BY CaptionsAssumption DEF CaptionsAssumption
  <2>2. <<>> \in Seq(Words \cup {VadEnd}) /\ Len(<<>>) <= QueueCap
    BY CaptionsAssumption, EmptySeq DEF CaptionsAssumption
  <2> QED BY <2>1, <2>2, Zenon DEF ControlTypes
<1>2. <<>> \in Seq(Words) /\ <<>> \o <<>> = <<>>
  BY EmptySeq, ConcatEmptySeq
<1>3. TextTypes
  BY <1>2, JustSent, Zenon DEF TextTypes
<1>4. NothingLost /\ DirtyMeansUnsent /\ ShownFits
  BY <1>2 DEF NothingLost, DirtyMeansUnsent, ShownFits
<1> QED BY <1>1, <1>3, <1>4 DEF IInv, TextInv

LEMMA EnqueueKeepsQueue ==
  ASSUME ControlTypes, NEW m \in Words \cup {VadEnd}, Enqueue(m)
  PROVE  queue' \in Seq(Words \cup {VadEnd}) /\ Len(queue') <= QueueCap
<1>1. QueueCap \in Nat
  BY CaptionsAssumption DEF CaptionsAssumption
<1>2. CASE Len(queue) < QueueCap
  <2>1. queue' = Append(queue, m)
    BY <1>2 DEF Enqueue
  <2>2. Append(queue, m) \in Seq(Words \cup {VadEnd}) /\ Len(Append(queue, m)) = Len(queue) + 1
    BY DEF ControlTypes
  <2>3. Len(queue) \in Nat
    BY DEF ControlTypes
  <2> QED BY <1>1, <1>2, <2>1, <2>2, <2>3
<1>3. CASE ~(Len(queue) < QueueCap)
  BY <1>3 DEF Enqueue, ControlTypes
<1> QED BY <1>2, <1>3

LEMMA NextInv == IInv /\ [Next]_vars => IInv'
<1> SUFFICES ASSUME IInv, [Next]_vars PROVE IInv'
  OBVIOUS
<1> USE CaptionsAssumption DEF CaptionsAssumption, IInv
<1>1. CASE ReceiveToken
  <2>1. spoken + 1 \in Words /\ spoken' = spoken + 1 /\ Enqueue(spoken + 1)
    BY <1>1 DEF ReceiveToken, ControlTypes, Words
  <2>2. ControlTypes'
    BY <1>1, <2>1, EnqueueKeepsQueue DEF ReceiveToken, ControlTypes, Words, clockVars
  <2> QED BY <1>1, <2>2, UnchangedText DEF ReceiveToken
<1>2. CASE ReceiveVadEnd
  <2>1. ControlTypes'
    BY <1>2, EnqueueKeepsQueue DEF ReceiveVadEnd, ControlTypes, clockVars
  <2> QED BY <1>2, <2>1, UnchangedText DEF ReceiveVadEnd
<1>3. CASE HangUp
  BY <1>3, UnchangedText DEF HangUp, ControlTypes, clockVars
<1>4. CASE RemoveSpeaker
  BY <1>4, UnchangedText DEF RemoveSpeaker, ControlTypes, clockVars, modalVars
<1>5. CASE TimePasses
  <2>1. sinceSend' \in 0 .. Interval
    BY <1>5 DEF TimePasses, TextInv, TextTypes
  <2>2. sinceTick' \in 0 .. Interval - 1
    BY <1>5 DEF TimePasses, ControlTypes
  <2>3. ControlTypes'
    BY <1>5, <2>2 DEF TimePasses, ControlTypes, modalVars
  <2> QED BY <1>5, <2>1, <2>3, StillText DEF TimePasses
<1>6. CASE TakeTranscript
  <2>1. queue # <<>> /\ queue' = Tail(queue) /\ handleTranscript(Head(queue))
    BY <1>6 DEF TakeTranscript
  <2>2. Head(queue) \in Words \cup {VadEnd}
    BY <2>1, HeadTailProperties DEF ControlTypes
  <2>3. Tail(queue) \in Seq(Words \cup {VadEnd}) /\ Len(Tail(queue)) = Len(queue) - 1
    BY <2>1, HeadTailProperties DEF ControlTypes
  <2>4. Len(queue) \in Nat
    BY DEF ControlTypes
  <2>5. ControlTypes'
    BY <1>6, <2>1, <2>3, <2>4 DEF TakeTranscript, ControlTypes, clockVars
  <2> QED BY <2>1, <2>2, <2>5, HandleKeepsText
<1>7. CASE FlushTick
  <2>1. ControlTypes'
    BY <1>7 DEF FlushTick, ControlTypes, modalVars
  <2> QED BY <1>7, <2>1, FlushKeepsText DEF FlushTick
<1>8. CASE TakeHangUp
  <2>1. ControlTypes'
    BY <1>8 DEF TakeHangUp, ControlTypes, clockVars
  <2> QED BY <1>8, <2>1, FinalKeepsText, UnchangedText DEF TakeHangUp
<1>9. CASE StartDrain
  BY <1>9, UnchangedText DEF StartDrain, ControlTypes, clockVars, modalVars
<1>10. CASE DrainTimeout
  <2>1. ControlTypes'
    BY <1>10 DEF DrainTimeout, ControlTypes, clockVars, modalVars
  <2> QED BY <1>10, <2>1, FinalKeepsText DEF DrainTimeout
<1>10a. CASE AudioWriteStarts
  BY <1>10a, UnchangedText DEF AudioWriteStarts, ControlTypes, clockVars, modalVars
<1>10b. CASE AudioWriteEnds
  BY <1>10b, UnchangedText DEF AudioWriteEnds, ControlTypes, clockVars, modalVars
<1>11. CASE UNCHANGED vars
  BY <1>11, UnchangedText DEF vars, ControlTypes, clockVars, modalVars
<1> QED
  BY <1>1, <1>2, <1>3, <1>4, <1>5, <1>6, <1>7, <1>8, <1>9, <1>10, <1>10a,
     <1>10b, <1>11 DEF Next, RunLoop

LEMMA Invariance == Spec => []IInv
BY InitInv, NextInv, PTL DEF Spec

\* Every variable keeps its type; the queue never outgrows its channel.
THEOREM TypeCorrect == Spec => []TypeOK
<1>1. IInv => TypeOK
  BY DEF IInv, ControlTypes, TextInv, TextTypes, TypeOK
<1> QED BY <1>1, Invariance, PTL

\* Every word the run loop took is published or pending, in order and once,
\* through throttling, hang-up and shutdown.
THEOREM NoWordLost == Spec => []NothingLost
<1>1. IInv => NothingLost
  BY DEF IInv, TextInv
<1> QED BY <1>1, Invariance, PTL

\* broadcastDirty is set exactly while participants see less than is pending.
THEOREM DirtyIsExact == Spec => []DirtyMeansUnsent
<1>1. IInv => DirtyMeansUnsent
  BY DEF IInv, TextInv
<1> QED BY <1>1, Invariance, PTL

-----------------------------------------------------------------------------
(* The transcriber implements the caption stream's steps.                   *)

LEMMA PublishedIsFinish ==
  ASSUME SendFinal, pendingText # <<>>, mode # "done", mode' = mode
  PROVE  Stream!Finish
BY DEF SendFinal, Stream!Finish, Stream!Publish

LEMMA TextStutters ==
  ASSUME UNCHANGED textVars, mode' = mode
  PROVE  UNCHANGED Stream!vars
BY DEF textVars, Stream!vars

LEMMA StepRefines == IInv /\ [Next]_vars => [Stream!Next]_(Stream!vars)
<1> SUFFICES ASSUME IInv, Next PROVE Stream!Next \/ UNCHANGED Stream!vars
  BY DEF vars, textVars, Stream!vars
<1>1. CASE \/ ReceiveToken \/ ReceiveVadEnd \/ HangUp \/ RemoveSpeaker
           \/ AudioWriteStarts \/ AudioWriteEnds
  BY <1>1, TextStutters DEF ReceiveToken, ReceiveVadEnd, HangUp, RemoveSpeaker,
     AudioWriteStarts, AudioWriteEnds
<1>2. CASE TimePasses
  BY <1>2 DEF TimePasses, Stream!vars
<1>3. CASE TakeTranscript
  <2> DEFINE m == Head(queue)
  <2>1. m \in Words \cup {VadEnd} /\ handleTranscript(m) /\ mode' = mode /\ mode # "done"
    BY <1>3, HeadTailProperties DEF TakeTranscript, Selects, IInv, ControlTypes
  <2>2. CASE m = VadEnd
    BY <2>1, <2>2, TextStutters, PublishedIsFinish
       DEF handleTranscript, FinishUtterance, Stream!Next
  <2>3. CASE m # VadEnd
    <3>1. m \in Words /\ AddToken(m)
      BY <2>1, <2>3 DEF handleTranscript
    <3>2. Stream!Hear(m)
      BY <2>1, <3>1 DEF AddToken, SendPartial, Stream!Hear
    <3> QED BY <3>1, <3>2 DEF Stream!Next
  <2> QED BY <2>2, <2>3
<1>4. CASE FlushTick
  <2>1. mode' = mode /\ mode # "done" /\ flushPendingBroadcast
    BY <1>4 DEF FlushTick, Selects
  <2>2. CASE broadcastDirty /\ pendingText # <<>>
    <3>1. shown # pendingText
      BY <2>2 DEF IInv, TextInv, DirtyMeansUnsent
    <3>2. Stream!Show
      BY <2>1, <2>2, <3>1 DEF flushPendingBroadcast, SendPartial, Stream!Show
    <3> QED BY <3>2 DEF Stream!Next
  <2>3. CASE ~(broadcastDirty /\ pendingText # <<>>)
    BY <2>1, <2>3, TextStutters DEF flushPendingBroadcast
  <2> QED BY <2>2, <2>3
<1>5. CASE TakeHangUp
  BY <1>5, TextStutters, PublishedIsFinish DEF TakeHangUp, Selects, flushPendingFinal, Stream!Next
<1>6. CASE StartDrain
  BY <1>6 DEF StartDrain, Selects, textVars, Stream!vars
<1>7. CASE DrainTimeout
  <2>1. mode = "drain" /\ mode' = "done" /\ flushPendingFinal
    BY <1>7 DEF DrainTimeout, Selects
  <2>2. CASE pendingText # <<>>
    BY <2>1, <2>2 DEF flushPendingFinal, SendFinal, Stream!Next, Stream!Close, Stream!Publish
  <2>3. CASE pendingText = <<>>
    <3>1. UNCHANGED textVars
      BY <2>1, <2>3 DEF flushPendingFinal
    <3>2. shown = <<>>
      <4>1. Len(shown) = 0
        BY <2>3 DEF IInv, TextInv, TextTypes, ShownFits
      <4> QED BY <4>1 DEF IInv, TextInv, TextTypes
    <3>3. published \o <<>> = published
      BY ConcatEmptySeq DEF IInv, TextInv, TextTypes
    <3> QED BY <2>1, <2>3, <3>1, <3>2, <3>3 DEF textVars, Stream!Next, Stream!Close, Stream!Publish
  <2> QED BY <2>2, <2>3
<1> QED BY <1>1, <1>2, <1>3, <1>4, <1>5, <1>6, <1>7 DEF Next, RunLoop

\* The transcriber is a caption stream, for every queue capacity, broadcast interval
\* and number of words: Captions implements CaptionStream.
THEOREM GivesCaptionStream == Spec => StreamSpec
<1>1. Init => Stream!Init
  BY DEF Init, Stream!Init
<1> QED BY <1>1, Invariance, StepRefines, PTL DEF Spec, StreamSpec, Stream!Spec

=============================================================================
