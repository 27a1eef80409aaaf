--------------------------- MODULE CaptionStream ---------------------------
(***************************************************************************)
(* What a speaker's transcriber promises the participants of a room: every *)
(* word it takes from the speech service belongs to exactly one utterance, *)
(* the utterance in progress is shown as a growing text, and it is         *)
(* published whole, once, when it ends or when the transcriber does.       *)
(* Which words reach the transcriber, and how often the text is shown, is  *)
(* left open.                                                              *)
(***************************************************************************)
EXTENDS Naturals, Sequences

CONSTANT Words

VARIABLES
  heard,      \* all words taken in, in order
  published,  \* the text of the final captions, in order
  utterance,  \* words of the utterance in progress
  shown,      \* the part of it participants have been sent
  closed      \* the transcriber has ended

vars == <<heard, published, utterance, shown, closed>>

TypeOK ==
  /\ heard \in Seq(Words) /\ published \in Seq(Words)
  /\ utterance \in Seq(Words) /\ shown \in Seq(Words) /\ closed \in BOOLEAN

Init ==
  /\ heard = <<>> /\ published = <<>> /\ utterance = <<>> /\ shown = <<>>
  /\ closed = FALSE

\* A word extends the utterance, which may be shown at once.
Hear(w) ==
  /\ ~closed
  /\ heard' = Append(heard, w) /\ utterance' = Append(utterance, w)
  /\ shown' \in {shown, Append(utterance, w)}
  /\ UNCHANGED <<published, closed>>

Show ==
  /\ ~closed /\ shown # utterance /\ shown' = utterance
  /\ UNCHANGED <<heard, published, utterance, closed>>

Publish ==
  /\ published' = published \o utterance
  /\ utterance' = <<>> /\ shown' = <<>> /\ UNCHANGED heard

Finish == ~closed /\ utterance # <<>> /\ Publish /\ UNCHANGED closed

Close == ~closed /\ Publish /\ closed' = TRUE

Next == (\E w \in Words : Hear(w)) \/ Show \/ Finish \/ Close

\* Nothing has to happen: the transcriber may be stuck in a write.
Spec == Init /\ [][Next]_vars

\* No word is lost, repeated or moved between the captions; participants are
\* only ever shown the beginning of the utterance; nothing is left at the end.
NothingLost == heard = published \o utterance
ShownIsPrefix ==
  /\ Len(shown) <= Len(utterance)
  /\ \A k \in 1 .. Len(shown) : shown[k] = utterance[k]
NothingPending == closed => utterance = <<>>

=============================================================================
