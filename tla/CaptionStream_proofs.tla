------------------------ MODULE CaptionStream_proofs ------------------------
(***************************************************************************)
(* What a caption stream guarantees, for every set of words.               *)
(***************************************************************************)
EXTENDS CaptionStream, SequenceTheorems, TLAPS

Inv == TypeOK /\ NothingLost /\ ShownIsPrefix /\ NothingPending

LEMMA InitInv == Init => Inv
<1> SUFFICES ASSUME Init PROVE Inv
  OBVIOUS
<1>1. <<>> \in Seq(Words) /\ <<>> \o <<>> = <<>> /\ Len(<<>>) = 0
  BY EmptySeq, ConcatEmptySeq
<1>2. TypeOK
  BY <1>1, Zenon DEF Init, TypeOK
<1>3. NothingLost /\ ShownIsPrefix /\ NothingPending
  BY <1>1 DEF Init, NothingLost, ShownIsPrefix, NothingPending
<1> QED BY <1>2, <1>3 DEF Inv

\* What Publish leaves behind, whoever calls it.
LEMMA PublishKeeps ==
  ASSUME Inv, Publish, closed' \in BOOLEAN
  PROVE  Inv'
<1>1. /\ published' = published \o utterance /\ heard' = heard
      /\ utterance' = <<>> /\ shown' = <<>>
  BY DEF Publish
<1>2. published' \in Seq(Words) /\ <<>> \in Seq(Words) /\ Len(<<>>) = 0
  BY <1>1, EmptySeq DEF Inv, TypeOK
<1>3. published' \o <<>> = published'
  BY <1>2, ConcatEmptySeq
<1>4. TypeOK'
  BY <1>1, <1>2, Zenon DEF Inv, TypeOK
<1>5. NothingLost'
  BY <1>1, <1>3 DEF Inv, NothingLost
<1>6. ShownIsPrefix' /\ NothingPending'
  BY <1>1, <1>2 DEF ShownIsPrefix, NothingPending
<1> QED BY <1>4, <1>5, <1>6 DEF Inv

LEMMA HearKeeps ==
  ASSUME Inv, NEW w \in Words, Hear(w)
  PROVE  Inv'
<1> DEFINE longer == Append(utterance, w)
<1>1. /\ heard' = Append(heard, w) /\ utterance' = longer /\ published' = published
      /\ shown' \in {shown, longer} /\ closed' = FALSE /\ closed = FALSE
  BY DEF Hear, Inv, TypeOK
<1>2. /\ longer \in Seq(Words) /\ Len(longer) = Len(utterance) + 1
      /\ \A k \in 1 .. Len(utterance) : longer[k] = utterance[k]
  BY AppendProperties DEF Inv, TypeOK
<1>3. heard' \in Seq(Words) /\ shown' \in Seq(Words)
  <2>1. heard \in Seq(Words) /\ shown \in Seq(Words)
    BY DEF Inv, TypeOK
  <2>2. Append(heard, w) \in Seq(Words)
    BY <2>1, AppendProperties
  <2> HIDE DEF longer
  <2> QED BY <1>1, <1>2, <2>1, <2>2
<1>4. TypeOK'
  BY <1>1, <1>2, <1>3, Zenon DEF Inv, TypeOK
<1>5. NothingLost'
  <2>1. (published \o utterance) \o <<w>> = published \o (utterance \o <<w>>)
    BY ConcatAssociative DEF Inv, TypeOK
  <2>2. published \o utterance \in Seq(Words)
    BY DEF Inv, TypeOK
  <2>3. Append(published \o utterance, w) = (published \o utterance) \o <<w>>
    BY <2>2, AppendIsConcat
  <2>4. longer = utterance \o <<w>>
    BY AppendIsConcat DEF Inv, TypeOK
  <2> QED BY <1>1, <2>1, <2>3, <2>4 DEF Inv, NothingLost
<1>6. ShownIsPrefix'
  <2>1. Len(shown) \in Nat /\ Len(utterance) \in Nat
    BY DEF Inv, TypeOK
  <2>2. CASE shown' = longer
    BY <1>1, <1>2, <2>1, <2>2 DEF ShownIsPrefix
  <2>3. CASE shown' = shown
    BY <1>1, <1>2, <2>1, <2>3 DEF Inv, ShownIsPrefix
  <2> QED BY <1>1, <2>2, <2>3
<1>7. NothingPending'
  BY <1>1 DEF NothingPending
<1> QED BY <1>4, <1>5, <1>6, <1>7 DEF Inv

LEMMA NextInv == Inv /\ [Next]_vars => Inv'
<1> SUFFICES ASSUME Inv, [Next]_vars PROVE Inv'
  OBVIOUS
<1>1. CASE \E w \in Words : Hear(w)
  BY <1>1, HearKeeps
<1>2. CASE Show
  <2>1. /\ heard' = heard /\ published' = published /\ utterance' = utterance
        /\ shown' = utterance /\ closed' = closed
    BY <1>2 DEF Show
  <2>2. Len(utterance) <= Len(utterance)
    BY DEF Inv, TypeOK
  <2>3. TypeOK' /\ NothingLost' /\ NothingPending'
    BY <2>1 DEF Inv, TypeOK, NothingLost, NothingPending
  <2>4. ShownIsPrefix'
    BY <2>1, <2>2 DEF ShownIsPrefix
  <2> QED BY <2>3, <2>4 DEF Inv
<1>3. CASE Finish
  BY <1>3, PublishKeeps DEF Finish, Inv, TypeOK
<1>4. CASE Close
  BY <1>4, PublishKeeps DEF Close
<1>5. CASE UNCHANGED vars
  BY <1>5 DEF vars, Inv, TypeOK, NothingLost, ShownIsPrefix, NothingPending
<1> QED BY <1>1, <1>2, <1>3, <1>4, <1>5 DEF Next

\* A caption stream loses, repeats and moves no word, shows participants nothing but
\* the beginning of the utterance, and leaves nothing pending when it ends.
THEOREM StreamIsFaithful ==
  Spec => [](TypeOK /\ NothingLost /\ ShownIsPrefix /\ NothingPending)
<1>1. Inv <=> TypeOK /\ NothingLost /\ ShownIsPrefix /\ NothingPending
  BY DEF Inv
<1> QED BY <1>1, InitInv, NextInv, PTL DEF Spec

=============================================================================
