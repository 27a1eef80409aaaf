---------------------------- MODULE AudioStream ----------------------------
(***************************************************************************)
(* What the audio path promises the STT service: of the samples a speaker  *)
(* has spoken, numbered in the order they were spoken, it is delivered the *)
(* earliest ones that still wait, a run of them at a time. A sample may be *)
(* given up as long as it waits, and what is delivered or given up stays   *)
(* so: nothing is taken back, repeated or moved. When the stream has ended *)
(* nothing more is delivered.                                              *)
(***************************************************************************)
EXTENDS Naturals, Sequences

VARIABLES
  spoken,     \* the samples, a set of numbers
  delivered,  \* the sets of samples delivered, in order
  dropped,    \* the samples given up
  ended       \* the stream has ended

vars == <<spoken, delivered, dropped, ended>>

Waiting ==
  {n \in spoken \ dropped : \A i \in DOMAIN delivered : n \notin delivered[i]}

Init == spoken = {} /\ delivered = <<>> /\ dropped = {} /\ ended = FALSE

\* More is spoken; it waits, or is refused at once and as a whole.
Speak ==
  /\ spoken \subseteq spoken'
  /\ \A m \in spoken, n \in spoken' \ spoken : m < n
  /\ dropped' \in {dropped, dropped \cup (spoken' \ spoken)}
  /\ UNCHANGED <<delivered, ended>>

\* All that waits, up to some sample, goes out.
Deliver ==
  /\ ~ended
  /\ \E last \in Waiting : delivered' = Append(delivered, {n \in Waiting : n <= last})
  /\ UNCHANGED <<spoken, dropped, ended>>

GiveUp ==
  /\ dropped \subseteq dropped' /\ dropped' \subseteq dropped \cup Waiting
  /\ UNCHANGED <<spoken, delivered, ended>>

End == ~ended /\ ended' = TRUE /\ UNCHANGED <<spoken, delivered, dropped>>

Next == Speak \/ Deliver \/ GiveUp \/ End

Spec == Init /\ [][Next]_vars

=============================================================================
