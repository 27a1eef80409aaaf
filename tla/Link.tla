-------------------------------- MODULE Link --------------------------------
(***************************************************************************)
(* What a reconnecting client promises its owner: one connection at a      *)
(* time, each made only when the one before is gone, numbered in the order *)
(* they are made, so that an old one never comes back; and after the close *)
(* none at all. The speech client (ModalSession) and the signaling client  *)
(* (HPBConnection) both implement it.                                      *)
(***************************************************************************)
EXTENDS Naturals

VARIABLES
  current,  \* the connection in use, 0 if none
  made,     \* how many have been made
  closed    \* the client has been closed

vars == <<current, made, closed>>

\* The first connection may have been made before the owner takes the client over.
Init == made \in {0, 1} /\ current = made /\ closed = FALSE

Connect ==
  /\ ~closed /\ current = 0
  /\ made' = made + 1 /\ current' = made' /\ UNCHANGED closed

Lose == current # 0 /\ current' = 0 /\ UNCHANGED <<made, closed>>

Close == ~closed /\ closed' = TRUE /\ current' = 0 /\ UNCHANGED made

Next == Connect \/ Lose \/ Close

Spec == Init /\ [][Next]_vars

=============================================================================
