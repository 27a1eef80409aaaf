--------------------------- MODULE MCRoomSession ---------------------------
EXTENDS RoomSession

CONSTANTS s1, s2

\* One-entry events for every session, an event that reports one participant
\* gone and another present, and one that names the same participant twice.
In(s)    == [op |-> "in", s |-> s]
Out(s)   == [op |-> "out", s |-> s]
Offer(s) == [op |-> "offer", s |-> s]
Join(s)  == [op |-> "join", s |-> s]

MCMessages ==
  UNION {{<<In(s)>>, <<Out(s)>>, <<Offer(s)>>} : s \in {s1, s2}}
    \cup {<<Out(s1), In(s2)>>, <<Out(s1), In(s1)>>}

\* A single speaker: joins, is offered, leaves, comes back.
MCOneSpeaker == {<<In(s1)>>, <<Offer(s1)>>, <<Out(s1)>>, <<In(s1), Offer(s1)>>}

\* s1 does everything, s2 joins next to it or in its place; a room event with a join
\* and a leave.
MCTwoSpeakers ==
  {<<In(s1)>>, <<Offer(s1)>>, <<Out(s1), In(s2)>>, <<Join(s2), Out(s1)>>}

=============================================================================
