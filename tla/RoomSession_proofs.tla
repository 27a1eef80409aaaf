------------------------- MODULE RoomSession_proofs -------------------------
(***************************************************************************)
(* Safety of RoomSession for every set of sessions and peers, every set of *)
(* HPB events, every cap.                                                  *)
(***************************************************************************)
EXTENDS RoomSession, TLAPS

OrchLabels == {"select", "handle", "create", "stop", "await", "unpeer", "reap",
               "reconnect", "connect", "dial", "hello", "exited"} \cup Sends
LeaverLabels == {"idle", "collect", "loop", "stop", "await", "unpeer", "reap",
                 "mgrlock", "mgrclose", "mgrreap", "hpbclose", "wait", "done"}

\* Who is where: the locks and the context are determined by the goroutines' places.
Control ==
  /\ pc[Orch] \in OrchLabels /\ pc[Leaver] \in LeaverLabels
  /\ (webrtcMu = Orch) <=> (pc[Orch] = "reap")
  /\ (webrtcMu = Leaver) <=> (pc[Leaver] \in {"reap", "mgrclose", "mgrreap"})
  /\ (roomMu = Orch) <=> (pc[Orch] \in {"create", "request"})
  /\ hpbMu = Orch => pc[Orch] \in {"dial", "hello"} \cup Sends
  /\ ctxDone <=> (pc[Leaver] # "idle")
  /\ \A p \in Procs : pc[p] \in {"create", "stop", "await", "unpeer", "reap"}
                        => target[p] \in Sessions

\* A peer in use anywhere has been created, so a fresh one is in use nowhere.
Created ==
  /\ \A s \in Sessions : peers[s] # NoPeer => media[peers[s]] # "none"
  /\ \A s \in Sessions : speakers[s] # NoPeer => media[speakers[s]] # "none"
  /\ \A p \in Procs : victim[p] # NoPeer => media[victim[p]] # "none"
  /\ \A i \in signalled : media[i] # "none"

\* No peer has two sessions in the WebRTC manager's table, and only the one being
\* closed under the lock is signalled.
PeerTable ==
  /\ \A s, t \in Sessions : peers[s] = peers[t] /\ peers[s] # NoPeer => s = t
  /\ webrtcMu = "free" => \A s \in Sessions : peers[s] \notin signalled
  /\ \A p \in Procs : pc[p] = "reap" =>
       /\ victim[p] = peers[target[p]] /\ victim[p] # NoPeer
       /\ \A s \in Sessions : s # target[p] => peers[s] \notin signalled
  /\ pc[Leaver] \in {"mgrclose", "mgrreap"} =>
       \A s \in todo : peers[s] # NoPeer /\ peers[s] \notin signalled

\* A transcriber being torn down has left the Speakers table, in which no
\* transcriber has two sessions.
SpeakerTable ==
  /\ \A s, t \in Sessions : speakers[s] = speakers[t] /\ speakers[s] # NoPeer => s = t
  /\ \A p \in Procs : pc[p] \in {"stop", "await"} =>
       victim[p] # NoPeer /\ \A s \in Sessions : speakers[s] # victim[p]
  /\ pc[Orch] = "create" => speakers[target[Orch]] = NoPeer

\* The live room: tables agree, and the removed speaker has drained.
LiveRoom ==
  /\ RoomTablesAgree /\ DrainBeforeClose
  /\ ~ctxDone /\ pc[Orch] \in {"unpeer", "reap"} => transcriber[victim[Orch]] = "done"
  /\ ~ctxDone /\ pc[Orch] \in {"stop", "await", "unpeer", "reap"} =>
       /\ victim[Orch] # NoPeer /\ peers[target[Orch]] = victim[Orch]
       /\ speakers[target[Orch]] = NoPeer

Inv == /\ TypeOK /\ Control /\ Created /\ PeerTable /\ SpeakerTable
       /\ DisjointTeardown /\ LiveRoom /\ SignalledPeersGetClosed

-----------------------------------------------------------------------------
(* The actions, by what the invariant has to say of them.                   *)

\* The orchestrator moves between its own places.
OrchQuiet ==
  \/ OrchStops \/ OrchReceives \/ HandlerReturns \/ AddSpeakerKnown \/ HandleOffer
  \/ HandleJoin

\* The orchestrator is at the HPB client.
AtHPB ==
  \/ SendStarts \/ SendRefused \/ SendReturns \/ OrchSeesError \/ ReconnectGivesUp
  \/ ReconnectTries \/ ConnectDials \/ ConnectCancelled \/ DialEnds \/ HelloReturns

\* LeaveRoom moves between its own places.
LeaveQuiet ==
  LeaveRoom \/ LeaveCollects \/ LeaveRemovedAll \/ LeaveClosesHPB \/ LeaveReturns

\* No goroutine of the room moves.
Outside ==
  \/ HealthStarts \/ HealthReads \/ EventArrives \/ ConnectionLost
  \/ PingArrives \/ PongReturns
  \/ \E i \in Peers : \/ OnTrack(i) \/ RemoteActs(i) \/ ReaderPolls(i)
                       \/ TranscriberEnds(i) \/ TranscriberWrites(i) \/ TranscriberWrote(i)

LEMMA NextCases ==
  ASSUME [Next]_vars
  PROVE  \/ OrchQuiet \/ AtHPB \/ LeaveQuiet \/ Outside
         \/ AddSpeakerLocks \/ CreatePeer \/ CreatePeerFails
         \/ MgrCloseLocks \/ (\E s \in Sessions : MgrCloseSignals(s)) \/ MgrCloseReaps
         \/ MgrCloseEnds
         \/ \E p \in Procs : RemoveSpeaker(p)
         \/ UNCHANGED vars
  BY DEF Next, OrchNext, LeaveNext, Environment, WritesEnd, OrchQuiet, AtHPB, LeaveQuiet,
         Outside, Procs

LEMMA FreshIsNew ==
  ASSUME \E i \in Peers : media[i] = "none"
  PROVE  Fresh \in Peers /\ media[Fresh] = "none"
  BY DEF Fresh

\* What the handler takes off its list, and off msgChan.
LEMMA WorkList ==
  ASSUME work \in Seq(Entries), work # <<>>
  PROVE  /\ Head(work).s \in Sessions /\ Head(work).op \in {"in", "out", "offer", "join"}
         /\ Tail(work) \in Seq(Entries)
  <1>1. Head(work) \in Entries /\ Tail(work) \in Seq(Entries)
    OBVIOUS
  <1>2. QED
    BY <1>1 DEF Entries

LEMMA NextEvent ==
  ASSUME inbox \in Seq(Messages), inbox # <<>>
  PROVE  Head(inbox) \in Seq(Entries) /\ Tail(inbox) \in Seq(Messages)
  BY ConstantsAssumption DEF ConstantsAssumption

-----------------------------------------------------------------------------
\* Types are kept. Peers taken from a table are peers because of PeerTable and
\* SpeakerTable.
LEMMA TypeStep ==
  ASSUME Inv, [Next]_vars
  PROVE  TypeOK'
  <1> USE ConstantsAssumption, WorkList, NextEvent DEF Inv, TypeOK, Control, Labels, OrchLabels, LeaverLabels, PeerTable, SpeakerTable,
      Entries, InUse, Reading, vars, roomVars, webrtcVars, transVars, hpbVars,
      procVars, Goto, Move, Home, Procs, Orch, Leaver, Sends
  <1>1. CASE OrchQuiet
    <2>1. CASE OrchStops
      BY <2>1 DEF OrchStops
    <2>2. CASE OrchReceives
      BY <2>2 DEF OrchReceives
    <2>3. CASE HandlerReturns
      BY <2>3 DEF HandlerReturns
    <2>4. CASE AddSpeakerKnown
      BY <2>4 DEF AddSpeakerKnown
    <2>5. CASE HandleOffer
      BY <2>5 DEF HandleOffer
    <2>6. CASE HandleJoin
      BY <2>6 DEF HandleJoin
    <2>7. QED
      BY <1>1, <2>1, <2>2, <2>3, <2>4, <2>5, <2>6 DEF OrchQuiet
  <1>1a. CASE AtHPB
    <2>1. CASE SendStarts \/ SendRefused \/ SendReturns
      BY <2>1 DEF SendStarts, SendRefused, SendReturns, AfterSend
    <2>2. CASE OrchSeesError \/ ReconnectGivesUp \/ ReconnectTries
      BY <2>2 DEF OrchSeesError, ReconnectGivesUp, ReconnectTries
    <2>3. CASE ConnectDials \/ ConnectCancelled
      BY <2>3 DEF ConnectDials, ConnectCancelled
    <2>4. CASE DialEnds \/ HelloReturns
      BY <2>4 DEF DialEnds, HelloReturns
    <2>5. QED
      BY <1>1a, <2>1, <2>2, <2>3, <2>4 DEF AtHPB
  <1>2. CASE LeaveQuiet
    <2>1. CASE LeaveRoom
      BY <2>1 DEF LeaveRoom
    <2>2. CASE LeaveCollects
      BY <2>2 DEF LeaveCollects
    <2>3. CASE LeaveRemovedAll
      BY <2>3 DEF LeaveRemovedAll
    <2>4. CASE LeaveClosesHPB
      BY <2>4 DEF LeaveClosesHPB
    <2>5. CASE LeaveReturns
      BY <2>5 DEF LeaveReturns
    <2>6. QED
      BY <1>2, <2>1, <2>2, <2>3, <2>4, <2>5 DEF LeaveQuiet
  <1>3. CASE Outside
    <2>1. CASE HealthStarts
      BY <2>1 DEF HealthStarts
    <2>2. CASE HealthReads
      BY <2>2 DEF HealthReads
    <2>3. CASE EventArrives
      BY <2>3 DEF EventArrives
    <2>4. CASE ConnectionLost
      BY <2>4 DEF ConnectionLost
    <2>5. ASSUME NEW i \in Peers, OnTrack(i)
          PROVE  TypeOK'
      BY <2>5 DEF OnTrack
    <2>6. ASSUME NEW i \in Peers, RemoteActs(i)
          PROVE  TypeOK'
      BY <2>6 DEF RemoteActs
    <2>7. ASSUME NEW i \in Peers, ReaderPolls(i)
          PROVE  TypeOK'
      BY <2>7 DEF ReaderPolls
    <2>8. ASSUME NEW i \in Peers, TranscriberEnds(i)
          PROVE  TypeOK'
      BY <2>8 DEF TranscriberEnds
    <2>9. ASSUME NEW i \in Peers, TranscriberWrites(i) \/ TranscriberWrote(i)
          PROVE  TypeOK'
      BY <2>9 DEF TranscriberWrites, TranscriberWrote
    <2>10. CASE PingArrives \/ PongReturns
      BY <2>10 DEF PingArrives, PongReturns, Ponger
    <2>11. QED
      BY <1>3, <2>1, <2>2, <2>3, <2>4, <2>5, <2>6, <2>7, <2>8, <2>9, <2>10 DEF Outside
  <1>4. CASE AddSpeakerLocks
    BY <1>4 DEF AddSpeakerLocks
  <1>5. CASE CreatePeer
    BY <1>5, FreshIsNew DEF CreatePeer, StartSpeaker, Forget
  <1>6. CASE CreatePeerFails
    BY <1>6 DEF CreatePeerFails, Forget
  <1>7. CASE MgrCloseLocks
    BY <1>7 DEF MgrCloseLocks
  <1>8. CASE MgrCloseReaps
    BY <1>8 DEF MgrCloseReaps, Forget
  <1>9. CASE MgrCloseEnds
    BY <1>9 DEF MgrCloseEnds
  <1>10. ASSUME NEW s \in Sessions, MgrCloseSignals(s)
       PROVE  TypeOK'
    BY <1>10 DEF MgrCloseSignals
  <1>11. ASSUME NEW p \in Procs, NEW s \in Sessions, RemoveUnknown(p, s)
        PROVE  TypeOK'
    BY <1>11 DEF RemoveUnknown, Removes, Consume
  <1>12. ASSUME NEW p \in Procs, NEW s \in Sessions, RemoveFromTable(p, s)
        PROVE  TypeOK'
    BY <1>12 DEF RemoveFromTable, Removes, Consume
  <1>13. ASSUME NEW p \in Procs, CancelTranscriber(p)
        PROVE  TypeOK'
    BY <1>13 DEF CancelTranscriber
  <1>14. ASSUME NEW p \in Procs, AwaitTranscriber(p)
        PROVE  TypeOK'
    BY <1>14 DEF AwaitTranscriber
  <1>15. ASSUME NEW p \in Procs, RemovePeerUnknown(p)
        PROVE  TypeOK'
    BY <1>15 DEF RemovePeerUnknown, Forget
  <1>16. ASSUME NEW p \in Procs, RemovePeerSignals(p)
        PROVE  TypeOK'
    BY <1>16 DEF RemovePeerSignals
  <1>17. ASSUME NEW p \in Procs, RemovePeerReaps(p)
        PROVE  TypeOK'
    BY <1>17 DEF RemovePeerReaps, Forget
  <1>18. CASE UNCHANGED vars
    BY <1>18 DEF vars
  <1>19. QED
    BY NextCases, <1>1, <1>2, <1>3, <1>4, <1>5, <1>6, <1>7, <1>8, <1>9, <1>10, <1>11, <1>12, <1>13, <1>14, <1>15, <1>16, <1>17, <1>18, <1>1a DEF RemoveSpeaker

\* Places, locks and the context move together.
LEMMA ControlStep ==
  ASSUME Inv, [Next]_vars
  PROVE  Control'
  <1> USE WorkList DEF Inv, TypeOK, Control, Labels, OrchLabels, LeaverLabels, vars, roomVars, webrtcVars, transVars, hpbVars,
      procVars, Goto, Move, Home, Procs, Orch, Leaver, Sends
  <1>1. CASE OrchQuiet
    BY <1>1 DEF OrchQuiet, OrchStops, OrchReceives, HandlerReturns, AddSpeakerKnown, HandleOffer,
           HandleJoin
  <1>1a. CASE AtHPB
    BY <1>1a DEF AtHPB, SendStarts, SendRefused, SendReturns, AfterSend, OrchSeesError,
           ReconnectGivesUp, ReconnectTries, ConnectDials, ConnectCancelled, DialEnds,
           HelloReturns
  <1>2. CASE LeaveQuiet
    BY <1>2 DEF LeaveQuiet, LeaveRoom, LeaveCollects, LeaveRemovedAll, LeaveClosesHPB, LeaveReturns
  <1>3. CASE Outside
    BY <1>3 DEF Outside, HealthStarts, HealthReads, EventArrives, ConnectionLost,
           PingArrives, PongReturns, OnTrack, RemoteActs, ReaderPolls, TranscriberEnds,
           TranscriberWrites, TranscriberWrote, Ponger
  <1>4. CASE AddSpeakerLocks
    BY <1>4 DEF AddSpeakerLocks
  <1>5. CASE CreatePeer
    BY <1>5, FreshIsNew DEF CreatePeer, StartSpeaker, Forget
  <1>6. CASE CreatePeerFails
    BY <1>6 DEF CreatePeerFails, Forget
  <1>7. CASE MgrCloseLocks
    BY <1>7 DEF MgrCloseLocks
  <1>8. CASE MgrCloseReaps
    BY <1>8 DEF MgrCloseReaps, Forget
  <1>9. CASE MgrCloseEnds
    BY <1>9 DEF MgrCloseEnds
  <1>10. ASSUME NEW s \in Sessions, MgrCloseSignals(s)
       PROVE  Control'
    BY <1>10 DEF MgrCloseSignals
  <1>11. ASSUME NEW p \in Procs, NEW s \in Sessions, RemoveUnknown(p, s)
        PROVE  Control'
    BY <1>11 DEF RemoveUnknown, Removes, Consume
  <1>12. ASSUME NEW p \in Procs, NEW s \in Sessions, RemoveFromTable(p, s)
        PROVE  Control'
    BY <1>12 DEF RemoveFromTable, Removes, Consume
  <1>13. ASSUME NEW p \in Procs, CancelTranscriber(p)
        PROVE  Control'
    BY <1>13 DEF CancelTranscriber
  <1>14. ASSUME NEW p \in Procs, AwaitTranscriber(p)
        PROVE  Control'
    BY <1>14 DEF AwaitTranscriber
  <1>15. ASSUME NEW p \in Procs, RemovePeerUnknown(p)
        PROVE  Control'
    BY <1>15 DEF RemovePeerUnknown, Forget
  <1>16. ASSUME NEW p \in Procs, RemovePeerSignals(p)
        PROVE  Control'
    BY <1>16 DEF RemovePeerSignals
  <1>17. ASSUME NEW p \in Procs, RemovePeerReaps(p)
        PROVE  Control'
    BY <1>17 DEF RemovePeerReaps, Forget
  <1>18. CASE UNCHANGED vars
    BY <1>18 DEF vars
  <1>19. QED
    BY NextCases, <1>1, <1>2, <1>3, <1>4, <1>5, <1>6, <1>7, <1>8, <1>9, <1>10, <1>11, <1>12, <1>13, <1>14, <1>15, <1>16, <1>17, <1>18, <1>1a DEF RemoveSpeaker

\* No action returns a peer to the unused ones.
LEMMA CreatedStep ==
  ASSUME Inv, [Next]_vars
  PROVE  Created'
  <1> USE ConstantsAssumption DEF Inv, TypeOK, Control, Created, PeerTable,
      SpeakerTable, vars, roomVars, webrtcVars, transVars, hpbVars,
      procVars, Goto, Move, Home, Procs, Orch, Leaver, Sends
  <1>1. CASE OrchQuiet
    BY <1>1 DEF OrchQuiet, OrchStops, OrchReceives, HandlerReturns, AddSpeakerKnown, HandleOffer,
           HandleJoin
  <1>1a. CASE AtHPB
    BY <1>1a DEF AtHPB, SendStarts, SendRefused, SendReturns, AfterSend, OrchSeesError,
           ReconnectGivesUp, ReconnectTries, ConnectDials, ConnectCancelled, DialEnds,
           HelloReturns
  <1>2. CASE LeaveQuiet
    BY <1>2 DEF LeaveQuiet, LeaveRoom, LeaveCollects, LeaveRemovedAll, LeaveClosesHPB, LeaveReturns
  <1>3. CASE Outside
    BY <1>3 DEF Outside, HealthStarts, HealthReads, EventArrives, ConnectionLost,
           PingArrives, PongReturns, OnTrack, RemoteActs, ReaderPolls, TranscriberEnds,
           TranscriberWrites, TranscriberWrote, Ponger
  <1>4. CASE AddSpeakerLocks
    BY <1>4 DEF AddSpeakerLocks
  <1>5. CASE CreatePeer
    BY <1>5, FreshIsNew DEF CreatePeer, StartSpeaker, Forget
  <1>6. CASE CreatePeerFails
    BY <1>6 DEF CreatePeerFails, Forget
  <1>7. CASE MgrCloseLocks
    BY <1>7 DEF MgrCloseLocks
  <1>8. CASE MgrCloseReaps
    BY <1>8 DEF MgrCloseReaps, Forget
  <1>9. CASE MgrCloseEnds
    BY <1>9 DEF MgrCloseEnds
  <1>10. ASSUME NEW s \in Sessions, MgrCloseSignals(s)
       PROVE  Created'
    BY <1>10 DEF MgrCloseSignals
  <1>11. ASSUME NEW p \in Procs, NEW s \in Sessions, RemoveUnknown(p, s)
        PROVE  Created'
    BY <1>11 DEF RemoveUnknown, Removes, Consume
  <1>12. ASSUME NEW p \in Procs, NEW s \in Sessions, RemoveFromTable(p, s)
        PROVE  Created'
    BY <1>12 DEF RemoveFromTable, Removes, Consume
  <1>13. ASSUME NEW p \in Procs, CancelTranscriber(p)
        PROVE  Created'
    BY <1>13 DEF CancelTranscriber
  <1>14. ASSUME NEW p \in Procs, AwaitTranscriber(p)
        PROVE  Created'
    BY <1>14 DEF AwaitTranscriber
  <1>15. ASSUME NEW p \in Procs, RemovePeerUnknown(p)
        PROVE  Created'
    BY <1>15 DEF RemovePeerUnknown, Forget
  <1>16. ASSUME NEW p \in Procs, RemovePeerSignals(p)
        PROVE  Created'
    BY <1>16 DEF RemovePeerSignals
  <1>17. ASSUME NEW p \in Procs, RemovePeerReaps(p)
        PROVE  Created'
    BY <1>17 DEF RemovePeerReaps, Forget
  <1>18. CASE UNCHANGED vars
    BY <1>18 DEF vars
  <1>19. QED
    BY NextCases, <1>1, <1>2, <1>3, <1>4, <1>5, <1>6, <1>7, <1>8, <1>9, <1>10, <1>11, <1>12, <1>13, <1>14, <1>15, <1>16, <1>17, <1>18, <1>1a DEF RemoveSpeaker

\* RemovePeer and Manager.Close signal a peer only under the WebRTC lock, and
\* drop it from the table before they give the lock up.
LEMMA PeerTableStep ==
  ASSUME Inv, [Next]_vars, TypeOK'
  PROVE  PeerTable'
  <1> USE ConstantsAssumption DEF Inv, TypeOK, Control, Created, PeerTable, vars, roomVars, webrtcVars, transVars, hpbVars,
      procVars, Goto, Move, Home, Procs, Orch, Leaver, Sends
  <1>1. CASE OrchQuiet
    BY <1>1 DEF OrchQuiet, OrchStops, OrchReceives, HandlerReturns, AddSpeakerKnown, HandleOffer,
           HandleJoin
  <1>1a. CASE AtHPB
    BY <1>1a DEF AtHPB, SendStarts, SendRefused, SendReturns, AfterSend, OrchSeesError,
           ReconnectGivesUp, ReconnectTries, ConnectDials, ConnectCancelled, DialEnds,
           HelloReturns
  <1>2. CASE LeaveQuiet
    BY <1>2 DEF LeaveQuiet, LeaveRoom, LeaveCollects, LeaveRemovedAll, LeaveClosesHPB, LeaveReturns
  <1>3. CASE Outside
    BY <1>3 DEF Outside, HealthStarts, HealthReads, EventArrives, ConnectionLost,
           PingArrives, PongReturns, OnTrack, RemoteActs, ReaderPolls, TranscriberEnds,
           TranscriberWrites, TranscriberWrote, Ponger
  <1>4. CASE AddSpeakerLocks
    BY <1>4 DEF AddSpeakerLocks
  <1>5. CASE CreatePeer
    BY <1>5, FreshIsNew DEF CreatePeer, StartSpeaker, Forget
  <1>6. CASE CreatePeerFails
    BY <1>6 DEF CreatePeerFails, Forget
  <1>7. CASE MgrCloseLocks
    BY <1>7 DEF MgrCloseLocks
  <1>8. CASE MgrCloseReaps
    BY <1>8 DEF MgrCloseReaps, Forget
  <1>9. CASE MgrCloseEnds
    BY <1>9 DEF MgrCloseEnds
  <1>10. ASSUME NEW s \in Sessions, MgrCloseSignals(s)
       PROVE  PeerTable'
    BY <1>10 DEF MgrCloseSignals
  <1>11. ASSUME NEW p \in Procs, NEW s \in Sessions, RemoveUnknown(p, s)
        PROVE  PeerTable'
    BY <1>11 DEF RemoveUnknown, Removes, Consume
  <1>12. ASSUME NEW p \in Procs, NEW s \in Sessions, RemoveFromTable(p, s)
        PROVE  PeerTable'
    BY <1>12 DEF RemoveFromTable, Removes, Consume
  <1>13. ASSUME NEW p \in Procs, CancelTranscriber(p)
        PROVE  PeerTable'
    BY <1>13 DEF CancelTranscriber
  <1>14. ASSUME NEW p \in Procs, AwaitTranscriber(p)
        PROVE  PeerTable'
    BY <1>14 DEF AwaitTranscriber
  <1>15. ASSUME NEW p \in Procs, RemovePeerUnknown(p)
        PROVE  PeerTable'
    BY <1>15 DEF RemovePeerUnknown, Forget
  <1>16. ASSUME NEW p \in Procs, RemovePeerSignals(p)
        PROVE  PeerTable'
    BY <1>16 DEF RemovePeerSignals
  <1>17. ASSUME NEW p \in Procs, RemovePeerReaps(p)
        PROVE  PeerTable'
    BY <1>17 DEF RemovePeerReaps, Forget
  <1>18. CASE UNCHANGED vars
    BY <1>18 DEF vars
  <1>19. QED
    BY NextCases, <1>1, <1>2, <1>3, <1>4, <1>5, <1>6, <1>7, <1>8, <1>9, <1>10, <1>11, <1>12, <1>13, <1>14, <1>15, <1>16, <1>17, <1>18, <1>1a DEF RemoveSpeaker

\* A transcriber leaves the Speakers table under r.mu before it is torn down, and
\* no fresh one is being torn down.
LEMMA SpeakerTableStep ==
  ASSUME Inv, [Next]_vars, TypeOK'
  PROVE  (SpeakerTable /\ DisjointTeardown)'
  <1> USE ConstantsAssumption DEF Inv, TypeOK, Control, Created, SpeakerTable,
      DisjointTeardown, vars, roomVars, webrtcVars, transVars, hpbVars,
      procVars, Goto, Move, Home, Procs, Orch, Leaver, Sends
  <1>1. CASE OrchQuiet
    BY <1>1 DEF OrchQuiet, OrchStops, OrchReceives, HandlerReturns, AddSpeakerKnown, HandleOffer,
           HandleJoin
  <1>1a. CASE AtHPB
    BY <1>1a DEF AtHPB, SendStarts, SendRefused, SendReturns, AfterSend, OrchSeesError,
           ReconnectGivesUp, ReconnectTries, ConnectDials, ConnectCancelled, DialEnds,
           HelloReturns
  <1>2. CASE LeaveQuiet
    BY <1>2 DEF LeaveQuiet, LeaveRoom, LeaveCollects, LeaveRemovedAll, LeaveClosesHPB, LeaveReturns
  <1>3. CASE Outside
    BY <1>3 DEF Outside, HealthStarts, HealthReads, EventArrives, ConnectionLost,
           PingArrives, PongReturns, OnTrack, RemoteActs, ReaderPolls, TranscriberEnds,
           TranscriberWrites, TranscriberWrote, Ponger
  <1>4. CASE AddSpeakerLocks
    BY <1>4 DEF AddSpeakerLocks
  <1>5. CASE CreatePeer
    BY <1>5, FreshIsNew DEF CreatePeer, StartSpeaker, Forget
  <1>6. CASE CreatePeerFails
    BY <1>6 DEF CreatePeerFails, Forget
  <1>7. CASE MgrCloseLocks
    BY <1>7 DEF MgrCloseLocks
  <1>8. CASE MgrCloseReaps
    BY <1>8 DEF MgrCloseReaps, Forget
  <1>9. CASE MgrCloseEnds
    BY <1>9 DEF MgrCloseEnds
  <1>10. ASSUME NEW s \in Sessions, MgrCloseSignals(s)
       PROVE  (SpeakerTable /\ DisjointTeardown)'
    BY <1>10 DEF MgrCloseSignals
  <1>11. ASSUME NEW p \in Procs, NEW s \in Sessions, RemoveUnknown(p, s)
        PROVE  (SpeakerTable /\ DisjointTeardown)'
    BY <1>11 DEF RemoveUnknown, Removes, Consume
  <1>12. ASSUME NEW p \in Procs, NEW s \in Sessions, RemoveFromTable(p, s)
        PROVE  (SpeakerTable /\ DisjointTeardown)'
    BY <1>12 DEF RemoveFromTable, Removes, Consume
  <1>13. ASSUME NEW p \in Procs, CancelTranscriber(p)
        PROVE  (SpeakerTable /\ DisjointTeardown)'
    BY <1>13 DEF CancelTranscriber
  <1>14. ASSUME NEW p \in Procs, AwaitTranscriber(p)
        PROVE  (SpeakerTable /\ DisjointTeardown)'
    BY <1>14 DEF AwaitTranscriber
  <1>15. ASSUME NEW p \in Procs, RemovePeerUnknown(p)
        PROVE  (SpeakerTable /\ DisjointTeardown)'
    BY <1>15 DEF RemovePeerUnknown, Forget
  <1>16. ASSUME NEW p \in Procs, RemovePeerSignals(p)
        PROVE  (SpeakerTable /\ DisjointTeardown)'
    BY <1>16 DEF RemovePeerSignals
  <1>17. ASSUME NEW p \in Procs, RemovePeerReaps(p)
        PROVE  (SpeakerTable /\ DisjointTeardown)'
    BY <1>17 DEF RemovePeerReaps, Forget
  <1>18. CASE UNCHANGED vars
    BY <1>18 DEF vars
  <1>19. QED
    BY NextCases, <1>1, <1>2, <1>3, <1>4, <1>5, <1>6, <1>7, <1>8, <1>9, <1>10, <1>11, <1>12, <1>13, <1>14, <1>15, <1>16, <1>17, <1>18, <1>1a DEF RemoveSpeaker

\* While the room is live only the orchestrator adds and removes.
LEMMA LiveRoomStep ==
  ASSUME Inv, [Next]_vars, TypeOK'
  PROVE  LiveRoom'
  <1> USE ConstantsAssumption DEF Inv, TypeOK, Control, Created, PeerTable,
      SpeakerTable, LiveRoom, RoomTablesAgree, DrainBeforeClose, vars, roomVars, webrtcVars, transVars, hpbVars,
      procVars, Goto, Move, Home, Procs, Orch, Leaver, Sends
  <1>1. CASE OrchQuiet
    BY <1>1 DEF OrchQuiet, OrchStops, OrchReceives, HandlerReturns, AddSpeakerKnown, HandleOffer,
           HandleJoin
  <1>1a. CASE AtHPB
    BY <1>1a DEF AtHPB, SendStarts, SendRefused, SendReturns, AfterSend, OrchSeesError,
           ReconnectGivesUp, ReconnectTries, ConnectDials, ConnectCancelled, DialEnds,
           HelloReturns
  <1>2. CASE LeaveQuiet
    BY <1>2 DEF LeaveQuiet, LeaveRoom, LeaveCollects, LeaveRemovedAll, LeaveClosesHPB, LeaveReturns
  <1>3. CASE Outside
    BY <1>3 DEF Outside, HealthStarts, HealthReads, EventArrives, ConnectionLost,
           PingArrives, PongReturns, OnTrack, RemoteActs, ReaderPolls, TranscriberEnds,
           TranscriberWrites, TranscriberWrote, Ponger
  <1>4. CASE AddSpeakerLocks
    BY <1>4 DEF AddSpeakerLocks
  <1>5. CASE CreatePeer
    BY <1>5, FreshIsNew DEF CreatePeer, StartSpeaker, Forget
  <1>6. CASE CreatePeerFails
    BY <1>6 DEF CreatePeerFails, Forget
  <1>7. CASE MgrCloseLocks
    BY <1>7 DEF MgrCloseLocks
  <1>8. CASE MgrCloseReaps
    BY <1>8 DEF MgrCloseReaps, Forget
  <1>9. CASE MgrCloseEnds
    BY <1>9 DEF MgrCloseEnds
  <1>10. ASSUME NEW s \in Sessions, MgrCloseSignals(s)
       PROVE  LiveRoom'
    BY <1>10 DEF MgrCloseSignals
  <1>11. ASSUME NEW p \in Procs, NEW s \in Sessions, RemoveUnknown(p, s)
        PROVE  LiveRoom'
    BY <1>11 DEF RemoveUnknown, Removes, Consume
  <1>12. ASSUME NEW p \in Procs, NEW s \in Sessions, RemoveFromTable(p, s)
        PROVE  LiveRoom'
    BY <1>12 DEF RemoveFromTable, Removes, Consume
  <1>13. ASSUME NEW p \in Procs, CancelTranscriber(p)
        PROVE  LiveRoom'
    BY <1>13 DEF CancelTranscriber
  <1>14. ASSUME NEW p \in Procs, AwaitTranscriber(p)
        PROVE  LiveRoom'
    BY <1>14 DEF AwaitTranscriber
  <1>15. ASSUME NEW p \in Procs, RemovePeerUnknown(p)
        PROVE  LiveRoom'
    BY <1>15 DEF RemovePeerUnknown, Forget
  <1>16. ASSUME NEW p \in Procs, RemovePeerSignals(p)
        PROVE  LiveRoom'
    BY <1>16 DEF RemovePeerSignals
  <1>17. ASSUME NEW p \in Procs, RemovePeerReaps(p)
        PROVE  LiveRoom'
    <2>1. CASE ctxDone
      BY <1>17, <2>1 DEF RemovePeerReaps, Forget
    <2>2. CASE ~ctxDone
      <3>1. p = Orch /\ pc[Orch] = "reap" /\ pc'[Orch] = "handle" /\ ~ctxDone'
        BY <1>17, <2>2 DEF RemovePeerReaps, Forget
      <3>2. DrainBeforeClose'
        BY <1>17, <2>2, <3>1 DEF RemovePeerReaps, Forget
      <3>3. \A s \in Sessions : speakers'[s] = peers'[s]
        BY <1>17, <2>2, <3>1 DEF RemovePeerReaps, Forget
      <3>4. \A i \in Peers : media'[i] = "open" => \E s \in Sessions : peers'[s] = i
        <4>1. TAKE i \in Peers
        <4>2. HAVE media'[i] = "open"
        <4>3. i # victim[Orch] /\ media[i] = "open"
          BY <1>17, <3>1, <4>2 DEF RemovePeerReaps, Forget
        <4>4. PICK s \in Sessions : peers[s] = i
          BY <2>2, <4>3
        <4>5. s # target[Orch]
          BY <2>2, <3>1, <4>3, <4>4
        <4>6. WITNESS s \in Sessions
        <4>7. QED
          BY <1>17, <3>1, <4>4, <4>5 DEF RemovePeerReaps, Forget
      <3>5. QED
        BY <3>1, <3>2, <3>3, <3>4
    <2>3. QED
      BY <2>1, <2>2
  <1>18. CASE UNCHANGED vars
    BY <1>18 DEF vars
  <1>19. QED
    BY NextCases, <1>1, <1>2, <1>3, <1>4, <1>5, <1>6, <1>7, <1>8, <1>9, <1>10, <1>11, <1>12, <1>13, <1>14, <1>15, <1>16, <1>17, <1>18, <1>1a DEF RemoveSpeaker

\* The goroutine that signals a peer holds the WebRTC lock until it has closed it.
LEMMA SignalledStep ==
  ASSUME Inv, [Next]_vars, TypeOK'
  PROVE  SignalledPeersGetClosed'
  <1> USE DEF Inv, TypeOK, Control, PeerTable, SignalledPeersGetClosed, Created,
      vars, roomVars, webrtcVars, transVars, hpbVars,
      procVars, Goto, Move, Home, Procs, Orch, Leaver, Sends
  <1>1. CASE OrchQuiet
    BY <1>1 DEF OrchQuiet, OrchStops, OrchReceives, HandlerReturns, AddSpeakerKnown, HandleOffer,
           HandleJoin
  <1>1a. CASE AtHPB
    BY <1>1a DEF AtHPB, SendStarts, SendRefused, SendReturns, AfterSend, OrchSeesError,
           ReconnectGivesUp, ReconnectTries, ConnectDials, ConnectCancelled, DialEnds,
           HelloReturns
  <1>2. CASE LeaveQuiet
    BY <1>2 DEF LeaveQuiet, LeaveRoom, LeaveCollects, LeaveRemovedAll, LeaveClosesHPB, LeaveReturns
  <1>3. CASE Outside
    BY <1>3 DEF Outside, HealthStarts, HealthReads, EventArrives, ConnectionLost,
           PingArrives, PongReturns, OnTrack, RemoteActs, ReaderPolls, TranscriberEnds,
           TranscriberWrites, TranscriberWrote, Ponger
  <1>4. CASE AddSpeakerLocks
    BY <1>4 DEF AddSpeakerLocks
  <1>5. CASE CreatePeer
    BY <1>5, FreshIsNew DEF CreatePeer, StartSpeaker, Forget
  <1>6. CASE CreatePeerFails
    BY <1>6 DEF CreatePeerFails, Forget
  <1>7. CASE MgrCloseLocks
    BY <1>7 DEF MgrCloseLocks
  <1>8. CASE MgrCloseReaps
    BY <1>8 DEF MgrCloseReaps, Forget
  <1>9. CASE MgrCloseEnds
    BY <1>9 DEF MgrCloseEnds
  <1>10. ASSUME NEW s \in Sessions, MgrCloseSignals(s)
       PROVE  SignalledPeersGetClosed'
    BY <1>10 DEF MgrCloseSignals
  <1>11. ASSUME NEW p \in Procs, NEW s \in Sessions, RemoveUnknown(p, s)
        PROVE  SignalledPeersGetClosed'
    BY <1>11 DEF RemoveUnknown, Removes, Consume
  <1>12. ASSUME NEW p \in Procs, NEW s \in Sessions, RemoveFromTable(p, s)
        PROVE  SignalledPeersGetClosed'
    BY <1>12 DEF RemoveFromTable, Removes, Consume
  <1>13. ASSUME NEW p \in Procs, CancelTranscriber(p)
        PROVE  SignalledPeersGetClosed'
    BY <1>13 DEF CancelTranscriber
  <1>14. ASSUME NEW p \in Procs, AwaitTranscriber(p)
        PROVE  SignalledPeersGetClosed'
    BY <1>14 DEF AwaitTranscriber
  <1>15. ASSUME NEW p \in Procs, RemovePeerUnknown(p)
        PROVE  SignalledPeersGetClosed'
    BY <1>15 DEF RemovePeerUnknown, Forget
  <1>16. ASSUME NEW p \in Procs, RemovePeerSignals(p)
        PROVE  SignalledPeersGetClosed'
    BY <1>16 DEF RemovePeerSignals
  <1>17. ASSUME NEW p \in Procs, RemovePeerReaps(p)
        PROVE  SignalledPeersGetClosed'
    BY <1>17 DEF RemovePeerReaps, Forget
  <1>18. CASE UNCHANGED vars
    BY <1>18 DEF vars
  <1>19. QED
    BY NextCases, <1>1, <1>2, <1>3, <1>4, <1>5, <1>6, <1>7, <1>8, <1>9, <1>10, <1>11, <1>12, <1>13, <1>14, <1>15, <1>16, <1>17, <1>18, <1>1a DEF RemoveSpeaker

LEMMA InvInit == Init => Inv
  <1> SUFFICES ASSUME Init PROVE Inv
    OBVIOUS
  <1> USE ConstantsAssumption DEF Init, Procs, Orch, Leaver, Sends
  <1>1. TypeOK
    <2>1. pc \in [Procs -> Labels]
      BY DEF Labels
    <2>2. inbox \in Seq(Messages) /\ work \in Seq(Entries) /\ received \in Nat
      OBVIOUS
    <2>3. QED
      BY <2>1, <2>2 DEF TypeOK
  <1>2. Control
    BY DEF Control, OrchLabels, LeaverLabels
  <1>3. Created /\ PeerTable /\ SpeakerTable
    BY DEF Created, PeerTable, SpeakerTable
  <1>4. DisjointTeardown /\ LiveRoom /\ SignalledPeersGetClosed
    BY DEF DisjointTeardown, LiveRoom, RoomTablesAgree, DrainBeforeClose,
           SignalledPeersGetClosed
  <1>5. QED
    BY <1>1, <1>2, <1>3, <1>4 DEF Inv

LEMMA InvStep == Inv /\ [Next]_vars => Inv'
  BY TypeStep, ControlStep, CreatedStep, PeerTableStep, SpeakerTableStep, LiveRoomStep,
     SignalledStep DEF Inv

LEMMA InvAlways == Spec => []Inv
  BY InvInit, InvStep, PTL DEF Spec

-----------------------------------------------------------------------------
\* Every variable of the room keeps its type.
THEOREM TypeCorrect == Spec => []TypeOK
  <1>1. Inv => TypeOK
    BY DEF Inv
  <1>2. QED
    BY <1>1, InvAlways, PTL

\* Neither the orchestrator nor LeaveRoom ever closes the close channel of a peer
\* connection twice, which would panic the process.
THEOREM ClosedOnce == Spec => []CloseChannelOnce
  <1>1. Inv => CloseChannelOnce
    BY DEF Inv, PeerTable, CloseChannelOnce
  <1>2. QED
    BY <1>1, InvAlways, PTL

\* The orchestrator and LeaveRoom never tear down the same transcriber.
THEOREM TeardownsDisjoint == Spec => []DisjointTeardown
  <1>1. Inv => DisjointTeardown
    BY DEF Inv
  <1>2. QED
    BY <1>1, InvAlways, PTL

\* Each lock has one place in the order, whichever goroutine has it: no cycle of waits
\* can arise between the orchestrator, LeaveRoom and the health check.
THEOREM LocksAreOrdered == Spec => []LockOrder
  <1>1. Inv => LockOrder
    <2> SUFFICES ASSUME Inv, NEW p \in Procs
                 PROVE  /\ p \in {webrtcMu, hpbMu} => ~WantsWebrtcMu(p) /\ ~WantsHPBMu(p)
                        /\ p \in {webrtcMu, hpbMu, roomMu} =>
                             ~WantsRoomMu(p) /\ pc[p] \notin {"stop", "await"}
      BY DEF LockOrder
    <2>1. webrtcMu = p => pc[p] \in {"reap", "mgrclose", "mgrreap"}
      BY DEF Inv, Control, Procs
    <2>2. roomMu = p => p = Orch /\ pc[p] \in {"create", "request"}
      BY DEF Inv, TypeOK, Control, Procs, Orch, Leaver, Sends
    <2>3. hpbMu = p => p = Orch /\ pc[p] \in {"dial", "hello", "request", "answer", "rejoin"}
      BY DEF Inv, TypeOK, Control, Procs, Sends, Orch, Leaver, Ponger
    <2>4. QED
      BY <2>1, <2>2, <2>3 DEF WantsRoomMu, WantsWebrtcMu, WantsHPBMu, Sends, Orch, Leaver
  <1>2. QED
    BY <1>1, InvAlways, PTL

\* While the room is live, the Speakers table and the WebRTC manager's table agree
\* and no peer connection is orphaned.
THEOREM TablesAgree == Spec => []RoomTablesAgree
  <1>1. Inv => RoomTablesAgree
    BY DEF Inv, LiveRoom
  <1>2. QED
    BY <1>1, InvAlways, PTL

\* While the room is live, media is closed only after its transcriber has drained.
THEOREM DrainedBeforeClosed == Spec => []DrainBeforeClose
  <1>1. Inv => DrainBeforeClose
    BY DEF Inv, LiveRoom
  <1>2. QED
    BY <1>1, InvAlways, PTL

\* A peer told to stop is closed, or some goroutine is at it and holds the lock.
THEOREM SignalledAreClosed == Spec => []SignalledPeersGetClosed
  <1>1. Inv => SignalledPeersGetClosed
    BY DEF Inv
  <1>2. QED
    BY <1>1, InvAlways, PTL

=============================================================================
