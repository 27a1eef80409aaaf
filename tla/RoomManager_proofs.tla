------------------------ MODULE RoomManager_proofs ------------------------
(***************************************************************************)
(* Safety of RoomManager for every set of tokens and every set of          *)
(* requests, and its refinement of RoomDirectory.                          *)
(***************************************************************************)
EXTENDS RoomManager, TLAPS

RequestPlaces == {"idle", "lock", "dial", "send", "cancel", "close", "rooms",
                  "count", "reply", "done"}
MainPlaces == {"serving", "draining", "closing", "cancel", "close", "exited"}

\* The lock of the manager: a join keeps it from its dial to its end, and the
\* token it joins stays off meanwhile.
Locking ==
  /\ \A r \in Requests : pc[r] \in RequestPlaces
  /\ pc[Main] \in MainPlaces
  /\ \A r \in Requests : pc[r] \in {"dial", "send"} =>
       writer = r /\ rooms[call[r].token] = NoRoom
  /\ writer # Nobody => pc[writer] \in {"dial", "send"}

\* How far a join is tells what it has made; a request asks one thing.
Joining ==
  \A r \in Requests :
    /\ pc[r] \in {"idle", "lock", "dial", "rooms", "count"} => life[r] = "none"
    /\ pc[r] = "send" => life[r] = "dialled"
    /\ pc[r] \in {"dial", "send"} => call[r].op = "join"
    /\ pc[r] \in {"rooms", "count"} => call[r].op = "count"

\* A room in the table is under the token it was made for, and one that is
\* torn down has come as far as the call that does it.
Rooms ==
  /\ \A t \in Tokens : rooms[t] # NoRoom => call[rooms[t]].token = t
  /\ \A p \in Procs : /\ pc[p] = "cancel" => life[target[p]] = "live"
                      /\ pc[p] = "close" => life[target[p]] = "ending"

\* After an orderly server.Shutdown no handler runs, and main has every room
\* that is left on its list.
Closing ==
  pc[Main] \notin {"serving", "draining"} /\ ~overrun =>
    /\ \A r \in Requests : Handled(r)
    /\ \A t \in Tokens : rooms[t] # NoRoom => t \in todo
    /\ pc[Main] = "exited" => todo = {}

Inv == TypeOK /\ Locking /\ Joining /\ Rooms /\ NoOrphans /\ TeardownOnce /\ Closing

LEMMA Distinct ==
  /\ Main \notin Requests /\ NoRoom \notin Requests /\ Nobody \notin Requests
  /\ Main # Nobody
  BY NamesAssumption DEF Procs

\* The actions of Next, one by one.
LEMMA NextCases ==
  ASSUME [Next]_vars
  PROVE  \/ \E r \in Requests :
              \/ Arrive(r) \/ Reply(r) \/ JoinFinds(r) \/ JoinLocks(r) \/ DialFails(r)
              \/ DialSucceeds(r) \/ SendJoinFails(r) \/ StoreRoom(r)
              \/ RoomCount(r) \/ SpeakerCountLocks(r) \/ SpeakerCount(r)
              \/ Hang(r) \/ HangPasses(r)
         \/ \E p \in Procs : LeaveCancels(p) \/ LeaveCloses(p)
         \/ \E p \in Procs, t \in Tokens : LeaveMisses(p, t) \/ LeaveDeletes(p, t)
         \/ Signal \/ ShutdownReturns \/ Exit
         \/ UNCHANGED vars
  BY DEF Next, Handle, Join, Leave, Count, MainStep, Procs

-----------------------------------------------------------------------------
LEMMA SomeCall == (CHOOSE c \in Calls : TRUE) \in Calls
  <1>1. PICK t \in Tokens : TRUE
    BY NamesAssumption
  <1>2. [op |-> "join", token |-> t] \in Calls
    BY DEF Calls, Operations
  <1>3. QED
    BY <1>2, Zenon

\* Types are kept.
LEMMA TypeStep ==
  ASSUME Inv, [Next]_vars
  PROVE  TypeOK'
  <1> USE Distinct DEF Inv, TypeOK, vars, tableVars, lockVars, mainVars, Goto, Move,
      Answer, Procs, Calls, Operations, Locking, InTable, CopyTokens, Leaves, Wants,
      MissingAnswer
  <1>1. ASSUME NEW r \in Requests, Arrive(r) PROVE TypeOK'
    BY <1>1 DEF Arrive
  <1>2. ASSUME NEW r \in Requests, Reply(r) PROVE TypeOK'
    BY <1>2 DEF Reply
  <1>3. ASSUME NEW r \in Requests, JoinFinds(r) PROVE TypeOK'
    BY <1>3 DEF JoinFinds
  <1>4. ASSUME NEW r \in Requests, JoinLocks(r) PROVE TypeOK'
    BY <1>4 DEF JoinLocks
  <1>5. ASSUME NEW r \in Requests, DialFails(r) PROVE TypeOK'
    BY <1>5 DEF DialFails
  <1>6. ASSUME NEW r \in Requests, DialSucceeds(r) PROVE TypeOK'
    BY <1>6 DEF DialSucceeds
  <1>7. ASSUME NEW r \in Requests, SendJoinFails(r) PROVE TypeOK'
    BY <1>7 DEF SendJoinFails
  <1>8. ASSUME NEW r \in Requests, StoreRoom(r) PROVE TypeOK'
    BY <1>8 DEF StoreRoom
  <1>9. ASSUME NEW r \in Requests, RoomCount(r) PROVE TypeOK'
    BY <1>9 DEF RoomCount
  <1>10. ASSUME NEW r \in Requests, SpeakerCountLocks(r) PROVE TypeOK'
    BY <1>10 DEF SpeakerCountLocks
  <1>11. ASSUME NEW r \in Requests, SpeakerCount(r) PROVE TypeOK'
    BY <1>11 DEF SpeakerCount
  <1>12. ASSUME NEW r \in Requests, Hang(r) PROVE TypeOK'
    BY <1>12 DEF Hang
  <1>13. ASSUME NEW r \in Requests, HangPasses(r) PROVE TypeOK'
    BY <1>13 DEF HangPasses
  <1>14. ASSUME NEW p \in Procs, LeaveCancels(p) PROVE TypeOK'
    BY <1>14 DEF LeaveCancels
  <1>15. ASSUME NEW p \in Procs, LeaveCloses(p) PROVE TypeOK'
    BY <1>15 DEF LeaveCloses
  <1>16. ASSUME NEW p \in Procs, NEW t \in Tokens, LeaveMisses(p, t) PROVE TypeOK'
    <2>1. CASE p = Main
      BY <1>16, <2>1 DEF LeaveMisses
    <2>2. CASE p # Main
      <3>1. Goto(p, "reply") /\ \E a \in {"ok", "error"} : Answer(p, a)
        BY <1>16, <2>2 DEF LeaveMisses
      <3>2. QED
        BY <1>16, <2>2, <3>1 DEF LeaveMisses
    <2>3. QED
      BY <2>1, <2>2
  <1>17. ASSUME NEW p \in Procs, NEW t \in Tokens, LeaveDeletes(p, t) PROVE TypeOK'
    BY <1>17 DEF LeaveDeletes
  <1>18. CASE Signal
    BY <1>18 DEF Signal
  <1>19. CASE ShutdownReturns
    BY <1>19 DEF ShutdownReturns
  <1>20. CASE Exit
    BY <1>20 DEF Exit
  <1>21. CASE UNCHANGED vars
    BY <1>21
  <1>22. QED
    BY <1>1, <1>2, <1>3, <1>4, <1>5, <1>6, <1>7, <1>8, <1>9, <1>10, <1>11, <1>12,
       <1>13, <1>14, <1>15, <1>16, <1>17, <1>18, <1>19, <1>20, <1>21, NextCases

\* The table changes only under the lock.
LEMMA LockingStep ==
  ASSUME Inv, [Next]_vars
  PROVE  Locking'
  <1> USE Distinct DEF Inv, TypeOK, vars, tableVars, lockVars, mainVars, Goto, Move,
      Answer, Procs, Locking, Calls, RequestPlaces, MainPlaces, LockFree, Leaves,
      Wants
  <1>1. ASSUME NEW r \in Requests, Arrive(r) PROVE Locking'
    BY <1>1 DEF Arrive
  <1>2. ASSUME NEW r \in Requests, Reply(r) PROVE Locking'
    BY <1>2 DEF Reply
  <1>3. ASSUME NEW r \in Requests, JoinFinds(r) PROVE Locking'
    BY <1>3 DEF JoinFinds
  <1>4. ASSUME NEW r \in Requests, JoinLocks(r) PROVE Locking'
    BY <1>4 DEF JoinLocks
  <1>5. ASSUME NEW r \in Requests, DialFails(r) PROVE Locking'
    BY <1>5 DEF DialFails
  <1>6. ASSUME NEW r \in Requests, DialSucceeds(r) PROVE Locking'
    BY <1>6 DEF DialSucceeds
  <1>7. ASSUME NEW r \in Requests, SendJoinFails(r) PROVE Locking'
    BY <1>7 DEF SendJoinFails
  <1>8. ASSUME NEW r \in Requests, StoreRoom(r) PROVE Locking'
    BY <1>8 DEF StoreRoom
  <1>9. ASSUME NEW r \in Requests, RoomCount(r) PROVE Locking'
    BY <1>9 DEF RoomCount
  <1>10. ASSUME NEW r \in Requests, SpeakerCountLocks(r) PROVE Locking'
    BY <1>10 DEF SpeakerCountLocks
  <1>11. ASSUME NEW r \in Requests, SpeakerCount(r) PROVE Locking'
    BY <1>11 DEF SpeakerCount
  <1>12. ASSUME NEW r \in Requests, Hang(r) PROVE Locking'
    BY <1>12 DEF Hang
  <1>13. ASSUME NEW r \in Requests, HangPasses(r) PROVE Locking'
    BY <1>13 DEF HangPasses
  <1>14. ASSUME NEW p \in Procs, LeaveCancels(p) PROVE Locking'
    BY <1>14 DEF LeaveCancels
  <1>15. ASSUME NEW p \in Procs, LeaveCloses(p) PROVE Locking'
    BY <1>15 DEF LeaveCloses
  <1>16. ASSUME NEW p \in Procs, NEW t \in Tokens, LeaveMisses(p, t) PROVE Locking'
    BY <1>16 DEF LeaveMisses
  <1>17. ASSUME NEW p \in Procs, NEW t \in Tokens, LeaveDeletes(p, t) PROVE Locking'
    BY <1>17 DEF LeaveDeletes
  <1>18. CASE Signal
    BY <1>18 DEF Signal
  <1>19. CASE ShutdownReturns
    BY <1>19 DEF ShutdownReturns
  <1>20. CASE Exit
    BY <1>20 DEF Exit
  <1>21. CASE UNCHANGED vars
    BY <1>21
  <1>22. QED
    BY <1>1, <1>2, <1>3, <1>4, <1>5, <1>6, <1>7, <1>8, <1>9, <1>10, <1>11, <1>12,
       <1>13, <1>14, <1>15, <1>16, <1>17, <1>18, <1>19, <1>20, <1>21, NextCases

\* A room that is torn down belongs to a join that is over.
LEMMA JoiningStep ==
  ASSUME Inv, [Next]_vars
  PROVE  Joining'
  <1> USE Distinct DEF Inv, TypeOK, vars, tableVars, lockVars, mainVars, Goto, Move,
      Answer, Procs, Joining, Calls, Operations, Locking, Rooms, RequestPlaces,
      MainPlaces, LockFree, Leaves, Wants, NoOrphans, TearsDown, InTable
  <1>1. ASSUME NEW r \in Requests, Arrive(r) PROVE Joining'
    BY <1>1 DEF Arrive
  <1>2. ASSUME NEW r \in Requests, Reply(r) PROVE Joining'
    BY <1>2 DEF Reply
  <1>3. ASSUME NEW r \in Requests, JoinFinds(r) PROVE Joining'
    BY <1>3 DEF JoinFinds
  <1>4. ASSUME NEW r \in Requests, JoinLocks(r) PROVE Joining'
    BY <1>4 DEF JoinLocks
  <1>5. ASSUME NEW r \in Requests, DialFails(r) PROVE Joining'
    BY <1>5 DEF DialFails
  <1>6. ASSUME NEW r \in Requests, DialSucceeds(r) PROVE Joining'
    BY <1>6 DEF DialSucceeds
  <1>7. ASSUME NEW r \in Requests, SendJoinFails(r) PROVE Joining'
    BY <1>7 DEF SendJoinFails
  <1>8. ASSUME NEW r \in Requests, StoreRoom(r) PROVE Joining'
    BY <1>8 DEF StoreRoom
  <1>9. ASSUME NEW r \in Requests, RoomCount(r) PROVE Joining'
    BY <1>9 DEF RoomCount
  <1>10. ASSUME NEW r \in Requests, SpeakerCountLocks(r) PROVE Joining'
    BY <1>10 DEF SpeakerCountLocks
  <1>11. ASSUME NEW r \in Requests, SpeakerCount(r) PROVE Joining'
    BY <1>11 DEF SpeakerCount
  <1>12. ASSUME NEW r \in Requests, Hang(r) PROVE Joining'
    BY <1>12 DEF Hang
  <1>13. ASSUME NEW r \in Requests, HangPasses(r) PROVE Joining'
    BY <1>13 DEF HangPasses
  <1>14. ASSUME NEW p \in Procs, LeaveCancels(p) PROVE Joining'
    BY <1>14 DEF LeaveCancels
  <1>15. ASSUME NEW p \in Procs, LeaveCloses(p) PROVE Joining'
    BY <1>15 DEF LeaveCloses
  <1>16. ASSUME NEW p \in Procs, NEW t \in Tokens, LeaveMisses(p, t) PROVE Joining'
    BY <1>16 DEF LeaveMisses
  <1>17. ASSUME NEW p \in Procs, NEW t \in Tokens, LeaveDeletes(p, t) PROVE Joining'
    BY <1>17 DEF LeaveDeletes
  <1>18. CASE Signal
    BY <1>18 DEF Signal
  <1>19. CASE ShutdownReturns
    BY <1>19 DEF ShutdownReturns
  <1>20. CASE Exit
    BY <1>20 DEF Exit
  <1>21. CASE UNCHANGED vars
    BY <1>21
  <1>22. QED
    BY <1>1, <1>2, <1>3, <1>4, <1>5, <1>6, <1>7, <1>8, <1>9, <1>10, <1>11, <1>12,
       <1>13, <1>14, <1>15, <1>16, <1>17, <1>18, <1>19, <1>20, <1>21, NextCases

\* A room has one token and one LeaveRoom call that moves it on.
LEMMA RoomsStep ==
  ASSUME Inv, [Next]_vars
  PROVE  Rooms'
  <1> USE Distinct DEF Inv, TypeOK, vars, tableVars, lockVars, mainVars, Goto, Move,
      Answer, Procs, Rooms, Calls, Locking, Joining, RequestPlaces, MainPlaces,
      LockFree, Leaves, Wants, NoOrphans, TeardownOnce, TearsDown, InTable
  <1>1. ASSUME NEW r \in Requests, Arrive(r) PROVE Rooms'
    BY <1>1 DEF Arrive
  <1>2. ASSUME NEW r \in Requests, Reply(r) PROVE Rooms'
    BY <1>2 DEF Reply
  <1>3. ASSUME NEW r \in Requests, JoinFinds(r) PROVE Rooms'
    BY <1>3 DEF JoinFinds
  <1>4. ASSUME NEW r \in Requests, JoinLocks(r) PROVE Rooms'
    BY <1>4 DEF JoinLocks
  <1>5. ASSUME NEW r \in Requests, DialFails(r) PROVE Rooms'
    BY <1>5 DEF DialFails
  <1>6. ASSUME NEW r \in Requests, DialSucceeds(r) PROVE Rooms'
    BY <1>6 DEF DialSucceeds
  <1>7. ASSUME NEW r \in Requests, SendJoinFails(r) PROVE Rooms'
    BY <1>7 DEF SendJoinFails
  <1>8. ASSUME NEW r \in Requests, StoreRoom(r) PROVE Rooms'
    BY <1>8 DEF StoreRoom
  <1>9. ASSUME NEW r \in Requests, RoomCount(r) PROVE Rooms'
    BY <1>9 DEF RoomCount
  <1>10. ASSUME NEW r \in Requests, SpeakerCountLocks(r) PROVE Rooms'
    BY <1>10 DEF SpeakerCountLocks
  <1>11. ASSUME NEW r \in Requests, SpeakerCount(r) PROVE Rooms'
    BY <1>11 DEF SpeakerCount
  <1>12. ASSUME NEW r \in Requests, Hang(r) PROVE Rooms'
    BY <1>12 DEF Hang
  <1>13. ASSUME NEW r \in Requests, HangPasses(r) PROVE Rooms'
    BY <1>13 DEF HangPasses
  <1>14. ASSUME NEW p \in Procs, LeaveCancels(p) PROVE Rooms'
    BY <1>14 DEF LeaveCancels
  <1>15. ASSUME NEW p \in Procs, LeaveCloses(p) PROVE Rooms'
    BY <1>15 DEF LeaveCloses
  <1>16. ASSUME NEW p \in Procs, NEW t \in Tokens, LeaveMisses(p, t) PROVE Rooms'
    BY <1>16 DEF LeaveMisses
  <1>17. ASSUME NEW p \in Procs, NEW t \in Tokens, LeaveDeletes(p, t) PROVE Rooms'
    BY <1>17 DEF LeaveDeletes
  <1>18. CASE Signal
    BY <1>18 DEF Signal
  <1>19. CASE ShutdownReturns
    BY <1>19 DEF ShutdownReturns
  <1>20. CASE Exit
    BY <1>20 DEF Exit
  <1>21. CASE UNCHANGED vars
    BY <1>21
  <1>22. QED
    BY <1>1, <1>2, <1>3, <1>4, <1>5, <1>6, <1>7, <1>8, <1>9, <1>10, <1>11, <1>12,
       <1>13, <1>14, <1>15, <1>16, <1>17, <1>18, <1>19, <1>20, <1>21, NextCases

\* What NoOrphans says of one room.
LiveKnown(i) ==
  life[i] = "live" => \/ rooms[call[i].token] = i
                      \/ \E p \in Procs : pc[p] = "cancel" /\ target[p] = i
DialKnown(i) == life[i] = "dialled" => writer = i /\ pc[i] = "send"
EndKnown(i)  == life[i] = "ending" => \E p \in Procs : pc[p] = "close" /\ target[p] = i
TableLive(i) == InTable(i) => life[i] = "live" /\ ~\E p \in Procs : TearsDown(p, i)
Known(i)     == LiveKnown(i) /\ DialKnown(i) /\ EndKnown(i) /\ TableLive(i)

\* What is made is handed on to the table, to a LeaveRoom call, or closed.
LEMMA OrphansStep ==
  ASSUME Inv, [Next]_vars
  PROVE  NoOrphans'
  <1> USE Distinct DEF Inv, TypeOK, vars, tableVars, lockVars, mainVars, Goto, Move,
      Answer, Procs, NoOrphans, Calls, Locking, Joining, Rooms, RequestPlaces,
      MainPlaces, LockFree, Leaves, Wants, TeardownOnce, TearsDown, InTable
  <1>1. ASSUME NEW r \in Requests, Arrive(r) PROVE NoOrphans'
    <2> SUFFICES ASSUME NEW i \in Requests PROVE Known(i)'
      BY DEF Known, LiveKnown, DialKnown, EndKnown, TableLive
    <2>1. LiveKnown(i)'
      BY <1>1 DEF Arrive, LiveKnown
    <2>2. DialKnown(i)'
      BY <1>1 DEF Arrive, DialKnown
    <2>3. EndKnown(i)'
      BY <1>1 DEF Arrive, EndKnown
    <2>4. TableLive(i)'
      BY <1>1 DEF Arrive, TableLive
    <2>5. QED
      BY <2>1, <2>2, <2>3, <2>4 DEF Known
  <1>2. ASSUME NEW r \in Requests, Reply(r) PROVE NoOrphans'
    BY <1>2 DEF Reply
  <1>3. ASSUME NEW r \in Requests, JoinFinds(r) PROVE NoOrphans'
    BY <1>3 DEF JoinFinds
  <1>4. ASSUME NEW r \in Requests, JoinLocks(r) PROVE NoOrphans'
    BY <1>4 DEF JoinLocks
  <1>5. ASSUME NEW r \in Requests, DialFails(r) PROVE NoOrphans'
    BY <1>5 DEF DialFails
  <1>6. ASSUME NEW r \in Requests, DialSucceeds(r) PROVE NoOrphans'
    BY <1>6 DEF DialSucceeds
  <1>7. ASSUME NEW r \in Requests, SendJoinFails(r) PROVE NoOrphans'
    <2> SUFFICES ASSUME NEW i \in Requests PROVE Known(i)'
      BY DEF Known, LiveKnown, DialKnown, EndKnown, TableLive
    <2>1. LiveKnown(i)'
      BY <1>7 DEF SendJoinFails, LiveKnown
    <2>2. DialKnown(i)'
      BY <1>7 DEF SendJoinFails, DialKnown
    <2>3. EndKnown(i)'
      BY <1>7 DEF SendJoinFails, EndKnown
    <2>4. TableLive(i)'
      BY <1>7 DEF SendJoinFails, TableLive
    <2>5. QED
      BY <2>1, <2>2, <2>3, <2>4 DEF Known
  <1>8. ASSUME NEW r \in Requests, StoreRoom(r) PROVE NoOrphans'
    <2> SUFFICES ASSUME NEW i \in Requests PROVE Known(i)'
      BY DEF Known, LiveKnown, DialKnown, EndKnown, TableLive
    <2>1. LiveKnown(i)'
      BY <1>8 DEF StoreRoom, LiveKnown
    <2>2. DialKnown(i)'
      BY <1>8 DEF StoreRoom, DialKnown
    <2>3. EndKnown(i)'
      BY <1>8 DEF StoreRoom, EndKnown
    <2>4. TableLive(i)'
      BY <1>8 DEF StoreRoom, TableLive
    <2>5. QED
      BY <2>1, <2>2, <2>3, <2>4 DEF Known
  <1>9. ASSUME NEW r \in Requests, RoomCount(r) PROVE NoOrphans'
    BY <1>9 DEF RoomCount
  <1>10. ASSUME NEW r \in Requests, SpeakerCountLocks(r) PROVE NoOrphans'
    BY <1>10 DEF SpeakerCountLocks
  <1>11. ASSUME NEW r \in Requests, SpeakerCount(r) PROVE NoOrphans'
    BY <1>11 DEF SpeakerCount
  <1>12. ASSUME NEW r \in Requests, Hang(r) PROVE NoOrphans'
    <2> SUFFICES ASSUME NEW i \in Requests PROVE Known(i)'
      BY DEF Known, LiveKnown, DialKnown, EndKnown, TableLive
    <2>1. LiveKnown(i)'
      BY <1>12 DEF Hang, LiveKnown
    <2>2. DialKnown(i)'
      BY <1>12 DEF Hang, DialKnown
    <2>3. EndKnown(i)'
      BY <1>12 DEF Hang, EndKnown
    <2>4. TableLive(i)'
      BY <1>12 DEF Hang, TableLive
    <2>5. QED
      BY <2>1, <2>2, <2>3, <2>4 DEF Known
  <1>13. ASSUME NEW r \in Requests, HangPasses(r) PROVE NoOrphans'
    BY <1>13 DEF HangPasses
  <1>14. ASSUME NEW p \in Procs, LeaveCancels(p) PROVE NoOrphans'
    <2> SUFFICES ASSUME NEW i \in Requests PROVE Known(i)'
      BY DEF Known, LiveKnown, DialKnown, EndKnown, TableLive
    <2>1. LiveKnown(i)'
      BY <1>14 DEF LeaveCancels, LiveKnown
    <2>2. DialKnown(i)'
      BY <1>14 DEF LeaveCancels, DialKnown
    <2>3. EndKnown(i)'
      BY <1>14 DEF LeaveCancels, EndKnown
    <2>4. TableLive(i)'
      BY <1>14 DEF LeaveCancels, TableLive
    <2>5. QED
      BY <2>1, <2>2, <2>3, <2>4 DEF Known
  <1>15. ASSUME NEW p \in Procs, LeaveCloses(p) PROVE NoOrphans'
    <2> SUFFICES ASSUME NEW i \in Requests PROVE Known(i)'
      BY DEF Known, LiveKnown, DialKnown, EndKnown, TableLive
    <2>1. LiveKnown(i)'
      BY <1>15 DEF LeaveCloses, LiveKnown
    <2>2. DialKnown(i)'
      BY <1>15 DEF LeaveCloses, DialKnown
    <2>3. EndKnown(i)'
      BY <1>15 DEF LeaveCloses, EndKnown
    <2>4. TableLive(i)'
      BY <1>15 DEF LeaveCloses, TableLive
    <2>5. QED
      BY <2>1, <2>2, <2>3, <2>4 DEF Known
  <1>16. ASSUME NEW p \in Procs, NEW t \in Tokens, LeaveMisses(p, t) PROVE NoOrphans'
    BY <1>16 DEF LeaveMisses
  <1>17. ASSUME NEW p \in Procs, NEW t \in Tokens, LeaveDeletes(p, t) PROVE NoOrphans'
    BY <1>17 DEF LeaveDeletes
  <1>18. CASE Signal
    BY <1>18 DEF Signal
  <1>19. CASE ShutdownReturns
    BY <1>19 DEF ShutdownReturns
  <1>20. CASE Exit
    BY <1>20 DEF Exit
  <1>21. CASE UNCHANGED vars
    BY <1>21
  <1>22. QED
    BY <1>1, <1>2, <1>3, <1>4, <1>5, <1>6, <1>7, <1>8, <1>9, <1>10, <1>11, <1>12,
       <1>13, <1>14, <1>15, <1>16, <1>17, <1>18, <1>19, <1>20, <1>21, NextCases

\* What a LeaveRoom call takes from the table nobody has taken before.
LEMMA TeardownStep ==
  ASSUME Inv, [Next]_vars
  PROVE  TeardownOnce'
  <1> USE Distinct DEF Inv, TypeOK, vars, tableVars, lockVars, mainVars, Goto, Move,
      Answer, Procs, TeardownOnce, Locking, RequestPlaces, MainPlaces, Leaves,
      Wants, NoOrphans, TearsDown, InTable
  <1>1. ASSUME NEW r \in Requests, Arrive(r) PROVE TeardownOnce'
    BY <1>1 DEF Arrive
  <1>2. ASSUME NEW r \in Requests, Reply(r) PROVE TeardownOnce'
    BY <1>2 DEF Reply
  <1>3. ASSUME NEW r \in Requests, JoinFinds(r) PROVE TeardownOnce'
    BY <1>3 DEF JoinFinds
  <1>4. ASSUME NEW r \in Requests, JoinLocks(r) PROVE TeardownOnce'
    BY <1>4 DEF JoinLocks
  <1>5. ASSUME NEW r \in Requests, DialFails(r) PROVE TeardownOnce'
    BY <1>5 DEF DialFails
  <1>6. ASSUME NEW r \in Requests, DialSucceeds(r) PROVE TeardownOnce'
    BY <1>6 DEF DialSucceeds
  <1>7. ASSUME NEW r \in Requests, SendJoinFails(r) PROVE TeardownOnce'
    BY <1>7 DEF SendJoinFails
  <1>8. ASSUME NEW r \in Requests, StoreRoom(r) PROVE TeardownOnce'
    BY <1>8 DEF StoreRoom
  <1>9. ASSUME NEW r \in Requests, RoomCount(r) PROVE TeardownOnce'
    BY <1>9 DEF RoomCount
  <1>10. ASSUME NEW r \in Requests, SpeakerCountLocks(r) PROVE TeardownOnce'
    BY <1>10 DEF SpeakerCountLocks
  <1>11. ASSUME NEW r \in Requests, SpeakerCount(r) PROVE TeardownOnce'
    BY <1>11 DEF SpeakerCount
  <1>12. ASSUME NEW r \in Requests, Hang(r) PROVE TeardownOnce'
    BY <1>12 DEF Hang
  <1>13. ASSUME NEW r \in Requests, HangPasses(r) PROVE TeardownOnce'
    BY <1>13 DEF HangPasses
  <1>14. ASSUME NEW p \in Procs, LeaveCancels(p) PROVE TeardownOnce'
    BY <1>14 DEF LeaveCancels
  <1>15. ASSUME NEW p \in Procs, LeaveCloses(p) PROVE TeardownOnce'
    BY <1>15 DEF LeaveCloses
  <1>16. ASSUME NEW p \in Procs, NEW t \in Tokens, LeaveMisses(p, t) PROVE TeardownOnce'
    BY <1>16 DEF LeaveMisses
  <1>17. ASSUME NEW p \in Procs, NEW t \in Tokens, LeaveDeletes(p, t) PROVE TeardownOnce'
    BY <1>17 DEF LeaveDeletes
  <1>18. CASE Signal
    BY <1>18 DEF Signal
  <1>19. CASE ShutdownReturns
    BY <1>19 DEF ShutdownReturns
  <1>20. CASE Exit
    BY <1>20 DEF Exit
  <1>21. CASE UNCHANGED vars
    BY <1>21
  <1>22. QED
    BY <1>1, <1>2, <1>3, <1>4, <1>5, <1>6, <1>7, <1>8, <1>9, <1>10, <1>11, <1>12,
       <1>13, <1>14, <1>15, <1>16, <1>17, <1>18, <1>19, <1>20, <1>21, NextCases

\* With no handler running the list of main only shrinks by what it leaves.
LEMMA ClosingStep ==
  ASSUME Inv, [Next]_vars
  PROVE  Closing'
  <1> USE Distinct DEF Inv, TypeOK, vars, tableVars, lockVars, mainVars, Goto, Move,
      Answer, Procs, Closing, Locking, RequestPlaces, MainPlaces, LockFree, Leaves,
      Wants, Handled, CopyTokens
  <1>1. ASSUME NEW r \in Requests, Arrive(r) PROVE Closing'
    BY <1>1 DEF Arrive
  <1>2. ASSUME NEW r \in Requests, Reply(r) PROVE Closing'
    BY <1>2 DEF Reply
  <1>3. ASSUME NEW r \in Requests, JoinFinds(r) PROVE Closing'
    BY <1>3 DEF JoinFinds
  <1>4. ASSUME NEW r \in Requests, JoinLocks(r) PROVE Closing'
    BY <1>4 DEF JoinLocks
  <1>5. ASSUME NEW r \in Requests, DialFails(r) PROVE Closing'
    BY <1>5 DEF DialFails
  <1>6. ASSUME NEW r \in Requests, DialSucceeds(r) PROVE Closing'
    BY <1>6 DEF DialSucceeds
  <1>7. ASSUME NEW r \in Requests, SendJoinFails(r) PROVE Closing'
    BY <1>7 DEF SendJoinFails
  <1>8. ASSUME NEW r \in Requests, StoreRoom(r) PROVE Closing'
    BY <1>8 DEF StoreRoom
  <1>9. ASSUME NEW r \in Requests, RoomCount(r) PROVE Closing'
    BY <1>9 DEF RoomCount
  <1>10. ASSUME NEW r \in Requests, SpeakerCountLocks(r) PROVE Closing'
    BY <1>10 DEF SpeakerCountLocks
  <1>11. ASSUME NEW r \in Requests, SpeakerCount(r) PROVE Closing'
    BY <1>11 DEF SpeakerCount
  <1>12. ASSUME NEW r \in Requests, Hang(r) PROVE Closing'
    BY <1>12 DEF Hang
  <1>13. ASSUME NEW r \in Requests, HangPasses(r) PROVE Closing'
    BY <1>13 DEF HangPasses
  <1>14. ASSUME NEW p \in Procs, LeaveCancels(p) PROVE Closing'
    BY <1>14 DEF LeaveCancels
  <1>15. ASSUME NEW p \in Procs, LeaveCloses(p) PROVE Closing'
    BY <1>15 DEF LeaveCloses
  <1>16. ASSUME NEW p \in Procs, NEW t \in Tokens, LeaveMisses(p, t) PROVE Closing'
    BY <1>16 DEF LeaveMisses
  <1>17. ASSUME NEW p \in Procs, NEW t \in Tokens, LeaveDeletes(p, t) PROVE Closing'
    BY <1>17 DEF LeaveDeletes
  <1>18. CASE Signal
    BY <1>18 DEF Signal
  <1>19. CASE ShutdownReturns
    BY <1>19 DEF ShutdownReturns
  <1>20. CASE Exit
    BY <1>20 DEF Exit
  <1>21. CASE UNCHANGED vars
    BY <1>21
  <1>22. QED
    BY <1>1, <1>2, <1>3, <1>4, <1>5, <1>6, <1>7, <1>8, <1>9, <1>10, <1>11, <1>12,
       <1>13, <1>14, <1>15, <1>16, <1>17, <1>18, <1>19, <1>20, <1>21, NextCases

LEMMA InvInit == Init => Inv
  <1> SUFFICES ASSUME Init PROVE Inv
    OBVIOUS
  <1>1. (CHOOSE c \in Calls : TRUE) \in Calls
    BY SomeCall
  <1>2. QED
    BY <1>1, Distinct DEF Inv, Init, TypeOK, Locking, Joining, Rooms, NoOrphans,
       TeardownOnce, Closing, TearsDown, InTable, Procs, RequestPlaces, MainPlaces

LEMMA InvStep == Inv /\ [Next]_vars => Inv'
  BY TypeStep, LockingStep, JoiningStep, RoomsStep, OrphansStep, TeardownStep, ClosingStep
  DEF Inv

LEMMA InvAlways == Spec => []Inv
  BY InvInit, InvStep, PTL DEF Spec

-----------------------------------------------------------------------------
\* Every variable keeps its type: no LeaveRoom call tears down a room that is
\* not there.
THEOREM TypeCorrect == Spec => []TypeOK
  <1>1. Inv => TypeOK
    BY DEF Inv
  <1>2. QED
    BY <1>1, InvAlways, PTL

\* A room that runs can be found under its token or is about to be cancelled,
\* and a failed join leaves no connection behind, however requests and the
\* shutdown interleave.
THEOREM RoomsAreKnown == Spec => []NoOrphans
  <1>1. Inv => NoOrphans
    BY DEF Inv
  <1>2. QED
    BY <1>1, InvAlways, PTL

\* Two LeaveRoom calls, of requests or of the shutdown, never tear down the same
\* room.
THEOREM TornDownOnce == Spec => []TeardownOnce
  <1>1. Inv => TeardownOnce
    BY DEF Inv
  <1>2. QED
    BY <1>1, InvAlways, PTL

\* A process whose HTTP server shut down in time ends with every room closed.
THEOREM ExitIsClean == Spec => []CleanExit
  <1>1. Inv => CleanExit
    <2> SUFFICES ASSUME Inv, pc[Main] = "exited", ~overrun, NEW i \in Requests
                 PROVE  life[i] \in {"none", "gone"}
      BY DEF CleanExit
    <2>1. /\ \A r \in Requests : pc[r] \in {"idle", "done"}
          /\ \A t \in Tokens : rooms[t] = NoRoom
      BY DEF Inv, Closing, Handled
    <2>2. \A p \in Procs : pc[p] \notin {"cancel", "close"}
      BY <2>1 DEF Procs
    <2>3. life[i] \in {"none", "dialled", "live", "ending", "gone"} /\ call[i].token \in Tokens
      BY DEF Inv, TypeOK, Calls
    <2>4. QED
      BY <2>1, <2>2, <2>3, Distinct DEF Inv, NoOrphans
  <1>2. QED
    BY <1>1, InvAlways, PTL

-----------------------------------------------------------------------------
(* The refinement: which step of RoomDirectory each step is.                *)

LEMMA DirectoryInit == Init => Directory!DirInit
  <1> SUFFICES ASSUME Init PROVE Directory!DirInit
    OBVIOUS
  <1>1. (CHOOSE c \in Calls : TRUE) \in Calls
    BY SomeCall
  <1>2. QED
    BY <1>1, Distinct DEF Init, Procs, dirPhase, Directory!DirInit, Directory!Calls,
       Directory!Operations, Calls, Operations

\* A request goes on within its phase.
PhaseKept == dirPhase' = dirPhase
PhaseIs(r, ph) == dirPhase' = [dirPhase EXCEPT ![r] = ph]

\* The phase a request is in at a place of its handler.
PhaseAt(label) ==
  CASE label = "idle" -> "idle"
    [] label \in {"cancel", "close", "reply"} -> "decided"
    [] label = "done" -> "answered"
    [] OTHER -> "open"

LEMMA PhaseMoves ==
  ASSUME TypeOK, NEW r \in Requests, NEW label, Goto(r, label)
  PROVE  PhaseIs(r, PhaseAt(label)) /\ dirPhase[r] = PhaseAt(pc[r])
  <1>1. /\ dirPhase = [q \in Requests |-> PhaseAt(pc[q])]
        /\ dirPhase' = [q \in Requests |-> PhaseAt(pc'[q])]
    BY DEF dirPhase, PhaseAt
  <1>2. \A q \in Requests : pc'[q] = IF q = r THEN label ELSE pc[q]
    BY DEF TypeOK, Goto, Procs
  <1>3. QED
    BY <1>1, <1>2 DEF PhaseIs

LEMMA DirectoryStep ==
  ASSUME Inv, [Next]_vars
  PROVE  [Directory!DirNext]_(Directory!dirVars)
  <1> USE Distinct DEF Inv, TypeOK, vars, tableVars, lockVars, mainVars, Goto, Move,
     Answer, Procs, Locking, Joining, RequestPlaces, MainPlaces, Calls, Operations,
     LockFree, Leaves, Wants
  <1>1. ASSUME NEW r \in Requests, Arrive(r) PROVE [Directory!DirNext]_(Directory!dirVars)
    <2>1. PICK c \in Calls :
            /\ call' = [call EXCEPT ![r] = c]
            /\ Goto(r, IF c.op = "count" THEN "rooms" ELSE "lock")
      BY <1>1 DEF Arrive
    <2>2. PhaseIs(r, "open") /\ dirPhase[r] = "idle"
      <3>1. PICK label \in {"rooms", "lock"} : Goto(r, label)
        BY <2>1
      <3>2. QED
        BY <1>1, <3>1, PhaseMoves DEF Arrive, PhaseAt
    <2>3. /\ pc[Main] = "serving" /\ pc'[Main] = "serving"
          /\ UNCHANGED <<rooms, answer>>
      BY <1>1, <2>1 DEF Arrive
    <2>4. Directory!Ask(r)
      <3>1. c \in Directory!Calls
        BY DEF Directory!Calls, Directory!Operations
      <3>2. \E d \in Directory!Calls : call' = [call EXCEPT ![r] = d]
        BY <2>1, <3>1
      <3>3. UNCHANGED <<{t \in Tokens : rooms[t] # NoRoom}, answer, pc[Main] = "serving">>
        BY <2>3
      <3>4. dirPhase[r] = "idle" /\ dirPhase' = [dirPhase EXCEPT ![r] = "open"]
        BY <2>2 DEF PhaseIs
      <3>5. QED
        BY <2>3, <3>2, <3>3, <3>4 DEF Directory!Ask
    <2>5. QED
      BY <2>4 DEF Directory!DirNext
  <1>2. ASSUME NEW r \in Requests, Reply(r) PROVE [Directory!DirNext]_(Directory!dirVars)
    <2>1. PhaseIs(r, "answered") /\ dirPhase[r] = "decided"
      BY <1>2, PhaseMoves DEF Reply, PhaseAt
    <2>2. Directory!Respond(r)
      BY <2>1, <1>2 DEF Reply, PhaseIs, Directory!Respond
    <2>3. QED
      BY <2>2 DEF Directory!DirNext
  <1>3. ASSUME NEW r \in Requests, JoinFinds(r) PROVE [Directory!DirNext]_(Directory!dirVars)
    <2>1. PhaseIs(r, "decided") /\ dirPhase[r] = "open"
      BY <1>3, PhaseMoves DEF JoinFinds, PhaseAt
    <2>2. Directory!Decide(r)
      BY <2>1, <1>3 DEF JoinFinds, PhaseIs, Directory!Decide, Directory!Effect
    <2>3. QED
      BY <2>2 DEF Directory!DirNext
  <1>4. ASSUME NEW r \in Requests, DialFails(r) PROVE [Directory!DirNext]_(Directory!dirVars)
    <2>1. PhaseIs(r, "decided") /\ dirPhase[r] = "open"
      BY <1>4, PhaseMoves DEF DialFails, PhaseAt
    <2>2. Directory!Decide(r)
      BY <2>1, <1>4 DEF DialFails, PhaseIs, Directory!Decide, Directory!Effect
    <2>3. QED
      BY <2>2 DEF Directory!DirNext
  <1>5. ASSUME NEW r \in Requests, SendJoinFails(r) PROVE [Directory!DirNext]_(Directory!dirVars)
    <2>1. PhaseIs(r, "decided") /\ dirPhase[r] = "open"
      BY <1>5, PhaseMoves DEF SendJoinFails, PhaseAt
    <2>2. Directory!Decide(r)
      BY <2>1, <1>5 DEF SendJoinFails, PhaseIs, Directory!Decide, Directory!Effect
    <2>3. QED
      BY <2>2 DEF Directory!DirNext
  <1>6. ASSUME NEW r \in Requests, StoreRoom(r) PROVE [Directory!DirNext]_(Directory!dirVars)
    <2>1. PhaseIs(r, "decided") /\ dirPhase[r] = "open"
      BY <1>6, PhaseMoves DEF StoreRoom, PhaseAt
    <2>2. Directory!Decide(r)
      BY <2>1, <1>6 DEF StoreRoom, PhaseIs, Directory!Decide, Directory!Effect
    <2>3. QED
      BY <2>2 DEF Directory!DirNext
  <1>7. ASSUME NEW r \in Requests, SpeakerCount(r) PROVE [Directory!DirNext]_(Directory!dirVars)
    <2>1. PhaseIs(r, "decided") /\ dirPhase[r] = "open"
      BY <1>7, PhaseMoves DEF SpeakerCount, PhaseAt
    <2>2. Directory!Decide(r)
      BY <2>1, <1>7 DEF SpeakerCount, PhaseIs, Directory!Decide, Directory!Effect
    <2>3. QED
      BY <2>2 DEF Directory!DirNext
  <1>8. ASSUME NEW r \in Requests, JoinLocks(r) PROVE [Directory!DirNext]_(Directory!dirVars)
    <2>1. PhaseKept
      BY <1>8 DEF JoinLocks, PhaseKept, dirPhase
    <2>2. QED
      BY <2>1, <1>8 DEF JoinLocks, PhaseKept, Directory!dirVars
  <1>9. ASSUME NEW r \in Requests, DialSucceeds(r) PROVE [Directory!DirNext]_(Directory!dirVars)
    <2>1. PhaseKept
      BY <1>9 DEF DialSucceeds, PhaseKept, dirPhase
    <2>2. QED
      BY <2>1, <1>9 DEF DialSucceeds, PhaseKept, Directory!dirVars
  <1>10. ASSUME NEW r \in Requests, RoomCount(r) PROVE [Directory!DirNext]_(Directory!dirVars)
    <2>1. PhaseKept
      BY <1>10 DEF RoomCount, PhaseKept, dirPhase
    <2>2. QED
      BY <2>1, <1>10 DEF RoomCount, PhaseKept, Directory!dirVars
  <1>11. ASSUME NEW r \in Requests, SpeakerCountLocks(r) PROVE [Directory!DirNext]_(Directory!dirVars)
    <2>1. PhaseKept
      BY <1>11 DEF SpeakerCountLocks, PhaseKept, dirPhase
    <2>2. QED
      BY <2>1, <1>11 DEF SpeakerCountLocks, PhaseKept, Directory!dirVars
  <1>12. ASSUME NEW r \in Requests, Hang(r) PROVE [Directory!DirNext]_(Directory!dirVars)
    <2>1. PhaseKept
      BY <1>12 DEF Hang, PhaseKept, dirPhase
    <2>2. QED
      BY <2>1, <1>12 DEF Hang, PhaseKept, Directory!dirVars
  <1>13. ASSUME NEW r \in Requests, HangPasses(r) PROVE [Directory!DirNext]_(Directory!dirVars)
    <2>1. PhaseKept
      BY <1>13 DEF HangPasses, PhaseKept, dirPhase
    <2>2. QED
      BY <2>1, <1>13 DEF HangPasses, PhaseKept, Directory!dirVars
  <1>14. ASSUME NEW p \in Procs, LeaveCancels(p) PROVE [Directory!DirNext]_(Directory!dirVars)
    <2>1. PhaseKept
      BY <1>14 DEF LeaveCancels, PhaseKept, dirPhase
    <2>2. QED
      BY <2>1, <1>14 DEF LeaveCancels, PhaseKept, Directory!dirVars
  <1>15. ASSUME NEW p \in Procs, LeaveCloses(p) PROVE [Directory!DirNext]_(Directory!dirVars)
    <2>1. PhaseKept
      BY <1>15 DEF LeaveCloses, PhaseKept, dirPhase
    <2>2. QED
      BY <2>1, <1>15 DEF LeaveCloses, PhaseKept, Directory!dirVars
  <1>16. ASSUME NEW r \in Requests, NEW t \in Tokens, LeaveMisses(r, t) PROVE [Directory!DirNext]_(Directory!dirVars)
    <2>1. PhaseIs(r, "decided") /\ dirPhase[r] = "open"
      <3>1. Goto(r, "reply") /\ pc[r] = "lock"
        BY <1>16 DEF LeaveMisses
      <3>2. QED
        BY <3>1, PhaseMoves DEF PhaseAt
    <2>2. Directory!Decide(r)
      BY <2>1, <1>16 DEF LeaveMisses, PhaseIs, Directory!Decide, Directory!Effect,
         MissingAnswer
    <2>3. QED
      BY <2>2 DEF Directory!DirNext
  <1>17. ASSUME NEW t \in Tokens, LeaveMisses(Main, t) PROVE [Directory!DirNext]_(Directory!dirVars)
    <2>1. PhaseKept
      BY <1>17 DEF LeaveMisses, PhaseKept, dirPhase
    <2>2. QED
      BY <2>1, <1>17 DEF LeaveMisses, PhaseKept, Directory!dirVars
  <1>18. ASSUME NEW r \in Requests, NEW t \in Tokens, LeaveDeletes(r, t) PROVE [Directory!DirNext]_(Directory!dirVars)
    <2>1. PhaseIs(r, "decided") /\ dirPhase[r] = "open"
      BY <1>18, PhaseMoves DEF LeaveDeletes, PhaseAt
    <2>2. Directory!Decide(r)
      BY <2>1, <1>18 DEF LeaveDeletes, PhaseIs, Directory!Decide, Directory!Effect,
         MissingAnswer
    <2>3. QED
      BY <2>2 DEF Directory!DirNext
  <1>19. ASSUME NEW t \in Tokens, LeaveDeletes(Main, t) PROVE [Directory!DirNext]_(Directory!dirVars)
    <2>1. PhaseKept
      BY <1>19 DEF LeaveDeletes, PhaseKept, dirPhase
    <2>2. Directory!TurnOff(t)
      BY <2>1, <1>19 DEF LeaveDeletes, PhaseKept, Directory!TurnOff
    <2>3. QED
      BY <2>2 DEF Directory!DirNext
  <1>20. CASE Signal
    <2>1. PhaseKept
      BY <1>20 DEF Signal, PhaseKept, dirPhase
    <2>2. Directory!StopServing
      BY <2>1, <1>20 DEF Signal, PhaseKept, Directory!StopServing
    <2>3. QED
      BY <2>2 DEF Directory!DirNext
  <1>21. CASE ShutdownReturns
    <2>1. PhaseKept
      BY <1>21 DEF ShutdownReturns, PhaseKept, dirPhase
    <2>2. QED
      BY <2>1, <1>21 DEF ShutdownReturns, PhaseKept, Directory!dirVars
  <1>22. CASE Exit
    <2>1. PhaseKept
      BY <1>22 DEF Exit, PhaseKept, dirPhase
    <2>2. QED
      BY <2>1, <1>22 DEF Exit, PhaseKept, Directory!dirVars
  <1>23. CASE UNCHANGED vars
    BY <1>23 DEF Directory!dirVars, dirPhase
  <1> QED
    BY <1>1, <1>2, <1>3, <1>4, <1>5, <1>6, <1>7, <1>8, <1>9, <1>10, <1>11, <1>12,
       <1>13, <1>14, <1>15, <1>16, <1>17, <1>18, <1>19, <1>20, <1>21, <1>22, <1>23,
       NextCases

\* The API of the service is one switch per token, for every number of requests
\* and tokens and every interleaving with the shutdown: RoomManager implements
\* RoomDirectory.
THEOREM GivesDirectory == Spec => DirectorySpec
  BY DirectoryInit, DirectoryStep, InvAlways, PTL DEF Spec, DirectorySpec, Directory!DirSpec

=============================================================================
