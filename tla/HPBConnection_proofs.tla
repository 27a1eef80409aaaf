----------------------- MODULE HPBConnection_proofs -----------------------
(***************************************************************************)
(* Safety of HPBConnection for any number of connections and any capacity  *)
(* of errChan.                                                             *)
(***************************************************************************)
EXTENDS HPBConnection, TLAPS

\* The orchestrator has closed and forgotten the old connection before it dials, and
\* nobody touches the new one while its hello is written.
Dialling ==
  /\ orch = "dial" => conn = NilConn /\ open = {}
  /\ orch = "hello" => conn \in open

\* A read loop that will report the end of the connection. A stale one that has
\* got hold of the new connection counts as well.
Watched == \E k \in Readers : reader[k] = "reading" => readerConn[k] = conn

\* In a live room, from a successful dial until it takes the next error, the
\* orchestrator has a watched connection or that error.
Noticed ==
  orch \in {"rejoin", "joining", "select", "send", "sending"} /\ ~ctxDone =>
    errors > 0 \/ (conn \in open /\ Watched)

\* How far Close is: cancelled, closed, waited for its loops.
Closing ==
  /\ leaver # "idle" => ctxDone
  /\ clientDone <=> leaver \in {"closing", "waiting", "done"}
  /\ leaver \in {"waiting", "done"} => conn = NilConn /\ open = {} /\ orch \notin {"dial", "hello"}
  /\ leaver = "done" => Readers = {} /\ Writers = {}

Inv == TypeOK /\ OneConnection /\ Dialling /\ Noticed /\ Closing

LEMMA InvInit == Init => Inv
  <1> SUFFICES ASSUME Init PROVE Inv
    OBVIOUS
  <1>1. 1 \in Conns /\ NilConn \notin Conns
    BY HPBAssumption DEF HPBAssumption, Conns, NilConn
  <1>2. errors \in 0 .. ErrCap
    BY HPBAssumption DEF HPBAssumption, Init
  <1>3. clientDone \in BOOLEAN /\ panicked \in BOOLEAN /\ ctxDone \in BOOLEAN
    BY DEF Init
  <1>4. TypeOK
    BY <1>1, <1>2, <1>3 DEF Init, TypeOK
  <1>5. OneConnection /\ Dialling /\ Closing
    BY <1>1 DEF Init, OneConnection, Dialling, Closing, NilConn
  <1>6. Noticed
    <2>1. 1 \in Readers /\ reader[1] = "top"
      BY <1>1 DEF Init, Readers
    <2>2. QED
      BY <2>1 DEF Init, Noticed, Watched
  <1>7. QED
    BY <1>4, <1>5, <1>6 DEF Inv

LEMMA NextCases ==
  ASSUME [Next]_vars
  PROVE  \/ OrchStops \/ TakeError \/ StartRound \/ ConnectStarts
         \/ ConnectDials \/ ConnectFails \/ HelloWritten \/ HelloFails
         \/ AnswersRoom \/ WriteStarts \/ WriteEnds
         \/ LeaveRoom \/ CloseStarts \/ CloseConn \/ CloseReturns
         \/ \E k \in Conns : \/ ReaderChecks(k) \/ ReaderReads(k) \/ ReaderGetsMessage(k)
                             \/ ReaderFails(k) \/ ReaderPosts(k)
                             \/ ReaderHandles(k) \/ PongReturns(k) \/ WriterEnds(k)
         \/ UNCHANGED vars
  BY DEF Next, Orchestrate, Leave, ReadLoop

-----------------------------------------------------------------------------
\* Types are kept.
LEMMA TypeStep ==
  ASSUME Inv, [Next]_vars
  PROVE  TypeOK'
  <1> USE HPBAssumption DEF HPBAssumption, Inv, TypeOK, Conns, NilConn, vars,
      connVars, loopVars, roomVars, Moves, OrchMoves, LeaverMoves
  <1>1. CASE OrchStops
    BY <1>1 DEF OrchStops
  <1>2. CASE TakeError
    BY <1>2 DEF TakeError
  <1>3. CASE StartRound
    BY <1>3 DEF StartRound
  <1>4. CASE ConnectStarts
    BY <1>4 DEF ConnectStarts
  <1>5. CASE ConnectDials
    BY <1>5 DEF ConnectDials
  <1>6. CASE ConnectFails
    BY <1>6 DEF ConnectFails
  <1>6a. CASE HelloWritten
    BY <1>6a DEF HelloWritten
  <1>6b. CASE HelloFails
    BY <1>6b DEF HelloFails
  <1>6c. CASE AnswersRoom
    BY <1>6c DEF AnswersRoom
  <1>7. CASE WriteStarts
    BY <1>7 DEF WriteStarts
  <1>8. CASE WriteEnds
    BY <1>8 DEF WriteEnds
  <1>9. CASE LeaveRoom
    BY <1>9 DEF LeaveRoom
  <1>10. CASE CloseStarts
    BY <1>10 DEF CloseStarts
  <1>11. CASE CloseConn
    BY <1>11 DEF CloseConn
  <1>12. CASE CloseReturns
    BY <1>12 DEF CloseReturns
  <1>13. ASSUME NEW k \in Conns, ReaderChecks(k) PROVE TypeOK'
    BY <1>13 DEF ReaderChecks
  <1>14. ASSUME NEW k \in Conns, ReaderReads(k) PROVE TypeOK'
    <2>1. CASE conn # NilConn
      <3>1. readerConn' \in [Conns -> {NilConn} \cup Conns] /\ panicked' = panicked
        BY <1>14, <2>1 DEF ReaderReads
      <3>2. QED
        BY <1>14, <2>1, <3>1 DEF ReaderReads
    <2>2. CASE conn = NilConn
      BY <1>14, <2>2 DEF ReaderReads
    <2>3. QED
      BY <2>1, <2>2
  <1>15. ASSUME NEW k \in Conns, ReaderGetsMessage(k) PROVE TypeOK'
    BY <1>15 DEF ReaderGetsMessage
  <1>16. ASSUME NEW k \in Conns, ReaderFails(k) PROVE TypeOK'
    BY <1>16 DEF ReaderFails
  <1>17. ASSUME NEW k \in Conns, ReaderPosts(k) PROVE TypeOK'
    BY <1>17 DEF ReaderPosts
  <1>18. ASSUME NEW k \in Conns, ReaderHandles(k) PROVE TypeOK'
    BY <1>18 DEF ReaderHandles
  <1>18a. ASSUME NEW k \in Conns, PongReturns(k) PROVE TypeOK'
    BY <1>18a DEF PongReturns
  <1>19. ASSUME NEW k \in Conns, WriterEnds(k) PROVE TypeOK'
    BY <1>19 DEF WriterEnds
  <1>20. CASE UNCHANGED vars
    BY <1>20
  <1>21. QED
    BY <1>1, <1>2, <1>3, <1>4, <1>5, <1>6, <1>6a, <1>6b, <1>6c, <1>7, <1>8, <1>9,
       <1>10, <1>11, <1>12, <1>13, <1>14, <1>15, <1>16, <1>17, <1>18, <1>18a,
       <1>19, <1>20, NextCases

\* A connection is dialled only when the old one is closed.
LEMMA OneConnectionStep ==
  ASSUME Inv, [Next]_vars
  PROVE  OneConnection'
  <1> USE HPBAssumption DEF HPBAssumption, Inv, TypeOK, Conns, NilConn, vars,
      connVars, loopVars, roomVars, Moves, OrchMoves, LeaverMoves, OneConnection,
      Dialling
  <1>1. CASE OrchStops
    BY <1>1 DEF OrchStops
  <1>2. CASE TakeError
    BY <1>2 DEF TakeError
  <1>3. CASE StartRound
    BY <1>3 DEF StartRound
  <1>4. CASE ConnectStarts
    BY <1>4 DEF ConnectStarts
  <1>5. CASE ConnectDials
    BY <1>5 DEF ConnectDials
  <1>6. CASE ConnectFails
    BY <1>6 DEF ConnectFails
  <1>6a. CASE HelloWritten
    BY <1>6a DEF HelloWritten
  <1>6b. CASE HelloFails
    BY <1>6b DEF HelloFails
  <1>6c. CASE AnswersRoom
    BY <1>6c DEF AnswersRoom
  <1>7. CASE WriteStarts
    BY <1>7 DEF WriteStarts
  <1>8. CASE WriteEnds
    BY <1>8 DEF WriteEnds
  <1>9. CASE LeaveRoom
    BY <1>9 DEF LeaveRoom
  <1>10. CASE CloseStarts
    BY <1>10 DEF CloseStarts
  <1>11. CASE CloseConn
    BY <1>11 DEF CloseConn
  <1>12. CASE CloseReturns
    BY <1>12 DEF CloseReturns
  <1>13. ASSUME NEW k \in Conns, ReaderChecks(k) PROVE OneConnection'
    BY <1>13 DEF ReaderChecks
  <1>14. ASSUME NEW k \in Conns, ReaderReads(k) PROVE OneConnection'
    BY <1>14 DEF ReaderReads
  <1>15. ASSUME NEW k \in Conns, ReaderGetsMessage(k) PROVE OneConnection'
    BY <1>15 DEF ReaderGetsMessage
  <1>16. ASSUME NEW k \in Conns, ReaderFails(k) PROVE OneConnection'
    BY <1>16 DEF ReaderFails
  <1>17. ASSUME NEW k \in Conns, ReaderPosts(k) PROVE OneConnection'
    BY <1>17 DEF ReaderPosts
  <1>18. ASSUME NEW k \in Conns, ReaderHandles(k) PROVE OneConnection'
    BY <1>18 DEF ReaderHandles
  <1>18a. ASSUME NEW k \in Conns, PongReturns(k) PROVE OneConnection'
    BY <1>18a DEF PongReturns
  <1>19. ASSUME NEW k \in Conns, WriterEnds(k) PROVE OneConnection'
    BY <1>19 DEF WriterEnds
  <1>20. CASE UNCHANGED vars
    BY <1>20
  <1>21. QED
    BY <1>1, <1>2, <1>3, <1>4, <1>5, <1>6, <1>6a, <1>6b, <1>6c, <1>7, <1>8, <1>9,
       <1>10, <1>11, <1>12, <1>13, <1>14, <1>15, <1>16, <1>17, <1>18, <1>18a,
       <1>19, <1>20, NextCases

\* Close waits for the lock while a dial or a hello lasts.
LEMMA DiallingStep ==
  ASSUME Inv, [Next]_vars
  PROVE  Dialling'
  <1> USE HPBAssumption DEF HPBAssumption, Inv, TypeOK, Conns, NilConn, vars,
      connVars, loopVars, roomVars, Moves, OrchMoves, LeaverMoves, Dialling,
      OneConnection
  <1>1. CASE OrchStops
    BY <1>1 DEF OrchStops
  <1>2. CASE TakeError
    BY <1>2 DEF TakeError
  <1>3. CASE StartRound
    BY <1>3 DEF StartRound
  <1>4. CASE ConnectStarts
    BY <1>4 DEF ConnectStarts
  <1>5. CASE ConnectDials
    BY <1>5 DEF ConnectDials
  <1>6. CASE ConnectFails
    BY <1>6 DEF ConnectFails
  <1>6a. CASE HelloWritten
    BY <1>6a DEF HelloWritten
  <1>6b. CASE HelloFails
    BY <1>6b DEF HelloFails
  <1>6c. CASE AnswersRoom
    BY <1>6c DEF AnswersRoom
  <1>7. CASE WriteStarts
    BY <1>7 DEF WriteStarts
  <1>8. CASE WriteEnds
    BY <1>8 DEF WriteEnds
  <1>9. CASE LeaveRoom
    BY <1>9 DEF LeaveRoom
  <1>10. CASE CloseStarts
    BY <1>10 DEF CloseStarts
  <1>11. CASE CloseConn
    BY <1>11 DEF CloseConn, Locked, OrchWrites
  <1>12. CASE CloseReturns
    BY <1>12 DEF CloseReturns
  <1>13. ASSUME NEW k \in Conns, ReaderChecks(k) PROVE Dialling'
    BY <1>13 DEF ReaderChecks
  <1>14. ASSUME NEW k \in Conns, ReaderReads(k) PROVE Dialling'
    BY <1>14 DEF ReaderReads
  <1>15. ASSUME NEW k \in Conns, ReaderGetsMessage(k) PROVE Dialling'
    BY <1>15 DEF ReaderGetsMessage
  <1>16. ASSUME NEW k \in Conns, ReaderFails(k) PROVE Dialling'
    BY <1>16 DEF ReaderFails
  <1>17. ASSUME NEW k \in Conns, ReaderPosts(k) PROVE Dialling'
    BY <1>17 DEF ReaderPosts
  <1>18. ASSUME NEW k \in Conns, ReaderHandles(k) PROVE Dialling'
    BY <1>18 DEF ReaderHandles
  <1>18a. ASSUME NEW k \in Conns, PongReturns(k) PROVE Dialling'
    BY <1>18a DEF PongReturns
  <1>19. ASSUME NEW k \in Conns, WriterEnds(k) PROVE Dialling'
    BY <1>19 DEF WriterEnds
  <1>20. CASE UNCHANGED vars
    BY <1>20
  <1>21. QED
    BY <1>1, <1>2, <1>3, <1>4, <1>5, <1>6, <1>6a, <1>6b, <1>6c, <1>7, <1>8, <1>9,
       <1>10, <1>11, <1>12, <1>13, <1>14, <1>15, <1>16, <1>17, <1>18, <1>18a,
       <1>19, <1>20, NextCases

\* A read loop that ends on the open connection posts an error first.
LEMMA NoticedStep ==
  ASSUME Inv, [Next]_vars
  PROVE  Noticed'
  <1> USE HPBAssumption DEF HPBAssumption, Inv, TypeOK, Conns, NilConn, vars,
      connVars, loopVars, roomVars, Moves, OrchMoves, LeaverMoves, Noticed,
      OneConnection, Dialling, Closing, Readers, Watched
  <1>1. CASE OrchStops
    BY <1>1 DEF OrchStops
  <1>2. CASE TakeError
    BY <1>2 DEF TakeError
  <1>3. CASE StartRound
    BY <1>3 DEF StartRound
  <1>4. CASE ConnectStarts
    BY <1>4 DEF ConnectStarts
  <1>5. CASE ConnectDials
    BY <1>5 DEF ConnectDials
  <1>6. CASE ConnectFails
    BY <1>6 DEF ConnectFails
  <1>6a. CASE HelloWritten
    BY <1>6a DEF HelloWritten
  <1>6b. CASE HelloFails
    BY <1>6b DEF HelloFails
  <1>6c. CASE AnswersRoom
    BY <1>6c DEF AnswersRoom
  <1>7. CASE WriteStarts
    BY <1>7 DEF WriteStarts
  <1>8. CASE WriteEnds
    BY <1>8 DEF WriteEnds
  <1>9. CASE LeaveRoom
    BY <1>9 DEF LeaveRoom
  <1>10. CASE CloseStarts
    BY <1>10 DEF CloseStarts
  <1>11. CASE CloseConn
    BY <1>11 DEF CloseConn
  <1>12. CASE CloseReturns
    BY <1>12 DEF CloseReturns
  <1>13. ASSUME NEW k \in Conns, ReaderChecks(k) PROVE Noticed'
    BY <1>13 DEF ReaderChecks
  <1>14. ASSUME NEW k \in Conns, ReaderReads(k) PROVE Noticed'
    BY <1>14 DEF ReaderReads
  <1>15. ASSUME NEW k \in Conns, ReaderGetsMessage(k) PROVE Noticed'
    BY <1>15 DEF ReaderGetsMessage
  <1>16. ASSUME NEW k \in Conns, ReaderFails(k) PROVE Noticed'
    BY <1>16 DEF ReaderFails
  <1>17. ASSUME NEW k \in Conns, ReaderPosts(k) PROVE Noticed'
    BY <1>17 DEF ReaderPosts
  <1>18. ASSUME NEW k \in Conns, ReaderHandles(k) PROVE Noticed'
    BY <1>18 DEF ReaderHandles
  <1>18a. ASSUME NEW k \in Conns, PongReturns(k) PROVE Noticed'
    BY <1>18a DEF PongReturns
  <1>19. ASSUME NEW k \in Conns, WriterEnds(k) PROVE Noticed'
    BY <1>19 DEF WriterEnds
  <1>20. CASE UNCHANGED vars
    BY <1>20
  <1>21. QED
    BY <1>1, <1>2, <1>3, <1>4, <1>5, <1>6, <1>6a, <1>6b, <1>6c, <1>7, <1>8, <1>9,
       <1>10, <1>11, <1>12, <1>13, <1>14, <1>15, <1>16, <1>17, <1>18, <1>18a,
       <1>19, <1>20, NextCases

\* A cancelled context keeps the orchestrator from dialling again.
LEMMA ClosingStep ==
  ASSUME Inv, [Next]_vars
  PROVE  Closing'
  <1> USE HPBAssumption DEF HPBAssumption, Inv, TypeOK, Conns, NilConn, vars,
      connVars, loopVars, roomVars, Moves, OrchMoves, LeaverMoves, Closing,
      OneConnection, Dialling, Readers, Writers
  <1>1. CASE OrchStops
    BY <1>1 DEF OrchStops
  <1>2. CASE TakeError
    BY <1>2 DEF TakeError
  <1>3. CASE StartRound
    BY <1>3 DEF StartRound
  <1>4. CASE ConnectStarts
    BY <1>4 DEF ConnectStarts
  <1>5. CASE ConnectDials
    BY <1>5 DEF ConnectDials
  <1>6. CASE ConnectFails
    BY <1>6 DEF ConnectFails
  <1>6a. CASE HelloWritten
    BY <1>6a DEF HelloWritten
  <1>6b. CASE HelloFails
    BY <1>6b DEF HelloFails
  <1>6c. CASE AnswersRoom
    BY <1>6c DEF AnswersRoom
  <1>7. CASE WriteStarts
    BY <1>7 DEF WriteStarts
  <1>8. CASE WriteEnds
    BY <1>8 DEF WriteEnds
  <1>9. CASE LeaveRoom
    BY <1>9 DEF LeaveRoom
  <1>10. CASE CloseStarts
    BY <1>10 DEF CloseStarts
  <1>11. CASE CloseConn
    BY <1>11 DEF CloseConn, Locked, OrchWrites
  <1>12. CASE CloseReturns
    BY <1>12 DEF CloseReturns
  <1>13. ASSUME NEW k \in Conns, ReaderChecks(k) PROVE Closing'
    BY <1>13 DEF ReaderChecks
  <1>14. ASSUME NEW k \in Conns, ReaderReads(k) PROVE Closing'
    BY <1>14 DEF ReaderReads
  <1>15. ASSUME NEW k \in Conns, ReaderGetsMessage(k) PROVE Closing'
    BY <1>15 DEF ReaderGetsMessage
  <1>16. ASSUME NEW k \in Conns, ReaderFails(k) PROVE Closing'
    BY <1>16 DEF ReaderFails
  <1>17. ASSUME NEW k \in Conns, ReaderPosts(k) PROVE Closing'
    BY <1>17 DEF ReaderPosts
  <1>18. ASSUME NEW k \in Conns, ReaderHandles(k) PROVE Closing'
    BY <1>18 DEF ReaderHandles
  <1>18a. ASSUME NEW k \in Conns, PongReturns(k) PROVE Closing'
    BY <1>18a DEF PongReturns
  <1>19. ASSUME NEW k \in Conns, WriterEnds(k) PROVE Closing'
    BY <1>19 DEF WriterEnds
  <1>20. CASE UNCHANGED vars
    BY <1>20
  <1>21. QED
    BY <1>1, <1>2, <1>3, <1>4, <1>5, <1>6, <1>6a, <1>6b, <1>6c, <1>7, <1>8, <1>9,
       <1>10, <1>11, <1>12, <1>13, <1>14, <1>15, <1>16, <1>17, <1>18, <1>18a,
       <1>19, <1>20, NextCases

LEMMA InvStep == Inv /\ [Next]_vars => Inv'
  BY TypeStep, OneConnectionStep, DiallingStep, NoticedStep, ClosingStep DEF Inv

LEMMA InvAlways == Spec => []Inv
  BY InvInit, InvStep, PTL DEF Spec

-----------------------------------------------------------------------------
\* Every variable keeps its type; in particular errChan stays within its capacity.
THEOREM TypeCorrect == Spec => []TypeOK
  <1>1. Inv => TypeOK
    BY DEF Inv
  <1>2. QED
    BY <1>1, InvAlways, PTL

\* No reconnection, failed or not, leaves a second connection open.
THEOREM ConnectsOnce == Spec => []OneConnection
  <1>1. Inv => OneConnection
    BY DEF Inv
  <1>2. QED
    BY <1>1, InvAlways, PTL

\* While the room lives, an orchestrator that waits has a watched connection or an
\* error waiting, whatever stale errors and read loops are about.
THEOREM DeathIsNoticed == Spec => []NoSilentDeath
  <1>1. Inv => NoSilentDeath
    BY DEF Inv, Noticed, Watched, NoSilentDeath
  <1>2. QED
    BY <1>1, InvAlways, PTL

\* After Close there is no connection and no loop, and no reconnection makes one.
THEOREM StaysClosed == Spec => []ClosedForGood
  <1>1. Inv => ClosedForGood
    BY DEF Inv, Closing, ClosedForGood
  <1>2. QED
    BY <1>1, InvAlways, PTL

-----------------------------------------------------------------------------
(* The client is a Link.                                                    *)

\* What of the client the link sees, besides conn and dialled.
Closed == leaver \in {"waiting", "done"}

LEMMA LinkStutters ==
  ASSUME UNCHANGED <<conn, dialled, Closed>>
  PROVE  UNCHANGED Signaling!vars
  BY DEF Signaling!vars, Closed

\* A step of the client is a step of the link, or none.
LEMMA LinkStep ==
  ASSUME Inv, [Next]_vars
  PROVE  [Signaling!Next]_(Signaling!vars)
  <1> USE DEF vars, connVars, loopVars, roomVars, Moves, OrchMoves, LeaverMoves
  <1>1. CASE ConnectDials
    <2>1. orch = "dial" /\ dialled' = dialled + 1 /\ conn' = dialled' /\ UNCHANGED leaver
      BY <1>1 DEF ConnectDials
    <2>2. conn = 0 /\ ~Closed /\ ~Closed'
      BY <2>1 DEF Inv, Dialling, Closing, Closed, NilConn
    <2>3. QED
      BY <2>1, <2>2 DEF Signaling!Next, Signaling!Connect, Closed
  <1>2. CASE ConnectStarts \/ HelloFails
    <2>1. conn' = 0 /\ UNCHANGED <<dialled, leaver>>
      BY <1>2 DEF ConnectStarts, HelloFails, NilConn
    <2>2. CASE conn = 0
      <3>1. UNCHANGED <<conn, dialled, Closed>>
        BY <2>1, <2>2 DEF Closed
      <3>2. QED
        BY <3>1, LinkStutters
    <2>3. CASE conn # 0
      BY <2>1, <2>3 DEF Signaling!Next, Signaling!Lose
    <2>4. QED
      BY <2>2, <2>3
  <1>3. CASE CloseConn
    <2>1. ~Closed /\ Closed' /\ conn' = 0 /\ UNCHANGED dialled
      BY <1>3 DEF CloseConn, Closed, NilConn
    <2>2. QED
      BY <2>1 DEF Signaling!Next, Signaling!Close, Closed
  <1>4. CASE \/ OrchStops \/ TakeError \/ StartRound \/ ConnectFails
             \/ HelloWritten \/ AnswersRoom \/ WriteStarts \/ WriteEnds
    <2>1. UNCHANGED <<conn, dialled, leaver>>
      BY <1>4 DEF OrchStops, TakeError, StartRound, ConnectFails, HelloWritten, AnswersRoom,
         WriteStarts, WriteEnds
    <2>2. QED
      BY <2>1, LinkStutters DEF Closed
  <1>5. CASE LeaveRoom \/ CloseStarts \/ CloseReturns
    <2>1. UNCHANGED <<conn, dialled, Closed>>
      BY <1>5 DEF LeaveRoom, CloseStarts, CloseReturns, Closed
    <2>2. QED
      BY <2>1, LinkStutters
  <1>6. ASSUME NEW k \in Conns,
               \/ ReaderChecks(k) \/ ReaderReads(k) \/ ReaderGetsMessage(k) \/ ReaderFails(k)
               \/ ReaderPosts(k) \/ ReaderHandles(k) \/ PongReturns(k) \/ WriterEnds(k)
        PROVE  [Signaling!Next]_(Signaling!vars)
    <2>1. UNCHANGED <<conn, dialled, leaver>>
      BY <1>6 DEF ReaderChecks, ReaderReads, ReaderGetsMessage, ReaderFails, ReaderPosts,
         ReaderHandles, PongReturns, WriterEnds
    <2>2. QED
      BY <2>1, LinkStutters DEF Closed
  <1>7. CASE UNCHANGED vars
    BY <1>7, LinkStutters DEF Closed
  <1>8. QED
    BY <1>1, <1>2, <1>3, <1>4, <1>5, <1>6, <1>7, NextCases

LEMMA LinkStart == Init => Signaling!Init
  BY DEF Init, Signaling!Init

\* To the room the client is a Link: a reconnection gives up the old connection
\* before it makes the next, and none is made after Close.
THEOREM GivesLink == Spec => LinkSpec
  <1>1. Inv /\ [Next]_vars => [Signaling!Next]_(Signaling!vars)
    BY LinkStep
  <1>2. QED
    BY <1>1, LinkStart, InvAlways, PTL DEF Spec, LinkSpec, Signaling!Spec

=============================================================================
