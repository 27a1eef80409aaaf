------------------------ MODULE ModalSession_proofs ------------------------
(***************************************************************************)
(* Safety of ModalSession for any number of connections and attempts and   *)
(* any capacity of errCh.                                                  *)
(***************************************************************************)
EXTENDS ModalSession, TLAPS

\* Who holds c.mu is determined by where the starter and the run loop are.
Locking ==
  /\ (lock = "starter") <=> (starter = "dial")
  /\ (lock = "runner") <=> (runner \in {"dial", "write"})

\* The run loop reconnects only after an error, and the first error comes after
\* the first connection: until the starter is done there is none.
FirstDial ==
  /\ starter # "done" => dialled = 0 /\ errCh = <<>>
  /\ runner \in {"check", "backoff", "dial"} => starter = "done"

\* Only the latest connection is used and has a read loop; one believed to be up
\* is the latest; and before another one is dialled the read loop has ended.
Latest ==
  /\ conn \in {NilConn, dialled}
  /\ \A k \in Conns : k > dialled => reader[k] = "none"
  /\ \A k \in Readers : k = dialled
  /\ \A k \in Conns : reader[k] = "reading" => readerConn[k] = k
  /\ connected => conn # NilConn /\ conn \in open
  /\ connected /\ ~clientDone => conn \in Readers
  /\ ~connected /\ runner \notin {"wait", "ended"} => Readers = {}
  /\ runner \in {"backoff", "dial"} => ~connected
  /\ runner = "write" => connected

\* What the run loop has left behind when it closes.
Closing ==
  /\ draining => ctxDone
  /\ clientDone <=> runner \in {"close", "wait", "ended"}
  /\ runner \in {"close", "wait", "ended"} => draining
  /\ runner \in {"wait", "ended"} => conn = NilConn /\ ~connected /\ starter # "dial"
  /\ runner = "ended" => Readers = {}

Inv == TypeOK /\ Locking /\ FirstDial /\ Latest /\ Closing

LEMMA InvInit == Init => Inv
  <1> SUFFICES ASSUME Init PROVE Inv
    OBVIOUS
  <1>1. TypeOK
    <2>1. dialled \in 0 .. MaxDials /\ attempts \in 0 .. MaxAttempts
      BY ModalAssumption DEF ModalAssumption, Init
    <2>2. errCh \in Seq(Kinds) /\ Len(errCh) <= ErrCap
      BY ModalAssumption DEF ModalAssumption, Init
    <2>3. connected \in BOOLEAN /\ clientDone \in BOOLEAN /\ panicked \in BOOLEAN
          /\ draining \in BOOLEAN /\ ctxDone \in BOOLEAN
      BY DEF Init
    <2>4. QED
      BY <2>1, <2>2, <2>3 DEF Init, TypeOK
  <1>2. Locking /\ FirstDial /\ Closing
    BY DEF Init, Locking, FirstDial, Closing, Readers
  <1>3. Latest
    BY DEF Init, Latest, Readers, Conns, NilConn
  <1>4. QED
    BY <1>1, <1>2, <1>3 DEF Inv

LEMMA PostFits ==
  ASSUME TypeOK, NEW kind \in Kinds, Post(kind)
  PROVE  errCh' \in Seq(Kinds) /\ Len(errCh') <= ErrCap
  <1>1. CASE Len(errCh) < ErrCap
    BY <1>1, ModalAssumption DEF ModalAssumption, TypeOK, Post
  <1>2. CASE ~(Len(errCh) < ErrCap)
    BY <1>2, ModalAssumption DEF ModalAssumption, TypeOK, Post
  <1>3. QED
    BY <1>1, <1>2

LEMMA NextCases ==
  ASSUME [Next]_vars
  PROVE  \/ StarterConnects \/ StarterDialled \/ DialFails
         \/ \E k \in Conns : \/ ReaderChecks(k) \/ ReaderReads(k) \/ ReaderGetsMessage(k)
                             \/ ReaderFails(k) \/ ReaderClears(k)
         \/ RemoveSpeaker
         \/ TakeError \/ CheckConnected \/ RunnerConnects \/ RunnerDialled
         \/ TakeChunk \/ ChunkChecked \/ WriteStarts \/ WriteEnds
         \/ StartDrain \/ DrainTimeout \/ CloseConn \/ CloseReturns
         \/ UNCHANGED vars
  BY DEF Next, ReaderSteps, RunLoop

-----------------------------------------------------------------------------
\* Types are kept.
LEMMA TypeStep ==
  ASSUME Inv, [Next]_vars
  PROVE  TypeOK'
  <1> USE ModalAssumption DEF ModalAssumption, Inv, TypeOK, Conns, NilConn, vars,
      clientVars, readerVars, loopVars, Moves, RunnerMoves, NewConnection, Kinds,
      Post, Readers, Latest
  <1>1. CASE StarterConnects
    BY <1>1 DEF StarterConnects
  <1>2. CASE StarterDialled
    BY <1>2 DEF StarterDialled
  <1>3. CASE DialFails
    BY <1>3 DEF DialFails
  <1>4. ASSUME NEW k \in Conns, ReaderChecks(k) PROVE TypeOK'
    BY <1>4 DEF ReaderChecks
  <1>5. ASSUME NEW k \in Conns, ReaderReads(k) PROVE TypeOK'
    <2>1. CASE conn # NilConn
      <3>1. readerConn' \in [Conns -> {NilConn} \cup Conns] /\ panicked' = panicked
        BY <1>5, <2>1 DEF ReaderReads
      <3>2. QED
        BY <1>5, <2>1, <3>1 DEF ReaderReads
    <2>2. CASE conn = NilConn
      BY <1>5, <2>2 DEF ReaderReads
    <2>3. QED
      BY <2>1, <2>2
  <1>6. ASSUME NEW k \in Conns, ReaderGetsMessage(k) PROVE TypeOK'
    <2>1. errCh' \in Seq(Kinds) /\ Len(errCh') <= ErrCap
      <3>1. CASE UNCHANGED errCh
        BY <3>1
      <3>2. CASE Post("service")
        BY <3>2, PostFits
      <3>3. QED
        BY <1>6, <3>1, <3>2 DEF ReaderGetsMessage
    <2>2. QED
      BY <1>6, <2>1 DEF ReaderGetsMessage
  <1>7. ASSUME NEW k \in Conns, ReaderFails(k) PROVE TypeOK'
    <2>1. errCh' \in Seq(Kinds) /\ Len(errCh') <= ErrCap
      <3>1. CASE Post("normal")
        BY <3>1, PostFits
      <3>2. CASE Post("lost")
        BY <3>2, PostFits
      <3>3. QED
        BY <1>7, <3>1, <3>2 DEF ReaderFails
    <2>2. readerConn[k] # NilConn
      BY <1>7 DEF ReaderFails, Latest
    <2>3. failed' \subseteq Conns
      BY <1>7, <2>2 DEF ReaderFails
    <2>4. QED
      BY <1>7, <2>1, <2>3 DEF ReaderFails
  <1>8. ASSUME NEW k \in Conns, ReaderClears(k) PROVE TypeOK'
    BY <1>8 DEF ReaderClears
  <1>9. CASE RemoveSpeaker
    BY <1>9 DEF RemoveSpeaker
  <1>10. CASE TakeError
    BY <1>10 DEF TakeError
  <1>11. CASE CheckConnected
    BY <1>11 DEF CheckConnected
  <1>12. CASE RunnerConnects
    BY <1>12 DEF RunnerConnects
  <1>13. CASE RunnerDialled
    BY <1>13 DEF RunnerDialled
  <1>14. CASE TakeChunk
    BY <1>14 DEF TakeChunk
  <1>15. CASE ChunkChecked
    BY <1>15 DEF ChunkChecked
  <1>16. CASE WriteStarts
    BY <1>16 DEF WriteStarts
  <1>17. CASE WriteEnds
    BY <1>17 DEF WriteEnds
  <1>18. CASE StartDrain
    BY <1>18 DEF StartDrain
  <1>19. CASE DrainTimeout
    BY <1>19 DEF DrainTimeout
  <1>20. CASE CloseConn
    BY <1>20 DEF CloseConn
  <1>21. CASE CloseReturns
    BY <1>21 DEF CloseReturns
  <1>22. CASE UNCHANGED vars
    BY <1>22
  <1>23. QED
    BY <1>1, <1>2, <1>3, <1>4, <1>5, <1>6, <1>7, <1>8, <1>9, <1>10, <1>11, <1>12,
       <1>13, <1>14, <1>15, <1>16, <1>17, <1>18, <1>19, <1>20, <1>21, <1>22, NextCases

\* The lock has at most one holder.
LEMMA LockingStep ==
  ASSUME Inv, [Next]_vars
  PROVE  Locking'
  <1> USE ModalAssumption DEF ModalAssumption, Inv, TypeOK, Conns, NilConn, vars,
      clientVars, readerVars, loopVars, Moves, RunnerMoves, NewConnection, Locking
  <1>1. CASE StarterConnects
    BY <1>1 DEF StarterConnects
  <1>2. CASE StarterDialled
    BY <1>2 DEF StarterDialled
  <1>3. CASE DialFails
    BY <1>3 DEF DialFails
  <1>4. ASSUME NEW k \in Conns, ReaderChecks(k) PROVE Locking'
    BY <1>4 DEF ReaderChecks
  <1>5. ASSUME NEW k \in Conns, ReaderReads(k) PROVE Locking'
    BY <1>5 DEF ReaderReads
  <1>6. ASSUME NEW k \in Conns, ReaderGetsMessage(k) PROVE Locking'
    BY <1>6 DEF ReaderGetsMessage
  <1>7. ASSUME NEW k \in Conns, ReaderFails(k) PROVE Locking'
    BY <1>7 DEF ReaderFails
  <1>8. ASSUME NEW k \in Conns, ReaderClears(k) PROVE Locking'
    BY <1>8 DEF ReaderClears
  <1>9. CASE RemoveSpeaker
    BY <1>9 DEF RemoveSpeaker
  <1>10. CASE TakeError
    BY <1>10 DEF TakeError
  <1>11. CASE CheckConnected
    BY <1>11 DEF CheckConnected
  <1>12. CASE RunnerConnects
    BY <1>12 DEF RunnerConnects
  <1>13. CASE RunnerDialled
    BY <1>13 DEF RunnerDialled
  <1>14. CASE TakeChunk
    BY <1>14 DEF TakeChunk
  <1>15. CASE ChunkChecked
    BY <1>15 DEF ChunkChecked
  <1>16. CASE WriteStarts
    BY <1>16 DEF WriteStarts
  <1>17. CASE WriteEnds
    BY <1>17 DEF WriteEnds
  <1>18. CASE StartDrain
    BY <1>18 DEF StartDrain
  <1>19. CASE DrainTimeout
    BY <1>19 DEF DrainTimeout
  <1>20. CASE CloseConn
    BY <1>20 DEF CloseConn
  <1>21. CASE CloseReturns
    BY <1>21 DEF CloseReturns
  <1>22. CASE UNCHANGED vars
    BY <1>22
  <1>23. QED
    BY <1>1, <1>2, <1>3, <1>4, <1>5, <1>6, <1>7, <1>8, <1>9, <1>10, <1>11, <1>12,
       <1>13, <1>14, <1>15, <1>16, <1>17, <1>18, <1>19, <1>20, <1>21, <1>22, NextCases

\* An error needs a read loop, a read loop a connection.
LEMMA FirstDialStep ==
  ASSUME Inv, [Next]_vars
  PROVE  FirstDial'
  <1> USE ModalAssumption DEF ModalAssumption, Inv, TypeOK, Conns, NilConn, vars,
      clientVars, readerVars, loopVars, Moves, RunnerMoves, NewConnection, FirstDial,
      Post, Latest, Readers, Kinds
  <1>1. CASE StarterConnects
    BY <1>1 DEF StarterConnects
  <1>2. CASE StarterDialled
    BY <1>2 DEF StarterDialled
  <1>3. CASE DialFails
    BY <1>3 DEF DialFails
  <1>4. ASSUME NEW k \in Conns, ReaderChecks(k) PROVE FirstDial'
    BY <1>4 DEF ReaderChecks
  <1>5. ASSUME NEW k \in Conns, ReaderReads(k) PROVE FirstDial'
    BY <1>5 DEF ReaderReads
  <1>6. ASSUME NEW k \in Conns, ReaderGetsMessage(k) PROVE FirstDial'
    BY <1>6 DEF ReaderGetsMessage
  <1>7. ASSUME NEW k \in Conns, ReaderFails(k) PROVE FirstDial'
    BY <1>7 DEF ReaderFails
  <1>8. ASSUME NEW k \in Conns, ReaderClears(k) PROVE FirstDial'
    BY <1>8 DEF ReaderClears
  <1>9. CASE RemoveSpeaker
    BY <1>9 DEF RemoveSpeaker
  <1>10. CASE TakeError
    BY <1>10 DEF TakeError
  <1>11. CASE CheckConnected
    BY <1>11 DEF CheckConnected
  <1>12. CASE RunnerConnects
    BY <1>12 DEF RunnerConnects
  <1>13. CASE RunnerDialled
    BY <1>13 DEF RunnerDialled
  <1>14. CASE TakeChunk
    BY <1>14 DEF TakeChunk
  <1>15. CASE ChunkChecked
    BY <1>15 DEF ChunkChecked
  <1>16. CASE WriteStarts
    BY <1>16 DEF WriteStarts
  <1>17. CASE WriteEnds
    BY <1>17 DEF WriteEnds
  <1>18. CASE StartDrain
    BY <1>18 DEF StartDrain
  <1>19. CASE DrainTimeout
    BY <1>19 DEF DrainTimeout
  <1>20. CASE CloseConn
    BY <1>20 DEF CloseConn
  <1>21. CASE CloseReturns
    BY <1>21 DEF CloseReturns
  <1>22. CASE UNCHANGED vars
    BY <1>22
  <1>23. QED
    BY <1>1, <1>2, <1>3, <1>4, <1>5, <1>6, <1>7, <1>8, <1>9, <1>10, <1>11, <1>12,
       <1>13, <1>14, <1>15, <1>16, <1>17, <1>18, <1>19, <1>20, <1>21, <1>22, NextCases

\* A connection is made only when the read loop of the last one has ended.
LEMMA LatestStep ==
  ASSUME Inv, [Next]_vars
  PROVE  Latest'
  <1> USE ModalAssumption DEF ModalAssumption, Inv, TypeOK, Conns, NilConn, vars,
      clientVars, readerVars, loopVars, Moves, RunnerMoves, NewConnection, Latest,
      Locking, FirstDial, Closing, Readers
  <1>1. CASE StarterConnects
    BY <1>1 DEF StarterConnects
  <1>2. CASE StarterDialled
    BY <1>2 DEF StarterDialled
  <1>3. CASE DialFails
    BY <1>3 DEF DialFails
  <1>4. ASSUME NEW k \in Conns, ReaderChecks(k) PROVE Latest'
    BY <1>4 DEF ReaderChecks
  <1>5. ASSUME NEW k \in Conns, ReaderReads(k) PROVE Latest'
    BY <1>5 DEF ReaderReads
  <1>6. ASSUME NEW k \in Conns, ReaderGetsMessage(k) PROVE Latest'
    BY <1>6 DEF ReaderGetsMessage
  <1>7. ASSUME NEW k \in Conns, ReaderFails(k) PROVE Latest'
    BY <1>7 DEF ReaderFails
  <1>8. ASSUME NEW k \in Conns, ReaderClears(k) PROVE Latest'
    BY <1>8 DEF ReaderClears
  <1>9. CASE RemoveSpeaker
    BY <1>9 DEF RemoveSpeaker
  <1>10. CASE TakeError
    BY <1>10 DEF TakeError
  <1>11. CASE CheckConnected
    BY <1>11 DEF CheckConnected
  <1>12. CASE RunnerConnects
    BY <1>12 DEF RunnerConnects
  <1>13. CASE RunnerDialled
    <2>1. Readers = {} /\ starter = "done" /\ dialled' = dialled + 1 /\ dialled' \in Conns
      BY <1>13 DEF RunnerDialled
    <2>2. \A j \in Conns : reader'[j] = IF j = dialled' THEN "top" ELSE reader[j]
      BY <1>13 DEF RunnerDialled
    <2>3. Readers' = {dialled'}
      BY <2>1, <2>2
    <2>4. conn' = dialled' /\ connected' = TRUE /\ open' = open \cup {dialled'}
          /\ runner' = "select" /\ UNCHANGED <<readerConn, clientDone>>
      BY <1>13 DEF RunnerDialled
    <2>5. \A j \in Conns : j > dialled' => reader'[j] = "none"
      BY <2>1, <2>2
    <2>6. \A j \in Conns : reader'[j] # "reading"
      BY <2>1, <2>2
    <2>7. conn' # NilConn /\ conn' \in open' /\ conn' \in Readers'
      BY <2>1, <2>3, <2>4
    <2>8. connected' = TRUE /\ runner' = "select"
      BY <2>4
    <2>9. /\ conn' \in {NilConn, dialled'}
          /\ \A j \in Readers' : j = dialled'
          /\ \A j \in Conns : reader'[j] = "reading" => readerConn'[j] = j
      BY <2>3, <2>4, <2>6
    <2>10. QED
      BY <2>5, <2>7, <2>8, <2>9, Zenon DEF Latest
  <1>14. CASE TakeChunk
    BY <1>14 DEF TakeChunk
  <1>15. CASE ChunkChecked
    BY <1>15 DEF ChunkChecked
  <1>16. CASE WriteStarts
    BY <1>16 DEF WriteStarts
  <1>17. CASE WriteEnds
    BY <1>17 DEF WriteEnds
  <1>18. CASE StartDrain
    BY <1>18 DEF StartDrain
  <1>19. CASE DrainTimeout
    BY <1>19 DEF DrainTimeout
  <1>20. CASE CloseConn
    BY <1>20 DEF CloseConn
  <1>21. CASE CloseReturns
    BY <1>21 DEF CloseReturns
  <1>22. CASE UNCHANGED vars
    BY <1>22
  <1>23. QED
    BY <1>1, <1>2, <1>3, <1>4, <1>5, <1>6, <1>7, <1>8, <1>9, <1>10, <1>11, <1>12,
       <1>13, <1>14, <1>15, <1>16, <1>17, <1>18, <1>19, <1>20, <1>21, <1>22, NextCases

\* A cancelled context keeps a late starter from dialling.
LEMMA ClosingStep ==
  ASSUME Inv, [Next]_vars
  PROVE  Closing'
  <1> USE ModalAssumption DEF ModalAssumption, Inv, TypeOK, Conns, NilConn, vars,
      clientVars, readerVars, loopVars, Moves, RunnerMoves, NewConnection, Closing,
      Locking, FirstDial, Latest, Readers
  <1>1. CASE StarterConnects
    BY <1>1 DEF StarterConnects
  <1>2. CASE StarterDialled
    BY <1>2 DEF StarterDialled
  <1>3. CASE DialFails
    BY <1>3 DEF DialFails
  <1>4. ASSUME NEW k \in Conns, ReaderChecks(k) PROVE Closing'
    BY <1>4 DEF ReaderChecks
  <1>5. ASSUME NEW k \in Conns, ReaderReads(k) PROVE Closing'
    BY <1>5 DEF ReaderReads
  <1>6. ASSUME NEW k \in Conns, ReaderGetsMessage(k) PROVE Closing'
    BY <1>6 DEF ReaderGetsMessage
  <1>7. ASSUME NEW k \in Conns, ReaderFails(k) PROVE Closing'
    BY <1>7 DEF ReaderFails
  <1>8. ASSUME NEW k \in Conns, ReaderClears(k) PROVE Closing'
    BY <1>8 DEF ReaderClears
  <1>9. CASE RemoveSpeaker
    BY <1>9 DEF RemoveSpeaker
  <1>10. CASE TakeError
    BY <1>10 DEF TakeError
  <1>11. CASE CheckConnected
    BY <1>11 DEF CheckConnected
  <1>12. CASE RunnerConnects
    BY <1>12 DEF RunnerConnects
  <1>13. CASE RunnerDialled
    BY <1>13 DEF RunnerDialled
  <1>14. CASE TakeChunk
    BY <1>14 DEF TakeChunk
  <1>15. CASE ChunkChecked
    BY <1>15 DEF ChunkChecked
  <1>16. CASE WriteStarts
    BY <1>16 DEF WriteStarts
  <1>17. CASE WriteEnds
    BY <1>17 DEF WriteEnds
  <1>18. CASE StartDrain
    BY <1>18 DEF StartDrain
  <1>19. CASE DrainTimeout
    BY <1>19 DEF DrainTimeout
  <1>20. CASE CloseConn
    BY <1>20 DEF CloseConn
  <1>21. CASE CloseReturns
    BY <1>21 DEF CloseReturns
  <1>22. CASE UNCHANGED vars
    BY <1>22
  <1>23. QED
    BY <1>1, <1>2, <1>3, <1>4, <1>5, <1>6, <1>7, <1>8, <1>9, <1>10, <1>11, <1>12,
       <1>13, <1>14, <1>15, <1>16, <1>17, <1>18, <1>19, <1>20, <1>21, <1>22, NextCases

LEMMA InvStep == Inv /\ [Next]_vars => Inv'
  BY TypeStep, LockingStep, FirstDialStep, LatestStep, ClosingStep DEF Inv

LEMMA InvAlways == Spec => []Inv
  BY InvInit, InvStep, PTL DEF Spec

-----------------------------------------------------------------------------
\* Every variable keeps its type; in particular errCh stays within its capacity and
\* the attempts within their limit.
THEOREM TypeCorrect == Spec => []TypeOK
  <1>1. Inv => TypeOK
    BY DEF Inv
  <1>2. QED
    BY <1>1, InvAlways, PTL

\* However errors, reconnects and removals interleave, one read loop runs at a time
\* and reads its own connection.
THEOREM ReadsAlone == Spec => []OneReader
  <1>1. Inv => OneReader
    BY DEF Inv, Latest, OneReader
  <1>2. QED
    BY <1>1, InvAlways, PTL

\* Until run returns a connection believed to be up has a read loop.
THEOREM LossIsSeen == Spec => []LossGetsNoticed
  <1>1. Inv => LossGetsNoticed
    BY DEF Inv, Latest, LossGetsNoticed
  <1>2. QED
    BY <1>1, InvAlways, PTL

\* Audio is written under the lock to a connection that was up when it was taken.
THEOREM WritesAreSafe == Spec => []WritesToLiveConn
  <1>1. Inv => WritesToLiveConn
    BY DEF Inv, Latest, Locking, WritesToLiveConn
  <1>2. QED
    BY <1>1, InvAlways, PTL

\* After run nothing comes up again, not even from a late starter.
THEOREM StaysClosed == Spec => []ClosedForGood
  <1>1. Inv => ClosedForGood
    BY DEF Inv, Locking, Closing, TypeOK, ClosedForGood
  <1>2. QED
    BY <1>1, InvAlways, PTL

-----------------------------------------------------------------------------
(* The client is a Link.                                                    *)

\* What of the client the link sees.
Current == IF connected THEN conn ELSE NilConn
Closed  == runner \in {"wait", "ended"}

LEMMA LinkStutters ==
  ASSUME UNCHANGED <<Current, dialled, Closed>>
  PROVE  UNCHANGED Speech!vars
  BY DEF Speech!vars, Current, Closed

\* A dial ends with a new connection only when none is up and Close has not passed:
\* while a dial lasts c.mu keeps Close away, and only it can change the flag.
LEMMA DialConnects ==
  ASSUME Inv, NewConnection, ~Closed, ~Closed', ~connected
  PROVE  Speech!Connect
  <1>1. Current = 0 /\ Current' = dialled' /\ dialled' = dialled + 1
    BY DEF NewConnection, Current, NilConn
  <1>2. QED
    BY <1>1 DEF Speech!Connect, Current, Closed

\* A step of the client is a step of the link, or none.
LEMMA LinkStep ==
  ASSUME Inv, [Next]_vars
  PROVE  [Speech!Next]_(Speech!vars)
  <1> USE DEF vars, clientVars, readerVars, loopVars, Moves, RunnerMoves
  <1>1. CASE StarterDialled
    <2>1. NewConnection /\ starter = "dial" /\ UNCHANGED runner
      BY <1>1 DEF StarterDialled
    <2>2. dialled = 0 /\ ~Closed /\ ~Closed'
      BY <2>1 DEF Inv, FirstDial, Closing, Closed
    <2>3. ~connected
      BY <2>2 DEF Inv, Latest, NilConn
    <2>4. QED
      BY <2>1, <2>2, <2>3, DialConnects DEF Speech!Next
  <1>2. CASE RunnerDialled
    <2>1. NewConnection /\ runner = "dial" /\ runner' = "select"
      BY <1>2 DEF RunnerDialled
    <2>2. ~connected /\ ~Closed /\ ~Closed'
      BY <2>1 DEF Inv, Latest, Closed
    <2>3. QED
      BY <2>1, <2>2, DialConnects DEF Speech!Next
  <1>3. ASSUME NEW k \in Conns, ReaderClears(k) PROVE [Speech!Next]_(Speech!vars)
    <2>1. Current' = 0 /\ UNCHANGED <<dialled, Closed>>
      BY <1>3 DEF ReaderClears, Current, Closed, NilConn
    <2>2. CASE Current = 0
      BY <2>1, <2>2, LinkStutters
    <2>3. CASE Current # 0
      BY <2>1, <2>3 DEF Speech!Next, Speech!Lose, Current, Closed
    <2>4. QED
      BY <2>2, <2>3
  <1>4. CASE CloseConn
    <2>1. ~Closed /\ Closed' /\ Current' = 0 /\ UNCHANGED dialled
      BY <1>4 DEF CloseConn, Current, Closed, NilConn
    <2>2. QED
      BY <2>1 DEF Speech!Next, Speech!Close, Current, Closed
  <1>5. CASE CloseReturns
    <2>1. UNCHANGED <<Current, dialled, Closed>>
      BY <1>5 DEF CloseReturns, Current, Closed
    <2>2. QED
      BY <2>1, LinkStutters
  <1>6. ASSUME NEW k \in Conns,
               \/ ReaderChecks(k) \/ ReaderReads(k) \/ ReaderGetsMessage(k) \/ ReaderFails(k)
        PROVE  [Speech!Next]_(Speech!vars)
    <2>1. UNCHANGED <<Current, dialled, Closed>>
      BY <1>6 DEF ReaderChecks, ReaderReads, ReaderGetsMessage, ReaderFails, Current, Closed
    <2>2. QED
      BY <2>1, LinkStutters
  <1>7. CASE \/ StarterConnects \/ DialFails \/ RemoveSpeaker \/ TakeError \/ CheckConnected
             \/ RunnerConnects \/ TakeChunk \/ ChunkChecked \/ WriteStarts \/ WriteEnds
             \/ StartDrain \/ DrainTimeout \/ UNCHANGED vars
    <2>1. UNCHANGED <<conn, connected, dialled>>
      BY <1>7 DEF StarterConnects, DialFails, RemoveSpeaker, TakeError, CheckConnected,
         RunnerConnects, TakeChunk, ChunkChecked, WriteStarts, WriteEnds, StartDrain,
         DrainTimeout
    <2>2. runner' = runner \/ (~Closed /\ ~Closed')
      BY <1>7 DEF StarterConnects, DialFails, RemoveSpeaker, TakeError, CheckConnected,
         RunnerConnects, TakeChunk, ChunkChecked, WriteStarts, WriteEnds, StartDrain,
         DrainTimeout, Closed
    <2>3. UNCHANGED Closed
      <3>1. CASE runner' = runner
        BY <3>1 DEF Closed
      <3>2. CASE ~Closed /\ ~Closed'
        BY <3>2 DEF Closed
      <3>3. QED
        BY <2>2, <3>1, <3>2
    <2>5. UNCHANGED <<Current, dialled, Closed>>
      BY <2>1, <2>3 DEF Current
    <2>4. QED
      BY <2>5, LinkStutters
  <1>8. QED
    BY <1>1, <1>2, <1>3, <1>4, <1>5, <1>6, <1>7, NextCases

LEMMA LinkStart == Init => Speech!Init
  BY DEF Init, Speech!Init, NilConn

\* To the run loop the client is a Link: connections are made one at a time, whoever
\* dials them, and none after Close.
THEOREM GivesLink == Spec => LinkSpec
  <1>1. Inv /\ [Next]_vars => [Speech!Next]_(Speech!vars)
    BY LinkStep
  <1>2. QED
    BY <1>1, LinkStart, InvAlways, PTL DEF Spec, LinkSpec, Speech!Spec

=============================================================================
