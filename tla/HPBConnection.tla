--------------------------- MODULE HPBConnection ---------------------------
(***************************************************************************)
(* One room's connection to the signaling server (HPB): hpb.Client, the    *)
(* orchestrator that reconnects it and LeaveRoom that closes it. Connect,  *)
(* Close and SendMessage take c.mu, Connect for as long as its dial and    *)
(* its hello last, SendMessage for as long as its write does; the read     *)
(* loops use c.conn without it. Every Connect starts a read loop and a     *)
(* write loop.                                                             *)
(*                                                                         *)
(* Connections are numbered in the order they are dialled; loops k were    *)
(* started with connection k. What the messages say is left to module      *)
(* RoomSession. c.closeChan is closed with c.ctx and is left out.          *)
(***************************************************************************)
EXTENDS Naturals, Sequences

CONSTANTS
  MaxDials,  \* bound on the connections of one behaviour
  ErrCap     \* capacity of errChan (10 in the code)

ASSUME HPBAssumption == MaxDials \in Nat \ {0} /\ ErrCap \in Nat \ {0}

NilConn == 0
Conns   == 1 .. MaxDials

VARIABLES
  \* hpb.Client
  conn,
  errors,      \* number of errors in errChan
  clientDone,  \* c.ctx is cancelled
  open,        \* connections not closed by us
  dialled,     \* number of connections so far
  reader,      \* where each read loop is
  readerConn,  \* the connection its ReadMessage is on
  writer,      \* where each write loop is
  panicked,    \* a nil connection was used: the process is gone
  \* the room
  orch,        \* where the orchestrator is
  leaver,      \* where LeaveRoom is
  ctxDone      \* r.ctx is cancelled

connVars == <<conn, clientDone, open, dialled>>
loopVars == <<reader, readerConn, writer, panicked>>
roomVars == <<orch, leaver, ctxDone>>
vars == <<connVars, errors, loopVars, roomVars>>

\* JoinRoom has connected and joined; the orchestrator is started.
Init ==
  /\ conn = 1 /\ errors = 0 /\ clientDone = FALSE
  /\ open = {1} /\ dialled = 1
  /\ reader = [k \in Conns |-> IF k = 1 THEN "top" ELSE "none"]
  /\ readerConn = [k \in Conns |-> NilConn]
  /\ writer = [k \in Conns |-> IF k = 1 THEN "running" ELSE "none"]
  /\ panicked = FALSE
  /\ orch = "select" /\ leaver = "idle" /\ ctxDone = FALSE

\* The loops that have not ended: c.wg.
Readers == {k \in Conns : reader[k] \notin {"none", "ended"}}
Writers == {k \in Conns : writer[k] \notin {"none", "ended"}}

\* c.mu, where it is held for more than a step: over a dial, and over a write without
\* a deadline (the hello, the rejoin, a requestoffer or an answer, a pong).
OrchWrites == {"hello", "joining", "sending"}
Ponging    == {k \in Conns : reader[k] = "ponging"}
Locked     == orch \in {"dial"} \cup OrchWrites \/ Ponging # {}

-----------------------------------------------------------------------------
(* readLoop.                                                                *)

Moves(k, from, to) == reader[k] = from /\ reader' = [reader EXCEPT ![k] = to]

\* The round begins: the context, then the nil check. On nil the loop sleeps.
ReaderChecks(k) ==
  /\ IF clientDone THEN Moves(k, "top", "ended")
                   ELSE conn # NilConn /\ Moves(k, "top", "checked")
  /\ UNCHANGED <<connVars, errors, readerConn, writer, panicked, roomVars>>

\* SetReadDeadline and ReadMessage on c.conn, which is read anew.
ReaderReads(k) ==
  /\ IF conn # NilConn
       THEN /\ Moves(k, "checked", "reading")
            /\ readerConn' = [readerConn EXCEPT ![k] = conn] /\ UNCHANGED panicked
       ELSE reader[k] = "checked" /\ panicked' = TRUE /\ UNCHANGED <<reader, readerConn>>
  /\ UNCHANGED <<connVars, errors, writer, roomVars>>

\* A message. The handlers of hello and ping take c.mu, the others do not.
ReaderGetsMessage(k) ==
  /\ readerConn[k] \in open
  /\ Moves(k, "reading", "top") \/ Moves(k, "reading", "handling")
  /\ UNCHANGED <<connVars, errors, readerConn, writer, panicked, roomVars>>

\* The session is noted, or the pong refused; else the pong is written, under c.mu.
ReaderHandles(k) ==
  /\ ~Locked
  /\ Moves(k, "handling", "top") \/ (conn # NilConn /\ Moves(k, "handling", "ponging"))
  /\ UNCHANGED <<connVars, errors, readerConn, writer, panicked, roomVars>>

PongReturns(k) ==
  /\ Moves(k, "ponging", "top")
  /\ UNCHANGED <<connVars, errors, readerConn, writer, panicked, roomVars>>

\* The read fails. "use of closed connection" ends the loop without a word.
ReaderFails(k) ==
  /\ IF readerConn[k] \in open THEN Moves(k, "reading", "failed")
                               ELSE Moves(k, "reading", "ended")
  /\ UNCHANGED <<connVars, errors, readerConn, writer, panicked, roomVars>>

\* The error is posted, or dropped if errChan is full.
ReaderPosts(k) ==
  /\ Moves(k, "failed", "ended")
  /\ errors' = IF errors < ErrCap THEN errors + 1 ELSE errors
  /\ UNCHANGED <<connVars, readerConn, writer, panicked, roomVars>>

ReadLoop(k) ==
  \/ ReaderChecks(k) \/ ReaderReads(k) \/ ReaderGetsMessage(k)
  \/ ReaderFails(k) \/ ReaderPosts(k)

-----------------------------------------------------------------------------
(* writeLoop: ends with the client. Its pings take c.mu for a write that has *)
(* a deadline and change nothing that is modelled; they are left out.       *)

WriterEnds(k) ==
  /\ writer[k] = "running" /\ clientDone /\ writer' = [writer EXCEPT ![k] = "ended"]
  /\ UNCHANGED <<connVars, errors, reader, readerConn, panicked, roomVars>>

-----------------------------------------------------------------------------
(* The orchestrator: errors, reconnectHPB, Connect and JoinRoom.            *)

OrchMoves(from, to) == orch = from /\ orch' = to

OrchStops ==
  /\ ctxDone /\ OrchMoves("select", "exited")
  /\ UNCHANGED <<connVars, errors, loopVars, leaver, ctxDone>>

TakeError ==
  /\ errors > 0 /\ errors' = errors - 1 /\ OrchMoves("select", "retry")
  /\ UNCHANGED <<connVars, loopVars, leaver, ctxDone>>

\* Each round looks at the context first, then sleeps.
StartRound ==
  /\ OrchMoves("retry", IF ctxDone THEN "select" ELSE "backoff")
  /\ UNCHANGED <<connVars, errors, loopVars, leaver, ctxDone>>

\* Mutants: the old connection is left open; it is kept until the new one is made;
\* the dial ignores the room's context.
ConnectStarts_KeepsOld ==
  /\ orch = "backoff" /\ ~Locked /\ conn' = NilConn
  /\ orch' = IF ctxDone THEN "retry" ELSE "dial"
  /\ UNCHANGED <<clientDone, open, dialled, errors, loopVars, leaver, ctxDone>>

ConnectStarts_KeepsUntilDialled ==
  /\ orch = "backoff" /\ ~Locked
  /\ orch' = IF ctxDone THEN "retry" ELSE "dial"
  /\ UNCHANGED <<connVars, errors, loopVars, leaver, ctxDone>>

ConnectStarts_Background ==
  /\ OrchMoves("backoff", "dial") /\ ~Locked
  /\ open' = open \ {conn} /\ conn' = NilConn
  /\ UNCHANGED <<clientDone, dialled, errors, loopVars, leaver, ctxDone>>

\* The old connection is closed and forgotten, then the dial begins. With a
\* cancelled context it fails; one under way at the cancel may still succeed.
ConnectStarts ==
  /\ orch = "backoff" /\ ~Locked
  /\ open' = open \ {conn} /\ conn' = NilConn
  /\ orch' = IF ctxDone THEN "retry" ELSE "dial"
  /\ UNCHANGED <<clientDone, dialled, errors, loopVars, leaver, ctxDone>>

\* Dialled: the connection is the client's before the hello is written on it.
ConnectDials ==
  /\ OrchMoves("dial", "hello")
  /\ dialled < MaxDials /\ dialled' = dialled + 1
  /\ conn' = dialled' /\ open' = open \cup {dialled'}
  /\ UNCHANGED <<clientDone, errors, loopVars, leaver, ctxDone>>

\* Mutant: one failed dial ends the reconnection.
ConnectFails_GivesUp ==
  /\ OrchMoves("dial", "select")
  /\ UNCHANGED <<connVars, errors, loopVars, leaver, ctxDone>>

ConnectFails ==
  /\ OrchMoves("dial", "retry")
  /\ UNCHANGED <<connVars, errors, loopVars, leaver, ctxDone>>

\* The hello is written: the loops of the new connection start.
HelloWritten ==
  /\ OrchMoves("hello", "rejoin")
  /\ reader' = [reader EXCEPT ![conn] = "top"]
  /\ writer' = [writer EXCEPT ![conn] = "running"]
  /\ UNCHANGED <<connVars, errors, readerConn, panicked, leaver, ctxDone>>

\* It is not: the connection is closed again.
HelloFails ==
  /\ OrchMoves("hello", "retry")
  /\ open' = open \ {conn} /\ conn' = NilConn
  /\ UNCHANGED <<clientDone, dialled, errors, loopVars, leaver, ctxDone>>

\* A message of the room is answered with a requestoffer or an answer.
AnswersRoom ==
  /\ OrchMoves("select", "send")
  /\ UNCHANGED <<connVars, errors, loopVars, leaver, ctxDone>>

\* SendMessage: refused without a connection, else a write without a deadline.
WriteStarts ==
  /\ ~Locked
  /\ \/ OrchMoves("rejoin", IF conn = NilConn THEN "retry" ELSE "joining")
     \/ OrchMoves("send", IF conn = NilConn THEN "select" ELSE "sending")
  /\ UNCHANGED <<connVars, errors, loopVars, leaver, ctxDone>>

\* A rejoin that failed is retried; a failed requestoffer or answer is only logged.
WriteEnds ==
  /\ \/ OrchMoves("joining", "select") \/ OrchMoves("joining", "retry")
     \/ OrchMoves("sending", "select")
  /\ UNCHANGED <<connVars, errors, loopVars, leaver, ctxDone>>

-----------------------------------------------------------------------------
(* LeaveRoom: cancels the room, later closes the client.                    *)

LeaverMoves(from, to) == leaver = from /\ leaver' = to

LeaveRoom ==
  /\ LeaverMoves("idle", "leaving") /\ ctxDone' = TRUE
  /\ UNCHANGED <<connVars, errors, loopVars, orch>>

\* Mutant: the read loops are not told.
CloseStarts_NoCancel ==
  /\ LeaverMoves("leaving", "closing")
  /\ UNCHANGED <<connVars, errors, loopVars, orch, ctxDone>>

CloseStarts ==
  /\ LeaverMoves("leaving", "closing") /\ clientDone' = TRUE
  /\ UNCHANGED <<conn, open, dialled, errors, loopVars, orch, ctxDone>>

CloseConn ==
  /\ LeaverMoves("closing", "waiting") /\ ~Locked
  /\ open' = open \ {conn} /\ conn' = NilConn
  /\ UNCHANGED <<clientDone, dialled, errors, loopVars, orch, ctxDone>>

CloseReturns ==
  /\ LeaverMoves("waiting", "done") /\ Readers = {} /\ Writers = {}
  /\ UNCHANGED <<connVars, errors, loopVars, orch, ctxDone>>

-----------------------------------------------------------------------------
Orchestrate ==
  \/ OrchStops \/ TakeError \/ StartRound \/ ConnectStarts
  \/ ConnectDials \/ ConnectFails \/ AnswersRoom \/ WriteStarts

Leave == CloseStarts \/ CloseConn \/ CloseReturns

Next ==
  /\ ~panicked
  /\ \/ Orchestrate \/ HelloWritten \/ HelloFails \/ WriteEnds \/ LeaveRoom \/ Leave
     \/ \E k \in Conns : ReadLoop(k) \/ ReaderHandles(k) \/ PongReturns(k) \/ WriterEnds(k)

\* Goroutines are scheduled, a mutex goes to every waiter in turn, a select does
\* not pass over a ready case for ever, and dials and reads have deadlines. Nothing
\* is assumed of a write without a deadline (HelloWritten, HelloFails, WriteEnds,
\* PongReturns), of the server's messages, or of LeaveRoom being called. The loops of
\* the read and write goroutines need only be scheduled as a group: after Close each
\* of them has finitely many steps left.
Lives(A) == ~panicked /\ A

Spec ==
  /\ Init /\ [][Next]_vars
  /\ SF_vars(Lives(Orchestrate)) /\ SF_vars(Lives(OrchStops)) /\ SF_vars(Lives(Leave))
  /\ WF_vars(Lives(\E k \in Conns : ReadLoop(k)))
  /\ SF_vars(Lives(\E k \in Conns : ReaderHandles(k)))
  /\ WF_vars(Lives(\E k \in Conns : WriterEnds(k)))

-----------------------------------------------------------------------------
(* Properties.                                                              *)

TypeOK ==
  /\ conn \in {NilConn} \cup Conns /\ errors \in 0 .. ErrCap
  /\ clientDone \in BOOLEAN /\ open \subseteq Conns /\ dialled \in Conns
  /\ reader \in [Conns -> {"none", "top", "checked", "reading", "handling", "ponging",
                        "failed", "ended"}]
  /\ readerConn \in [Conns -> {NilConn} \cup Conns]
  /\ writer \in [Conns -> {"none", "running", "ended"}] /\ panicked \in BOOLEAN
  /\ orch \in {"select", "retry", "backoff", "dial", "hello", "rejoin", "joining",
              "send", "sending", "exited"}
  /\ leaver \in {"idle", "leaving", "closing", "waiting", "done"} /\ ctxDone \in BOOLEAN

\* The room never has a second session at the server through a connection it forgot.
OneConnection == open \subseteq {conn} \ {NilConn}

\* While the room lives, an orchestrator that is not reconnecting has a connection
\* with a read loop on it or an error waiting for it: a dead connection is never
\* taken for a quiet room, though stale errors and read loops are about.
NoSilentDeath ==
  orch \in {"select", "send", "sending"} /\ ~ctxDone =>
    \/ errors > 0
    \/ conn \in open /\ \E k \in Readers : reader[k] = "reading" => readerConn[k] = conn

\* When Close has returned the client stays closed: no connection, no loop, and an
\* orchestrator still in reconnectHPB can no longer connect.
ClosedForGood ==
  leaver = "done" =>
    /\ conn = NilConn /\ open = {} /\ Readers = {} /\ Writers = {}
    /\ orch \notin {"dial", "hello"}

\* To the room the client is a Link: a reconnection gives up the old connection
\* before it makes the next one, and none is made once Close has closed the client,
\* whatever reconnection is under way (client.go 107-164, 649-663).
Signaling == INSTANCE Link WITH
  current <- conn, made <- dialled, closed <- leaver \in {"waiting", "done"}

LinkSpec == Signaling!Spec

\* LeaveRoom gets through Close, whatever state of a reconnection it meets, unless a
\* write that holds c.mu blocks for ever: a hello, a rejoin, a requestoffer, an answer
\* or a read loop's pong (or the process is gone).
SomeWriteStalls == <>[](orch \in OrchWrites \/ Ponging # {})

CloseReturnsUnlessStalled ==
  SomeWriteStalls \/ (leaver = "leaving" ~> (leaver = "done" \/ panicked))

\* What the design says of a long run: nothing is leaked. A connection that was
\* replaced takes its write loop with it.
ReplacedWriterEnds ==
  SomeWriteStalls \/
  \A k \in Conns : (conn > k) ~> (writer[k] = "ended" \/ clientDone \/ panicked)

\* What the spec says of a failure: recovery by reconnecting, the others served on.
\* No reconnection of a live room uses the connection it has just cleared.
RecoveryIsSafe == panicked => clientDone

=============================================================================
