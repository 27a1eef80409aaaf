---------------------------- MODULE ModalSession ----------------------------
(***************************************************************************)
(* One speaker's connection to the speech service: modal.Client and the    *)
(* goroutines that share it. The starter dials the first connection in the *)
(* background, the run loop (runner) handles errors, reconnects, sends     *)
(* audio and finally closes the client, and every connection has a read    *)
(* loop. Connect, Close, IsConnected and SendAudio take c.mu; the read     *)
(* loops use c.conn without it.                                            *)
(*                                                                         *)
(* Connections are numbered in the order they are dialled; read loop k was *)
(* started by the Connect that dialled connection k. Transcripts are left  *)
(* to module Captions.                                                     *)
(***************************************************************************)
EXTENDS Naturals, Sequences

CONSTANTS
  MaxDials,     \* bound on the connections of one behaviour
  MaxAttempts,  \* maxAttempts of the run loop (5 in the code)
  ErrCap        \* capacity of errCh (10 in the code)

ASSUME ModalAssumption == MaxDials \in Nat /\ MaxAttempts \in Nat /\ ErrCap \in Nat \ {0}

NilConn == 0
Conns   == 1 .. MaxDials
Kinds   == {"normal", "lost", "service"}

VARIABLES
  \* modal.Client
  conn, connected, errCh,
  lock,        \* who holds c.mu across more than one step, or "free"
  clientDone,  \* c.ctx is cancelled
  open,        \* connections not closed by us
  dialled,     \* number of connections so far
  reader,      \* where each read loop is
  readerConn,  \* the connection its ReadMessage is on
  panicked,    \* a nil connection was used: the process is gone
  \* Transcriber
  starter,     \* the goroutine that makes the first connection
  runner,      \* where the run loop is
  draining,    \* the run loop is in drainOnShutdown
  attempts,    \* modalConnectAttempts
  ctxDone,     \* t.ctx is cancelled
  \* history, for the properties
  failed       \* connections whose read failed other than by a normal close

clientVars == <<conn, connected, clientDone, open, dialled>>
readerVars == <<reader, readerConn, panicked, failed>>
loopVars   == <<draining, attempts, ctxDone>>
vars == <<clientVars, errCh, lock, readerVars, starter, runner, loopVars>>

Init ==
  /\ conn = NilConn /\ connected = FALSE /\ errCh = <<>> /\ lock = "free"
  /\ clientDone = FALSE /\ open = {} /\ dialled = 0
  /\ reader = [k \in Conns |-> "none"] /\ readerConn = [k \in Conns |-> NilConn]
  /\ panicked = FALSE /\ failed = {}
  /\ starter = "start" /\ runner = "select"
  /\ draining = FALSE /\ attempts = 0 /\ ctxDone = FALSE

\* The read loops that have not ended: c.wg.
Readers == {k \in Conns : reader[k] \in {"top", "checked", "reading", "clearing"}}

-----------------------------------------------------------------------------
(* Connect, for the starter and for the run loop: c.mu is held while the    *)
(* dial lasts. A dial begun with a cancelled context fails; one that is     *)
(* under way when the context is cancelled may still succeed.               *)

\* Mutant: the first dial does not use the transcriber's context.
StarterConnects_Background ==
  /\ starter = "start" /\ lock = "free"
  /\ starter' = "dial" /\ lock' = "starter"
  /\ UNCHANGED <<clientVars, errCh, readerVars, runner, loopVars>>

StarterConnects ==
  /\ starter = "start" /\ lock = "free"
  /\ IF ctxDone THEN starter' = "done" /\ UNCHANGED lock
                ELSE starter' = "dial" /\ lock' = "starter"
  /\ UNCHANGED <<clientVars, errCh, readerVars, runner, loopVars>>

\* After the backoff. A failed attempt stays counted.
RunnerConnects ==
  /\ runner = "backoff" /\ lock = "free"
  /\ IF ctxDone THEN runner' = "select" /\ UNCHANGED lock
                ELSE runner' = "dial" /\ lock' = "runner"
  /\ UNCHANGED <<clientVars, errCh, readerVars, starter, loopVars>>

\* The connection is stored, its read loop started, c.mu released.
NewConnection ==
  /\ dialled < MaxDials /\ dialled' = dialled + 1
  /\ conn' = dialled' /\ connected' = TRUE /\ open' = open \cup {dialled'}
  /\ reader' = [reader EXCEPT ![dialled'] = "top"] /\ lock' = "free"
  /\ UNCHANGED <<errCh, clientDone, readerConn, panicked, failed>>

StarterDialled ==
  /\ starter = "dial" /\ starter' = "done" /\ NewConnection
  /\ UNCHANGED <<runner, loopVars>>

RunnerDialled ==
  /\ runner = "dial" /\ runner' = "select" /\ NewConnection
  /\ attempts' = 0 /\ UNCHANGED <<starter, draining, ctxDone>>

DialFails ==
  /\ \/ starter = "dial" /\ starter' = "done" /\ UNCHANGED runner
     \/ runner = "dial" /\ runner' = "select" /\ UNCHANGED starter
  /\ lock' = "free"
  /\ UNCHANGED <<clientVars, errCh, readerVars, loopVars>>

-----------------------------------------------------------------------------
(* readLoop.                                                                *)

Moves(k, from, to) == reader[k] = from /\ reader' = [reader EXCEPT ![k] = to]

\* Non-blocking: an error that finds errCh full is dropped.
Post(kind) == errCh' = IF Len(errCh) < ErrCap THEN Append(errCh, kind) ELSE errCh

\* The round begins: the context, then the nil check. On nil the loop sleeps.
ReaderChecks(k) ==
  /\ IF clientDone THEN Moves(k, "top", "ended")
                   ELSE conn # NilConn /\ Moves(k, "top", "checked")
  /\ UNCHANGED <<clientVars, errCh, lock, readerConn, panicked, failed, starter, runner, loopVars>>

\* SetReadDeadline and ReadMessage on c.conn, which is read anew.
ReaderReads(k) ==
  /\ IF conn # NilConn
       THEN /\ Moves(k, "checked", "reading")
            /\ readerConn' = [readerConn EXCEPT ![k] = conn] /\ UNCHANGED panicked
       ELSE reader[k] = "checked" /\ panicked' = TRUE /\ UNCHANGED <<reader, readerConn>>
  /\ UNCHANGED <<clientVars, errCh, lock, failed, starter, runner, loopVars>>

\* A message: a transcript for transcriptCh, or an error of the service.
ReaderGetsMessage(k) ==
  /\ readerConn[k] \in open /\ Moves(k, "reading", "top")
  /\ UNCHANGED errCh \/ Post("service")
  /\ UNCHANGED <<clientVars, lock, readerConn, panicked, failed, starter, runner, loopVars>>

\* The read fails: normal close, loss or 120 s deadline, or closed by us. The
\* error is posted before connected is cleared.
ReaderFails(k) ==
  /\ Moves(k, "reading", "clearing")
  /\ \/ readerConn[k] \in open /\ Post("normal") /\ UNCHANGED failed
     \/ Post("lost") /\ failed' = failed \cup {readerConn[k]}
  /\ UNCHANGED <<clientVars, lock, readerConn, panicked, starter, runner, loopVars>>

\* Mutant: the flag is not cleared.
ReaderClears_Not(k) ==
  /\ lock = "free" /\ Moves(k, "clearing", "ended")
  /\ UNCHANGED <<clientVars, errCh, lock, readerConn, panicked, failed, starter, runner, loopVars>>

ReaderClears(k) ==
  /\ lock = "free" /\ Moves(k, "clearing", "ended") /\ connected' = FALSE
  /\ UNCHANGED <<conn, clientDone, open, dialled, errCh, lock, readerConn, panicked, failed,
                 starter, runner, loopVars>>

ReaderSteps(k) == ReaderChecks(k) \/ ReaderReads(k) \/ ReaderGetsMessage(k) \/ ReaderFails(k)

-----------------------------------------------------------------------------
(* The run loop.                                                            *)

RunnerMoves(from, to) == runner = from /\ runner' = to

RemoveSpeaker ==
  /\ ~ctxDone /\ ctxDone' = TRUE
  /\ UNCHANGED <<clientVars, errCh, lock, readerVars, starter, runner, draining, attempts>>

\* The drain logs an error; the loop ignores a normal close.
TakeError ==
  /\ runner = "select" /\ errCh # <<>> /\ errCh' = Tail(errCh)
  /\ runner' = IF draining \/ Head(errCh) = "normal" THEN "select" ELSE "check"
  /\ UNCHANGED <<clientVars, lock, readerVars, starter, loopVars>>

\* Mutant: any error of the service leads to a reconnect.
CheckConnected_Ignored ==
  /\ runner = "check" /\ lock = "free"
  /\ IF attempts < MaxAttempts
       THEN runner' = "backoff" /\ attempts' = attempts + 1
       ELSE runner' = "select" /\ UNCHANGED attempts
  /\ UNCHANGED <<clientVars, errCh, lock, readerVars, starter, draining, ctxDone>>

CheckConnected ==
  /\ runner = "check" /\ lock = "free"
  /\ IF ~connected /\ attempts < MaxAttempts
       THEN runner' = "backoff" /\ attempts' = attempts + 1
       ELSE runner' = "select" /\ UNCHANGED attempts
  /\ UNCHANGED <<clientVars, errCh, lock, readerVars, starter, draining, ctxDone>>

TakeChunk ==
  /\ RunnerMoves("select", "chunk")
  /\ UNCHANGED <<clientVars, errCh, lock, readerVars, starter, loopVars>>

\* IsConnected, then SendAudio, which takes c.mu again and looks again.
ChunkChecked ==
  /\ runner = "chunk" /\ lock = "free"
  /\ runner' = IF connected THEN "send" ELSE "select"
  /\ UNCHANGED <<clientVars, errCh, lock, readerVars, starter, loopVars>>

\* Mutant: SendAudio relies on the check its caller made.
WriteStarts_Unchecked ==
  /\ RunnerMoves("send", "write") /\ lock = "free" /\ lock' = "runner"
  /\ UNCHANGED <<clientVars, errCh, readerVars, starter, loopVars>>

WriteStarts ==
  /\ runner = "send" /\ lock = "free"
  /\ IF conn # NilConn /\ connected THEN runner' = "write" /\ lock' = "runner"
                                    ELSE runner' = "select" /\ UNCHANGED lock
  /\ UNCHANGED <<clientVars, errCh, readerVars, starter, loopVars>>

\* WriteMessage has no deadline: it ends when the service reads on, if ever.
WriteEnds ==
  /\ RunnerMoves("write", "select") /\ lock' = "free"
  /\ UNCHANGED <<clientVars, errCh, readerVars, starter, loopVars>>

StartDrain ==
  /\ runner = "select" /\ ctxDone /\ ~draining /\ draining' = TRUE
  /\ UNCHANGED <<clientVars, errCh, lock, readerVars, starter, runner, attempts, ctxDone>>

\* run returns: the deferred Close cancels the client's context,
DrainTimeout ==
  /\ RunnerMoves("select", "close") /\ draining /\ clientDone' = TRUE
  /\ UNCHANGED <<conn, connected, open, dialled, errCh, lock, readerVars, starter, loopVars>>

\* Mutant: c.mu is kept while the read loops are awaited.
CloseConn_KeepsLock ==
  /\ RunnerMoves("close", "wait") /\ lock = "free" /\ lock' = "runner"
  /\ open' = open \ {conn} /\ conn' = NilConn /\ connected' = FALSE
  /\ UNCHANGED <<clientDone, dialled, errCh, readerVars, starter, loopVars>>

\* Mutant: c.mu is not taken, so that Close does not wait for a dial.
CloseConn_Unlocked ==
  /\ RunnerMoves("close", "wait")
  /\ IF conn # NilConn
       THEN open' = open \ {conn} /\ conn' = NilConn /\ connected' = FALSE
       ELSE UNCHANGED <<open, conn, connected>>
  /\ UNCHANGED <<clientDone, dialled, errCh, lock, readerVars, starter, loopVars>>

\* closes the connection under c.mu,
CloseConn ==
  /\ RunnerMoves("close", "wait") /\ lock = "free"
  /\ IF conn # NilConn
       THEN open' = open \ {conn} /\ conn' = NilConn /\ connected' = FALSE
       ELSE UNCHANGED <<open, conn, connected>>
  /\ UNCHANGED <<clientDone, dialled, errCh, lock, readerVars, starter, loopVars>>

\* and waits for the read loops.
CloseReturns ==
  /\ RunnerMoves("wait", "ended") /\ Readers = {}
  /\ UNCHANGED <<clientVars, errCh, lock, readerVars, starter, loopVars>>

RunLoop ==
  \/ TakeError \/ CheckConnected \/ RunnerConnects \/ RunnerDialled
  \/ TakeChunk \/ ChunkChecked \/ WriteStarts \/ WriteEnds
  \/ StartDrain \/ DrainTimeout \/ CloseConn \/ CloseReturns

Next ==
  /\ ~panicked
  /\ \/ StarterConnects \/ StarterDialled \/ DialFails
     \/ \E k \in Conns : ReaderSteps(k) \/ ReaderClears(k)
     \/ RemoveSpeaker \/ RunLoop

\* Goroutines are scheduled, a mutex goes to every waiter in turn, a select does
\* not pass over a ready case for ever, and dials and reads have deadlines. Nothing
\* is assumed of WriteEnds, of the service's answers, or of the speaker leaving.
Lives(A) == ~panicked /\ A

Spec ==
  /\ Init /\ [][Next]_vars
  /\ SF_vars(Lives(StarterConnects)) /\ WF_vars(Lives(StarterDialled \/ RunnerDialled \/ DialFails))
  /\ SF_vars(Lives(CheckConnected \/ RunnerConnects \/ ChunkChecked \/ WriteStarts \/ CloseConn))
  /\ SF_vars(Lives(TakeError)) /\ SF_vars(Lives(StartDrain \/ DrainTimeout))
  /\ WF_vars(Lives(CloseReturns))
  /\ \A k \in Conns : WF_vars(Lives(ReaderSteps(k))) /\ SF_vars(Lives(ReaderClears(k)))

-----------------------------------------------------------------------------
(* Properties.                                                              *)

TypeOK ==
  /\ conn \in {NilConn} \cup Conns /\ connected \in BOOLEAN /\ dialled \in 0 .. MaxDials
  /\ errCh \in Seq(Kinds) /\ Len(errCh) <= ErrCap
  /\ lock \in {"free", "starter", "runner"} /\ clientDone \in BOOLEAN /\ open \subseteq Conns
  /\ reader \in [Conns -> {"none", "top", "checked", "reading", "clearing", "ended"}]
  /\ readerConn \in [Conns -> {NilConn} \cup Conns]
  /\ panicked \in BOOLEAN /\ failed \subseteq Conns
  /\ starter \in {"start", "dial", "done"}
  /\ runner \in {"select", "check", "backoff", "dial", "chunk", "send", "write",
                 "close", "wait", "ended"}
  /\ draining \in BOOLEAN /\ attempts \in 0 .. MaxAttempts /\ ctxDone \in BOOLEAN

\* gorilla allows one reader per connection and the read loops share c.conn: at
\* most one of them runs, and it reads the connection it was started for.
OneReader ==
  /\ \A j, k \in Readers : j = k
  /\ \A k \in Conns : reader[k] = "reading" => readerConn[k] = k

\* Until run returns, a connection believed to be up has a read loop on it that will
\* notice its loss: audio is not fed to one that nobody listens to any more.
LossGetsNoticed == connected /\ ~clientDone => conn # NilConn /\ conn \in Readers

\* A chunk is written with c.mu held, to a connection that was up when SendAudio
\* looked, although IsConnected was asked before and c.mu released in between.
WritesToLiveConn == runner = "write" => lock = "runner" /\ connected /\ conn \in open

\* When run has returned, the client stays closed: no connection, no read loop, and
\* a starter that is late cannot make a new one.
ClosedForGood ==
  runner = "ended" => /\ conn = NilConn /\ ~connected /\ Readers = {}
                      /\ starter # "dial" /\ lock = "free"

\* To the run loop the client is a Link: no connection is made while one is believed
\* to be up, whoever dials, and none once Close has closed it (client.go 75-135, 261-277).
Speech == INSTANCE Link WITH
  current <- IF connected THEN conn ELSE NilConn, made <- dialled,
  closed <- runner \in {"wait", "ended"}

LinkSpec == Speech!Spec

\* A removed speaker's run loop ends, unless a write blocks for ever (or the process
\* is gone).
RunEndsUnlessStalled ==
  <>[](runner = "write") \/ (ctxDone ~> (runner = "ended" \/ panicked))

\* What the spec says of a lost connection: the service reconnects. A loss seen by
\* the current read loop leads to an attempt while the speaker is there.
LossIsRetried ==
  \A k \in Conns :
    (k \in failed /\ conn = k /\ reader[k] = "ended" /\ attempts = 0 /\ ~ctxDone)
       ~> (conn # k \/ attempts > 0 \/ ctxDone \/ panicked)

\* What the spec says of a failed attempt: up to MaxAttempts are made.
AttemptsContinue ==
  \A n \in 1 .. MaxAttempts - 1 :
    (attempts = n /\ ~connected) ~> (attempts # n \/ connected \/ ctxDone \/ panicked)

=============================================================================
