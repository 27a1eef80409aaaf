--------------------------- MODULE RoomDirectory ---------------------------
(***************************************************************************)
(* What the HTTP API promises to Nextcloud Talk: for every room token,     *)
(* transcription is on or off, and a request takes effect at one moment    *)
(* between its arrival and its answer. The answer tells what happened at   *)
(* that moment: a join may fail, and then changes nothing; a DELETE of a   *)
(* room that is off is an error; a POST with enable = false is not. Once   *)
(* the service closes, it takes no new request and turns rooms off by      *)
(* itself.                                                                 *)
(***************************************************************************)
EXTENDS Naturals

CONSTANTS Tokens, Requests

VARIABLES
  on,       \* the tokens whose transcription is on
  asked,    \* what each request asks: an operation and a token
  phase,    \* idle, open, decided, answered
  answer,   \* none, ok, error
  serving   \* new requests are accepted

dirVars == <<on, asked, phase, answer, serving>>

Operations == {"join", "disable", "stop", "count"}
Calls == [op : Operations, token : Tokens]

DirInit ==
  /\ on = {} /\ serving = TRUE
  /\ asked \in [Requests -> Calls]
  /\ phase = [r \in Requests |-> "idle"] /\ answer = [r \in Requests |-> "none"]

Ask(r) ==
  /\ serving /\ phase[r] = "idle" /\ phase' = [phase EXCEPT ![r] = "open"]
  /\ \E c \in Calls : asked' = [asked EXCEPT ![r] = c]
  /\ UNCHANGED <<on, answer, serving>>

\* The moment a request takes effect, and what its answer will be.
Effect(op, t, ans) ==
  \/ op = "join" /\ ans = "ok" /\ on' = on \cup {t}
  \/ op = "join" /\ ans = "error" /\ t \notin on /\ UNCHANGED on
  \/ op = "stop" /\ ans = "ok" /\ t \in on /\ on' = on \ {t}
  \/ op = "stop" /\ ans = "error" /\ t \notin on /\ UNCHANGED on
  \/ op = "disable" /\ ans = "ok" /\ on' = on \ {t}
  \/ op = "count" /\ ans = "ok" /\ UNCHANGED on

Decide(r) ==
  /\ phase[r] = "open" /\ phase' = [phase EXCEPT ![r] = "decided"]
  /\ \E ans \in {"ok", "error"} :
       /\ Effect(asked[r].op, asked[r].token, ans)
       /\ answer' = [answer EXCEPT ![r] = ans]
  /\ UNCHANGED <<asked, serving>>

Respond(r) ==
  /\ phase[r] = "decided" /\ phase' = [phase EXCEPT ![r] = "answered"]
  /\ UNCHANGED <<on, asked, answer, serving>>

StopServing == serving /\ serving' = FALSE /\ UNCHANGED <<on, asked, phase, answer>>

TurnOff(t) ==
  /\ ~serving /\ t \in on /\ on' = on \ {t}
  /\ UNCHANGED <<asked, phase, answer, serving>>

DirNext ==
  \/ \E r \in Requests : Ask(r) \/ Decide(r) \/ Respond(r)
  \/ StopServing
  \/ \E t \in Tokens : TurnOff(t)

DirSpec == DirInit /\ [][DirNext]_dirVars

=============================================================================
