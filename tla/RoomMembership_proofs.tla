----------------------- MODULE RoomMembership_proofs -----------------------
(***************************************************************************)
(* Safety of RoomMembership for every set of users and any number of       *)
(* connections, changes, queued events and speakers.                       *)
(***************************************************************************)
EXTENDS RoomMembership, TLAPS

LEMMA Distinct ==
  /\ \A u \in Users : u \notin Own
  /\ Own \subseteq Nat /\ 1 \in Own
  BY MembershipAssumption DEF MembershipAssumption, Own

-----------------------------------------------------------------------------
(* Events.                                                                  *)

LEMMA EventFields ==
  ASSUME NEW e \in Events
  PROVE  /\ e.type \in {"join", "leave", "offer", "update", "ended"}
         /\ e.type \in {"join", "leave", "offer"} => e.s \in Sessions
         /\ e.type = "update" => e.entries \subseteq Entries
  BY DEF Events

LEMMA PlainEvents ==
  /\ \A s \in Sessions : \A t \in {"join", "leave", "offer"} : [type |-> t,
         s |-> s] \in Events
  /\ [type |-> "ended"] \in Events
  BY DEF Events

LEMMA UpdateEvents ==
  ASSUME NEW st \in [Users -> UserStates], NEW shown \in SUBSET Own, NEW flagged \in BOOLEAN
  PROVE  Update(st, shown, flagged) \in Events
  <1>1. \A u \in Users : UserEntry(u, st[u]) \in Entries
    BY DEF UserEntry, Entries, Sessions
  <1>2. \A n \in Own : OwnEntry(n, flagged) \in Entries
    BY DEF OwnEntry, Entries, Sessions, UserStates
  <1>3. QED
    BY <1>1, <1>2 DEF Update, Events

LEMMA ChangedEvents ==
  ASSUME NEW u \in Users, NEW st \in UserStates
  PROVE  Changed(u, st) \in Events
  BY DEF Changed, UserEntry, Entries, Sessions, Events

LEMMA PostFits ==
  ASSUME NEW q \in Seq(Events), Len(q) <= QueueCap, NEW e \in Events
  PROVE  /\ Post(q, e) \in Seq(Events) /\ Len(Post(q, e)) <= QueueCap
         /\ Post(q, e) = q \/ Post(q, e) = Append(q, e)
  BY MembershipAssumption DEF MembershipAssumption, Post

LEMMA ReceivesFits ==
  ASSUME TypeOK, NEW t, Receives(t)
  PROVE  /\ queue' \in Seq(Events) /\ Len(queue') <= QueueCap /\ queue' = Tail(queue)
         /\ queue # <<>> /\ Head(queue) \in Events /\ Head(queue).type = t /\ todo = {}
  BY MembershipAssumption DEF MembershipAssumption, TypeOK, Receives

-----------------------------------------------------------------------------
(* What a queue of events says.                                             *)

\* Only the bot's own sessions are marked internal.
Marks(es) == \A x \in es : x.internal => x.s \in Own
MarksOwn(q) == \A i \in DOMAIN q : q[i].type = "update" => Marks(q[i].entries)

\* What an event tells about a user, and what the last one queued tells.
Tells(e, u) == u \in Covered(e)
Says(e, u, st) ==
  /\ e.type = "leave" => st = "away"
  /\ e.type = "update" => \A x \in e.entries : x.s = u => x.state = st
Silent(q, u) == \A i \in DOMAIN q : ~Tells(q[i], u)
LastSays(q, u, st) ==
  \A i \in DOMAIN q :
    Tells(q[i], u) /\ (\A j \in DOMAIN q : j > i => ~Tells(q[j], u)) => Says(q[i], u, st)

LEMMA AppendMarksOwn ==
  ASSUME NEW q \in Seq(Events), NEW e \in Events, MarksOwn(q),
         e.type = "update" => Marks(e.entries)
  PROVE  MarksOwn(Append(q, e))
  BY DEF MarksOwn

LEMMA AppendSilent ==
  ASSUME NEW q \in Seq(Events), NEW e \in Events, NEW u
  PROVE  Silent(Append(q, e), u) <=> Silent(q, u) /\ ~Tells(e, u)
  <1> USE DEF Silent
  <1>1. ASSUME Silent(Append(q, e), u) PROVE Silent(q, u) /\ ~Tells(e, u)
    <2>1. Append(q, e)[Len(q) + 1] = e /\ Len(q) + 1 \in DOMAIN Append(q, e)
      OBVIOUS
    <2>2. \A i \in DOMAIN q : Append(q, e)[i] = q[i] /\ i \in DOMAIN Append(q, e)
      OBVIOUS
    <2>3. QED
      BY <1>1, <2>1, <2>2
  <1>2. ASSUME Silent(q, u), ~Tells(e, u) PROVE Silent(Append(q, e), u)
    BY <1>2
  <1>3. QED
    BY <1>1, <1>2

LEMMA AppendOther ==
  ASSUME NEW q \in Seq(Events), NEW e \in Events, NEW u, NEW st,
         LastSays(q, u, st), ~Tells(e, u)
  PROVE  LastSays(Append(q, e), u, st)
  <1>1. \A i \in DOMAIN q : Append(q, e)[i] = q[i] /\ i \in DOMAIN Append(q, e)
    OBVIOUS
  <1>2. \A i \in DOMAIN Append(q, e) : i \in DOMAIN q \/ Append(q, e)[i] = e
    OBVIOUS
  <1>3. QED
    BY <1>1, <1>2 DEF LastSays

LEMMA AppendTelling ==
  ASSUME NEW q \in Seq(Events), NEW e \in Events, NEW u, NEW st,
         Tells(e, u), Says(e, u, st)
  PROVE  LastSays(Append(q, e), u, st)
  <1>1. Append(q, e)[Len(q) + 1] = e /\ Len(q) + 1 \in DOMAIN Append(q, e)
    OBVIOUS
  <1>2. \A i \in DOMAIN Append(q, e) : Len(q) + 1 > i \/ Append(q, e)[i] = e
    OBVIOUS
  <1>3. QED
    BY <1>1, <1>2 DEF LastSays

LEMMA TailFacts ==
  ASSUME NEW q \in Seq(Events), q # <<>>
  PROVE  /\ MarksOwn(q) => MarksOwn(Tail(q)) /\ (Head(q).type = "update" =>
                Marks(Head(q).entries))
         /\ \A u : Silent(q, u) <=> Silent(Tail(q), u) /\ ~Tells(Head(q), u)
         /\ \A u, st : LastSays(q, u, st) => LastSays(Tail(q), u, st)
         /\ \A u, st : LastSays(q, u, st) /\ Silent(Tail(q), u) /\ Tells(Head(q), u) =>
                Says(Head(q), u, st)
  <1>1. 1 \in DOMAIN q /\ Head(q) = q[1]
    OBVIOUS
  <1>2. \A i \in DOMAIN Tail(q) : i \in Nat /\ i + 1 \in DOMAIN q /\ Tail(q)[i] = q[i + 1]
    OBVIOUS
  <1>3. \A i \in DOMAIN q : i \in Nat /\ (i = 1 \/ (i - 1 \in DOMAIN Tail(q) /\ Tail(q)[i - 1] = q[i]))
    OBVIOUS
  <1>5. MarksOwn(q) => MarksOwn(Tail(q)) /\ (Head(q).type = "update" =>
            Marks(Head(q).entries))
    BY <1>1, <1>2 DEF MarksOwn
  <1>8. \A u : Silent(q, u) <=> Silent(Tail(q), u) /\ ~Tells(Head(q), u)
    <2>1. ASSUME NEW u, Silent(q, u) PROVE Silent(Tail(q), u) /\ ~Tells(Head(q), u)
      BY <1>1, <1>2, <2>1 DEF Silent
    <2>2. ASSUME NEW u, Silent(Tail(q), u), ~Tells(Head(q), u) PROVE Silent(q, u)
      BY <1>1, <1>3, <2>2 DEF Silent
    <2>3. QED
      BY <2>1, <2>2
  <1>9. ASSUME NEW u, NEW st, LastSays(q, u, st) PROVE LastSays(Tail(q), u, st)
    <2> SUFFICES ASSUME NEW i \in DOMAIN Tail(q), Tells(Tail(q)[i], u),
                        \A j \in DOMAIN Tail(q) : j > i => ~Tells(Tail(q)[j], u)
                 PROVE  Says(Tail(q)[i], u, st)
      BY DEF LastSays
    <2>1. ASSUME NEW j \in DOMAIN q, j > i + 1 PROVE ~Tells(q[j], u)
      <3>1. j - 1 \in DOMAIN Tail(q) /\ Tail(q)[j - 1] = q[j] /\ j - 1 > i
        BY <2>1, <1>2, <1>3
      <3>2. QED
        BY <3>1
    <2>2. QED
      BY <1>2, <1>9, <2>1 DEF LastSays
  <1>10. ASSUME NEW u, NEW st, LastSays(q, u, st), Silent(Tail(q), u), Tells(Head(q), u)
         PROVE  Says(Head(q), u, st)
    <2>1. ASSUME NEW j \in DOMAIN q, j > 1 PROVE ~Tells(q[j], u)
      BY <1>3, <1>10, <2>1 DEF Silent
    <2>2. QED
      BY <1>1, <1>10, <2>1 DEF LastSays
  <1>11. QED
    BY <1>5, <1>8, <1>9, <1>10

-----------------------------------------------------------------------------
(* The inductive invariant.                                                 *)

Marked == Marks(todo) /\ MarksOwn(queue)

Agrees(u) ==
  /\ state[u] = "audio" => u \in speakers
  /\ state[u] \in {"away", "room", "ghost"} => u \notin speakers

\* For a user whose last change was not lost: the last event queued says where
\* it is; with none queued, the list being handled does; with neither, the
\* speakers do.
Told(u) ==
  /\ LastSays(queue, u, state[u])
  /\ Silent(queue, u) => \A x \in todo : x.s = u => x.state = state[u]
  /\ Silent(queue, u) /\ (\A x \in todo : x.s # u) => Agrees(u)
AllTold == \A u \in Users \ unsure : Told(u)

Kept == Marked /\ InternalNotSpeakers /\ AllTold
Inv == TypeOK /\ Kept

LEMMA InvInit == Init => Inv
  <1> SUFFICES ASSUME Init PROVE Inv
    OBVIOUS
  <1>1. TypeOK
    <2>1. changes \in 0 .. MaxChanges /\ Len(queue) <= QueueCap /\ queue \in Seq(Events)
      BY MembershipAssumption DEF MembershipAssumption, Init
    <2>2. own \in Own /\ present \subseteq Own /\ askedBy \in [Sessions -> Own]
      BY Distinct DEF Init
    <2>3. state \in [Users -> UserStates] /\ stream \in [Sessions -> Streams]
      BY DEF Init, UserStates, Streams
    <2>4. link \in BOOLEAN /\ \A s \in Sessions : s \in speakers <=> stream[s] # "none"
      BY DEF Init
    <2>5. /\ todo \subseteq Entries /\ speakers \subseteq Sessions /\ internal \subseteq Own
          /\ unsure \subseteq Users /\ due \subseteq {"join", "list"} /\ early \subseteq Own
      BY DEF Init
    <2>6. QED
      BY <2>1, <2>2, <2>3, <2>4, <2>5 DEF TypeOK
  <1>2. Marked /\ InternalNotSpeakers
    BY DEF Init, Marked, Marks, MarksOwn, InternalNotSpeakers
  <1>5. AllTold
    BY DEF Init, AllTold, Told, LastSays, Agrees
  <1>6. QED
    BY <1>1, <1>2, <1>5 DEF Inv, Kept

-----------------------------------------------------------------------------
(* Events that the room is told.                                            *)

LEMMA UpdateFacts ==
  ASSUME NEW st \in [Users -> UserStates], NEW shown \in SUBSET Own,
             NEW flagged \in BOOLEAN,
         NEW e, e = Update(st, shown, flagged)
  PROVE  /\ e \in Events /\ e.type = "update" /\ Marks(e.entries)
         /\ \A u \in Users : Says(e, u, st[u])
  <1>1. e \in Events /\ e.type = "update"
    BY UpdateEvents DEF Update
  <1>2. \A x \in e.entries : \/ x.s \in Users /\ ~x.internal /\ x.state = st[x.s]
                             \/ x.s \in shown
    BY DEF Update, UserEntry, OwnEntry
  <1>3. QED
    BY <1>1, <1>2, Distinct DEF Marks, Says

LEMMA ChangedFacts ==
  ASSUME NEW u \in Users, NEW st \in [Users -> UserStates], NEW e, e = Changed(u, st[u])
  PROVE  /\ e \in Events /\ e.type = "update" /\ Marks(e.entries)
         /\ \A v \in Users : Says(e, v, st[v])
  <1>1. e \in Events /\ e.type = "update"
    BY ChangedEvents DEF Changed
  <1>2. \A x \in e.entries : x.s = u /\ ~x.internal /\ x.state = st[u]
    BY DEF Changed, UserEntry
  <1>3. QED
    BY <1>1, <1>2, Distinct DEF Marks, Says

\* msgChan gets e, or is full and those it would have been about are unsure.
Grows(e, us) ==
  \/ queue' = queue /\ unsure' = unsure \cup us
  \/ queue' = Append(queue, e) /\ unsure' = (unsure \cup us) \ Covered(e)

LEMMA PublishGrows ==
  ASSUME TypeOK, NEW e \in Events, NEW us, Publish(e, us)
  PROVE  /\ Grows(e, us)
         /\ queue' \in Seq(Events) /\ Len(queue') <= QueueCap
  BY PostFits DEF TypeOK, Publish, Grows

\* What the room's invariants need of a step of the outside world.
LEMMA WorldStep ==
  ASSUME Inv, NEW e \in Events, NEW us \in SUBSET Users, Grows(e, us),
         UNCHANGED <<todo, speakers, internal, early>>,
         e.type = "update" => Marks(e.entries),
         \A u \in Users \ us : state'[u] = state[u],
         \A u \in Users : Tells(e, u) => Says(e, u, state'[u])
  PROVE  Kept'
  <1> USE DEF Inv, Kept
  <1>1. queue \in Seq(Events)
    BY DEF TypeOK
  <1>2. Marked'
    BY <1>1, AppendMarksOwn DEF Marked, Grows
  <1>5. InternalNotSpeakers'
    BY DEF InternalNotSpeakers
  <1>6. AllTold'
    <2> SUFFICES ASSUME NEW u \in Users, u \notin unsure' PROVE Told(u)'
      BY DEF AllTold
    <2>1. CASE Tells(e, u) /\ queue' = Append(queue, e)
      <3>1. ~Silent(queue', u)
        BY <2>1, <1>1, AppendSilent
      <3>2. LastSays(queue', u, state'[u])
        BY <2>1, <1>1, AppendTelling
      <3>3. QED
        BY <3>1, <3>2 DEF Told
    <2>2. CASE queue' = queue \/ (~Tells(e, u) /\ queue' = Append(queue, e))
      <3>1. u \notin unsure /\ u \notin us
        BY <2>2, <1>1 DEF Grows, Tells
      <3>2. state'[u] = state[u] /\ Told(u)
        BY <3>1 DEF AllTold
      <3>3. Silent(queue', u) <=> Silent(queue, u)
        BY <2>2, <1>1, AppendSilent
      <3>4. LastSays(queue', u, state'[u])
        BY <2>2, <3>2, <1>1, AppendOther DEF Told
      <3>5. QED
        BY <3>2, <3>3, <3>4 DEF Told, Agrees
    <2>3. QED
      BY <2>1, <2>2 DEF Grows
  <1>7. QED
    BY <1>2, <1>5, <1>6

-----------------------------------------------------------------------------
(* The outside world and the reconnection.                                  *)

LEMMA ParticipantsKeep ==
  ASSUME Inv, Participants
  PROVE  TypeOK' /\ Kept'
  <1> USE DEF Inv
  <1>1. ASSUME NEW u \in Users, NEW new \in UserStates, ChangeState(u, new)
        PROVE  TypeOK' /\ Kept'
    <2>1. state' \in [Users -> UserStates] /\ state'[u] = new
      BY <1>1 DEF TypeOK, ChangeState
    <2>2. /\ UNCHANGED <<own, todo, speakers, internal, stream, askedBy, present, link, due, early>>
          /\ changes' \in 0 .. MaxChanges
          /\ \A v \in Users \ {u} : state'[v] = state[v]
      BY <1>1, MembershipAssumption
         DEF MembershipAssumption, TypeOK, ChangeState, Counted, roomVars
    <2>3. PICK e : /\ e = Update(state', present, TRUE) \/ e = Changed(u, state'[u])
                   /\ Publish(e, {u})
      BY <1>1, <2>1 DEF ChangeState
    <2>4. /\ e \in Events /\ e.type = "update" /\ Marks(e.entries)
          /\ \A v \in Users : Says(e, v, state'[v])
      BY <2>1, <2>3, UpdateFacts, ChangedFacts DEF TypeOK
    <2>5. Grows(e, {u}) /\ queue' \in Seq(Events) /\ Len(queue') <= QueueCap
      BY <2>3, <2>4, PublishGrows
    <2>6. Kept'
      BY <2>2, <2>4, <2>5, WorldStep
    <2>7. QED
      BY <2>1, <2>2, <2>5, <2>6 DEF TypeOK, Grows
  <1>2. ASSUME NEW u \in Users, LeaveCall(u) PROVE TypeOK' /\ Kept'
    <2> DEFINE e == [type |-> "leave", s |-> u]
    <2>1. /\ state' \in [Users -> UserStates] /\ state'[u] = "away"
          /\ \A v \in Users \ {u} : state'[v] = state[v]
      BY <1>2 DEF TypeOK, LeaveCall, UserStates
    <2>2. /\ UNCHANGED <<own, todo, speakers, internal, stream, askedBy, present, link, due, early>>
          /\ changes' \in 0 .. MaxChanges
      BY <1>2, MembershipAssumption
         DEF MembershipAssumption, TypeOK, LeaveCall, Counted, roomVars
    <2>3. e \in Events /\ e.type = "leave" /\ \A v \in Users : Tells(e, v) => v = u
      BY PlainEvents DEF Sessions, Tells, Covered
    <2>4. Grows(e, {u}) /\ queue' \in Seq(Events) /\ Len(queue') <= QueueCap
      BY <1>2, <2>3, PublishGrows DEF LeaveCall
    <2> HIDE DEF e
    <2>5. \A v \in Users : Tells(e, v) => Says(e, v, state'[v])
      BY <2>1, <2>3 DEF Says
    <2>6. Kept'
      BY <2>1, <2>2, <2>3, <2>4, <2>5, WorldStep
    <2>7. QED
      BY <2>1, <2>2, <2>4, <2>6 DEF TypeOK, Grows
  <1>3. ASSUME NEW u \in Users, Vanish(u) PROVE TypeOK' /\ Kept'
    <2> DEFINE e == [type |-> "ended"]
    <2>1. /\ state' \in [Users -> UserStates]
          /\ \A v \in Users \ {u} : state'[v] = state[v]
      BY <1>3 DEF TypeOK, Vanish, UserStates
    <2>2. /\ UNCHANGED <<own, todo, speakers, internal, stream, askedBy, present, link, due, early>>
          /\ changes' \in 0 .. MaxChanges
      BY <1>3, MembershipAssumption
         DEF MembershipAssumption, TypeOK, Vanish, Counted, roomVars
    <2>3. e \in Events /\ e.type = "ended" /\ Covered(e) = {}
      BY PlainEvents DEF Covered
    <2>4. Grows(e, {u}) /\ queue' = queue
      BY <1>3 DEF Vanish, Grows
    <2> HIDE DEF e
    <2>5. Kept'
      BY <2>1, <2>2, <2>3, <2>4, WorldStep DEF Tells
    <2>6. QED
      BY <2>1, <2>2, <2>4, <2>5, <1>3 DEF TypeOK, Vanish
  <1>4. ASSUME Refresh PROVE TypeOK' /\ Kept'
    <2>1. /\ UNCHANGED <<state, own, todo, speakers, internal, stream, askedBy, present,
                 link, due, early>>
          /\ changes' \in 0 .. MaxChanges
      BY <1>4, MembershipAssumption
         DEF MembershipAssumption, TypeOK, Refresh, Counted, roomVars
    <2>2. PICK flagged \in BOOLEAN : Publish(Update(state, present, flagged), {})
      BY <1>4 DEF Refresh
    <2> DEFINE e == Update(state, present, flagged)
    <2>3. /\ e \in Events /\ e.type = "update" /\ Marks(e.entries)
          /\ \A v \in Users : Says(e, v, state[v])
      BY UpdateFacts DEF TypeOK
    <2> HIDE DEF e
    <2>4. Grows(e, {}) /\ queue' \in Seq(Events) /\ Len(queue') <= QueueCap
      BY <2>2, <2>3, PublishGrows DEF e
    <2>5. Kept'
      BY <2>1, <2>3, <2>4, WorldStep
    <2>6. QED
      BY <2>1, <2>4, <2>5 DEF TypeOK, Grows
  <1>5. ASSUME EndForAll PROVE TypeOK' /\ Kept'
    <2> DEFINE e == [type |-> "ended"]
               us == {u \in Users : state[u] \in {"muted", "audio", "ghost"}}
    <2>1. /\ state' \in [Users -> UserStates]
          /\ \A v \in Users \ us : state'[v] = state[v]
      BY <1>5 DEF TypeOK, EndForAll, UserStates
    <2>2. /\ UNCHANGED <<own, todo, speakers, internal, stream, askedBy, present, link, due, early>>
          /\ changes' \in 0 .. MaxChanges
      BY <1>5, MembershipAssumption
         DEF MembershipAssumption, TypeOK, EndForAll, Counted, roomVars
    <2>3. e \in Events /\ e.type = "ended" /\ Covered(e) = {} /\ us \subseteq Users
      BY PlainEvents DEF Covered
    <2>4. Grows(e, us) /\ queue' \in Seq(Events) /\ Len(queue') <= QueueCap
      BY <1>5, <2>3, PublishGrows DEF EndForAll
    <2> HIDE DEF e, us
    <2>5. Kept'
      BY <2>1, <2>2, <2>3, <2>4, WorldStep DEF Tells
    <2>6. QED
      BY <2>1, <2>2, <2>3, <2>4, <2>5 DEF TypeOK, Grows
  <1>6. QED
    BY <1>1, <1>2, <1>3, <1>4, <1>5 DEF Participants

LEMMA ServerKeeps ==
  ASSUME Inv, Server
  PROVE  TypeOK' /\ Kept'
  <1> USE DEF Inv
  <1>1. ASSUME NEW u \in Users, SendOffer(u) PROVE TypeOK' /\ Kept'
    <2> DEFINE e == [type |-> "offer", s |-> u]
    <2>1. e \in Events /\ e.type = "offer" /\ Covered(e) = {}
      BY PlainEvents DEF Sessions, Covered
    <2>2. /\ UNCHANGED <<extVars, own, todo, speakers, internal, askedBy, unsure, early>>
          /\ queue' = Post(queue, e) /\ stream[u] = "asked"
          /\ stream' = [stream EXCEPT ![u] = IF queue' = queue THEN "failed" ELSE "offered"]
      BY <1>1 DEF SendOffer
    <2> HIDE DEF e
    <2>3. /\ Grows(e, {})
          /\ queue' \in Seq(Events) /\ Len(queue') <= QueueCap
      BY <2>1, <2>2, PostFits DEF TypeOK, Grows
    <2>4. Kept'
      BY <2>1, <2>2, <2>3, WorldStep DEF Tells, extVars
    <2>5. stream' \in [Sessions -> Streams] /\ \A s \in Sessions : s \in speakers <=>
              stream'[s] # "none"
      BY <2>2 DEF TypeOK, Streams
    <2>6. QED
      BY <2>2, <2>3, <2>4, <2>5 DEF TypeOK, extVars
  <1>2. ASSUME NEW n \in Own, ExpireOwn(n) PROVE TypeOK' /\ Kept'
    <2> DEFINE e == [type |-> "leave", s |-> n]
    <2>1. e \in Events /\ e.type = "leave"
      BY PlainEvents DEF Sessions
    <2>2. \A v \in Users : ~Tells(e, v)
      BY Distinct DEF Tells, Covered
    <2>3. /\ UNCHANGED <<state, link, due, changes, own, todo, speakers, internal, askedBy,
                 early>>
          /\ present' \subseteq present
      BY <1>2 DEF ExpireOwn
    <2>4. Grows(e, {}) /\ queue' \in Seq(Events) /\ Len(queue') <= QueueCap
      BY <1>2, <2>1, PublishGrows DEF ExpireOwn
    <2> HIDE DEF e
    <2>5. Kept'
      BY <2>1, <2>2, <2>3, <2>4, WorldStep
    <2>6. stream' \in [Sessions -> Streams] /\ \A s \in Sessions : s \in speakers <=>
              stream'[s] # "none"
      BY <1>2 DEF ExpireOwn, TypeOK, Streams
    <2>7. QED
      BY <2>3, <2>4, <2>5, <2>6 DEF TypeOK, Grows
  <1>3. ASSUME LinkDrops PROVE TypeOK' /\ Kept'
    <2> DEFINE e == [type |-> "ended"]
    <2>1. e \in Events /\ e.type = "ended" /\ Covered(e) = {}
      BY PlainEvents DEF Covered
    <2>2. /\ UNCHANGED <<state, present, changes, own, queue, todo, speakers, internal,
                 askedBy, unsure, early>>
          /\ link' \in BOOLEAN /\ due' \subseteq {"join", "list"}
      BY <1>3 DEF LinkDrops
    <2>3. Grows(e, {})
      BY <2>2 DEF Grows
    <2> HIDE DEF e
    <2>4. Kept'
      BY <2>1, <2>2, <2>3, WorldStep DEF Tells
    <2>5. stream' \in [Sessions -> Streams] /\ \A s \in Sessions : s \in speakers <=>
              stream'[s] # "none"
      BY <1>3 DEF LinkDrops, TypeOK, Streams
    <2>6. QED
      BY <2>2, <2>4, <2>5 DEF TypeOK
  <1>4. ASSUME ShowOwnJoin PROVE TypeOK' /\ Kept'
    <2> DEFINE e == [type |-> "join", s |-> own]
    <2>1. e \in Events /\ e.type = "join" /\ Covered(e) = {}
      BY PlainEvents DEF TypeOK, Sessions, Covered
    <2>2. /\ UNCHANGED <<state, present, link, changes, own, todo, speakers, internal, stream,
                 askedBy, early>>
          /\ due' \subseteq {"join", "list"}
      BY <1>4 DEF ShowOwnJoin, roomVars, TypeOK
    <2>3. Grows(e, {}) /\ queue' \in Seq(Events) /\ Len(queue') <= QueueCap
      BY <1>4, <2>1, PublishGrows DEF ShowOwnJoin
    <2> HIDE DEF e
    <2>4. Kept'
      BY <2>1, <2>2, <2>3, WorldStep DEF Tells
    <2>5. QED
      BY <2>2, <2>3, <2>4 DEF TypeOK, Grows
  <1>5. ASSUME ShowList PROVE TypeOK' /\ Kept'
    <2> DEFINE e == Update(state, present, TRUE)
    <2>1. /\ e \in Events /\ e.type = "update" /\ Marks(e.entries)
          /\ \A v \in Users : Says(e, v, state[v])
      BY UpdateFacts DEF TypeOK
    <2>2. /\ UNCHANGED <<state, present, link, changes, own, todo, speakers, internal, stream,
                 askedBy, early>>
          /\ due' \subseteq {"join", "list"}
      BY <1>5 DEF ShowList, roomVars, TypeOK
    <2>3. Grows(e, {}) /\ queue' \in Seq(Events) /\ Len(queue') <= QueueCap
      BY <1>5, <2>1, PublishGrows DEF ShowList
    <2> HIDE DEF e
    <2>4. Kept'
      BY <2>1, <2>2, <2>3, WorldStep
    <2>5. QED
      BY <2>2, <2>3, <2>4 DEF TypeOK, Grows
  <1>6. QED
    BY <1>1, <1>2, <1>3, <1>4, <1>5 DEF Server

\* The queue, the speakers and the users are as before.
LEMMA ReconnectKeeps ==
  ASSUME Inv, ReconnectHPB
  PROVE  TypeOK' /\ Kept'
  <1> USE DEF Inv, Kept
  <1>1. /\ UNCHANGED <<state, changes, queue, todo, speakers, internal, stream, askedBy,
               unsure, early>>
        /\ link' = TRUE /\ due' = {"join", "list"}
        /\ own' = own + 1 /\ present' = present \cup {own'}
    BY DEF ReconnectHPB, roomVars
  <1>2. own' \in Own /\ present' \subseteq Own
    BY <1>1, MembershipAssumption DEF MembershipAssumption, ReconnectHPB, TypeOK, Own
  <1>3. TypeOK'
    BY <1>1, <1>2 DEF TypeOK
  <1>4. Marked' /\ InternalNotSpeakers'
    BY <1>1 DEF Marked, InternalNotSpeakers
  <1>5. AllTold'
    BY <1>1 DEF AllTold, Told, Agrees
  <1>6. QED
    BY <1>3, <1>4, <1>5

-----------------------------------------------------------------------------
(* The orchestration goroutine.                                             *)

\* An event is taken: what it says is now the todo list, or is done.
LEMMA TakesEvent ==
  ASSUME Inv, NEW t, Receives(t)
  PROVE  LET e == Head(queue)
         IN  /\ todo = {} /\ e \in Events /\ e.type = t
             /\ queue' = Tail(queue) /\ queue' \in Seq(Events) /\ Len(queue') <= QueueCap
             /\ MarksOwn(queue') /\ (t = "update" => Marks(e.entries))
             /\ \A u \in Users \ unsure :
                  /\ LastSays(queue', u, state[u])
                  /\ Silent(queue', u) /\ Tells(e, u) => Says(e, u, state[u])
                  /\ Silent(queue', u) /\ ~Tells(e, u) => Agrees(u)
  <1> DEFINE e == Head(queue)
  <1>1. /\ todo = {} /\ e \in Events /\ e.type = t /\ queue # <<>> /\ queue \in Seq(Events)
        /\ queue' = Tail(queue) /\ queue' \in Seq(Events) /\ Len(queue') <= QueueCap
    BY ReceivesFits DEF Inv, TypeOK
  <1>2. MarksOwn(queue') /\ (t = "update" => Marks(e.entries))
    BY <1>1, TailFacts DEF Inv, Kept, Marked
  <1>9. ASSUME NEW u \in Users \ unsure
        PROVE  /\ LastSays(queue', u, state[u])
               /\ Silent(queue', u) /\ Tells(e, u) => Says(e, u, state[u])
               /\ Silent(queue', u) /\ ~Tells(e, u) => Agrees(u)
    <2>1. LastSays(queue, u, state[u]) /\ (Silent(queue, u) => Agrees(u))
      BY <1>1 DEF Inv, Kept, AllTold, Told
    <2>2. /\ LastSays(queue', u, state[u])
          /\ Silent(queue', u) /\ Tells(e, u) => Says(e, u, state[u])
      BY <2>1, <1>1, TailFacts
    <2>3. Silent(queue', u) /\ ~Tells(e, u) => Silent(queue, u)
      BY <1>1, TailFacts
    <2>4. QED
      BY <2>1, <2>2, <2>3
  <1>10. QED
    BY <1>1, <1>2, <1>9

\* Removing a speaker keeps the relation of speakers and streams.
LEMMA RemoveKeeps ==
  ASSUME TypeOK, NEW s \in Sessions, RemoveSpeaker(s)
  PROVE  /\ speakers' = speakers \ {s} /\ UNCHANGED askedBy
         /\ speakers' \subseteq Sessions /\ stream' \in [Sessions -> Streams]
         /\ \A z \in Sessions : z \in speakers' <=> stream'[z] # "none"
  BY DEF TypeOK, RemoveSpeaker, Streams

LEMMA HandleJoinKeeps ==
  ASSUME Inv, HandleJoin
  PROVE  TypeOK' /\ Kept'
  <1> DEFINE e == Head(queue)
  <1>1. /\ Receives("join") /\ internal' = internal \cup ({e.s} \cap {own})
        /\ UNCHANGED <<state, present, link, due, changes, own, todo, speakers, stream,
               askedBy, unsure, early>>
    BY DEF HandleJoin, extVars
  <1>2. todo = {} /\ e.type = "join"
    BY <1>1, TakesEvent
  <1>3. TypeOK'
    BY <1>1, TakesEvent DEF Inv, TypeOK
  <1>4. Marked'
    BY <1>1, <1>2, TakesEvent DEF Marked, Marks
  <1>7. InternalNotSpeakers'
    BY <1>1, <1>2 DEF Inv, Kept, InternalNotSpeakers
  <1>8. AllTold'
    <2> SUFFICES ASSUME NEW u \in Users, u \notin unsure PROVE Told(u)'
      BY <1>1 DEF AllTold
    <2>1. ~Tells(e, u)
      BY <1>2 DEF Tells, Covered
    <2>2. LastSays(queue', u, state[u]) /\ (Silent(queue', u) => Agrees(u))
      BY <2>1, <1>1, TakesEvent
    <2>3. QED
      BY <2>2, <1>1, <1>2 DEF Told, Agrees
  <1>9. QED
    BY <1>3, <1>4, <1>7, <1>8 DEF Kept

LEMMA HandleLeaveKeeps ==
  ASSUME Inv, HandleLeave
  PROVE  TypeOK' /\ Kept'
  <1> DEFINE e == Head(queue)
  <1>1. /\ Receives("leave") /\ RemoveSpeaker(e.s)
        /\ UNCHANGED <<state, present, link, due, changes, own, todo, internal, unsure, early>>
    BY DEF HandleLeave, extVars
  <1>2. todo = {} /\ e \in Events /\ e.type = "leave"
    BY <1>1, TakesEvent
  <1>3. e.s \in Sessions
    BY <1>2, EventFields
  <1>4. speakers' = speakers \ {e.s}
    BY <1>1, <1>3, RemoveKeeps DEF Inv
  <1>5. TypeOK'
    BY <1>1, <1>3, RemoveKeeps, TakesEvent DEF Inv, TypeOK
  <1>6. Marked'
    BY <1>1, <1>2, TakesEvent DEF Marked, Marks
  <1>9. InternalNotSpeakers'
    BY <1>1, <1>4 DEF Inv, Kept, InternalNotSpeakers
  <1>10. AllTold'
    <2> SUFFICES ASSUME NEW u \in Users, u \notin unsure PROVE Told(u)'
      BY <1>1 DEF AllTold
    <2>1. Tells(e, u) <=> e.s = u
      BY <1>2 DEF Tells, Covered
    <2>2. /\ LastSays(queue', u, state[u])
          /\ Silent(queue', u) /\ Tells(e, u) => Says(e, u, state[u])
          /\ Silent(queue', u) /\ ~Tells(e, u) => Agrees(u)
      BY <1>1, TakesEvent
    <2>3. Silent(queue', u) => Agrees(u)'
      BY <2>1, <2>2, <1>1, <1>2, <1>4 DEF Says, Agrees
    <2>4. QED
      BY <2>2, <2>3, <1>1, <1>2 DEF Told
  <1>11. QED
    BY <1>5, <1>6, <1>9, <1>10 DEF Kept

LEMMA HandlePlainKeeps ==
  ASSUME Inv, HandleEnded \/ HandleOffer
  PROVE  TypeOK' /\ Kept'
  <1> DEFINE e == Head(queue)
  <1>1. PICK t \in {"ended", "offer"} : Receives(t)
    BY DEF HandleEnded, HandleOffer
  <1>2. UNCHANGED <<state, present, link, due, changes, own, todo, speakers, internal,
            askedBy, unsure, early>>
    BY DEF HandleEnded, HandleOffer, extVars, roomVars
  <1>3. todo = {} /\ e.type = t /\ t \in {"ended", "offer"}
    BY <1>1, TakesEvent
  <1>4. stream' \in [Sessions -> Streams] /\ \A z \in Sessions : z \in speakers <=>
            stream'[z] # "none"
    <2>1. \A z \in Sessions : z \in speakers <=> stream[z] # "none"
      BY DEF Inv, TypeOK
    <2>2. UNCHANGED stream \/ \E s : stream[s] = "offered" /\
            \E v \in {"live", "failed"} : stream' = [stream EXCEPT ![s] = v]
      BY DEF HandleEnded, HandleOffer, roomVars
    <2>3. QED
      BY <2>1, <2>2 DEF Inv, TypeOK, Streams
  <1>5. TypeOK'
    BY <1>1, <1>2, <1>4, TakesEvent DEF Inv, TypeOK
  <1>6. Marked'
    BY <1>1, <1>2, <1>3, TakesEvent DEF Marked, Marks
  <1>9. InternalNotSpeakers'
    BY <1>2 DEF Inv, Kept, InternalNotSpeakers
  <1>10. AllTold'
    <2> SUFFICES ASSUME NEW u \in Users, u \notin unsure PROVE Told(u)'
      BY <1>2 DEF AllTold
    <2>1. ~Tells(e, u)
      BY <1>3 DEF Tells, Covered
    <2>2. LastSays(queue', u, state[u]) /\ (Silent(queue', u) => Agrees(u))
      BY <2>1, <1>1, TakesEvent
    <2>3. QED
      BY <2>2, <1>2, <1>3 DEF Told, Agrees
  <1>11. QED
    BY <1>5, <1>6, <1>9, <1>10 DEF Kept

LEMMA HandleUpdateKeeps ==
  ASSUME Inv, HandleUpdate
  PROVE  TypeOK' /\ Kept'
  <1> DEFINE e == Head(queue)
  <1>1. /\ Receives("update") /\ todo' = e.entries
        /\ UNCHANGED <<state, present, link, due, changes, own, speakers, internal, stream,
               askedBy, unsure, early>>
    BY DEF HandleUpdate, extVars, roomVars
  <1>2. e \in Events /\ e.type = "update" /\ Marks(e.entries)
    BY <1>1, TakesEvent
  <1>3. e.entries \subseteq Entries
    BY <1>2, EventFields
  <1>5. TypeOK'
    BY <1>1, <1>3, TakesEvent DEF Inv, TypeOK
  <1>6. Marked'
    BY <1>1, <1>2, TakesEvent DEF Marked
  <1>9. InternalNotSpeakers'
    BY <1>1 DEF Inv, Kept, InternalNotSpeakers
  <1>10. AllTold'
    <2> SUFFICES ASSUME NEW u \in Users, u \notin unsure PROVE Told(u)'
      BY <1>1 DEF AllTold
    <2>1. Tells(e, u) <=> \E x \in e.entries : x.s = u
      BY <1>2 DEF Tells, Covered
    <2>2. /\ LastSays(queue', u, state[u])
          /\ Silent(queue', u) /\ Tells(e, u) => Says(e, u, state[u])
          /\ Silent(queue', u) /\ ~Tells(e, u) => Agrees(u)
      BY <1>1, TakesEvent
    <2>3. Silent(queue', u) => \A x \in e.entries : x.s = u => x.state = state[u]
      BY <2>1, <2>2, <1>2 DEF Says
    <2>4. Silent(queue', u) /\ (\A x \in e.entries : x.s # u) => Agrees(u)
      BY <2>1, <2>2
    <2>5. QED
      BY <2>2, <2>3, <2>4, <1>1 DEF Told, Agrees
  <1>11. QED
    BY <1>5, <1>6, <1>9, <1>10 DEF Kept

-----------------------------------------------------------------------------
(* One entry of a list.                                                     *)

\* Whatever is done with an entry: nobody becomes a speaker but its session, an
\* own session only if an unmarked list named it early, and a user it is about ends
\* up as the entry says, or unsure.
LEMMA EntryStep ==
  ASSUME Inv, NEW x, Handles(x),
         UNCHANGED <<state, present, own, queue>>,
         speakers' \subseteq speakers \cup {x.s},
         speakers \ {x.s} \subseteq speakers',
         unsure \subseteq unsure',
         x.s \in speakers' /\ x.s \in Own => x.s \in early',
         early \ {x.s} \subseteq early',
         x.s \in Users \ unsure' /\ x.state = state[x.s] => Agrees(x.s)'
  PROVE  Kept'
  <1> USE DEF Inv, Kept
  <1>1. x \in todo /\ todo' = todo \ {x}
    BY DEF Handles
  <1>2. Marked'
    BY <1>1 DEF Marked, Marks
  <1>5. InternalNotSpeakers'
    BY DEF InternalNotSpeakers
  <1>6. AllTold'
    <2> SUFFICES ASSUME NEW u \in Users, u \notin unsure' PROVE Told(u)'
      BY DEF AllTold
    <2>1. Told(u)
      BY DEF AllTold
    <2>2. LastSays(queue', u, state'[u])
      BY <2>1 DEF Told
    <2>3. Silent(queue', u) => \A z \in todo' : z.s = u => z.state = state'[u]
      BY <2>1, <1>1 DEF Told
    <2>4. ASSUME Silent(queue', u), \A z \in todo' : z.s # u PROVE Agrees(u)'
      <3>1. CASE x.s = u
        <4>1. x.state = state[u]
          BY <2>1, <2>4, <1>1, <3>1 DEF Told
        <4>2. QED
          BY <4>1, <3>1
      <3>2. CASE x.s # u
        <4>1. \A z \in todo : z.s # u
          BY <2>4, <3>2, <1>1
        <4>2. Agrees(u)
          BY <4>1, <2>1, <2>4 DEF Told
        <4>3. u \in speakers' <=> u \in speakers
          BY <3>2
        <4>4. QED
          BY <4>2, <4>3 DEF Agrees
      <3>3. QED
        BY <3>1, <3>2
    <2>5. QED
      BY <2>2, <2>3, <2>4 DEF Told
  <1>7. QED
    BY <1>2, <1>5, <1>6

LEMMA HandleEntryKeeps ==
  ASSUME Inv, NEW x \in todo, HandleEntry(x)
  PROVE  TypeOK' /\ Kept'
  <1>1. x \in Entries /\ x.s \in Sessions /\ (x.internal => x.s \in Own)
    BY DEF Inv, Kept, Marked, Marks, TypeOK, Entries
  <1>2. InternalNotSpeakers /\ TypeOK
    BY DEF Inv, Kept
  <1>3. internal \subseteq Own /\ todo \ {x} \subseteq Entries /\ unsure \subseteq Users
    BY <1>2 DEF TypeOK
  <1>3a. /\ early \ {x.s} \subseteq early'
         /\ ~x.internal => early \subseteq early'
         /\ ~x.internal /\ x.s \in Own \ internal => x.s \in early'
    <2>1. Handles(x)
      BY DEF HandleEntry, EntryInternal, EntrySkipped, EntryGone, EntryKnown, EntryRefused,
             EntryAdded
    <2>2. QED
      BY <2>1 DEF Handles
  <1> USE DEF extVars, roomVars
  <1>4. CASE EntryInternal(x)
    <2>1. /\ UNCHANGED <<state, present, link, due, changes, own, queue, unsure>>
          /\ Handles(x) /\ RemoveSpeaker(x.s) /\ x.internal /\ internal' = internal \cup {x.s}
      BY <1>4 DEF EntryInternal
    <2>2. /\ speakers' = speakers \ {x.s} /\ UNCHANGED askedBy
          /\ speakers' \subseteq Sessions /\ stream' \in [Sessions -> Streams]
          /\ \A z \in Sessions : z \in speakers' <=> stream'[z] # "none"
      BY <2>1, <1>1, <1>2, RemoveKeeps
    <2>3. TypeOK'
      BY <2>1, <2>2, <1>1, <1>2, <1>3 DEF TypeOK, Handles
    <2>4. x.s \notin Users
      BY <2>1, <1>1, Distinct
    <2>5. Kept'
      BY <2>1, <2>2, <2>4, <1>3a, EntryStep
    <2>6. QED
      BY <2>3, <2>5
  <1>5. CASE EntrySkipped(x)
    <2>1. /\ UNCHANGED <<state, present, link, due, changes, own, queue, unsure, internal,
                 speakers, stream, askedBy>>
          /\ Handles(x) /\ ~x.internal /\ (x.s \in internal \/ x.state = "muted")
      BY <1>5 DEF EntrySkipped
    <2>2. TypeOK'
      BY <2>1, <1>2, <1>3 DEF TypeOK, Handles
    <2>3. x.s \in Users => x.state = "muted"
      BY <2>1, <1>3, Distinct
    <2>4. x.s \in Users /\ x.state = state[x.s] => Agrees(x.s)'
      BY <2>1, <2>3 DEF Agrees
    <2>5. x.s \in speakers' /\ x.s \in Own => x.s \in early'
      BY <2>1, <1>2, <1>3a DEF InternalNotSpeakers
    <2>6. Kept'
      BY <2>1, <2>4, <2>5, <1>3a, EntryStep
    <2>7. QED
      BY <2>2, <2>6
  <1>6. CASE EntryGone(x)
    <2>1. /\ UNCHANGED <<state, present, link, due, changes, own, queue, unsure, internal>>
          /\ Handles(x) /\ RemoveSpeaker(x.s) /\ x.state \in {"away", "room", "ghost"}
      BY <1>6 DEF EntryGone
    <2>2. /\ speakers' = speakers \ {x.s} /\ UNCHANGED askedBy
          /\ speakers' \subseteq Sessions /\ stream' \in [Sessions -> Streams]
          /\ \A z \in Sessions : z \in speakers' <=> stream'[z] # "none"
      BY <2>1, <1>1, <1>2, RemoveKeeps
    <2>3. TypeOK'
      BY <2>1, <2>2, <1>2, <1>3 DEF TypeOK, Handles
    <2>4. x.state = state[x.s] => Agrees(x.s)'
      BY <2>1, <2>2 DEF Agrees
    <2>5. Kept'
      BY <2>1, <2>2, <2>4, <1>3a, EntryStep
    <2>6. QED
      BY <2>3, <2>5
  <1>7. CASE EntryKnown(x)
    <2>1. /\ UNCHANGED <<state, present, link, due, changes, own, queue, unsure, internal,
                 speakers, stream, askedBy>>
          /\ Handles(x) /\ ~x.internal /\ x.s \in speakers /\ x.s \notin internal
          /\ x.state = "audio"
      BY <1>7 DEF EntryKnown, Speaks
    <2>2. TypeOK'
      BY <2>1, <1>2, <1>3 DEF TypeOK, Handles
    <2>3. x.state = state[x.s] => Agrees(x.s)'
      BY <2>1 DEF Agrees
    <2>4. Kept'
      BY <2>1, <2>3, <1>3a, EntryStep
    <2>5. QED
      BY <2>2, <2>4
  <1>8. CASE EntryRefused(x)
    <2>1. /\ UNCHANGED <<state, present, link, due, changes, own, queue, internal, speakers,
                 stream, askedBy>>
          /\ Handles(x) /\ x.s \notin speakers /\ unsure' = unsure \cup ({x.s} \cap Users)
      BY <1>8 DEF EntryRefused
    <2>2. TypeOK'
      BY <2>1, <1>2, <1>3 DEF TypeOK, Handles
    <2>3. Kept'
      BY <2>1, <1>3a, EntryStep
    <2>4. QED
      BY <2>2, <2>3
  <1>9. CASE EntryAdded(x)
    <2>1. /\ UNCHANGED <<state, present, link, due, changes, own, queue, internal, unsure>>
          /\ Handles(x) /\ ~x.internal /\ x.s \notin internal /\ x.state = "audio"
          /\ speakers' = speakers \cup {x.s}
          /\ askedBy' = [askedBy EXCEPT ![x.s] = own]
          /\ stream' = [stream EXCEPT ![x.s] = IF link THEN "asked" ELSE "failed"]
      BY <1>9 DEF EntryAdded, Speaks
    <2>2. /\ stream' \in [Sessions -> Streams] /\ askedBy' \in [Sessions -> Own]
          /\ \A z \in Sessions : z \in speakers' <=> stream'[z] # "none"
      BY <2>1, <1>1, <1>2 DEF TypeOK, Streams
    <2>3. TypeOK'
      BY <2>1, <2>2, <1>1, <1>2, <1>3 DEF TypeOK, Handles
    <2>4. x.state = state[x.s] => Agrees(x.s)'
      BY <2>1 DEF Agrees
    <2>5. Kept'
      BY <2>1, <2>4, <1>3a, EntryStep
    <2>6. QED
      BY <2>3, <2>5
  <1>10. QED
    BY <1>4, <1>5, <1>6, <1>7, <1>8, <1>9 DEF HandleEntry

LEMMA InvStep == Inv /\ [Next]_vars => Inv'
  <1> SUFFICES ASSUME Inv, [Next]_vars PROVE TypeOK' /\ Kept'
    BY DEF Inv
  <1>1. CASE Orchestrate
    BY <1>1, HandleJoinKeeps, HandleLeaveKeeps, HandlePlainKeeps, HandleUpdateKeeps,
       HandleEntryKeeps DEF Orchestrate
  <1>2. CASE ReconnectHPB
    BY <1>2, ReconnectKeeps
  <1>3. CASE Participants
    BY <1>3, ParticipantsKeep
  <1>4. CASE Server
    BY <1>4, ServerKeeps
  <1>5. CASE UNCHANGED vars
    <2>1. UNCHANGED <<state, present, link, due, changes, own, queue, todo, speakers,
                      internal, stream, askedBy, unsure, early>>
      BY <1>5 DEF vars, extVars, roomVars
    <2>2. TypeOK'
      BY <2>1 DEF Inv, TypeOK
    <2>3. Marked' /\ InternalNotSpeakers'
      BY <2>1 DEF Inv, Kept, Marked, InternalNotSpeakers
    <2>4. AllTold'
      BY <2>1 DEF Inv, Kept, AllTold, Told, Agrees
    <2>5. QED
      BY <2>2, <2>3, <2>4 DEF Kept
  <1>6. QED
    BY <1>1, <1>2, <1>3, <1>4, <1>5 DEF Next

LEMMA InvAlways == Spec => []Inv
  BY InvInit, InvStep, PTL DEF Spec

-----------------------------------------------------------------------------
(* Theorems.                                                                *)

\* Every variable keeps its type; in particular msgChan stays within its
\* capacity, and a session has an audio stream exactly while it is a speaker.
THEOREM TypeCorrect == Spec => []TypeOK
  <1>1. Inv => TypeOK
    BY DEF Inv
  <1>2. QED
    BY <1>1, InvAlways, PTL

\* When all is handled, the speakers are those who are in the call with audio,
\* however many lists, changes and reconnections there were, if the user's last
\* change got through.
THEOREM RoomFollowsCall == Spec => []SpeakersFollowCall
  <1>1. Inv => SpeakersFollowCall
    <2> SUFFICES ASSUME Inv, Quiet, NEW u \in Users \ unsure PROVE Agrees(u)
      BY DEF SpeakersFollowCall, Agrees
    <2>1. Told(u)
      BY DEF Inv, Kept, AllTold
    <2>2. Silent(queue, u) /\ todo = {}
      BY DEF Quiet, Silent
    <2>3. QED
      BY <2>1, <2>2 DEF Told
  <1>2. QED
    BY <1>1, InvAlways, PTL

\* The bot transcribes a session of its own only after an unmarked list that the
\* room handled before it knew the session, and until the next marked list, over
\* any number of reconnections and however joins and lists come.
THEOREM OwnSessionsAreSilent == Spec => []InternalNotSpeakers
  <1>1. Inv => InternalNotSpeakers
    BY DEF Inv, Kept
  <1>2. QED
    BY <1>1, InvAlways, PTL

=============================================================================
