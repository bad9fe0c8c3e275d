---------------------------- MODULE RuntimeLemmas ----------------------------
(***************************************************************************)
(* Facts about the operators of SessionRuntime, for every engine, every    *)
(* set of participants and every width of the revision counter.            *)
(*                                                                         *)
(* Replay is a recursive function, which tlapm knows only as a CHOOSE.     *)
(* That such a function exists, and with it every fact about a log of any  *)
(* length, is an induction over the naturals, done here with sets: the     *)
(* numbers that lack a property have no least element.                     *)
(***************************************************************************)
EXTENDS SessionRuntime, WellFoundedInduction, TLAPS

\* A non-empty set of naturals has a least element.
LEMMA NatLeast ==
  ASSUME NEW T \in SUBSET Nat, T # {}
  PROVE  \E m \in T : \A k \in T : m <= k
<1> DEFINE R == OpToRel(<, Nat)
<1>1. IsWellFoundedOn(R, Nat)
  BY NatLessThanWellFounded
<1>2. \A x, y \in Nat : <<x, y>> \in R <=> x < y
  BY Zenon DEF OpToRel
<1> HIDE DEF R
<1>3. PICK x \in T : \A y \in T : ~(<<y, x>> \in R)
  BY <1>1, WFMin
<1>4. ASSUME NEW y \in T PROVE x <= y
  <2>1. y \in Nat /\ x \in Nat
    OBVIOUS
  <2>2. ~(y < x)
    BY <1>2, <1>3, <2>1
  <2> QED
    BY <2>1, <2>2
<1> QED
  BY <1>4

\* Induction over the naturals, for membership in a set.
LEMMA SetInduction ==
  ASSUME NEW S, 0 \in S, \A n \in Nat : n \in S => n + 1 \in S
  PROVE  Nat \subseteq S
<1> SUFFICES ASSUME Nat \ S # {} PROVE FALSE
  OBVIOUS
<1>1. PICK m \in Nat \ S : \A k \in Nat \ S : m <= k
  BY NatLeast
<1>2. m - 1 \in Nat
  OBVIOUS
<1>3. m - 1 \in S
  BY <1>1, <1>2
<1> QED
  BY <1>2, <1>3

-----------------------------------------------------------------------------

\* g holds the results of replaying the first 0, 1 .. n events.
IsReplayPath(g, initial, events, n) ==
  g = [i \in 0..n |-> IF i = 0 THEN [ok |-> TRUE, state |-> initial]
                      ELSE ReplayStep(initial, g[i - 1], events[i])]

\* The same, value by value.
LEMMA ReplayPathValues ==
  ASSUME NEW g, NEW initial, NEW events, NEW n \in Nat,
         IsReplayPath(g, initial, events, n)
  PROVE  /\ DOMAIN g = 0..n
         /\ g[0] = [ok |-> TRUE, state |-> initial]
         /\ \A i \in 1..n : g[i] = ReplayStep(initial, g[i - 1], events[i])
<1> DEFINE v(i) == IF i = 0 THEN [ok |-> TRUE, state |-> initial]
                   ELSE ReplayStep(initial, g[i - 1], events[i])
<1>1. g = [i \in 0..n |-> v(i)]
  BY DEF IsReplayPath
<1> HIDE DEF v
<1>2. DOMAIN g = 0..n /\ \A i \in 0..n : g[i] = v(i)
  BY <1>1
<1>3. 0 \in 0..n /\ \A i \in 1..n : i \in 0..n /\ i # 0
  OBVIOUS
<1> QED
  BY <1>2, <1>3 DEF v

\* The prefixes 0..n of a replay can be computed one after the other.
LEMMA ReplayPathExists ==
  ASSUME NEW initial, NEW events, NEW n \in Nat
  PROVE  \E g : IsReplayPath(g, initial, events, n)
<1> DEFINE first == [ok |-> TRUE, state |-> initial]
           S == {k \in Nat : \E g : IsReplayPath(g, initial, events, k)}
<1>1. 0 \in S
  <2> DEFINE h == [i \in 0..0 |-> first]
  <2>1. IsReplayPath(h, initial, events, 0)
    BY DEF IsReplayPath
  <2> QED
    BY <2>1
<1>2. ASSUME NEW k \in Nat, k \in S PROVE k + 1 \in S
  <2>1. PICK g : IsReplayPath(g, initial, events, k)
    BY <1>2
  <2>2. /\ g[0] = first
        /\ \A i \in 1..k : g[i] = ReplayStep(initial, g[i - 1], events[i])
    BY <2>1, ReplayPathValues
  <2> DEFINE h == [i \in 0..(k + 1) |->
                     IF i <= k THEN g[i] ELSE ReplayStep(initial, g[k], events[k + 1])]
             v(i) == IF i = 0 THEN first ELSE ReplayStep(initial, h[i - 1], events[i])
  <2>3. ASSUME NEW i \in 0..(k + 1) PROVE h[i] = v(i)
    <3>1. CASE i = 0
      BY <2>2, <3>1
    <3>2. CASE i > 0 /\ i <= k
      <4>1. h[i] = g[i] /\ h[i - 1] = g[i - 1] /\ i \in 1..k
        BY <3>2
      <4> QED
        BY <2>2, <3>2, <4>1
    <3>3. CASE i = k + 1
      BY <3>3
    <3> QED
      BY <3>1, <3>2, <3>3
  <2>4. h = [i \in 0..(k + 1) |-> v(i)]
    <3> HIDE DEF v
    <3> QED
      BY <2>3
  <2>5. IsReplayPath(h, initial, events, k + 1)
    BY <2>4 DEF IsReplayPath
  <2> HIDE DEF h
  <2> QED
    BY <2>5
<1> HIDE DEF S
<1>3. Nat \subseteq S
  BY <1>1, <1>2, SetInduction
<1> QED
  BY <1>3 DEF S

\* What the recursive definition of a replay says of each prefix.
LEMMA ReplayPathIsPath ==
  ASSUME NEW initial, NEW events, Len(events) \in Nat
  PROVE  IsReplayPath(ReplayPath(initial, events), initial, events, Len(events))
<1>1. \E g : IsReplayPath(g, initial, events, Len(events))
  BY ReplayPathExists
<1>2. ReplayPath(initial, events)
        = CHOOSE g : IsReplayPath(g, initial, events, Len(events))
  BY DEF ReplayPath, IsReplayPath
<1> QED
  BY <1>1, <1>2

\* Logs that agree on their first n events agree on what replaying those gives.
LEMMA ReplayAgrees ==
  ASSUME NEW initial, NEW es, NEW fs, Len(es) \in Nat, Len(fs) \in Nat,
         NEW n \in 0..Len(es), n <= Len(fs), \A i \in 1..n : es[i] = fs[i]
  PROVE  \A i \in 0..n : ReplayPath(initial, es)[i] = ReplayPath(initial, fs)[i]
<1> DEFINE p == ReplayPath(initial, es)
           q == ReplayPath(initial, fs)
           S == {k \in Nat : k <= n => p[k] = q[k]}
<1>1. /\ p[0] = [ok |-> TRUE, state |-> initial]
      /\ q[0] = [ok |-> TRUE, state |-> initial]
      /\ \A i \in 1..Len(es) : p[i] = ReplayStep(initial, p[i - 1], es[i])
      /\ \A i \in 1..Len(fs) : q[i] = ReplayStep(initial, q[i - 1], fs[i])
  BY ReplayPathIsPath, ReplayPathValues
<1> HIDE DEF p, q
<1>2. 0 \in S
  BY <1>1
<1>3. ASSUME NEW k \in Nat, k \in S PROVE k + 1 \in S
  <2> SUFFICES ASSUME k + 1 <= n PROVE p[k + 1] = q[k + 1]
    OBVIOUS
  <2>1. p[k] = q[k] /\ k + 1 \in 1..n /\ k + 1 \in 1..Len(es) /\ k + 1 \in 1..Len(fs)
    BY <1>3
  <2>2. (k + 1) - 1 = k
    OBVIOUS
  <2>3. p[k + 1] = ReplayStep(initial, p[k], es[k + 1])
    BY <1>1, <2>1, <2>2
  <2>4. q[k + 1] = ReplayStep(initial, q[k], fs[k + 1])
    BY <1>1, <2>1, <2>2
  <2> QED
    BY <2>1, <2>3, <2>4
<1> HIDE DEF S
<1>4. Nat \subseteq S
  BY <1>2, <1>3, SetInduction
<1>5. \A i \in 0..n : p[i] = q[i]
  BY <1>4 DEF S
<1> QED
  BY <1>5 DEF p, q

IsSeq(x) == \E S : x \in Seq(S)

\* Replaying nothing.
LEMMA ReplayEmpty ==
  ASSUME NEW initial
  PROVE  Replay(initial, <<>>) = [ok |-> TRUE, state |-> initial]
<1>1. Len(<<>>) = 0
  OBVIOUS
<1> QED
  BY <1>1, ReplayPathIsPath, ReplayPathValues DEF Replay

\* Replaying a prefix of a log is stopping on the way.
LEMMA ReplayPrefix ==
  ASSUME NEW initial, NEW es, IsSeq(es), NEW n \in 0..Len(es)
  PROVE  Replay(initial, SubSeq(es, 1, n)) = ReplayPath(initial, es)[n]
<1> DEFINE fs == SubSeq(es, 1, n)
<1>1. PICK T : es \in Seq(T)
  BY DEF IsSeq
<1>2. Len(es) \in Nat /\ Len(fs) = n /\ \A i \in 1..n : es[i] = fs[i]
  BY <1>1
<1> HIDE DEF fs
<1>3. ReplayPath(initial, es)[n] = ReplayPath(initial, fs)[n]
  BY <1>2, ReplayAgrees
<1> QED
  BY <1>2, <1>3 DEF fs, Replay

\* Replaying one event more is one step more.
LEMMA ReplayAppend ==
  ASSUME NEW initial, NEW es, IsSeq(es), NEW e
  PROVE  Replay(initial, Append(es, e)) = ReplayStep(initial, Replay(initial, es), e)
<1> DEFINE n == Len(es)
           fs == Append(es, e)
           p == ReplayPath(initial, fs)
<1>1. PICK T : es \in Seq(T)
  BY DEF IsSeq
<1>2. /\ n \in Nat /\ Len(fs) = n + 1 /\ fs[n + 1] = e
      /\ \A i \in 1..n : es[i] = fs[i]
  BY <1>1
<1> HIDE DEF fs, n
<1>3. IsReplayPath(p, initial, fs, n + 1)
  BY <1>2, ReplayPathIsPath
<1>4. ReplayPath(initial, es)[n] = p[n]
  BY <1>2, ReplayAgrees DEF n
<1> HIDE DEF p
<1>5. n + 1 \in Nat /\ n + 1 \in 1..(n + 1) /\ (n + 1) - 1 = n
  BY <1>2
<1>6. /\ p[0] = [ok |-> TRUE, state |-> initial]
      /\ \A i \in 1..(n + 1) : p[i] = ReplayStep(initial, p[i - 1], fs[i])
  BY <1>3, <1>5, ReplayPathValues
<1>7. p[n + 1] = ReplayStep(initial, p[n], e)
  BY <1>2, <1>5, <1>6
<1> QED
  BY <1>2, <1>4, <1>7 DEF fs, n, p, Replay

-----------------------------------------------------------------------------

\* An accepted request becomes an event of the event type: what decide builds is
\* well formed, the engine's resulting state included.
LEMMA DecidedEventType ==
  ASSUME NEW s \in SessionStates, NEW r \in CommandRequests, NEW engine \in BOOLEAN,
         Accepted(s, r, engine)
  PROVE  DecidedEvent(s, r) \in SessionEvents
<1> DEFINE c == r.command
           k == DecidedKind(s, r.actor, c)
<1>1. /\ r.message_id \in MessageIds /\ r.actor \in Participants /\ c \in Commands
      /\ s.revision \in U64 /\ s.revision < MaxU64
      /\ s.activity \in ActiveActivities \cup {NoActivity}
  BY DEF CommandRequests, SessionStates, Accepted
<1>2. s.revision + 1 \in U64
  BY <1>1, MaxU64Assumption DEF U64
<1>3. k \in EventKinds
  <2>1. CASE c.type = "create_session"
    BY <2>1, <1>1 DEF DecidedKind, EventKinds
  <2>2. CASE c.type = "join"
    BY <2>2, <1>1 DEF DecidedKind, EventKinds
  <2>3. CASE c.type = "start_activity"
    <3>1. c.descriptor \in Descriptors
      BY <2>3, <1>1 DEF Commands
    <3> QED
      BY <2>3, <3>1, EngineAssumption DEF DecidedKind, EventKinds
  <2>4. CASE c.type = "stop_activity"
    <3>1. s.activity # NoActivity
      BY <2>4 DEF Accepted, SessionCommandAccepted, ActivityCommandAccepted
    <3>2. s.activity.descriptor \in Descriptors
      BY <3>1, <1>1 DEF ActiveActivities
    <3> QED
      BY <2>4, <3>2 DEF DecidedKind, EventKinds
  <2>5. CASE c.type = "transfer_authority"
    <3>1. c.to \in Participants
      BY <2>5, <1>1 DEF Commands
    <3> QED
      BY <2>5, <3>1, <1>1 DEF DecidedKind, EventKinds
  <2>6. CASE c.type = "activity"
    <3>1. ActivityCommandAccepted(s, r.actor, c, engine)
      BY <2>6 DEF Accepted, SessionCommandAccepted
    <3>2. s.activity \in ActiveActivities
      BY <3>1, <1>1 DEF ActivityCommandAccepted
    <3>3. c.payload \in ActivityPayloads
      BY <2>6, <1>1 DEF Commands
    <3>4. EngineResult(r.actor, s.activity.state, c.payload) \in ActivityStates
      BY <3>1, <3>2, <3>3, <1>1, EngineAssumption
      DEF ActivityCommandAccepted, ActiveActivities
    <3>5. s.activity.revision + 1 \in U64
      BY <3>1, <3>2, MaxU64Assumption
      DEF ActivityCommandAccepted, ActiveActivities, U64
    <3>6. s.activity.descriptor \in Descriptors
      BY <3>2 DEF ActiveActivities
    <3> QED
      BY <2>6, <3>4, <3>5, <3>6 DEF DecidedKind, EventKinds
  <2> QED
    BY <1>1, <2>1, <2>2, <2>3, <2>4, <2>5, <2>6 DEF Commands
<1> QED
  BY <1>1, <1>2, <1>3
  DEF DecidedEvent, SessionEvents, EventIds, EventIdFromCausation

\* decide and apply agree: in a consistent state, the event of an accepted
\* request passes every check of SessionState::apply.
LEMMA DecidedEventApplies ==
  ASSUME NEW s \in SessionStates, NEW r \in CommandRequests, NEW engine \in BOOLEAN,
         Accepted(s, r, engine)
  PROVE  CanApply(s, DecidedEvent(s, r))
<1> DEFINE c == r.command
           k == DecidedKind(s, r.actor, c)
<1>1. s.revision < MaxU64 /\ c \in Commands
  BY DEF Accepted, CommandRequests
<1>2. CASE c.type = "create_session"
  BY <1>1, <1>2 DEF Accepted, SessionCommandAccepted, ActivityCommandAccepted,
     DecidedEvent, DecidedKind, CanApply, SessionEventApplies
<1>3. CASE c.type = "join"
  BY <1>1, <1>3 DEF Accepted, SessionCommandAccepted, ActivityCommandAccepted,
     DecidedEvent, DecidedKind, CanApply, SessionEventApplies
<1>4. CASE c.type = "start_activity"
  BY <1>1, <1>4 DEF Accepted, SessionCommandAccepted, ActivityCommandAccepted,
     RequireAuthority, DecidedEvent, DecidedKind, CanApply, SessionEventApplies
<1>5. CASE c.type = "stop_activity"
  BY <1>1, <1>5 DEF Accepted, SessionCommandAccepted, ActivityCommandAccepted,
     RequireAuthority, DecidedEvent, DecidedKind, CanApply, SessionEventApplies
<1>6. CASE c.type = "transfer_authority"
  BY <1>1, <1>6 DEF Accepted, SessionCommandAccepted, ActivityCommandAccepted,
     RequireAuthority, TransferAllowed, DecidedEvent, DecidedKind, CanApply,
     SessionEventApplies
<1>7. CASE c.type = "activity"
  BY <1>1, <1>7 DEF Accepted, SessionCommandAccepted, ActivityCommandAccepted,
     DecidedEvent, DecidedKind, CanApply, ActivityEventApplies
<1> QED
  BY <1>1, <1>2, <1>3, <1>4, <1>5, <1>6, <1>7 DEF Commands

\* The effect of an event's kind on a session state is a session state.
LEMMA ReduceType ==
  ASSUME NEW s \in SessionStates, NEW k \in EventKinds
  PROVE  Reduce(s, k) \in SessionStates
<1>1. CASE k.type = "session_created"
  BY <1>1 DEF Reduce, EventKinds, SessionStates, Lifecycles
<1>2. CASE k.type = "participant_joined"
  BY <1>2 DEF Reduce, EventKinds, SessionStates
<1>3. CASE k.type = "activity_started"
  <2>1. k.descriptor \in Descriptors /\ k.initial_state \in ActivityStates
    BY <1>3 DEF EventKinds
  <2>2. 0 \in U64
    BY MaxU64Assumption DEF U64
  <2> QED
    BY <1>3, <2>1, <2>2
    DEF Reduce, Started, SessionStates, ActiveActivities, Lifecycles
<1>4. CASE k.type = "activity_stopped"
  BY <1>4 DEF Reduce, Stopped, SessionStates, Lifecycles
<1>5. CASE k.type = "authority_transferred"
  BY <1>5 DEF Reduce, Transferred, EventKinds, SessionStates
<1>6. CASE k.type = "activity"
  <2>1. /\ k.descriptor \in Descriptors /\ k.activity_sequence \in U64
        /\ k.resulting_state \in ActivityStates
    BY <1>6 DEF EventKinds
  <2> QED
    BY <1>6, <2>1 DEF Reduce, ActivityAdvanced, SessionStates, ActiveActivities
<1> QED
  BY <1>1, <1>2, <1>3, <1>4, <1>5, <1>6 DEF EventKinds

\* Applying an event gives a session state again.
LEMMA ApplyType ==
  ASSUME NEW s \in SessionStates, NEW e \in SessionEvents
  PROVE  Apply(s, e) \in SessionStates
<1>1. Reduce(s, e.kind) \in SessionStates /\ e.sequence \in U64
  BY ReduceType DEF SessionEvents
<1> QED
  BY <1>1 DEF Apply, SessionStates

\* Replaying well-formed events gives session states all the way.
LEMMA ReplayPathType ==
  ASSUME NEW initial \in SessionStates, NEW es \in Seq(SessionEvents)
  PROVE  \A i \in 0..Len(es) :
           ReplayPath(initial, es)[i] \in [ok : BOOLEAN, state : SessionStates]
<1> DEFINE p == ReplayPath(initial, es)
           V == [ok : BOOLEAN, state : SessionStates]
           S == {k \in Nat : k <= Len(es) => p[k] \in V}
<1>1. /\ Len(es) \in Nat
      /\ p[0] = [ok |-> TRUE, state |-> initial]
      /\ \A i \in 1..Len(es) : p[i] = ReplayStep(initial, p[i - 1], es[i])
  BY ReplayPathIsPath, ReplayPathValues
<1> HIDE DEF p
<1>2. 0 \in S
  <2>1. [ok |-> TRUE, state |-> initial] \in V
    OBVIOUS
  <2> QED
    BY <1>1, <2>1
<1>3. ASSUME NEW k \in Nat, k \in S PROVE k + 1 \in S
  <2> SUFFICES ASSUME k + 1 <= Len(es) PROVE p[k + 1] \in V
    OBVIOUS
  <2>1. p[k] \in V /\ k + 1 \in 1..Len(es) /\ es[k + 1] \in SessionEvents
    BY <1>1, <1>3
  <2>2. p[k + 1] = ReplayStep(initial, p[k], es[k + 1])
    BY <1>1, <2>1
  <2>3. Apply(p[k].state, es[k + 1]) \in SessionStates
    BY <2>1, ApplyType
  <2> QED
    BY <2>2, <2>3 DEF ReplayStep
<1> HIDE DEF S
<1>4. Nat \subseteq S
  BY <1>2, <1>3, SetInduction
<1>5. \A i \in 0..Len(es) : p[i] \in V
  BY <1>1, <1>4 DEF S
<1> QED
  BY <1>5 DEF p

\* While every event applies, the revision counts the events.
LEMMA ReplayPathRevision ==
  ASSUME NEW es \in Seq(SessionEvents), NEW i \in 0..Len(es),
         ReplayPath(Uninitialized, es)[i].ok
  PROVE  ReplayPath(Uninitialized, es)[i].state.revision = i
<1> DEFINE p == ReplayPath(Uninitialized, es)
           S == {k \in Nat : k <= Len(es) /\ p[k].ok => p[k].state.revision = k}
<1>1. /\ Len(es) \in Nat
      /\ p[0] = [ok |-> TRUE, state |-> Uninitialized]
      /\ \A k \in 1..Len(es) : p[k] = ReplayStep(Uninitialized, p[k - 1], es[k])
  BY ReplayPathIsPath, ReplayPathValues
<1>2. p[i].ok
  OBVIOUS
<1>0. \A k \in 0..Len(es) : p[k] \in [ok : BOOLEAN, state : SessionStates]
  <2>1. Uninitialized \in SessionStates
    BY MaxU64Assumption DEF Uninitialized, SessionStates, Lifecycles, U64
  <2> QED
    BY <2>1, ReplayPathType
<1> HIDE DEF p
<1>3. 0 \in S
  BY <1>1 DEF Uninitialized
<1>4. ASSUME NEW k \in Nat, k \in S PROVE k + 1 \in S
  <2> SUFFICES ASSUME k + 1 <= Len(es), p[k + 1].ok PROVE p[k + 1].state.revision = k + 1
    OBVIOUS
  <2>1. k + 1 \in 1..Len(es) /\ es[k + 1] \in SessionEvents
    BY <1>1
  <2>2. p[k + 1] = ReplayStep(Uninitialized, p[k], es[k + 1])
    BY <1>1, <2>1
  <2>3. p[k].ok /\ CanApply(p[k].state, es[k + 1])
    BY <2>2 DEF ReplayStep
  <2>4. p[k + 1].state = Apply(p[k].state, es[k + 1]) /\ p[k].state.revision = k
    BY <1>1, <1>4, <2>2, <2>3 DEF ReplayStep
  <2>5. p[k].state \in SessionStates /\ es[k + 1].kind \in EventKinds
    BY <1>0, <1>1, <2>1 DEF SessionEvents
  <2>6. Reduce(p[k].state, es[k + 1].kind) \in SessionStates
    BY <2>5, ReduceType
  <2>7. es[k + 1].sequence = k + 1
    BY <2>3, <2>4 DEF CanApply
  <2> QED
    BY <2>4, <2>6, <2>7 DEF Apply, SessionStates
<1> HIDE DEF S
<1>5. Nat \subseteq S
  BY <1>3, <1>4, SetInduction
<1>6. p[i].state.revision = i
  BY <1>1, <1>2, <1>5 DEF S
<1> QED
  BY <1>6 DEF p

=============================================================================
