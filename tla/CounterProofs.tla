---------------------------- MODULE CounterProofs ----------------------------
(***************************************************************************)
(* The counter of a session, for every width of its integers and every     *)
(* sequence of commands.                                                   *)
(*                                                                         *)
(* CounterOnlyClimbs speaks of the log alone and is not inductive: the     *)
(* engine computes from the state.  The invariant adds that the state of a *)
(* running activity is what the last event of the log that set the counter *)
(* set it to.                                                              *)
(***************************************************************************)
EXTENDS CounterSession, SessionProofs

\* The inductive invariant.
CounterInv ==
  /\ CounterOnlyClimbs
  /\ \A i \in DOMAIN log :
       log[i].kind.type = "activity" => CounterEvents(log, i - 1) # {}
  /\ state.activity # NoActivity =>
       /\ CounterEvents(log, Len(log)) # {}
       /\ state.activity.state = CounterSet(log[Latest(CounterEvents(log, Len(log)))].kind)
       /\ state.activity.state \in 0..MaxI64

\* An appended event changes nothing about what set the counter before it.
LEMMA CounterEventsAppend ==
  ASSUME NEW l \in Seq(SessionEvents), NEW e \in SessionEvents
  PROVE  /\ \A i \in 0..Len(l) : CounterEvents(Append(l, e), i) = CounterEvents(l, i)
         /\ \A i \in 0..Len(l) : CounterEvents(l, i) # {} =>
              Latest(CounterEvents(l, i)) \in 1..i
         /\ e.kind.type \in {"activity_started", "activity"} =>
              Latest(CounterEvents(Append(l, e), Len(l) + 1)) = Len(l) + 1
         /\ e.kind.type \notin {"activity_started", "activity"} =>
              CounterEvents(Append(l, e), Len(l) + 1) = CounterEvents(l, Len(l))
<1> DEFINE n == Len(l)
           m == Append(l, e)
<1>1. n \in Nat /\ m[n + 1] = e /\ \A j \in 1..n : m[j] = l[j]
  OBVIOUS
<1>2. \A i \in 0..n : CounterEvents(m, i) = CounterEvents(l, i)
  BY <1>1 DEF CounterEvents
<1>3. ASSUME NEW i \in 0..n, CounterEvents(l, i) # {}
      PROVE  Latest(CounterEvents(l, i)) \in 1..i
  <2>1. CounterEvents(l, i) \in SUBSET (1..i) /\ i \in Nat
    BY DEF CounterEvents
  <2> QED
    BY <1>3, <2>1, LatestExists
<1>4. ASSUME e.kind.type \in {"activity_started", "activity"}
      PROVE  Latest(CounterEvents(m, n + 1)) = n + 1
  <2>1. /\ n + 1 \in Nat /\ CounterEvents(m, n + 1) \in SUBSET (1..(n + 1))
        /\ n + 1 \in CounterEvents(m, n + 1)
        /\ \A k \in CounterEvents(m, n + 1) : k <= n + 1
    BY <1>1, <1>4 DEF CounterEvents
  <2> HIDE DEF m, n
  <2> QED
    BY <2>1, LatestUnique
<1>5. ASSUME e.kind.type \notin {"activity_started", "activity"}
      PROVE  CounterEvents(m, n + 1) = CounterEvents(l, n)
  BY <1>1, <1>5 DEF CounterEvents
<1> QED
  BY <1>2, <1>3, <1>4, <1>5

\* What an accepted request does to the counter: an increment adds a positive
\* amount that fits, a start sets it to zero, nothing else touches it.
LEMMA DecidedCounter ==
  ASSUME NEW s \in SessionStates, NEW r \in CommandRequests, NEW engine \in BOOLEAN,
         Accepted(s, r, engine), Apply(s, DecidedEvent(s, r)).activity # NoActivity,
         s.activity # NoActivity => s.activity.state \in 0..MaxI64
  PROVE  LET e == DecidedEvent(s, r)
             t == Apply(s, e)
         IN  /\ e.kind.type \in {"activity_started", "activity"} =>
                  t.activity.state = CounterSet(e.kind)
             /\ e.kind.type \notin {"activity_started", "activity"} =>
                  t.activity = s.activity
             /\ e.kind.type = "activity" =>
                  /\ s.activity # NoActivity
                  /\ e.kind.resulting_state \in (s.activity.state + 1)..MaxI64
             /\ t.activity.state \in 0..MaxI64
<1> DEFINE c == r.command
           e == DecidedEvent(s, r)
           k == DecidedKind(s, r.actor, c)
           t == Apply(s, e)
<1>1. e \in SessionEvents /\ CanApply(s, e) /\ e.kind = k /\ k \in EventKinds
  <2>1. e \in SessionEvents /\ CanApply(s, e)
    BY DecidedEventType, DecidedEventApplies
  <2>2. e.kind = k
    BY DEF DecidedEvent
  <2> QED
    BY <2>1, <2>2 DEF SessionEvents
<1>2. t.activity = Reduce(s, k).activity
  <2>1. Reduce(s, k) \in SessionStates
    BY <1>1, ReduceType
  <2> QED
    BY <1>1, <2>1 DEF Apply, SessionStates
<1>3. c \in Commands /\ r.actor \in Participants
  BY DEF CommandRequests
<1>4. CASE c.type = "start_activity"
  <2>1. /\ k.type = "activity_started" /\ k.initial_state = 0
    BY <1>4, CounterEngineAssumption DEF DecidedKind, CounterInitialState
  <2>2. Reduce(s, k).activity = [descriptor |-> k.descriptor, revision |-> 0,
                                 state |-> k.initial_state]
    BY <2>1 DEF Reduce, Started, SessionStates
  <2>3. t.activity.state = 0
    BY <1>2, <2>1, <2>2
  <2> QED
    BY <1>1, <2>1, <2>3, MaxI64Assumption DEF CounterSet
<1>5. CASE c.type = "activity"
  <2>1. ActivityCommandAccepted(s, r.actor, c, engine)
    BY <1>5 DEF Accepted, SessionCommandAccepted
  <2>2. s.activity \in ActiveActivities /\ s.activity # NoActivity
    BY <2>1 DEF ActivityCommandAccepted, SessionStates
  <2>3. s.activity.state \in I64 /\ s.activity.state \in 0..MaxI64
    BY <2>2, CounterEngineAssumption DEF ActiveActivities
  <2>4. c.payload \in CounterCommands
    BY <1>3, <1>5, CounterEngineAssumption DEF Commands
  <2>5. /\ CanIncrement(s.activity.state, c.payload)
        /\ EngineResult(r.actor, s.activity.state, c.payload)
             = s.activity.state + c.payload.amount
    BY <1>3, <2>1, <2>3, <2>4, CounterEngineAssumption
    DEF ActivityCommandAccepted, CounterAccepts, CounterResult
  <2>6. c.payload.amount \in I64
    BY <2>4, <2>5 DEF CounterCommands, CanIncrement
  <2>7. s.activity.state + c.payload.amount \in (s.activity.state + 1)..MaxI64
    BY <2>3, <2>5, <2>6, MaxI64Assumption DEF CanIncrement, I64
  <2>8. k.type = "activity" /\ k.resulting_state = s.activity.state + c.payload.amount
    BY <1>5, <2>5 DEF DecidedKind
  <2>9. Reduce(s, k).activity = [descriptor |-> k.descriptor,
          revision |-> k.activity_sequence, state |-> k.resulting_state]
    BY <2>8 DEF Reduce, ActivityAdvanced, SessionStates
  <2>10. t.activity.state = k.resulting_state
    BY <1>2, <2>9
  <2>11. k.resulting_state \in 0..MaxI64
    BY <2>3, <2>7, <2>8, MaxI64Assumption
  <2> QED
    BY <1>1, <2>2, <2>7, <2>8, <2>10, <2>11 DEF CounterSet
<1>6. CASE c.type = "stop_activity"
  <2>1. k.type = "activity_stopped"
    BY <1>6 DEF DecidedKind
  <2>2. t.activity = NoActivity
    BY <1>2, <2>1 DEF Reduce, Stopped, SessionStates
  <2> QED
    BY <2>2
<1>7. CASE c.type \in {"create_session", "join", "transfer_authority"}
  <2>1. k.type \in {"session_created", "participant_joined", "authority_transferred"}
    BY <1>7 DEF DecidedKind
  <2>2. t.activity = s.activity
    BY <1>2, <2>1 DEF Reduce, Transferred, SessionStates
  <2> QED
    BY <1>1, <2>1, <2>2
<1> QED
  BY <1>3, <1>4, <1>5, <1>6, <1>7 DEF Commands

\* Along the events of one activity the counter only climbs and never passes
\* i64::MAX, whatever is asked of it and however often it is stopped and started.
THEOREM CounterClimbs == Spec => []CounterOnlyClimbs
<1>1. Init => CounterInv
  BY DEF Init, Uninitialized, CounterInv, CounterOnlyClimbs
<1>2. SessionInv /\ CounterInv /\ [Next]_vars => CounterInv'
  <2> SUFFICES ASSUME SessionInv, CounterInv, [Next]_vars PROVE CounterInv'
    OBVIOUS
  <2>1. ASSUME NEW e \in SessionEvents, CanApply(state, e), state' = Apply(state, e),
               log' = Append(log, e),
               NEW r \in CommandRequests, NEW engine \in BOOLEAN,
               Accepted(state, r, engine), e = DecidedEvent(state, r)
        PROVE  CounterInv'
    <3> DEFINE n == Len(log)
               last(i) == Latest(CounterEvents(log, i))
    <3>1. state \in SessionStates /\ log \in Seq(SessionEvents) /\ Consistent(state)
      BY DEF SessionInv, TypeOK, SessionConsistent
    <3>2. /\ n \in Nat /\ Len(log') = n + 1 /\ log'[n + 1] = e
          /\ DOMAIN log' = 1..(n + 1) /\ DOMAIN log = 1..n
          /\ \A i \in 1..n : log'[i] = log[i]
      BY <2>1, <3>1
    <3>3. /\ \A i \in 0..n : CounterEvents(log', i) = CounterEvents(log, i)
          /\ \A i \in 0..n : CounterEvents(log, i) # {} => last(i) \in 1..i
          /\ e.kind.type \in {"activity_started", "activity"} =>
               Latest(CounterEvents(log', n + 1)) = n + 1
          /\ e.kind.type \notin {"activity_started", "activity"} =>
               CounterEvents(log', n + 1) = CounterEvents(log, n)
      BY <2>1, <3>1, CounterEventsAppend
    <3>4. e.kind.type = "activity" =>
            /\ state.activity # NoActivity
            /\ e.kind.resulting_state \in (state.activity.state + 1)..MaxI64
      <4> SUFFICES ASSUME e.kind.type = "activity"
                   PROVE  /\ state.activity # NoActivity
                          /\ e.kind.resulting_state \in (state.activity.state + 1)..MaxI64
        OBVIOUS
      <4>1. state'.activity # NoActivity
        <5>1. Consistent(state') /\ state'.lifecycle = "active"
          <6>1. Consistent(state')
            BY <2>1, <3>1, ApplyConsistent
          <6>2. state.activity # NoActivity
            BY <2>1 DEF CanApply, SessionEventApplies, ActivityEventApplies
          <6>3. state'.lifecycle = state.lifecycle
            BY <2>1, <3>1 DEF Apply, Reduce, ActivityAdvanced, SessionStates
          <6> QED
            BY <3>1, <6>1, <6>2, <6>3 DEF Consistent
        <5> QED
          BY <5>1 DEF Consistent
      <4> QED
        BY <2>1, <3>1, <4>1, DecidedCounter DEF CounterInv
    <3>5. CounterOnlyClimbs'
      <4> SUFFICES ASSUME NEW i \in DOMAIN log', log'[i].kind.type = "activity"
                   PROVE  log'[i].kind.resulting_state \in
                     (CounterSet(log'[Latest(CounterEvents(log', i - 1))].kind) + 1)..MaxI64
        BY DEF CounterOnlyClimbs
      <4>1. CASE i \in 1..n
        <5>1. log'[i] = log[i] /\ i - 1 \in 0..n /\ i \in DOMAIN log
          BY <3>2, <4>1
        <5>2. log[i].kind.resulting_state \in
                (CounterSet(log[last(i - 1)].kind) + 1)..MaxI64
          BY <5>1 DEF CounterInv, CounterOnlyClimbs
        <5>3. CounterEvents(log, i - 1) # {}
          BY <5>1 DEF CounterInv
        <5>4. log'[last(i - 1)] = log[last(i - 1)]
          BY <3>2, <3>3, <5>1, <5>3
        <5> QED
          BY <3>3, <5>1, <5>2, <5>4
      <4>2. CASE i = n + 1
        <5>1. i - 1 = n /\ n \in 0..n /\ log'[i] = e
          BY <3>2, <4>2
        <5>2. /\ state.activity # NoActivity /\ last(n) \in 1..n
              /\ state.activity.state = CounterSet(log[last(n)].kind)
          BY <3>3, <3>4, <5>1 DEF CounterInv
        <5>3. log'[last(n)] = log[last(n)] /\ CounterEvents(log', n) = CounterEvents(log, n)
          BY <3>2, <3>3, <5>1, <5>2
        <5> QED
          BY <3>4, <5>1, <5>2, <5>3
      <4> QED
        BY <3>2, <4>1, <4>2
    <3>6. ASSUME NEW i \in DOMAIN log', log'[i].kind.type = "activity"
          PROVE  CounterEvents(log', i - 1) # {}
      <4>1. CASE i \in 1..n
        <5>1. log'[i] = log[i] /\ i - 1 \in 0..n /\ i \in DOMAIN log
          BY <3>2, <4>1
        <5> QED
          BY <3>3, <3>6, <5>1 DEF CounterInv
      <4>2. CASE i = n + 1
        <5>1. i - 1 = n /\ n \in 0..n /\ log'[i] = e
          BY <3>2, <4>2
        <5> QED
          BY <3>3, <3>4, <3>6, <5>1 DEF CounterInv
      <4> QED
        BY <3>2, <4>1, <4>2
    <3>7. ASSUME state'.activity # NoActivity
          PROVE  /\ CounterEvents(log', n + 1) # {}
                 /\ state'.activity.state
                      = CounterSet(log'[Latest(CounterEvents(log', n + 1))].kind)
                 /\ state'.activity.state \in 0..MaxI64
      <4>1. /\ e.kind.type \in {"activity_started", "activity"} =>
                 state'.activity.state = CounterSet(e.kind)
            /\ e.kind.type \notin {"activity_started", "activity"} =>
                 state'.activity = state.activity
            /\ state'.activity.state \in 0..MaxI64
        BY <2>1, <3>1, <3>7, DecidedCounter DEF CounterInv
      <4>2. CASE e.kind.type \in {"activity_started", "activity"}
        <5>1. n + 1 \in CounterEvents(log', n + 1)
          BY <3>2, <4>2 DEF CounterEvents
        <5> QED
          BY <3>2, <3>3, <4>1, <4>2, <5>1
      <4>3. CASE e.kind.type \notin {"activity_started", "activity"}
        <5>1. n \in 0..n /\ state'.activity = state.activity
          BY <3>2, <4>1, <4>3
        <5>2. /\ CounterEvents(log, n) # {} /\ last(n) \in 1..n
              /\ state.activity.state = CounterSet(log[last(n)].kind)
          BY <3>3, <3>7, <5>1 DEF CounterInv
        <5>3. log'[last(n)] = log[last(n)]
          BY <3>2, <5>2
        <5> QED
          BY <3>3, <4>1, <4>3, <5>1, <5>2, <5>3
      <4> QED
        BY <4>2, <4>3
    <3> QED
      BY <3>2, <3>5, <3>6, <3>7 DEF CounterInv
  <2>2. CASE UNCHANGED <<state, log>>
    BY <2>2 DEF CounterInv, CounterOnlyClimbs
  <2> QED
    BY <2>1, <2>2, StepAppends
<1>3. CounterInv => CounterOnlyClimbs
  BY DEF CounterInv
<1> QED
  BY <1>1, <1>2, <1>3, InitInv, NextInv, PTL DEF Spec

=============================================================================
