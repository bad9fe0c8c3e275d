---------------------------- MODULE SessionProofs ----------------------------
(***************************************************************************)
(* What holds of a session for every set of participants, descriptors and  *)
(* activity states, every activity engine and every width of the revision  *)
(* counter.                                                                *)
(***************************************************************************)
EXTENDS Session, RuntimeLemmas, FiniteSetTheorems

\* Applying an event keeps a session consistent.
LEMMA ApplyConsistent ==
  ASSUME NEW s \in SessionStates, NEW e \in SessionEvents, CanApply(s, e),
         Consistent(s)
  PROVE  Consistent(Apply(s, e))
<1> DEFINE k == e.kind
           t == Reduce(s, k)
<1>1. k \in EventKinds
  BY DEF SessionEvents
<1>2. Consistent(t)
  <2>1. CASE k.type = "session_created"
    BY <2>1, <1>1, NoActivityAssumption
    DEF CanApply, SessionEventApplies, ActivityEventApplies, Reduce, Consistent,
        SessionStates, EventKinds
  <2>2. CASE k.type = "participant_joined"
    BY <2>2
    DEF CanApply, SessionEventApplies, ActivityEventApplies, Reduce, Consistent,
        SessionStates
  <2>3. CASE k.type = "activity_started"
    <3>1. /\ k.descriptor \in Descriptors /\ k.initial_state \in ActivityStates
          /\ 0 \in U64
      BY <1>1, <2>3, MaxU64Assumption DEF EventKinds, U64
    <3>2. [descriptor |-> k.descriptor, revision |-> 0, state |-> k.initial_state]
            # NoActivity
      BY <3>1, NoActivityAssumption DEF ActiveActivities
    <3> QED
      BY <2>3, <3>2
      DEF CanApply, SessionEventApplies, ActivityEventApplies, Reduce, Started,
          Consistent, SessionStates
  <2>4. CASE k.type = "activity_stopped"
    BY <2>4
    DEF CanApply, SessionEventApplies, ActivityEventApplies, Reduce, Stopped,
        Consistent, SessionStates
  <2>5. CASE k.type = "authority_transferred"
    BY <2>5, NoParticipantAssumption, <1>1
    DEF CanApply, SessionEventApplies, ActivityEventApplies, Reduce, Transferred,
        Consistent, SessionStates, EventKinds
  <2>6. CASE k.type = "activity"
    <3>1. /\ k.descriptor \in Descriptors /\ k.activity_sequence \in U64
          /\ k.resulting_state \in ActivityStates
      BY <1>1, <2>6 DEF EventKinds
    <3>2. [descriptor |-> k.descriptor, revision |-> k.activity_sequence,
           state |-> k.resulting_state] # NoActivity
      BY <3>1, NoActivityAssumption DEF ActiveActivities
    <3> QED
      BY <2>6, <3>2
      DEF CanApply, SessionEventApplies, ActivityEventApplies, Reduce,
          ActivityAdvanced, Consistent, SessionStates
  <2> QED
    BY <1>1, <2>1, <2>2, <2>3, <2>4, <2>5, <2>6 DEF EventKinds
<1> QED
  <2>1. t \in SessionStates
    BY <1>1, ReduceType
  <2> QED
    BY <1>2, <2>1 DEF Apply, Consistent, SessionStates

-----------------------------------------------------------------------------

\* The inductive invariant.
SessionInv == TypeOK /\ SessionConsistent /\ DecisionsApply

\* A new session satisfies it.
LEMMA InitInv == Init => SessionInv
<1> SUFFICES ASSUME Init PROVE SessionInv
  OBVIOUS
<1>1. state \in SessionStates
  BY MaxU64Assumption
  DEF Init, Uninitialized, SessionStates, Lifecycles, U64
<1>2. Consistent(state)
  BY DEF Init, Uninitialized, Consistent
<1> QED
  BY <1>1, <1>2 DEF Init, SessionInv, TypeOK, SessionConsistent, DecisionsApply

\* Every execute keeps it: an accepted command by the lemmas above, a rejected
\* one by leaving the state alone.
LEMMA NextInv == SessionInv /\ [Next]_vars => SessionInv'
<1> SUFFICES ASSUME SessionInv, [Next]_vars PROVE SessionInv'
  OBVIOUS
<1>1. state \in SessionStates /\ log \in Seq(SessionEvents) /\ Consistent(state)
  BY DEF SessionInv, TypeOK, SessionConsistent
<1>2. ASSUME NEW r \in CommandRequests, NEW engine \in BOOLEAN,
             ExecuteAccepted(r, engine)
      PROVE  SessionInv'
  <2> DEFINE event == DecidedEvent(state, r)
  <2>1. Accepted(state, r, engine)
    BY <1>2 DEF ExecuteAccepted
  <2>2. event \in SessionEvents
    BY <1>1, <2>1, DecidedEventType
  <2>3. CanApply(state, event)
    BY <1>1, <2>1, DecidedEventApplies
  <2>4. /\ state' = Apply(state, event)
        /\ log' = Append(log, event)
        /\ outcome' = "accepted"
    BY <1>2, <2>3 DEF ExecuteAccepted
  <2>5. state' \in SessionStates
    BY <1>1, <2>2, <2>4, ApplyType
  <2>6. Consistent(state')
    BY <1>1, <2>2, <2>3, <2>4, ApplyConsistent
  <2>7. log' \in Seq(SessionEvents)
    BY <1>1, <2>2, <2>4
  <2> QED
    BY <2>4, <2>5, <2>6, <2>7 DEF SessionInv, TypeOK, SessionConsistent, DecisionsApply
<1>3. ASSUME NEW r \in CommandRequests, NEW engine \in BOOLEAN,
             ExecuteRejected(r, engine)
      PROVE  SessionInv'
  BY <1>1, <1>3
  DEF ExecuteRejected, SessionInv, TypeOK, SessionConsistent, DecisionsApply
<1>4. CASE UNCHANGED vars
  BY <1>1, <1>4 DEF vars, SessionInv, TypeOK, SessionConsistent, DecisionsApply
<1> QED
  BY <1>2, <1>3, <1>4 DEF Next

\* execute keeps the state, the log and the outcome in their types: revisions
\* never pass u64::MAX, and every event it records is well formed.
THEOREM TypeCorrect == Spec => []TypeOK
<1>1. SessionInv => TypeOK
  BY DEF SessionInv
<1> QED
  BY <1>1, InitInv, NextInv, PTL DEF Spec

\* For every engine and any sequence of commands, the session keeps an authority
\* among its participants and is active exactly while it has an activity.
THEOREM SessionStaysConsistent == Spec => []SessionConsistent
<1>1. SessionInv => SessionConsistent
  BY DEF SessionInv
<1> QED
  BY <1>1, InitInv, NextInv, PTL DEF Spec

\* execute never fails in apply what decide has accepted.
THEOREM AcceptedDecisionsApply == Spec => []DecisionsApply
<1>1. SessionInv => DecisionsApply
  BY DEF SessionInv
<1> QED
  BY <1>1, InitInv, NextInv, PTL DEF Spec

-----------------------------------------------------------------------------
(***************************************************************************)
(* The state and its log.  Three facts relate them; each is inductive once *)
(* an accepted step is known to append the event it applied.               *)
(***************************************************************************)

\* A step of the session either appends to the log the event of an accepted
\* request, which applies, or leaves state and log alone.
LEMMA StepAppends ==
  ASSUME SessionInv, [Next]_vars
  PROVE  \/ \E e \in SessionEvents :
              /\ CanApply(state, e) /\ state' = Apply(state, e) /\ log' = Append(log, e)
              /\ \E r \in CommandRequests, engine \in BOOLEAN :
                   Accepted(state, r, engine) /\ e = DecidedEvent(state, r)
         \/ UNCHANGED <<state, log>>
<1>1. state \in SessionStates
  BY DEF SessionInv, TypeOK
<1>2. ASSUME NEW r \in CommandRequests, NEW engine \in BOOLEAN,
             ExecuteAccepted(r, engine)
      PROVE  LET e == DecidedEvent(state, r) IN
             /\ Accepted(state, r, engine) /\ e \in SessionEvents
             /\ CanApply(state, e) /\ state' = Apply(state, e) /\ log' = Append(log, e)
  <2>1. Accepted(state, r, engine)
    BY <1>2 DEF ExecuteAccepted
  <2>2. DecidedEvent(state, r) \in SessionEvents /\ CanApply(state, DecidedEvent(state, r))
    BY <1>1, <2>1, DecidedEventType, DecidedEventApplies
  <2> QED
    BY <1>2, <2>1, <2>2 DEF ExecuteAccepted
<1>3. ASSUME NEW r \in CommandRequests, NEW engine \in BOOLEAN,
             ExecuteRejected(r, engine)
      PROVE  UNCHANGED <<state, log>>
  BY <1>3 DEF ExecuteRejected
<1> QED
  BY <1>2, <1>3 DEF Next, vars

\* What an event does to the authority, and whose act a privileged event is.
LEMMA ApplyAuthority ==
  ASSUME NEW s \in SessionStates, NEW e \in SessionEvents, CanApply(s, e)
  PROVE  /\ e.kind.type \in {"session_created", "authority_transferred"} =>
              Apply(s, e).authority = Grantee(e.kind)
         /\ e.kind.type \notin {"session_created", "authority_transferred"} =>
              Apply(s, e).authority = s.authority
         /\ e.kind.type \in {"activity_started", "activity_stopped",
                             "authority_transferred"} => e.actor = s.authority
<1> DEFINE k == e.kind
           t == Reduce(s, k)
<1>1. k \in EventKinds
  BY DEF SessionEvents
<1>2. t \in SessionStates /\ Apply(s, e).authority = t.authority
  <2>1. t \in SessionStates
    BY <1>1, ReduceType
  <2> QED
    BY <2>1 DEF Apply, SessionStates
<1>3. CASE k.type = "session_created"
  BY <1>2, <1>3 DEF Reduce, SessionStates, Grantee
<1>4. CASE k.type = "participant_joined"
  BY <1>2, <1>4 DEF Reduce, SessionStates
<1>5. CASE k.type = "activity_started"
  BY <1>2, <1>5 DEF Reduce, Started, SessionStates, CanApply, SessionEventApplies,
     ActivityEventApplies
<1>6. CASE k.type = "activity_stopped"
  BY <1>2, <1>6 DEF Reduce, Stopped, SessionStates, CanApply, SessionEventApplies,
     ActivityEventApplies
<1>7. CASE k.type = "authority_transferred"
  BY <1>2, <1>7 DEF Reduce, Transferred, SessionStates, CanApply, SessionEventApplies,
     ActivityEventApplies, Grantee
<1>8. CASE k.type = "activity"
  BY <1>2, <1>8 DEF Reduce, ActivityAdvanced, SessionStates
<1> QED
  BY <1>1, <1>3, <1>4, <1>5, <1>6, <1>7, <1>8 DEF EventKinds

\* Some indexes of a log have a last one.
LEMMA LatestExists ==
  ASSUME NEW n \in Nat, NEW G \in SUBSET (1..n), G # {}
  PROVE  Latest(G) \in G /\ \A k \in G : k <= Latest(G)
<1> DEFINE T == {n - j : j \in G}
<1>1. T \in SUBSET Nat /\ T # {}
  <2>1. \A j \in G : j \in 1..n
    OBVIOUS
  <2>2. \A j \in G : n - j \in Nat
    BY <2>1
  <2> QED
    BY <2>2
<1>2. PICK m \in T : \A k \in T : m <= k
  BY <1>1, NatLeast
<1>3. PICK j \in G : m = n - j
  BY <1>2
<1>4. ASSUME NEW k \in G PROVE k <= j
  <2>1. n - j <= n - k
    BY <1>2, <1>3
  <2> QED
    BY <2>1
<1>5. \E x \in G : \A k \in G : k <= x
  BY <1>4
<1> QED
  BY <1>5 DEF Latest

\* It is known by being the last.
LEMMA LatestUnique ==
  ASSUME NEW n \in Nat, NEW G \in SUBSET (1..n), NEW j \in G, \A k \in G : k <= j
  PROVE  Latest(G) = j
<1>1. Latest(G) \in G /\ \A k \in G : k <= Latest(G)
  BY LatestExists
<1>2. Latest(G) <= j /\ j <= Latest(G)
  BY <1>1
<1>3. Latest(G) \in 1..n /\ j \in 1..n
  BY <1>1
<1> QED
  BY <1>2, <1>3

\* An event appended to a log changes nothing about who held the authority before.
LEMMA HolderStable ==
  ASSUME NEW l \in Seq(SessionEvents), NEW e \in SessionEvents, NEW i \in 0..Len(l)
  PROVE  HolderAfter(Append(l, e), i) = HolderAfter(l, i)
<1>1. \A j \in 1..i : Append(l, e)[j] = l[j]
  OBVIOUS
<1>2. Grants(Append(l, e), i) = Grants(l, i) /\ Grants(l, i) \in SUBSET (1..i) /\ i \in Nat
  BY <1>1 DEF Grants
<1>3. CASE Grants(l, i) = {}
  BY <1>2, <1>3 DEF HolderAfter
<1>4. CASE Grants(l, i) # {}
  <2>1. Latest(Grants(l, i)) \in 1..i
    BY <1>2, <1>4, LatestExists
  <2> QED
    BY <1>1, <1>2, <1>4, <2>1 DEF HolderAfter
<1> QED
  BY <1>3, <1>4

\* Who holds it after the appended event.
LEMMA HolderAppend ==
  ASSUME NEW l \in Seq(SessionEvents), NEW e \in SessionEvents
  PROVE  HolderAfter(Append(l, e), Len(l) + 1)
           = IF e.kind.type \in {"session_created", "authority_transferred"}
             THEN Grantee(e.kind) ELSE HolderAfter(l, Len(l))
<1> DEFINE n == Len(l)
           m == Append(l, e)
           isGrant(x) == x.kind.type \in {"session_created", "authority_transferred"}
<1>1. n \in Nat /\ m[n + 1] = e /\ \A j \in 1..n : m[j] = l[j]
  OBVIOUS
<1>2. CASE isGrant(e)
  <2>1. /\ n + 1 \in Grants(m, n + 1) /\ \A k \in Grants(m, n + 1) : k <= n + 1
        /\ Grants(m, n + 1) \in SUBSET (1..(n + 1))
    BY <1>1, <1>2 DEF Grants
  <2>2. Latest(Grants(m, n + 1)) = n + 1
    <3>1. n + 1 \in Nat
      BY <1>1
    <3> HIDE DEF m, n
    <3> QED
      BY <2>1, <3>1, LatestUnique
  <2>3. HolderAfter(m, n + 1) = Grantee(m[n + 1].kind)
    BY <2>1, <2>2 DEF HolderAfter
  <2> QED
    BY <1>1, <1>2, <2>3
<1>3. CASE ~isGrant(e)
  <2>1. Grants(m, n + 1) = Grants(m, n)
    BY <1>1, <1>3 DEF Grants
  <2>2. HolderAfter(m, n + 1) = HolderAfter(m, n)
    BY <2>1 DEF HolderAfter
  <2>3. HolderAfter(m, n) = HolderAfter(l, n)
    BY <1>1, HolderStable
  <2> QED
    BY <1>3, <2>2, <2>3
<1> QED
  BY <1>2, <1>3

\* The authority in the state is the holder the whole log names.
HolderInv == state.authority = HolderAfter(log, Len(log)) /\ PrivilegedEventsByHolder

\* Starting, stopping and handing over are the act of whoever held the authority
\* at that point of the log, however often it changed hands.
THEOREM PrivilegeFollowsAuthority == Spec => []PrivilegedEventsByHolder
<1>1. Init => HolderInv
  <2> SUFFICES ASSUME Init PROVE HolderInv
    OBVIOUS
  <2>1. log = <<>> /\ Len(log) = 0 /\ state.authority = NoParticipant
    BY DEF Init, Uninitialized
  <2>2. Grants(log, 0) = {}
    BY DEF Grants
  <2> QED
    BY <2>1, <2>2 DEF HolderInv, HolderAfter, PrivilegedEventsByHolder
<1>2. SessionInv /\ HolderInv /\ [Next]_vars => HolderInv'
  <2> SUFFICES ASSUME SessionInv, HolderInv, [Next]_vars PROVE HolderInv'
    OBVIOUS
  <2>1. ASSUME NEW e \in SessionEvents, CanApply(state, e), state' = Apply(state, e),
               log' = Append(log, e)
        PROVE  HolderInv'
    <3>1. state \in SessionStates /\ log \in Seq(SessionEvents)
      BY DEF SessionInv, TypeOK
    <3>2. /\ Len(log) \in Nat /\ Len(log') = Len(log) + 1 /\ log'[Len(log) + 1] = e
          /\ DOMAIN log' = 1..(Len(log) + 1) /\ DOMAIN log = 1..Len(log)
          /\ \A i \in 1..Len(log) : log'[i] = log[i]
      BY <2>1, <3>1
    <3>3. state'.authority = HolderAfter(log', Len(log'))
      BY <2>1, <3>1, <3>2, ApplyAuthority, HolderAppend DEF HolderInv
    <3>4. \A i \in 0..Len(log) : HolderAfter(log', i) = HolderAfter(log, i)
      BY <2>1, <3>1, HolderStable
    <3>5. ASSUME NEW i \in DOMAIN log',
                 log'[i].kind.type \in {"activity_started", "activity_stopped",
                                        "authority_transferred"}
          PROVE  log'[i].actor = HolderAfter(log', i - 1)
      <4>1. CASE i \in 1..Len(log)
        <5>1. log'[i] = log[i] /\ i \in DOMAIN log /\ i - 1 \in 0..Len(log)
          BY <3>2, <4>1
        <5>2. log[i].actor = HolderAfter(log, i - 1)
          BY <3>5, <5>1 DEF HolderInv, PrivilegedEventsByHolder
        <5> QED
          BY <3>4, <5>1, <5>2
      <4>2. CASE i = Len(log) + 1
        <5>1. log'[i] = e /\ i - 1 = Len(log) /\ Len(log) \in 0..Len(log)
          BY <3>2, <4>2
        <5>2. e.actor = state.authority
          BY <2>1, <3>1, <3>5, <5>1, ApplyAuthority
        <5> QED
          BY <3>4, <5>1, <5>2 DEF HolderInv
      <4> QED
        BY <3>2, <4>1, <4>2
    <3> QED
      BY <3>3, <3>5 DEF HolderInv, PrivilegedEventsByHolder
  <2>2. CASE UNCHANGED <<state, log>>
    BY <2>2 DEF HolderInv, PrivilegedEventsByHolder
  <2> QED
    BY <2>1, <2>2, StepAppends
<1>3. HolderInv => PrivilegedEventsByHolder
  BY DEF HolderInv
<1> QED
  BY <1>1, <1>2, <1>3, InitInv, NextInv, PTL DEF Spec

\* What an event does to the activity and its revision.
LEMMA ApplyActivity ==
  ASSUME NEW s \in SessionStates, NEW e \in SessionEvents, CanApply(s, e), Consistent(s)
  PROVE  /\ e.kind.type = "activity_started" => Apply(s, e).activity.revision = 0
         /\ e.kind.type = "activity_stopped" => Apply(s, e).activity = NoActivity
         /\ e.kind.type = "activity" =>
              /\ s.activity # NoActivity
              /\ Apply(s, e).activity.revision = s.activity.revision + 1
         /\ e.kind.type \notin {"activity_started", "activity_stopped", "activity"} =>
              Apply(s, e).activity = s.activity
<1> DEFINE k == e.kind
           t == Reduce(s, k)
<1>1. k \in EventKinds
  BY DEF SessionEvents
<1>2. t \in SessionStates /\ Apply(s, e).activity = t.activity
  <2>1. t \in SessionStates
    BY <1>1, ReduceType
  <2> QED
    BY <2>1 DEF Apply, SessionStates
<1>3. CASE k.type \in {"session_created", "participant_joined", "authority_transferred"}
  BY <1>2, <1>3 DEF Reduce, Transferred, SessionStates
<1>4. CASE k.type = "activity_started"
  <2>1. t = Started(s, k)
    BY <1>4 DEF Reduce
  <2>2. t.activity = [descriptor |-> k.descriptor, revision |-> 0,
                      state |-> k.initial_state]
    BY <2>1 DEF Started, SessionStates
  <2>3. t.activity.revision = 0
    BY <2>2
  <2> QED
    BY <1>2, <1>4, <2>3
<1>5. CASE k.type = "activity_stopped"
  BY <1>2, <1>5 DEF Reduce, Stopped, SessionStates
<1>6. CASE k.type = "activity"
  <2>1. ActivityEventApplies(s, e.actor, k)
    BY <1>6 DEF CanApply, SessionEventApplies
  <2> QED
    BY <1>2, <1>6, <2>1 DEF Reduce, ActivityAdvanced, SessionStates, ActivityEventApplies
<1> QED
  BY <1>1, <1>3, <1>4, <1>5, <1>6 DEF EventKinds

\* The activity's revision counts the activity events since the last start, for
\* any number of activities one after the other.
THEOREM ActivityRevisionIsACount == Spec => []ActivityRevisionCountsItsEvents
<1> USE DEF ActivityRevisionCountsItsEvents
<1>1. Init => ActivityRevisionCountsItsEvents
  BY DEF Init, Uninitialized
<1>2. SessionInv /\ ActivityRevisionCountsItsEvents /\ [Next]_vars
        => ActivityRevisionCountsItsEvents'
  <2> SUFFICES ASSUME SessionInv, ActivityRevisionCountsItsEvents, [Next]_vars
               PROVE  ActivityRevisionCountsItsEvents'
    OBVIOUS
  <2>1. ASSUME NEW e \in SessionEvents, CanApply(state, e), state' = Apply(state, e),
               log' = Append(log, e), state'.activity # NoActivity
        PROVE  \E start \in Starts(log') :
                 /\ \A i \in Starts(log') : i <= start
                 /\ state'.activity.revision = Cardinality(ActivityEventsAfter(log', start))
    <3> DEFINE n == Len(log)
    <3>1. state \in SessionStates /\ log \in Seq(SessionEvents) /\ Consistent(state)
      BY DEF SessionInv, TypeOK, SessionConsistent
    <3>2. /\ n \in Nat /\ Len(log') = n + 1 /\ log'[n + 1] = e
          /\ DOMAIN log' = 1..(n + 1) /\ DOMAIN log = 1..n
          /\ \A i \in 1..n : log'[i] = log[i]
      BY <2>1, <3>1
    <3>3. CASE e.kind.type = "activity_started"
      <4>1. n + 1 \in Starts(log') /\ \A i \in Starts(log') : i <= n + 1
        BY <3>2, <3>3 DEF Starts
      <4>2. ActivityEventsAfter(log', n + 1) = {}
        BY <3>2 DEF ActivityEventsAfter
      <4>3. state'.activity.revision = 0
        BY <2>1, <3>1, <3>3, ApplyActivity
      <4> QED
        BY <4>1, <4>2, <4>3, FS_EmptySet
    <3>4. CASE e.kind.type # "activity_started"
      <4>1. Starts(log') = Starts(log)
        BY <3>2, <3>4 DEF Starts
      <4>2. state.activity # NoActivity /\ e.kind.type # "activity_stopped"
        BY <2>1, <3>1, <3>4, ApplyActivity
      <4>3. PICK start \in Starts(log) :
              /\ \A i \in Starts(log) : i <= start
              /\ state.activity.revision = Cardinality(ActivityEventsAfter(log, start))
        BY <4>2
      <4> DEFINE A == ActivityEventsAfter(log, start)
      <4>4. start \in 1..n /\ IsFiniteSet(A) /\ A \subseteq (start + 1)..n
        <5>1. start \in 1..n /\ A \in SUBSET ((start + 1)..n)
          BY <3>2 DEF Starts, ActivityEventsAfter
        <5>2. IsFiniteSet((start + 1)..n)
          BY <3>2, <5>1, FS_Interval
        <5> QED
          BY <5>1, <5>2, FS_Subset
      <4>5. CASE e.kind.type = "activity"
        <5>1. ActivityEventsAfter(log', start) = A \cup {n + 1}
          BY <3>2, <4>4, <4>5 DEF ActivityEventsAfter
        <5>2. n + 1 \notin A
          BY <3>2, <4>4
        <5>3. state'.activity.revision = state.activity.revision + 1
          BY <2>1, <3>1, <4>5, ApplyActivity
        <5>4. Cardinality(A \cup {n + 1}) = Cardinality(A) + 1
          BY <4>4, <5>2, FS_AddElement
        <5> HIDE DEF A
        <5> QED
          BY <4>1, <4>3, <5>1, <5>3, <5>4 DEF A
      <4>6. CASE e.kind.type # "activity"
        <5>1. ActivityEventsAfter(log', start) = A
          BY <3>2, <4>4, <4>6 DEF ActivityEventsAfter
        <5>2. state'.activity = state.activity
          BY <2>1, <3>1, <3>4, <4>2, <4>6, ApplyActivity
        <5> QED
          BY <4>1, <4>3, <5>1, <5>2
      <4> QED
        BY <4>5, <4>6
    <3> QED
      BY <3>3, <3>4
  <2>2. CASE UNCHANGED <<state, log>>
    BY <2>2
  <2> QED
    BY <2>1, <2>2, StepAppends
<1> QED
  BY <1>1, <1>2, InitInv, NextInv, PTL DEF Spec

\* Events that enter a participant.
EntryTypes == {"session_created", "participant_joined"}

\* What an event does to lifecycle, participants and revision, when whoever joins
\* does so himself.
LEMMA ApplyMembership ==
  ASSUME NEW s \in SessionStates, NEW e \in SessionEvents, CanApply(s, e), Consistent(s),
         e.kind.type = "participant_joined" => e.kind.participant = e.actor
  PROVE  /\ Apply(s, e).revision = s.revision + 1
         /\ Apply(s, e).lifecycle # "uninitialized"
         /\ e.kind.type = "session_created" <=> s.lifecycle = "uninitialized"
         /\ e.kind.type \in EntryTypes =>
              /\ e.actor \notin s.participants
              /\ Apply(s, e).participants = s.participants \cup {e.actor}
         /\ e.kind.type \notin EntryTypes => Apply(s, e).participants = s.participants
<1> USE DEF EntryTypes
<1> DEFINE k == e.kind
           t == Reduce(s, k)
<1>1. k \in EventKinds
  BY DEF SessionEvents
<1>2. /\ t \in SessionStates /\ Apply(s, e).participants = t.participants
      /\ Apply(s, e).lifecycle = t.lifecycle /\ Apply(s, e).revision = s.revision + 1
  <2>1. t \in SessionStates
    BY <1>1, ReduceType
  <2> QED
    BY <2>1 DEF Apply, SessionStates, CanApply
<1>3. CASE k.type = "session_created"
  BY <1>2, <1>3 DEF Reduce, SessionStates, CanApply, SessionEventApplies,
     ActivityEventApplies, Consistent
<1>4. CASE k.type = "participant_joined"
  BY <1>2, <1>4 DEF Reduce, SessionStates, CanApply, SessionEventApplies,
     ActivityEventApplies
<1>5. CASE k.type = "activity_started"
  BY <1>2, <1>5 DEF Reduce, Started, SessionStates, CanApply, SessionEventApplies,
     ActivityEventApplies
<1>6. CASE k.type = "activity_stopped"
  BY <1>2, <1>6 DEF Reduce, Stopped, SessionStates, CanApply, SessionEventApplies,
     ActivityEventApplies, Consistent
<1>7. CASE k.type = "authority_transferred"
  BY <1>2, <1>7 DEF Reduce, Transferred, SessionStates, CanApply, SessionEventApplies,
     ActivityEventApplies, Consistent
<1>8. CASE k.type = "activity"
  BY <1>2, <1>8 DEF Reduce, ActivityAdvanced, SessionStates, CanApply,
     SessionEventApplies, ActivityEventApplies, Consistent
<1> QED
  BY <1>1, <1>3, <1>4, <1>5, <1>6, <1>7, <1>8 DEF EventKinds

\* What it leaves as the activity.
LEMMA ApplyLeavesActivity ==
  ASSUME NEW s \in SessionStates, NEW e \in SessionEvents, CanApply(s, e)
  PROVE  LET k == e.kind
             a == Apply(s, e).activity
         IN
         /\ k.type = "activity_started" =>
              /\ a # NoActivity
              /\ a.descriptor = k.descriptor /\ a.state = k.initial_state
         /\ k.type = "activity_stopped" => a = NoActivity
         /\ k.type = "activity" =>
              /\ s.activity # NoActivity /\ s.activity.descriptor = k.descriptor
              /\ a # NoActivity
              /\ a.descriptor = k.descriptor /\ a.state = k.resulting_state
         /\ k.type \notin {"activity_started", "activity_stopped", "activity"} =>
              a = s.activity
<1> DEFINE k == e.kind
           t == Reduce(s, k)
<1>1. k \in EventKinds
  BY DEF SessionEvents
<1>2. t \in SessionStates /\ Apply(s, e).activity = t.activity
  <2>1. t \in SessionStates
    BY <1>1, ReduceType
  <2> QED
    BY <2>1 DEF Apply, SessionStates
<1>3. CASE k.type \in {"session_created", "participant_joined", "authority_transferred"}
  BY <1>2, <1>3 DEF Reduce, Transferred, SessionStates
<1>4. CASE k.type = "activity_started"
  <2> DEFINE a == [descriptor |-> k.descriptor, revision |-> 0, state |-> k.initial_state]
  <2>1. a \in ActiveActivities
    BY <1>1, <1>4, MaxU64Assumption DEF EventKinds, U64, ActiveActivities
  <2>2. a # NoActivity /\ t.activity = a
    BY <1>4, <2>1, NoActivityAssumption DEF Reduce, Started, SessionStates
  <2>3. a.descriptor = k.descriptor /\ a.state = k.initial_state
    OBVIOUS
  <2> HIDE DEF a, t
  <2> QED
    BY <1>2, <1>4, <2>2, <2>3
<1>5. CASE k.type = "activity_stopped"
  BY <1>2, <1>5 DEF Reduce, Stopped, SessionStates
<1>6. CASE k.type = "activity"
  <2> DEFINE a == [descriptor |-> k.descriptor, revision |-> k.activity_sequence,
                   state |-> k.resulting_state]
  <2>1. a \in ActiveActivities
    BY <1>1, <1>6 DEF EventKinds, ActiveActivities
  <2>2. a # NoActivity /\ t.activity = a
    BY <1>6, <2>1, NoActivityAssumption DEF Reduce, ActivityAdvanced, SessionStates
  <2>3. a.descriptor = k.descriptor /\ a.state = k.resulting_state
    OBVIOUS
  <2>4. s.activity # NoActivity /\ s.activity.descriptor = k.descriptor
    BY <1>6 DEF CanApply, SessionEventApplies, ActivityEventApplies
  <2> HIDE DEF a, t
  <2> QED
    BY <1>2, <1>6, <2>2, <2>3, <2>4
<1> QED
  BY <1>1, <1>3, <1>4, <1>5, <1>6 DEF EventKinds

\* The indexes of some event types in a log that grew by one event.
LEMMA IndexesAppend ==
  ASSUME NEW l \in Seq(SessionEvents), NEW e \in SessionEvents, NEW types
  PROVE  /\ IndexesOf(l, types) \in SUBSET (1..Len(l))
         /\ e.kind.type \notin types => IndexesOf(Append(l, e), types) = IndexesOf(l, types)
         /\ e.kind.type \in types =>
              /\ IndexesOf(Append(l, e), types) = IndexesOf(l, types) \cup {Len(l) + 1}
              /\ Latest(IndexesOf(Append(l, e), types)) = Len(l) + 1
<1> DEFINE n == Len(l)
           m == Append(l, e)
           G == IndexesOf(m, types)
<1>1. /\ n \in Nat /\ m[n + 1] = e /\ \A j \in 1..n : m[j] = l[j]
      /\ DOMAIN m = 1..(n + 1) /\ DOMAIN l = 1..n
  OBVIOUS
<1> HIDE DEF n, m
<1>2. IndexesOf(l, types) \in SUBSET (1..n)
  BY <1>1 DEF IndexesOf
<1>3. ASSUME e.kind.type \notin types PROVE G = IndexesOf(l, types)
  BY <1>1, <1>3 DEF IndexesOf
<1>4. ASSUME e.kind.type \in types PROVE G = IndexesOf(l, types) \cup {n + 1}
  BY <1>1, <1>4 DEF IndexesOf
<1>5. ASSUME e.kind.type \in types PROVE Latest(G) = n + 1
  <2>1. /\ n + 1 \in Nat /\ G \in SUBSET (1..(n + 1)) /\ n + 1 \in G
        /\ \A j \in G : j <= n + 1
    BY <1>1, <1>2, <1>4, <1>5
  <2> HIDE DEF G
  <2> QED
    BY <2>1, LatestUnique
<1> QED
  BY <1>2, <1>3, <1>4, <1>5 DEF n, m

\* The session's log and state, as StateIsWhatTheLogSays relates them, part by part.
CreationSaid(s, l) ==
  /\ s.revision = Len(l)
  /\ s.lifecycle = "uninitialized" <=> l = <<>>
  /\ \A i \in DOMAIN l : l[i].kind.type = "session_created" <=> i = 1

ParticipantsSaid(s, l) ==
  LET entries == IndexesOf(l, EntryTypes) IN
  /\ s.participants = {l[i].actor : i \in entries}
  /\ \A i, j \in entries : l[i].actor = l[j].actor => i = j

ActivitySaid(s, l) ==
  /\ s.activity # NoActivity <=> RunsAfter(l)
  /\ RunsAfter(l) =>
       /\ s.activity.descriptor = l[Latest(Turns(l))].kind.descriptor
       /\ s.activity.state
            = SetBy(l[Latest(IndexesOf(l, {"activity_started", "activity"}))].kind)

LEMMA SaidInParts ==
  StateIsWhatTheLogSays
    <=> /\ CreationSaid(state, log) /\ ParticipantsSaid(state, log)
        /\ state.authority = HolderAfter(log, Len(log)) /\ ActivitySaid(state, log)
BY DEF StateIsWhatTheLogSays, CreationSaid, ParticipantsSaid, ActivitySaid, EntryTypes

\* Every part survives an event.
LEMMA CreationStaysSaid ==
  ASSUME NEW s \in SessionStates, NEW l \in Seq(SessionEvents), NEW e \in SessionEvents,
         CanApply(s, e), Consistent(s), CreationSaid(s, l),
         e.kind.type = "participant_joined" => e.kind.participant = e.actor
  PROVE  CreationSaid(Apply(s, e), Append(l, e))
<1> DEFINE n == Len(l)
           m == Append(l, e)
           t == Apply(s, e)
<1>1. /\ n \in Nat /\ Len(m) = n + 1 /\ m[n + 1] = e /\ \A j \in 1..n : m[j] = l[j]
      /\ DOMAIN m = 1..(n + 1) /\ DOMAIN l = 1..n /\ m # <<>> /\ (l = <<>> <=> n = 0)
  OBVIOUS
<1>2. /\ t.revision = s.revision + 1 /\ t.lifecycle # "uninitialized"
      /\ e.kind.type = "session_created" <=> s.lifecycle = "uninitialized"
  BY ApplyMembership
<1> HIDE DEF n, m, t
<1>3. s.revision = n /\ (s.lifecycle = "uninitialized" <=> n = 0)
  BY <1>1 DEF CreationSaid, n
<1>4. ASSUME NEW i \in DOMAIN m PROVE m[i].kind.type = "session_created" <=> i = 1
  <2>1. CASE i \in 1..n
    BY <1>1, <2>1 DEF CreationSaid
  <2>2. CASE i = n + 1
    BY <1>1, <1>2, <1>3, <2>2
  <2> QED
    BY <1>1, <1>4, <2>1, <2>2
<1>5. t.revision = Len(m) /\ (t.lifecycle = "uninitialized" <=> m = <<>>)
  BY <1>1, <1>2, <1>3
<1>6. CreationSaid(t, m)
  BY <1>4, <1>5 DEF CreationSaid
<1> QED
  BY <1>6 DEF m, t

LEMMA ParticipantsStaySaid ==
  ASSUME NEW s \in SessionStates, NEW l \in Seq(SessionEvents), NEW e \in SessionEvents,
         CanApply(s, e), Consistent(s), ParticipantsSaid(s, l),
         e.kind.type = "participant_joined" => e.kind.participant = e.actor
  PROVE  ParticipantsSaid(Apply(s, e), Append(l, e))
<1> DEFINE n == Len(l)
           m == Append(l, e)
           t == Apply(s, e)
           E == IndexesOf(l, EntryTypes)
           F == IndexesOf(m, EntryTypes)
<1>1. n \in Nat /\ m[n + 1] = e /\ \A j \in 1..n : m[j] = l[j]
  OBVIOUS
<1>2. /\ E \in SUBSET (1..n)
      /\ e.kind.type \notin EntryTypes => F = E
      /\ e.kind.type \in EntryTypes => F = E \cup {n + 1}
  BY IndexesAppend
<1>3. /\ e.kind.type \in EntryTypes =>
           e.actor \notin s.participants /\ t.participants = s.participants \cup {e.actor}
      /\ e.kind.type \notin EntryTypes => t.participants = s.participants
  BY ApplyMembership
<1>4. /\ s.participants = {l[i].actor : i \in E}
      /\ \A i, j \in E : l[i].actor = l[j].actor => i = j
  BY DEF ParticipantsSaid
<1> HIDE DEF n, m, t, E, F
<1>5. \A i \in E : m[i] = l[i]
  BY <1>1, <1>2
<1>6. CASE e.kind.type \notin EntryTypes
  <2>1. F = E /\ t.participants = s.participants
    BY <1>2, <1>3, <1>6
  <2>2. t.participants = {m[i].actor : i \in F}
    BY <1>4, <1>5, <2>1
  <2>3. \A i, j \in F : m[i].actor = m[j].actor => i = j
    BY <1>4, <1>5, <2>1
  <2> QED
    BY <2>2, <2>3 DEF ParticipantsSaid, m, t, F
<1>7. CASE e.kind.type \in EntryTypes
  <2>1. F = E \cup {n + 1} /\ m[n + 1] = e
    BY <1>1, <1>2, <1>7
  <2>2. \A i \in E : m[i].actor # e.actor
    BY <1>3, <1>4, <1>5, <1>7
  <2>3. t.participants = {m[i].actor : i \in F}
    BY <1>3, <1>4, <1>5, <1>7, <2>1
  <2>4. \A i, j \in F : m[i].actor = m[j].actor => i = j
    BY <1>4, <1>5, <2>1, <2>2
  <2> QED
    BY <2>3, <2>4 DEF ParticipantsSaid, m, t, F
<1> QED
  BY <1>6, <1>7

LEMMA ActivityStaysSaid ==
  ASSUME NEW s \in SessionStates, NEW l \in Seq(SessionEvents), NEW e \in SessionEvents,
         CanApply(s, e), ActivitySaid(s, l)
  PROVE  ActivitySaid(Apply(s, e), Append(l, e))
<1> DEFINE n == Len(l)
           m == Append(l, e)
           a == Apply(s, e).activity
           k == e.kind
           setTypes == {"activity_started", "activity"}
           set(x) == IndexesOf(x, setTypes)
<1>1. n \in Nat /\ m[n + 1] = e /\ \A j \in 1..n : m[j] = l[j]
  OBVIOUS
<1>2. /\ Turns(l) \in SUBSET (1..n)
      /\ k.type \notin {"activity_started", "activity_stopped"} => Turns(m) = Turns(l)
      /\ k.type \in {"activity_started", "activity_stopped"} =>
           Turns(m) = Turns(l) \cup {n + 1} /\ Latest(Turns(m)) = n + 1
  BY IndexesAppend DEF Turns
<1>3. /\ set(l) \in SUBSET (1..n)
      /\ k.type \notin setTypes => set(m) = set(l)
      /\ k.type \in setTypes => Latest(set(m)) = n + 1
  BY IndexesAppend
<1>4. /\ s.activity # NoActivity <=> RunsAfter(l)
      /\ RunsAfter(l) =>
           /\ s.activity.descriptor = l[Latest(Turns(l))].kind.descriptor
           /\ s.activity.state = SetBy(l[Latest(set(l))].kind)
  BY DEF ActivitySaid
<1>5. /\ k.type = "activity_started" =>
           a # NoActivity /\ a.descriptor = k.descriptor /\ a.state = k.initial_state
      /\ k.type = "activity_stopped" => a = NoActivity
      /\ k.type = "activity" =>
           /\ s.activity # NoActivity /\ s.activity.descriptor = k.descriptor
           /\ a # NoActivity /\ a.descriptor = k.descriptor /\ a.state = k.resulting_state
      /\ k.type \notin {"activity_started", "activity_stopped", "activity"} =>
           a = s.activity
  BY ApplyLeavesActivity
<1>6. /\ Turns(l) # {} => Latest(Turns(l)) \in Turns(l) /\ Latest(Turns(l)) \in 1..n
      /\ set(l) # {} => Latest(set(l)) \in 1..n
  BY <1>1, <1>2, <1>3, LatestExists
<1>7. RunsAfter(l) => set(l) # {}
  BY <1>6 DEF RunsAfter, Turns, IndexesOf
<1> SUFFICES /\ a # NoActivity <=> RunsAfter(m)
             /\ RunsAfter(m) =>
                  /\ a.descriptor = m[Latest(Turns(m))].kind.descriptor
                  /\ a.state = SetBy(m[Latest(set(m))].kind)
  BY DEF ActivitySaid
<1> HIDE DEF n, m, a, k, set
<1>8. CASE k.type = "activity_started"
  <2>1. RunsAfter(m)
    BY <1>1, <1>2, <1>8 DEF RunsAfter, k
  <2>2. m[Latest(Turns(m))].kind = k /\ m[Latest(set(m))].kind = k
    BY <1>1, <1>2, <1>3, <1>8 DEF k
  <2> QED
    BY <1>5, <1>8, <2>1, <2>2 DEF SetBy
<1>9. CASE k.type = "activity_stopped"
  <2>1. ~RunsAfter(m)
    BY <1>1, <1>2, <1>9 DEF RunsAfter, k
  <2> QED
    BY <1>5, <1>9, <2>1
<1>10. CASE k.type = "activity"
  <2>1. Turns(m) = Turns(l) /\ RunsAfter(l)
    BY <1>2, <1>4, <1>5, <1>10
  <2>2. m[Latest(Turns(m))] = l[Latest(Turns(l))] /\ RunsAfter(m)
    BY <1>1, <1>6, <2>1 DEF RunsAfter
  <2>3. m[Latest(set(m))].kind = k
    BY <1>1, <1>3, <1>10 DEF k
  <2> QED
    BY <1>4, <1>5, <1>10, <2>1, <2>2, <2>3 DEF SetBy
<1>11. CASE k.type \notin {"activity_started", "activity_stopped", "activity"}
  <2>1. Turns(m) = Turns(l) /\ set(m) = set(l) /\ a = s.activity
    BY <1>2, <1>3, <1>5, <1>11
  <2>2. RunsAfter(m) <=> RunsAfter(l)
    BY <1>1, <1>6, <2>1 DEF RunsAfter
  <2>3. RunsAfter(l) => /\ m[Latest(Turns(m))] = l[Latest(Turns(l))]
                        /\ m[Latest(set(m))] = l[Latest(set(l))]
    BY <1>1, <1>6, <1>7, <2>1 DEF RunsAfter
  <2> QED
    BY <1>4, <2>1, <2>2, <2>3
<1> QED
  BY <1>8, <1>9, <1>10, <1>11

\* A join is decided for the one who asks.
LEMMA JoinerIsActor ==
  ASSUME NEW s \in SessionStates, NEW r \in CommandRequests,
         DecidedEvent(s, r).kind.type = "participant_joined"
  PROVE  DecidedEvent(s, r).kind.participant = DecidedEvent(s, r).actor
BY DEF DecidedEvent, DecidedKind, CommandRequests, Commands

\* The log alone tells revision, participants, authority and activity, and tells
\* what the state holds: for any number of participants, activities and commands,
\* what decide builds and what the reducer makes of it agree.
THEOREM LogTellsTheState == Spec => []StateIsWhatTheLogSays
<1>1. Init => StateIsWhatTheLogSays
  <2> SUFFICES ASSUME Init PROVE StateIsWhatTheLogSays
    OBVIOUS
  <2>1. log = <<>> /\ Len(log) = 0 /\ DOMAIN log = {} /\ state = Uninitialized
    BY DEF Init
  <2>2. \A types : IndexesOf(log, types) = {}
    BY <2>1 DEF IndexesOf
  <2>3. Grants(log, Len(log)) = {} /\ ~RunsAfter(log)
    BY <2>1, <2>2 DEF Grants, RunsAfter, Turns
  <2>4. /\ state.revision = 0 /\ state.lifecycle = "uninitialized"
        /\ state.participants = {} /\ state.authority = NoParticipant
        /\ state.activity = NoActivity
    BY <2>1 DEF Uninitialized
  <2>5. CreationSaid(state, log) /\ ParticipantsSaid(state, log) /\ ActivitySaid(state, log)
    BY <2>1, <2>2, <2>3, <2>4 DEF CreationSaid, ParticipantsSaid, ActivitySaid
  <2>6. state.authority = HolderAfter(log, Len(log))
    BY <2>3, <2>4 DEF HolderAfter
  <2> QED
    BY <2>5, <2>6, SaidInParts
<1>2. SessionInv /\ StateIsWhatTheLogSays /\ [Next]_vars => StateIsWhatTheLogSays'
  <2> SUFFICES ASSUME SessionInv, StateIsWhatTheLogSays, [Next]_vars
               PROVE  StateIsWhatTheLogSays'
    OBVIOUS
  <2>1. ASSUME NEW e \in SessionEvents, CanApply(state, e), state' = Apply(state, e),
               log' = Append(log, e),
               \E r \in CommandRequests : e = DecidedEvent(state, r)
        PROVE  StateIsWhatTheLogSays'
    <3>1. state \in SessionStates /\ log \in Seq(SessionEvents) /\ Consistent(state)
      BY DEF SessionInv, TypeOK, SessionConsistent
    <3>2. /\ CreationSaid(state, log) /\ ParticipantsSaid(state, log)
          /\ state.authority = HolderAfter(log, Len(log)) /\ ActivitySaid(state, log)
      BY SaidInParts
    <3>3. e.kind.type = "participant_joined" => e.kind.participant = e.actor
      BY <2>1, <3>1, JoinerIsActor
    <3>4. CreationSaid(state', log')
      BY <2>1, <3>1, <3>2, <3>3, CreationStaysSaid
    <3>5. ParticipantsSaid(state', log')
      BY <2>1, <3>1, <3>2, <3>3, ParticipantsStaySaid
    <3>6. ActivitySaid(state', log')
      BY <2>1, <3>1, <3>2, ActivityStaysSaid
    <3>7. state'.authority = HolderAfter(log', Len(log'))
      <4>1. Len(log') = Len(log) + 1
        BY <2>1, <3>1
      <4> QED
        BY <2>1, <3>1, <3>2, <4>1, ApplyAuthority, HolderAppend
    <3> QED
      BY <3>4, <3>5, <3>6, <3>7 DEF StateIsWhatTheLogSays, CreationSaid,
         ParticipantsSaid, ActivitySaid, EntryTypes
  <2>2. CASE UNCHANGED <<state, log>>
    BY <2>2 DEF StateIsWhatTheLogSays
  <2> QED
    BY <2>1, <2>2, StepAppends
<1> QED
  BY <1>1, <1>2, InitInv, NextInv, PTL DEF Spec

\* The ways a session with an activity comes out of an accepted request: the
\* engine's initial state after none, the engine's transition of the running
\* activity, asked for by a participant, or the activity it had.
LEMMA DecidedActivity ==
  ASSUME NEW s \in SessionStates, NEW r \in CommandRequests, NEW engine \in BOOLEAN,
         Accepted(s, r, engine), Consistent(s),
         Apply(s, DecidedEvent(s, r)).activity # NoActivity
  PROVE  LET t == Apply(s, DecidedEvent(s, r))
             c == r.command
         IN  \/ /\ s.activity = NoActivity
                /\ t.activity.state = EngineInitialState
                /\ t.participants = s.participants
             \/ /\ s.activity # NoActivity /\ s.activity.state \in ActivityStates
                /\ r.actor \in s.participants /\ c.payload \in ActivityPayloads
                /\ EngineAccepts(r.actor, s.activity.state, c.payload)
                /\ t.activity.state = EngineResult(r.actor, s.activity.state, c.payload)
                /\ t.participants = s.participants
             \/ /\ s.activity # NoActivity /\ t.activity = s.activity
                /\ s.participants \subseteq t.participants
<1> DEFINE c == r.command
           e == DecidedEvent(s, r)
           k == DecidedKind(s, r.actor, c)
           t == Apply(s, e)
           u == Reduce(s, k)
<1>1. e \in SessionEvents /\ CanApply(s, e) /\ e.kind = k /\ k \in EventKinds
  <2>1. e \in SessionEvents /\ CanApply(s, e)
    BY DecidedEventType, DecidedEventApplies
  <2>2. e.kind = k
    BY DEF DecidedEvent
  <2> QED
    BY <2>1, <2>2 DEF SessionEvents
<1>2. u \in SessionStates /\ t.activity = u.activity /\ t.participants = u.participants
  <2>1. u \in SessionStates
    BY <1>1, ReduceType
  <2> QED
    BY <1>1, <2>1 DEF Apply, SessionStates
<1>3. c \in Commands
  BY DEF CommandRequests
<1>4. CASE c.type = "start_activity"
  <2>1. k.type = "activity_started" /\ k.initial_state = EngineInitialState
    BY <1>4 DEF DecidedKind
  <2>2. /\ u.activity = [descriptor |-> k.descriptor, revision |-> 0,
                         state |-> k.initial_state]
        /\ u.participants = s.participants
    BY <2>1 DEF Reduce, Started, SessionStates
  <2>3. s.lifecycle = "open"
    BY <1>1, <2>1 DEF CanApply, SessionEventApplies, ActivityEventApplies
  <2>4. s.activity = NoActivity
    BY <2>3 DEF Consistent
  <2>5. t.activity.state = EngineInitialState
    BY <1>2, <2>1, <2>2
  <2> QED
    BY <1>2, <2>2, <2>4, <2>5
<1>5. CASE c.type = "activity"
  <2>1. ActivityCommandAccepted(s, r.actor, c, engine)
    BY <1>5 DEF Accepted, SessionCommandAccepted
  <2>2. s.activity \in ActiveActivities /\ s.activity # NoActivity
    BY <2>1 DEF ActivityCommandAccepted, SessionStates
  <2>3. s.activity.state \in ActivityStates /\ c.payload \in ActivityPayloads
    BY <1>3, <1>5, <2>2 DEF ActiveActivities, Commands
  <2>4. /\ k.type = "activity"
        /\ k.resulting_state = EngineResult(r.actor, s.activity.state, c.payload)
    BY <1>5 DEF DecidedKind
  <2>5. /\ u.activity = [descriptor |-> k.descriptor,
                         revision |-> k.activity_sequence, state |-> k.resulting_state]
        /\ u.participants = s.participants
    BY <2>4 DEF Reduce, ActivityAdvanced, SessionStates
  <2>6. t.activity.state = EngineResult(r.actor, s.activity.state, c.payload)
    BY <1>2, <2>4, <2>5
  <2> QED
    BY <1>2, <2>1, <2>2, <2>3, <2>5, <2>6 DEF ActivityCommandAccepted
<1>6. CASE c.type = "stop_activity"
  <2>1. k.type = "activity_stopped"
    BY <1>6 DEF DecidedKind
  <2>2. t.activity = NoActivity
    BY <1>2, <2>1 DEF Reduce, Stopped, SessionStates
  <2> QED
    BY <2>2
<1>7. CASE c.type \in {"create_session", "join", "transfer_authority"}
  <2>1. k.type \in {"session_created", "participant_joined", "authority_transferred"}
    BY <1>7 DEF DecidedKind
  <2>2. t.activity = s.activity /\ s.participants \subseteq t.participants
    BY <1>2, <2>1 DEF Reduce, Transferred, SessionStates
  <2> QED
    BY <2>2
<1> QED
  BY <1>3, <1>4, <1>5, <1>6, <1>7 DEF Commands

=============================================================================
