--------------------------- MODULE SessionDomain ---------------------------
(***************************************************************************)
(* The deterministic session state and the reducer that applies one event  *)
(* to it (crate sytog-domain).                                             *)
(*                                                                         *)
(* Abstractions of data: a session has one fixed session_id; participants  *)
(* are kept as the set of their identifiers (display names only matter to  *)
(* a command by being blank or not); an activity's JSON state is a member  *)
(* of ActivityStates; the event_type and payload of an activity event,     *)
(* which no reducer reads, are left out.                                   *)
(***************************************************************************)
EXTENDS Integers, Sequences

CONSTANTS
  Participants,     \* ParticipantId values
  MessageIds,       \* MessageId values
  Descriptors,      \* ActivityDescriptor values
  ActivityStates,   \* JSON values an activity's state can take
  MaxU64,           \* u64::MAX; small here, so that checked_add's overflow
                    \* path is reached and bounds the state space
  NoParticipant,    \* None of Option<ParticipantId>
  NoActivity        \* None of Option<ActiveActivity>

ASSUME MaxU64Assumption == MaxU64 \in Nat \ {0}
ASSUME NoParticipantAssumption == NoParticipant \notin Participants

U64 == 0..MaxU64

\* The two lifecycles Completed and Closed are declared in the source but no
\* reducer ever produces them.
Lifecycles == {"uninitialized", "open", "active", "completed", "closed"}

ActiveActivities ==
  [descriptor : Descriptors, revision : U64, state : ActivityStates]

ASSUME NoActivityAssumption == NoActivity \notin ActiveActivities

SessionStates ==
  [lifecycle    : Lifecycles,
   participants : SUBSET Participants,
   authority    : Participants \cup {NoParticipant},
   activity     : ActiveActivities \cup {NoActivity},
   revision     : U64]

\* The identifier "<message id>:<ordinal>" of an event: the suffix is of fixed
\* form, so two events share it only if both parts agree.
EventIdFromCausation(mid, ordinal) == <<mid, ordinal>>

EventIds == MessageIds \X {0}

EventKinds ==
  [type : {"session_created"}, creator : Participants]
  \cup [type : {"participant_joined"}, participant : Participants]
  \cup [type : {"activity_started"}, descriptor : Descriptors,
        initial_state : ActivityStates]
  \cup [type : {"activity_stopped"}, descriptor : Descriptors]
  \cup [type : {"authority_transferred"}, from : Participants, to : Participants]
  \cup [type : {"activity"}, descriptor : Descriptors, activity_sequence : U64,
        resulting_state : ActivityStates]

SessionEvents ==
  [event_id : EventIds, sequence : U64, causation_id : MessageIds,
   actor : Participants, kind : EventKinds]

-----------------------------------------------------------------------------

Uninitialized ==
  [lifecycle |-> "uninitialized", participants |-> {},
   authority |-> NoParticipant, activity |-> NoActivity, revision |-> 0]

\* The checks apply_session_event makes before it changes anything.
SessionEventApplies(s, actor, k) ==
  \/ /\ k.type = "session_created"
     /\ s.lifecycle = "uninitialized"
     /\ actor = k.creator
  \/ /\ k.type = "participant_joined"
     /\ s.lifecycle = "open"
     /\ k.participant \notin s.participants
  \/ /\ k.type = "activity_started"
     /\ s.authority = actor
     /\ s.lifecycle = "open"
  \/ /\ k.type = "activity_stopped"
     /\ s.authority = actor
     /\ s.activity # NoActivity
     /\ s.activity.descriptor = k.descriptor
  \/ /\ k.type = "authority_transferred"
     /\ s.authority = k.from
     /\ actor = k.from
     /\ k.from # k.to
     /\ k.to \in s.participants

\* The checks of apply_activity_event.
ActivityEventApplies(s, actor, k) ==
  /\ k.type = "activity"
  /\ actor \in s.participants
  /\ s.activity # NoActivity
  /\ s.activity.descriptor = k.descriptor
  /\ s.activity.revision < MaxU64
  /\ k.activity_sequence = s.activity.revision + 1

Started(s, k) ==
  [s EXCEPT !.activity = [descriptor |-> k.descriptor, revision |-> 0,
                          state |-> k.initial_state],
            !.lifecycle = "active"]

\* Mutant: the stopped activity stays in the state.
MutStoppedKeepsActivity(s) == [s EXCEPT !.lifecycle = "open"]

Stopped(s) == [s EXCEPT !.activity = NoActivity, !.lifecycle = "open"]

\* Mutant: the event is accepted and the authority stays where it was.
MutTransferKeepsHolder(s, k) == s

Transferred(s, k) == [s EXCEPT !.authority = k.to]

\* Mutant: the session's revision is taken for the activity's.
MutActivityCountsSession(s, k) ==
  [s EXCEPT !.activity = [descriptor |-> k.descriptor, revision |-> s.revision,
                          state |-> k.resulting_state]]

\* Mutant: the activity's revision advances and its state does not.
MutAdvanceKeepsState(s, k) == [s EXCEPT !.activity.revision = k.activity_sequence]

ActivityAdvanced(s, k) ==
  [s EXCEPT !.activity = [descriptor |-> k.descriptor,
                          revision   |-> k.activity_sequence,
                          state      |-> k.resulting_state]]

\* The effect of an event that passed its checks, the revision aside.
Reduce(s, k) ==
  CASE k.type = "session_created" ->
         [s EXCEPT !.participants = @ \cup {k.creator},
                   !.authority = k.creator,
                   !.lifecycle = "open"]
    [] k.type = "participant_joined" ->
         [s EXCEPT !.participants = @ \cup {k.participant}]
    [] k.type = "activity_started" -> Started(s, k)
    [] k.type = "activity_stopped" -> Stopped(s)
    [] k.type = "authority_transferred" -> Transferred(s, k)
    [] k.type = "activity" -> ActivityAdvanced(s, k)

\* SessionState::apply returns Ok exactly when CanApply holds, and then leaves
\* the state Apply; on an error it leaves the state as it was.
CanApply(s, e) ==
  /\ s.revision < MaxU64
  /\ e.sequence = s.revision + 1
  /\ \/ SessionEventApplies(s, e.actor, e.kind)
     \/ ActivityEventApplies(s, e.actor, e.kind)

Apply(s, e) == [Reduce(s, e.kind) EXCEPT !.revision = e.sequence]

=============================================================================
