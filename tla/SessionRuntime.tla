--------------------------- MODULE SessionRuntime ---------------------------
(***************************************************************************)
(* The pure runtime (crate sytog-runtime): the decision a command gets, the *)
(* event an accepted command produces, and replay of a log.  The adapter   *)
(* behind the ActivityEngine trait is a parameter, given by the Engine*    *)
(* constants.                                                              *)
(*                                                                         *)
(* Which Rejection a refused command carries is left out: every refusal    *)
(* leaves the state as it was, so the order of the checks is not visible.  *)
(***************************************************************************)
EXTENDS SessionDomain

CONSTANTS
  ActivityPayloads,        \* payloads of activity commands
  EngineDescriptor,        \* ActivityEngine::descriptor
  EngineInitialState,      \* ActivityEngine::initial_state
  EngineAccepts(_, _, _),  \* ActivityEngine::decide(actor, state, payload) is Ok
  EngineResult(_, _, _)    \* resulting_state of that transition

ASSUME EngineAssumption ==
  /\ EngineDescriptor \in Descriptors
  /\ EngineInitialState \in ActivityStates
  /\ \A p \in Participants, st \in ActivityStates, c \in ActivityPayloads :
       EngineAccepts(p, st, c) => EngineResult(p, st, c) \in ActivityStates

\* blank: the display name is empty once trimmed.
Commands ==
  [type : {"create_session", "join"}, blank : BOOLEAN]
  \cup [type : {"start_activity"}, descriptor : Descriptors]
  \cup [type : {"stop_activity"}]
  \cup [type : {"transfer_authority"}, to : Participants]
  \cup [type : {"activity"}, descriptor : Descriptors, payload : ActivityPayloads]

CommandRequests ==
  [message_id : MessageIds, actor : Participants, expected_revision : U64,
   command : Commands]

-----------------------------------------------------------------------------

RequireAuthority(s, actor) == actor \in s.participants /\ s.authority = actor

\* engine: an activity engine was passed to decide at all.
MatchingEngine(engine, descriptor) == engine /\ descriptor = EngineDescriptor

\* Mutant: the holder may hand the authority to itself.
MutTransferToSelf(s, actor, to) == RequireAuthority(s, actor) /\ to \in s.participants

TransferAllowed(s, actor, to) ==
  RequireAuthority(s, actor) /\ to \in s.participants /\ to # actor

\* The commands decide_session accepts.
SessionCommandAccepted(s, actor, c, engine) ==
  \/ /\ c.type = "create_session"
     /\ s.lifecycle = "uninitialized"
     /\ ~c.blank
  \/ /\ c.type = "join"
     /\ s.lifecycle # "uninitialized"
     /\ s.lifecycle = "open"
     /\ actor \notin s.participants
     /\ ~c.blank
  \/ /\ c.type = "start_activity"
     /\ RequireAuthority(s, actor)
     /\ s.lifecycle = "open"
     /\ MatchingEngine(engine, c.descriptor)
  \/ /\ c.type = "stop_activity"
     /\ RequireAuthority(s, actor)
     /\ s.activity # NoActivity
  \/ /\ c.type = "transfer_authority"
     /\ TransferAllowed(s, actor, c.to)

\* The commands decide_activity accepts.
ActivityCommandAccepted(s, actor, c, engine) ==
  /\ c.type = "activity"
  /\ actor \in s.participants
  /\ s.activity # NoActivity
  /\ s.activity.descriptor = c.descriptor
  /\ MatchingEngine(engine, s.activity.descriptor)
  /\ EngineAccepts(actor, s.activity.state, c.payload)
  /\ s.activity.revision < MaxU64

\* decide returns a Decision exactly for these requests.
Accepted(s, r, engine) ==
  /\ r.expected_revision = s.revision
  /\ \/ SessionCommandAccepted(s, r.actor, r.command, engine)
     \/ ActivityCommandAccepted(s, r.actor, r.command, engine)
  /\ s.revision < MaxU64

\* The fact an accepted command becomes.
DecidedKind(s, actor, c) ==
  CASE c.type = "create_session" ->
         [type |-> "session_created", creator |-> actor]
    [] c.type = "join" ->
         [type |-> "participant_joined", participant |-> actor]
    [] c.type = "start_activity" ->
         [type |-> "activity_started", descriptor |-> c.descriptor,
          initial_state |-> EngineInitialState]
    [] c.type = "stop_activity" ->
         [type |-> "activity_stopped", descriptor |-> s.activity.descriptor]
    [] c.type = "transfer_authority" ->
         [type |-> "authority_transferred", from |-> actor, to |-> c.to]
    [] c.type = "activity" ->
         [type |-> "activity", descriptor |-> s.activity.descriptor,
          activity_sequence |-> s.activity.revision + 1,
          resulting_state |-> EngineResult(actor, s.activity.state, c.payload)]

\* Mutant: the ordinals of a decision's events start at one.
MutOrdinalFromOne(s, r) ==
  [event_id     |-> EventIdFromCausation(r.message_id, 1),
   sequence     |-> s.revision + 1,
   causation_id |-> r.message_id,
   actor        |-> r.actor,
   kind         |-> DecidedKind(s, r.actor, r.command)]

\* The one event of a Decision.
DecidedEvent(s, r) ==
  [event_id     |-> EventIdFromCausation(r.message_id, 0),
   sequence     |-> s.revision + 1,
   causation_id |-> r.message_id,
   actor        |-> r.actor,
   kind         |-> DecidedKind(s, r.actor, r.command)]

-----------------------------------------------------------------------------

\* One step of the fold: an event that does not apply ends it with the error.
ReplayStep(initial, before, event) ==
  IF before.ok /\ CanApply(before.state, event)
  THEN [ok |-> TRUE, state |-> Apply(before.state, event)]
  ELSE [ok |-> FALSE, state |-> initial]

\* try_fold of apply over a list of events: whether every event applied, and the
\* state reached, after each of its prefixes.
ReplayPath(initial, events) ==
  LET path[i \in 0..Len(events)] ==
        IF i = 0 THEN [ok |-> TRUE, state |-> initial]
        ELSE ReplayStep(initial, path[i - 1], events[i])
  IN  path

Replay(initial, events) == ReplayPath(initial, events)[Len(events)]

=============================================================================
