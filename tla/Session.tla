------------------------------- MODULE Session -------------------------------
(***************************************************************************)
(* One session in memory, driven by sytog_runtime::execute, as the CLI's   *)
(* local demos drive it: any command from any actor, with any expected     *)
(* revision, with or without an activity engine.                           *)
(***************************************************************************)
EXTENDS SessionRuntime, FiniteSets

VARIABLES
  state,     \* the SessionState
  log,       \* the events of every accepted Decision, in order
  outcome    \* how the last execute ended

vars == <<state, log, outcome>>

Init ==
  /\ state = Uninitialized
  /\ log = <<>>
  /\ outcome = "none"

\* execute: decide, then apply on a candidate that is committed only when the
\* event applies.
ExecuteAccepted(r, engine) ==
  LET event == DecidedEvent(state, r) IN
  /\ Accepted(state, r, engine)
  /\ IF CanApply(state, event)
     THEN /\ state' = Apply(state, event)
          /\ log' = Append(log, event)
          /\ outcome' = "accepted"
     ELSE /\ outcome' = "apply_failed"
          /\ UNCHANGED <<state, log>>

ExecuteRejected(r, engine) ==
  /\ ~Accepted(state, r, engine)
  /\ outcome' = "rejected"
  /\ UNCHANGED <<state, log>>

Next ==
  \E r \in CommandRequests, engine \in BOOLEAN :
    ExecuteAccepted(r, engine) \/ ExecuteRejected(r, engine)

Spec == Init /\ [][Next]_vars

-----------------------------------------------------------------------------

TypeOK ==
  /\ state \in SessionStates
  /\ log \in Seq(SessionEvents)
  /\ outcome \in {"none", "accepted", "rejected", "apply_failed"}

\* decide and apply are written separately, each with its own guards; a
\* decision that decide returns is one that apply takes, so execute never ends
\* with RuntimeError::Apply.
DecisionsApply == outcome # "apply_failed"

\* A session has an authority from its creation on, and the authority is one of
\* its participants; it is active exactly while it has an activity.
Consistent(s) ==
  /\ s.lifecycle = "uninitialized" =>
       /\ s.participants = {}
       /\ s.authority = NoParticipant
  /\ s.lifecycle # "uninitialized" => s.authority \in s.participants
  /\ s.lifecycle = "active" <=> s.activity # NoActivity
  /\ s.lifecycle \in {"uninitialized", "open", "active"}

\* Every sequence of commands, whoever sends them, keeps lifecycle, participants,
\* authority and activity consistent with each other: no hand-over or stop leaves
\* a session without an authority or an activity without its lifecycle.
SessionConsistent == Consistent(state)

\* The indexes of a log that start an activity.
Starts(l) == {i \in DOMAIN l : l[i].kind.type = "activity_started"}

\* The activity events of a log after its first n events.
ActivityEventsAfter(l, n) == {i \in (n + 1)..Len(l) : l[i].kind.type = "activity"}

\* The activity's own revision counts the activity events since the session's
\* last activity_started: nothing of an earlier activity leaks into a later one.
ActivityRevisionCountsItsEvents ==
  state.activity # NoActivity =>
    \E start \in Starts(log) :
      /\ \A i \in Starts(log) : i <= start
      /\ state.activity.revision = Cardinality(ActivityEventsAfter(log, start))

\* The indexes up to i of a log that give the authority to somebody.
Grants(l, i) ==
  {j \in 1..i : l[j].kind.type \in {"session_created", "authority_transferred"}}

Grantee(k) == IF k.type = "session_created" THEN k.creator ELSE k.to

\* The last of some indexes of a log.
Latest(indexes) == CHOOSE j \in indexes : \A k \in indexes : k <= j

\* Who holds the authority after the first i events of a log.
HolderAfter(l, i) ==
  IF Grants(l, i) = {} THEN NoParticipant ELSE Grantee(l[Latest(Grants(l, i))].kind)

\* Starting, stopping and handing over are each the act of whoever held the
\* authority at that point of the log, so a former authority has none left.
PrivilegedEventsByHolder ==
  \A i \in DOMAIN log :
    log[i].kind.type \in {"activity_started", "activity_stopped",
                          "authority_transferred"}
      => log[i].actor = HolderAfter(log, i - 1)

\* The indexes of a log's events of some types.
IndexesOf(l, types) == {i \in DOMAIN l : l[i].kind.type \in types}

Turns(l) == IndexesOf(l, {"activity_started", "activity_stopped"})

\* The activity has been started and not stopped since.
RunsAfter(l) == Turns(l) # {} /\ l[Latest(Turns(l))].kind.type = "activity_started"

\* The activity's state that the log set last.
SetBy(k) == IF k.type = "activity_started" THEN k.initial_state ELSE k.resulting_state

\* Read on its own, without decide or apply, the log says what the state is.  It
\* opens with the one creation and has one event per revision; the participants
\* are those who created or joined, each once and each by an act of his own; the
\* authority is the last grantee; an activity runs from a start up to the next
\* start or stop, under the descriptor it was started with and in the state that
\* the log set last.
StateIsWhatTheLogSays ==
  LET entries == IndexesOf(log, {"session_created", "participant_joined"})
      set     == IndexesOf(log, {"activity_started", "activity"})
  IN
  /\ state.revision = Len(log)
  /\ state.lifecycle = "uninitialized" <=> log = <<>>
  /\ \A i \in DOMAIN log : log[i].kind.type = "session_created" <=> i = 1
  /\ state.participants = {log[i].actor : i \in entries}
  /\ \A i, j \in entries : log[i].actor = log[j].actor => i = j
  /\ state.authority = HolderAfter(log, Len(log))
  /\ state.activity # NoActivity <=> RunsAfter(log)
  /\ RunsAfter(log) =>
       /\ state.activity.descriptor = log[Latest(Turns(log))].kind.descriptor
       /\ state.activity.state = SetBy(log[Latest(set)].kind)

=============================================================================
