--------------------------- MODULE ClientReplica ---------------------------
(***************************************************************************)
(* The client's replica of the session (ClientReplica of crate             *)
(* sytog-node), as operators: a base revision, the events known since, and *)
(* the reduced state.  events[i] has sequence base + i, so the BTreeMap by *)
(* sequence is a sequence here.                                            *)
(***************************************************************************)
EXTENDS SessionRuntime

Replicas ==
  [base : U64, events : Seq(SessionEvents), state : SessionStates]

FreshReplica == [base |-> 0, events |-> <<>>, state |-> Uninitialized]

\* A replica stored by an older client: a state without the events behind it.
SnapshotReplica(s) == [base |-> s.revision, events |-> <<>>, state |-> s]

\* from_v1 accepts a stored replica: its history is contiguous, names no event
\* twice and leads from its base to the revision of the stored state.
LoadsReplica(rep) ==
  /\ \A i \in DOMAIN rep.events : rep.events[i].sequence = rep.base + i
  /\ \A i, j \in DOMAIN rep.events :
       rep.events[i].event_id = rep.events[j].event_id => i = j
  /\ rep.base + Len(rep.events) = rep.state.revision

\* Mutant: the newest event is not looked at.
MutKnownBeforeNewest(rep, sequence) ==
  sequence + 1 - rep.base \in DOMAIN rep.events

KnownAt(rep, sequence) ==
  sequence - rep.base \in DOMAIN rep.events

\* What apply_received_event makes of one event: it is already known, it leaves
\* a gap, it applies, or the client fails.
Received(rep, e) ==
  CASE e.sequence <= rep.base -> "failed"
    [] e.sequence > rep.base /\ KnownAt(rep, e.sequence) ->
         IF rep.events[e.sequence - rep.base] = e THEN "already_seen" ELSE "failed"
    [] OTHER ->
         IF \E i \in DOMAIN rep.events : rep.events[i].event_id = e.event_id
         THEN "failed"
         ELSE IF rep.state.revision = MaxU64 THEN "failed"
         ELSE IF e.sequence # rep.state.revision + 1 THEN "gap"
         ELSE IF CanApply(rep.state, e) THEN "applied" ELSE "failed"

\* Mutant: an event already seen is stored again.
MutStoresSeenEvents(rep, e) ==
  CASE Received(rep, e) = "applied" ->
         [rep EXCEPT !.events = Append(@, e), !.state = Apply(@, e)]
    [] Received(rep, e) = "already_seen" -> [rep EXCEPT !.events = Append(@, e)]
    [] OTHER -> rep

AfterEvent(rep, e) ==
  IF Received(rep, e) = "applied"
  THEN [rep EXCEPT !.events = Append(@, e), !.state = Apply(@, e)]
  ELSE rep

\* One round of the client's loop over an EventBatch: it stops at the first gap or
\* failure.
BatchStep(before, e) ==
  LET what == Received(before.replica, e) IN
  IF before.end # "done" THEN before
  ELSE [replica |-> AfterEvent(before.replica, e),
        end |-> IF what \in {"gap", "failed"} THEN what ELSE "done"]

\* The whole loop: the replica it leaves and how it ended.
AfterBatch(rep, events) ==
  LET after[i \in 0..Len(events)] ==
        IF i = 0 THEN [replica |-> rep, end |-> "done"]
        ELSE BatchStep(after[i - 1], events[i])
  IN  after[Len(events)]

=============================================================================
