-------------------------------- MODULE Host --------------------------------
(***************************************************************************)
(* The authoritative host (Host and JournalStore of crate sytog-node):     *)
(* commands are decided under one lock, written to the journal, then       *)
(* committed in memory and broadcast.  join and submit hold the lock from  *)
(* beginning to end and await nothing, so each is one action; the process  *)
(* may still die at any point of an append.                                *)
(***************************************************************************)
EXTENDS EventJournal

CONSTANTS
  HostId,            \* HOST_ID
  BootstrapId,       \* the message id "bootstrap"
  AutoStartId(_),    \* "auto-start:<message id>"
  ClientMessageIds,  \* the message ids clients use
  LegacyLogs,        \* raw v0.2.0 logs the data directory may hold at first
  AppendFaults,      \* the append failures the process survives
  MaxFaults          \* how many of them happen (a bound)

ASSUME HostAssumption ==
  /\ HostId \in Participants
  /\ BootstrapId \in MessageIds
  /\ HostId \notin BlankIds /\ BootstrapId \notin BlankIds
  /\ ClientMessageIds \subseteq MessageIds
  /\ \A m \in ClientMessageIds : AutoStartId(m) \in MessageIds
  /\ \A m, n \in ClientMessageIds : AutoStartId(m) = AutoStartId(n) => m = n
  /\ LegacyLogs \subseteq Seq(SessionEvents)
  /\ AppendFaults \subseteq AppendFailures
  /\ MaxFaults \in Nat

VARIABLES
  status,     \* "down", "up", or "refused" after a failed start
  journal,    \* events.jsonl
  snapshot,   \* snapshot.json; Uninitialized while there is none
  state,      \* CanonicalSession::state
  events,     \* CanonicalSession::events
  accepted,   \* CanonicalSession::accepted_commands, by message id
  reply,      \* the answer of the last join or submit
  published,  \* history: every event ever committed in memory, so visible
              \* to clients, in order
  receipts,   \* history: what each accepted message id was answered
  refused,    \* history: ids whose latest submission was answered by a rejection
  faults      \* how many append failures the process survived

memory == <<state, events, accepted>>
history == <<published, receipts, refused>>
vars == <<status, journal, snapshot, memory, reply, history, faults>>

ClientRequests == {r \in CommandRequests : r.message_id \in ClientMessageIds}

NoReply == [message_id |-> BootstrapId, code |-> "none", events |-> <<>>]

Init ==
  /\ status = "down"
  /\ \E es \in LegacyLogs : journal = [entries |-> LegacyEntries(es), torn |-> FALSE]
  /\ snapshot = Uninitialized
  /\ state = Uninitialized /\ events = <<>> /\ accepted = <<>>
  /\ reply = NoReply
  /\ published = <<>> /\ receipts = <<>> /\ refused = {}
  /\ faults = 0

-----------------------------------------------------------------------------
\* Starting.

BootstrapRequest ==
  [message_id |-> BootstrapId, actor |-> HostId, expected_revision |-> 0,
   command |-> [type |-> "create_session", blank |-> FALSE]]

BootstrapEvents == <<DecidedEvent(Uninitialized, BootstrapRequest)>>

\* The answers given so far, with those of an index cs added.
Answered(cs) ==
  [m \in DOMAIN receipts \cup DOMAIN cs |->
     IF m \in DOMAIN receipts THEN receipts[m] ELSE cs[m].events]

\* What the process knows once it serves: memory, and thereby what clients can
\* come to see.
Serve(s, es, cs) ==
  /\ status' = "up"
  /\ state' = s /\ events' = es /\ accepted' = cs
  /\ published' = es
  /\ receipts' = Answered(cs)

\* load_or_create with a journal that holds no event.
StartEmpty ==
  LET es == BootstrapEvents
      s  == Apply(Uninitialized, es[1])
  IN
  /\ status # "up"
  /\ journal.entries = <<>>
  /\ journal' = AppendRecord(TruncateTail(journal), BootstrapRequest, es)
  /\ snapshot' = s
  /\ Serve(s, es, [m \in {BootstrapId} |->
                     [request |-> BootstrapRequest, events |-> es]])
  /\ UNCHANGED <<reply, refused, faults>>

\* load_or_create that fails or dies while it writes the first line, the
\* metadata or the snapshot.
StartEmptyFails ==
  /\ status # "up"
  /\ journal.entries = <<>>
  /\ \E failure \in AppendFailures :
       journal' = FailedAppend(TruncateTail(journal), failure,
                               BootstrapRequest, BootstrapEvents)
  /\ status' = "down"
  /\ UNCHANGED <<snapshot, memory, reply, history, faults>>

\* load_or_create with a journal that loads, validates and replays.
StartRecovered ==
  /\ status # "up"
  /\ journal.entries # <<>>
  /\ Recovers(journal.entries)
  /\ journal' = TruncateTail(journal)
  /\ Serve(RecoveredState(journal.entries), LoadedEvents(journal.entries),
           LoadedCommands(journal.entries))
  /\ UNCHANGED <<snapshot, reply, refused, faults>>

\* load_or_create that returns an error; the file is left as it is.
StartRefused ==
  /\ status # "up"
  /\ journal.entries # <<>>
  /\ ~Recovers(journal.entries)
  /\ status' = "refused"
  /\ UNCHANGED <<journal, snapshot, memory, reply, history, faults>>

\* The process dies: memory is gone.
Die ==
  /\ status' = "down"
  /\ state' = Uninitialized /\ events' = <<>> /\ accepted' = <<>>
  /\ reply' = NoReply

Crash ==
  /\ status = "up"
  /\ Die
  /\ UNCHANGED <<journal, snapshot, history, faults>>

-----------------------------------------------------------------------------
\* Committing.

\* An answer that changes nothing.
Answer(m, code, es) ==
  /\ reply' = [message_id |-> m, code |-> code, events |-> es]
  /\ refused' = IF code \in {"duplicate", "already_joined"} THEN refused \ {m}
                ELSE refused \cup {m}
  /\ UNCHANGED <<status, snapshot, memory, published, receipts>>

Reject(m, code) == Answer(m, code, <<>>) /\ UNCHANGED <<journal, faults>>

\* The line is durable: memory, the snapshot (best effort), the broadcast.
CommitAppended(candidate, r, es) ==
  /\ journal' = AppendRecord(journal, r, es)
  /\ state' = candidate
  /\ events' = events \o es
  /\ accepted' = [m \in DOMAIN accepted \cup {r.message_id} |->
                    IF m = r.message_id THEN [request |-> r, events |-> es]
                    ELSE accepted[m]]
  /\ snapshot' \in {snapshot, candidate}
  /\ reply' = [message_id |-> r.message_id, code |-> "accepted", events |-> es]
  /\ published' = events \o es
  /\ receipts' = Answered(accepted')
  /\ refused' = refused \ {r.message_id}
  /\ UNCHANGED <<status, faults>>

\* append_accepted returns an error and the host goes on.
CommitFails(r, es) ==
  \E fault \in AppendFaults :
    /\ faults < MaxFaults
    /\ faults' = faults + 1
    /\ journal' = FailedAppend(journal, fault, r, es)
    /\ Answer(r.message_id, "persistence_failed", <<>>)

\* The process dies during the append, or after it and before anybody heard.
CommitCrashes(r, es) ==
  \E failure \in AppendFailures :
    /\ journal' = FailedAppend(journal, failure, r, es)
    /\ Die
    /\ refused' = refused \ {r.message_id}
    /\ UNCHANGED <<snapshot, published, receipts, faults>>

\* Mutant: the snapshot is written before the journal.
MutCommitSnapshotFirst(candidate, r, es) ==
  IF r.message_id \in DOMAIN accepted \/ ~EventLogValid(events \o es)
  THEN Reject(r.message_id, "journal_invariant_failed")
  ELSE \/ CommitAppended(candidate, r, es)
       \/ /\ Die
          /\ snapshot' = candidate
          /\ UNCHANGED <<journal, history, faults>>

Commit(candidate, r, es) ==
  IF r.message_id \in DOMAIN accepted
  THEN Reject(r.message_id, "command_id_collision")
  ELSE IF ~EventLogValid(events \o es)
  THEN Reject(r.message_id, "journal_invariant_failed")
  ELSE \/ CommitAppended(candidate, r, es)
       \/ CommitFails(r, es)
       \/ CommitCrashes(r, es)

\* accept: decide, apply on a candidate, commit.
Accept(r, engine) ==
  LET event == DecidedEvent(state, r) IN
  IF ~Accepted(state, r, engine) THEN Reject(r.message_id, "rejected")
  ELSE IF ~CanApply(state, event) THEN Reject(r.message_id, "apply_failed")
  ELSE Commit(Apply(state, event), r, <<event>>)

-----------------------------------------------------------------------------
\* The handlers.

\* join by a participant of the session is an empty success.
JoinAgain(p, m) ==
  /\ status = "up"
  /\ p \in state.participants
  /\ Answer(m, "already_joined", <<>>)
  /\ UNCHANGED <<journal, faults>>

Join(p, m, blank) ==
  /\ status = "up"
  /\ p \notin state.participants
  /\ Accept([message_id |-> m, actor |-> p, expected_revision |-> state.revision,
             command |-> [type |-> "join", blank |-> blank]], FALSE)

\* submit of a message id that was accepted before: the stored answer for the
\* same request, a collision for another.
SubmitKnown(r) ==
  /\ status = "up"
  /\ r.message_id \in DOMAIN accepted
  /\ IF accepted[r.message_id].request = r
     THEN Answer(r.message_id, "duplicate", accepted[r.message_id].events)
     ELSE Answer(r.message_id, "command_id_collision", <<>>)
  /\ UNCHANGED <<journal, faults>>

SubmitConflict(r) ==
  /\ status = "up"
  /\ r.message_id \notin DOMAIN accepted
  /\ r.expected_revision # state.revision
  /\ Reject(r.message_id, "revision_conflict")

\* Mutant: the activity is started in the name of whoever holds the authority.
MutStartAsHolder(r) ==
  [message_id |-> AutoStartId(r.message_id), actor |-> state.authority,
   expected_revision |-> state.revision,
   command |-> [type |-> "start_activity", descriptor |-> EngineDescriptor]]

StartRequest(r) ==
  [message_id |-> AutoStartId(r.message_id), actor |-> HostId,
   expected_revision |-> state.revision,
   command |-> [type |-> "start_activity", descriptor |-> EngineDescriptor]]

\* Mutant: the start is committed before the command is decided.
MutStartIsKept(r) ==
  LET start    == StartRequest(r)
      started  == DecidedEvent(state, start)
      between  == Apply(state, started)
      adjusted == [r EXCEPT !.expected_revision = between.revision]
      event    == DecidedEvent(between, adjusted)
  IN
  /\ status = "up"
  /\ r.message_id \notin DOMAIN accepted
  /\ r.expected_revision = state.revision
  /\ r.command.type = "activity" /\ state.activity = NoActivity
  /\ IF ~Accepted(state, start, TRUE) THEN Reject(r.message_id, "rejected")
     ELSE IF Accepted(between, adjusted, TRUE)
          THEN Commit(Apply(between, event), r, <<started, event>>)
          ELSE Commit(between, start, <<started>>)

\* An activity command while no activity runs: the host starts it first, and
\* both events go into one line under the client's request.
SubmitAutoStart(r) ==
  LET start    == StartRequest(r)
      started  == DecidedEvent(state, start)
      between  == Apply(state, started)
      adjusted == [r EXCEPT !.expected_revision = between.revision]
      event    == DecidedEvent(between, adjusted)
  IN
  /\ status = "up"
  /\ r.message_id \notin DOMAIN accepted
  /\ r.expected_revision = state.revision
  /\ r.command.type = "activity" /\ state.activity = NoActivity
  /\ IF ~Accepted(state, start, TRUE) THEN Reject(r.message_id, "rejected")
     ELSE IF ~CanApply(state, started) THEN Reject(r.message_id, "apply_failed")
     ELSE IF ~Accepted(between, adjusted, TRUE) THEN Reject(r.message_id, "rejected")
     ELSE IF ~CanApply(between, event) THEN Reject(r.message_id, "apply_failed")
     ELSE Commit(Apply(between, event), r, <<started, event>>)

SubmitDirect(r) ==
  /\ status = "up"
  /\ r.message_id \notin DOMAIN accepted
  /\ r.expected_revision = state.revision
  /\ ~(r.command.type = "activity" /\ state.activity = NoActivity)
  /\ Accept(r, TRUE)

Start == StartEmpty \/ StartEmptyFails \/ StartRecovered \/ StartRefused

Submit(r) ==
  SubmitKnown(r) \/ SubmitConflict(r) \/ SubmitAutoStart(r) \/ SubmitDirect(r)

Next ==
  \/ Start
  \/ Crash
  \/ \E p \in Participants, m \in ClientMessageIds :
       \/ JoinAgain(p, m)
       \/ \E blank \in BOOLEAN : Join(p, m, blank)
  \/ \E r \in ClientRequests : Submit(r)

Spec == Init /\ [][Next]_vars

-----------------------------------------------------------------------------
\* When the write-ahead discipline is enough.

\* An append that is reported as failed has left nothing in the file.
CleanFailures == AppendFaults \subseteq {"nothing_written"}

\* A raw log that v0.2.0 left behind is one its runtime wrote: it replays, and
\* each event is named after the command that caused it.
LegacyLogsSound ==
  \A es \in LegacyLogs :
    /\ Recovers(LegacyEntries(es))
    /\ \A i \in DOMAIN es :
         es[i].event_id = EventIdFromCausation(es[i].causation_id, 0)

-----------------------------------------------------------------------------

\* An index of accepted commands, and the answers it gives.
IsIndex(f, range) == DOMAIN f \subseteq MessageIds /\ \A m \in DOMAIN f : f[m] \in range

Codes ==
  {"none", "accepted", "duplicate", "already_joined", "rejected", "apply_failed",
   "command_id_collision", "revision_conflict", "journal_invariant_failed",
   "persistence_failed"}

TypeOK ==
  /\ status \in {"down", "up", "refused"}
  /\ journal \in Journals
  /\ snapshot \in SessionStates
  /\ state \in SessionStates
  /\ events \in Seq(SessionEvents)
  /\ IsIndex(accepted, [request : CommandRequests, events : Seq(SessionEvents)])
  /\ reply \in [message_id : MessageIds, code : Codes, events : Seq(SessionEvents)]
  /\ published \in Seq(SessionEvents)
  /\ IsIndex(receipts, Seq(SessionEvents))
  /\ refused \subseteq MessageIds
  /\ faults \in 0..MaxFaults

\* The host implements the abstract canonical log: what is durable only grows, in
\* valid whole batches, and an answer given for a message id is final and is
\* part of the log, through crashes and restarts.
Canonical == INSTANCE CanonicalLog
               WITH log <- LoadedEvents(journal.entries), answers <- receipts
ImplementsCanonicalLog == Canonical!Spec

IsPrefixOf(s, t) == Len(s) <= Len(t) /\ \A i \in DOMAIN s : s[i] = t[i]

\* No acknowledged event is lost silently: whatever append failures and crashes
\* happened, a journal that the next start accepts begins with every event that
\* was ever committed and broadcast, in the same order.
NoSilentLoss ==
  Recovers(journal.entries) => IsPrefixOf(published, LoadedEvents(journal.entries))

\* A serving host holds exactly what a restart would rebuild: events, state and
\* index of accepted commands agree with the journal (write-ahead discipline of
\* commit, INV-013, and of the load path).
MemoryMatchesJournal ==
  status = "up" =>
    /\ ~journal.torn
    /\ events = LoadedEvents(journal.entries)
    /\ state = RecoveredState(journal.entries)
    /\ accepted = LoadedCommands(journal.entries)

\* Whatever the moment of a crash, the journal it leaves can be started from.
JournalAlwaysRecovers == journal.entries = <<>> \/ Recovers(journal.entries)

\* A command is taken at most once: an accepted message id is answered with the
\* events it was first answered with, across retries, collisions and restarts,
\* and no other event of the journal was caused by it.
AcceptedOnce ==
  status = "up" =>
    \A m \in DOMAIN receipts :
      /\ m \in DOMAIN accepted
      /\ accepted[m].events = receipts[m]
      /\ \A i \in DOMAIN events :
           events[i].causation_id = m =>
             \E k \in DOMAIN receipts[m] : receipts[m][k] = events[i]

\* Nobody acts in another's name: each event of an accepted command was caused by
\* the participant who asked for it, the one exception being an activity_started
\* that the host put in front, under its own id and only while it still held the
\* authority.  Once a hand-over took it away, an auto-start borrows no one's.
NobodyActsForAnother ==
  \A m \in DOMAIN accepted :
    \A i \in DOMAIN accepted[m].events :
      LET e == accepted[m].events[i] IN
      \/ e.actor = accepted[m].request.actor /\ e.causation_id = m
      \/ /\ e.kind.type = "activity_started"
         /\ e.actor = HostId
         /\ i < Len(accepted[m].events)
         /\ Replay(Uninitialized,
                   SubSeq(events, 1, e.sequence - 1)).state.authority = HostId

\* A line holds what one client asked for, whole: the fact its command becomes,
\* caused by it, and before that at most the host's start, after which that fact
\* is the activity's first.
IsWhole(r, es) ==
  LET own == es[Len(es)] IN
  /\ r.message_id \in ClientMessageIds \cup {BootstrapId}
  /\ own.causation_id = r.message_id
  /\ own.kind.type = "activity" <=> r.command.type = "activity"
  /\ \/ Len(es) = 1
     \/ /\ Len(es) = 2
        /\ es[1].kind.type = "activity_started"
        /\ es[1].causation_id = AutoStartId(r.message_id)
        /\ own.kind.type = "activity" /\ own.kind.activity_sequence = 1

\* An auto-start is durable together with the command it serves or not at all:
\* when the command is refused after the start was decided, be it for the second
\* revision it needs at the limit, or when the process dies between, no line of
\* the journal starts the activity for nobody.
AutoStartIsWhole ==
  LET lines == LoadedCommands(journal.entries) IN
  \A m \in DOMAIN lines : IsWhole(lines[m].request, lines[m].events)

\* An answer other than a success leaves no trace in the journal: "a rejected
\* command is not recorded ... only accepted facts belong to the canonical
\* journal" (INV-007).
RejectedIsNotRecorded ==
  \A m \in refused \ DOMAIN receipts :
    \A i \in Heads(journal.entries) : journal.entries[i].request.message_id # m

\* The state written to snapshot.json is one the journal passes through: the
\* snapshot may be behind the journal, never ahead of it or beside it.
SnapshotOnJournalPath ==
  LET es == LoadedEvents(journal.entries) IN
  snapshot.revision > 0 =>
    /\ snapshot.revision <= Len(es)
    /\ snapshot = Replay(Uninitialized, SubSeq(es, 1, snapshot.revision)).state

=============================================================================
