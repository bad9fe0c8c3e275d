# A TLA+ model of SYTOG

SYTOG runs one collaborative session on an authoritative host. Clients send
commands over WebSockets; the host decides each command, appends the accepted
ones to a journal, and broadcasts the resulting events; clients reduce them into
replicas. These modules model that path from the pure decision functions to the
clients' saved replicas, and beside it what happens at full sockets, the
documents that cross the program's boundary, and the two demo activities. TLC
checks the models on small instances and TLAPS proves, for every instance, every
safety property that these runs find to hold.

## The system and its hard parts

| component (crate) | state | operations | hard part | what makes it correct |
|---|---|---|---|---|
| session reducer (`sytog-domain`) | `SessionState`: lifecycle, participants, authority, activity, revision | `apply` of six kinds of event | guards written a second time in the runtime; `u64` revisions at their limit | state stays consistent, revisions count events |
| decisions (`sytog-runtime`) | none | `decide`, `execute`, `replay`, `replay_log` | must agree with the reducer in every reachable state | what is decided applies; the log alone says what the state is |
| log validation (`sytog-protocol`) | none | `EventLogV0::validate` | duplicate event ids, gaps, overflow, blank ids that nothing checked before | the journal stays valid |
| journal (`sytog-node`, `JournalStore`) | `events.jsonl`, `snapshot.json` | `load`, `apply_recovery`, `append_accepted`, snapshot write | crash in the middle of a line; appends that fail and are survived | a restart finds everything acknowledged |
| host (`sytog-node`, `Host`) | canonical state, events, index of accepted commands, under one mutex | `load_or_create`, `join`, `submit` (deduplication, conflict, auto-start), `commit` | two events under one request, retries across restarts, id collisions | write-ahead; a command is taken once |
| connections (`handle_connection`) | per connection: subscription, `sent_sequence`, participant | hello, join, submit, catch-up, broadcast, lag | broadcast before the hello, lag, handlers that outlive their client, writes to a full socket | only durable events travel; nobody stays behind; a slow connection harms only itself |
| client (`connect_client`, `ClientReplica`) | replica: base revision, events, state; saved in a file | connect, type a command, receive | duplicated, overlapping and missing batches; stop before the save | a replica is a replayed prefix of the journal |
| activities (`sytog-demo-vote`, `sytog-demo-counter`) | JSON state inside the session | `decide` | sequences of votes across stops and hand-overs; `i64` overflow | one ballot each, exact tally; the counter climbs |
| envelopes, V1 and V2 messages (`sytog-protocol`, `sytog-transport`) | none | `envelope`, `decode`, `validate` | two versions with the same type names; redundant bounds at `u64`'s edge | what arrives is what was sent; valid pages and resyncs can be acted on |
| capability policy (`sytog-capabilities`) | none | `validate`, `evaluate`, `rank` | ties, rounding, hard gate against soft score | deterministic ranking; policy before availability before score |
| CLI (`sytog-cli`), browser facade (`sytog-wasm`) | none | run the above on files or JSON | | validate before ranking |

`PROJECT.json` lists the hazards at their lines with the properties that watch
them.

## Modules

    SessionDomain --> SessionRuntime --> Session --> VoteSession (with VoteActivity)
                                    |           \--> CounterSession (with CounterActivity)
                                    \--> EventJournal --> Host --> Node (with ClientReplica)
    Backpressure: the tasks of Node, stopping at locks and full sockets
    Wire, Capabilities --> Boundary: documents
    CanonicalLog: abstract specification that Host implements
    RuntimeLemmas (over SessionRuntime): lemmas on replay, decisions, apply
    SessionProofs (over Session), CounterProofs, VoteProofs (over the activities'
    sessions), HostProofs (over Host) --> NodeProofs (over Node), BackpressureProofs
    (over Backpressure), BoundaryProofs (over Boundary): theorems
    MC*: values for TLC

- **SessionDomain**: `SessionState::apply` as `CanApply` (all guards) and `Apply`
  (the reduction). Display names are left out; a join or creation says only
  whether its name is blank, which is what `required_text` looks at.
- **SessionRuntime**: `decide` as `Accepted` (guards) and `DecidedEvent` (the
  event). An activity engine is the constants `EngineAccepts` and `EngineResult`.
  `Replay` is `try_fold` of `apply`, with failure; what `replay_log` checks before
  it is `Recovers` (EventJournal). An event id is the pair of message id and ordinal
  that the code joins into a string.
- **Session**: `execute` on a session in memory: `ExecuteAccepted`,
  `ExecuteRejected`, for any actor, revision and engine. `StateIsWhatTheLogSays`
  reads revision, participants, authority and activity off the log without the
  guards of `decide`, without `apply` and without `Replay`.
- **VoteActivity**, **VoteSession**: the vote engine, and a session that runs it.
  Trimming of option texts is modelled (`Trim`).
- **CounterActivity**, **CounterSession**: the counter engine, and a session that
  runs it, as the CLI's `demo session` does.
- **EventJournal**: the file as a sequence of parsed entries, one per event, the
  first of a line marked as its head; `Corrupt` is a terminated line that does
  not parse; `torn` says that the file ends without a newline. `AppendRecord` on
  a torn file yields `Corrupt`: the new bytes continue the old ones.
  `AppendFailures` are the three things a failed append can leave. `EventLogValid`
  is `EventLogV0::validate` without the header, which the host writes itself;
  `BlankIds` are the message ids and participants that `validate_identifier`
  refuses. `decide` does not look at them, so a command with a blank id is refused
  only in `commit`, after it was decided and applied to the candidate.
- **Host**: `StartEmpty`, `StartEmptyFails`, `StartRecovered`, `StartRefused` are
  `load_or_create`; `Join`/`JoinAgain` are `join`; `SubmitKnown`,
  `SubmitConflict`, `SubmitAutoStart`, `SubmitDirect` the branches of `submit`.
  Each holds the mutex throughout and awaits nothing, so it is one action, whose
  append may succeed, fail and be survived, or end with the process. `published`,
  `receipts` and `refused` are history variables.
- **CanonicalLog**: a log that grows in valid batches and one final answer per
  message id. `Host` implements it with `log` = the events of the journal and
  `answers` = `receipts`.
- **ClientReplica**, **Node**: `apply_received_event` and `from_v1`; one action
  per message of `handle_connection` and `connect_client`, FIFO sockets, the
  bounded broadcast channel with `Lagged`, client and host crashes. The client
  saves after every batch and changes its replica nowhere else, so memory and
  file are one variable. Ctrl-c of the host is one of the ways in which its
  process ends (`HostCrashes`).
- **Backpressure**: `handle_connection` and `connect_client` again, cut where they
  wait: at `canonical.lock().await` (`Acquire`) and at `send(..).await` on a
  socket that holds `SocketCap` messages (`HandlerSends`, `ClientSends`). Who
  waits in a send does nothing else. The session is its revision, an accepted
  command adds one event (an auto-start's pair is one batch in `Node`), a batch
  is a range; a message id accepted before is answered with its event or, when
  its content differs, with a refusal, so that case is a choice. A join is
  committed or refused, whatever the reason. A client outside
  `PromptClients` may stop for ever and stay connected.
- **Wire**: envelopes and messages as records whose keys are the JSON keys;
  `decode`, `decode_v2` and `decode_versioned` as the conditions under which they
  succeed and the message they return. A page's metadata and events are one
  record. **Capabilities**: validation, `evaluate` and `rank`; scores are exact
  fractions rounded to ten-thousandths, where the code has `f64`. The stable sort of
  `rank` is written as where each result stands: behind those that precede it and
  behind the earlier ones that compare equal.
- **Boundary**: a document is taken through `Emit`, `ReceiveV1` (the host and
  client of today), `ReceiveVersioned` and `Match`. Nothing of host or client
  speaks V2 yet, so there is no paging state machine to model: the properties say
  what the validated messages are good for when there is one.

## Runs

| run | instance | shows |
|---|---|---|
| `session` | 3 participants, 2 descriptors, the counter engine with `i64` of -3 to 2, revisions to 8 | every decision applies; the log, read on its own, says what the state is; the authority is a participant and only its holder uses it; an activity's revision counts its own events; the counter climbs from 0 and never overflows |
| `vote` | 2 participants, 2 options out of trimmed, untrimmed and blank texts, revisions to 8 | valid ballots, exact tally, votes never change |
| `host` | host and one participant, 4 message ids of which one is the auto-start id of another and one is blank, revisions to 5, crashes at every point, one survived append error that wrote nothing, with and without a v0.2.0 journal, one of which handed the authority over and back | memory = journal, recovery from every crash, each command taken once, rejected commands leave no trace, no event is in another's name, an auto-start is in the journal together with its command or not at all, also at the revision limit, the snapshot is on the journal's path, refinement of `CanonicalLog` |
| `host_faults` | the same to revision 4, with two survived append errors of every kind | nothing published is lost silently |
| `node` | 2 clients, channel capacity 1, 2 connections, 2 typed commands, 1 host crash, revisions to 5 | replicas follow the journal, only durable events travel, no client fails |
| `node_live` | 2 clients, 1 command, no crash | clients that stay connected converge |
| `node_live_crash` | 1 client, 2 connections, 1 crash, 1 command | the same through a crash and a reconnection |
| `boundary` | `u64` up to 3, batches of at most 2 events, every combination of page and resync bounds, wrong headers, labels and fields, one or two nodes with up to two offers and two observations | what is sent arrives unchanged and only as its own version; pages compose into a catch-up; a resync can be acted on; the ranking ignores the order of the input, policy is a gate, observations move scores the right way |
| `backpressure` | 2 clients, one of which may stall for ever; sockets and channel of capacity 1; 2 joins and 2 commands | sockets and subscriptions stay within capacity; an event a client lacks is on its way, asked for or pending; the canonical lock is always obtained; a client that reads gets every event unless its own two ends wait for each other |
| `host_torn`, `host_unsynced`, `node_snapshot_lag` | see Findings | expected violations |

Bounds. `MaxU64` is both the revision limit and what makes the state space
finite, so every run goes through the overflow refusals. Eight revisions are
enough for create, two joins, start, activity events, hand-over, stop and a second
start. Five are enough on the host for create, join and one auto-start, which is
its only two-event commit, for a retry of each after a crash, and for a command
after a hand-over in an older journal. Capacity 1 (256
in the code) makes a subscription lag at the second batch it does not read; five
revisions let a client be behind by more than that. Two connections allow a
reconnection next to the handler of the old connection, or two clients at once.
`NodeTypeOK` sees hidden history variables only through one representative per
view. Views and symmetry are used only for safety
runs; views hide variables no action reads. The one of `host` also hides which blank
ids were refused: `commit` refuses them always, so they never enter a journal.

Fairness (liveness runs). The host is started again after a crash; a connection
task or client with something to do eventually does it, since tokio polls woken
tasks and `select!` takes a ready branch. Nothing is assumed of users: commands,
connections and disconnections may stop at any time. `Fairness` writes the
enabling conditions out instead of using `WF`, which TLC evaluates very slowly
here; `HandlerReady` and `ClientReady` are those conditions.

`backpressure` states `WF` for the task of every connection and for the clients
that read, and `SF` for obtaining the lock: tokio's mutex serves its waiters in
order, so a waiter is not overtaken for ever. Nothing is assumed of a stalled
client. Capacity 1 everywhere makes every wait happen: without `Jammed` in
`SlownessIsLocal` the property is violated, so the standstill of two ends that
wait for each other is reachable (host and client both in a write to a full
socket; no timeout ends it). It needs both kernel buffers full, and it stays on
that connection.

Deadlock checking is off in the node runs and in `backpressure`, where everything
may have been used up (connections, commands and revisions are bounded), and in
`boundary`, where a document reaches its last stage.

## Proofs

Every theorem holds for all values of the constants that satisfy the named
assumptions of the modules: any number of participants, ids, connections, crashes
and faults, any channel capacity, any `MaxU64`. The assumptions say of what types
the constants are, that the values which stand for "none" are none of the others,
that the engine maps states to states (`EngineAssumption`; `CounterEngineAssumption`
and `VoteEngineAssumption` say that the session runs that engine), and that
auto-start ids of different ids differ and the host's own ids are not blank
(`HostAssumption`). TLC evaluates them in the
runs.

Induction. `Replay`, `AfterBatch`, `Later` and the vote's sums are recursive
functions. The library's induction theorems cannot be instantiated, so
`RuntimeLemmas` has its own over sets: `NatLeast`, and from it `SetInduction` (a set
that has 0 and with each number the next one contains `Nat`). `IterationExists` and
`IterationStays` (`NodeProofs`) give from it that such a function exists and that
what one round keeps the whole loop keeps.

**SessionProofs** (`execute` on a session in memory)

- `TypeCorrect`, `SessionStaysConsistent`, `AcceptedDecisionsApply`: one inductive
  invariant, the conjunction of the three. `DecidedEventApplies` goes through the
  commands and shows that what `decide` checks implies what `apply` checks, in any
  typed state.
- `PrivilegeFollowsAuthority`, `ActivityRevisionIsACount`: each is carried along with
  what ties it to the state: the authority is the last grantee, the activity the one
  started last.
- `LogTellsTheState`: `StateIsWhatTheLogSays`, part by part (`CreationStaysSaid`,
  `ParticipantsStaySaid`, `ActivityStaysSaid`, and the authority from the theorem
  before). It needs both sides of the code: the guards of `apply`, for one creation and
  no second join, and the way `decide` builds an event, for a join being the joiner's
  own act, which no guard of `apply` asks for.

**CounterProofs**, **VoteProofs** (the engines inside a session)

- `CounterClimbs`: the invariant adds that the running counter is the value the log
  set last and lies in `i64`.
- `BallotsStayValid`, `VotesStayFinal`, `ResultCountsAll`. The last needs that the
  counts of all options add up to the number of ballots: by induction on the options,
  the voters of the first n options being finite disjoint sets.

**HostProofs**, in its first part without a hypothesis on failures

- `HostTypeCorrect`: `TypeOK` of `Host`.
- `NothingPublishedIsLost`: `NoSilentLoss`, for every set of survived append
  failures. It is not inductive: after a survived failure journal and memory
  disagree. `LossInv` adds that a serving host's events are what was published, and
  that the journal extends the published events *or is poisoned*: it holds an
  unparsable line or an event whose number is not its place. Appending keeps a
  poisoned journal poisoned, and appending what was decided on a memory that lags
  behind the journal poisons it (`AppendedExtendsOrPoisons`). A poisoned journal is
  refused by the next start.

and in its second part from two hypotheses. `CleanFailures`: an append reported as
failed left nothing in the file (a process that *dies* in an append may leave
anything); the runs `host_torn` and `host_unsynced` show that without it the
conclusions are false. `LegacyLogsSound`: a v0.2.0 journal found at first was written
by that runtime, so it loads and its event ids are those of its commands; TLC
evaluates it for the logs of the runs.

- `MemoryIsTheJournal`, `CrashesLeaveAStartableJournal`, `SnapshotStaysOnThePath`,
  `RefusedLeavesNoTrace`, `ActorsAreTheirOwn`, `AutoStartsStayWhole`,
  `CommandsAreTakenOnce`: all from
  `CleanInv`, which says that the journal is sound (it loads, validates, replays, each
  event id comes from its causation, each line is in its actor's name and whole), that answers
  given are lines of it, that refused ids have none, and that a serving host holds
  what a load would give. `AppendedJournal` is the heart: appending a batch that fits
  (`FitsAfter`) to a sound journal gives a sound journal whose index has one entry
  more and is otherwise unchanged. Event ids are what makes a command's events its
  own: two events caused by one id would share an event id, and the log would not
  validate.
- `HostImplementsCanonicalLog`: the initial states are initial, and each step is a
  batch appended, an answer given or a stutter (`StepRefines`). `CanonicalLog` has no
  fairness, so this is the whole refinement.

**NodeProofs** (host, connections and clients)

- `NodeTypeCorrect`, and `NodeRunsTheHost`: `NodeSpec => Spec`, so that the theorems
  above hold of the host behind the connections. Neither has a hypothesis.
- `WhatTravelsIsDurable`, `ReplicasStayOnTheJournal`, from `CleanFailures` and
  `LegacyLogsSound`. `Connections(S)` describes what a connection may hold when its
  events come from the set S. With all events it gives the types; with the events of
  the journal (`Travels`) it gives what may travel. The journal only grows and
  `Connections` is monotone, so a step has only to be looked at once, and what remains
  is that the host's answers are in the journal (`AnsweredIsStored`). A replica that
  follows the journal still does so after any event *of the journal*, in whatever
  order, however often (`EventFollows`), hence after any batch (`BatchFollows`).
- `OnlyOldSnapshotsFail`: the clients that ever stop with an error are among
  `SnapshotClients`, and so `ClientsKeepRunning`: `ClientsNeverFail` when there are
  none. `node_snapshot_lag` shows that those can.

**BoundaryProofs** (documents)

- `MessagesArriveAsSent`, `PagesAlwaysCompose`, `ResyncsCanBeActedOn`,
  `PolicyStaysAGate`, `EvidenceMovesScores`. The invariant `BoundaryInv` says what the
  document of each stage is made of. `OutgoingAssumption`, `ForeignAssumption`,
  `RequestAssumption` and `ProbesAssumption` are the types `serde` gives to documents.
- `EvidenceMovesScores` is `ObservationsMoveScoresTheRightWay` for every file: fractions
  are compared by cross-multiplication, a better rate and a better latency give a
  higher weighted sum (`WeightedIsMonotone`), rounding does not turn the order around
  (`RoundingIsMonotone`), and the first success of an offer gains more on the rate
  (2000) than it can lose on the latency (1750). About exact fractions, not `f64`.

- `RankingIsCanonical`: a ranking lists the *set* of its results by standing
  (`RankLists`, `ListsAreUnique`). Results of a valid file differ in node id or offer
  id, so `compare_results` orders them totally and the standings are 1 to n
  (`StandingIsUnique`, `EveryStandingIsTaken`). The same nodes in another order, their
  offers and observations reversed, give the same set: a reversed list of observations
  has as many relevant and as many successful ones and the same least latency
  (`ScoreIgnoresOrder`). Ties that the scores leave are covered; that ids differ is
  what `validate_nodes` is for.

**BackpressureProofs** (handlers and clients at full sockets)

- `BackpressureTypeCorrect`: sockets and subscriptions stay within their capacities,
  and a handler with something to send has nothing else to do.
- `NothingIsForgotten`: `NoEventIsForgotten`. A connection is looked at alone: a step of
  another one changes nothing of it but for a commit, which publishes an event to all
  (`EventPublished`). Two facts about one connection are inductive together. `Accounted`
  is the property itself, for every n. `NobodyIsAhead` says that no replica, no
  `sent_sequence`, no batch and no entry of a subscription is past the revision, that
  a client asks for events from no further on than its replica, and that a
  subscription lists rising numbers. Without it a hello could set `sent_sequence` past
  events that were never sent, and the filter of later broadcasts would drop them. This is the safety half of `SlownessIsLocal`.

Only model-checked: `ClientsConverge`, `CommitsAreNeverBlocked` and `SlownessIsLocal`,
as liveness is beyond the prover.

## Findings

1. `host_torn`. `docs/invariants.en.md:390-392` says that an append error
   prevents the commit and that an unterminated suffix is cut at the next
   restart. A host that survives a partial write goes on; its next append
   continues the torn bytes and terminates them. That command is acknowledged and
   broadcast, and no later start accepts the journal. `NothingPublishedIsLost`
   shows that the loss is at least never silent.
2. `host_unsynced`. `docs/invariants.en.md:291-293` says that a rejected command
   is not recorded. When `sync_data` fails after the line was written, the command
   is answered `persistence_failed` and is in force after a restart.
3. `node_snapshot_lag`. `docs/invariants.en.md:499-501` says that a client with a
   snapshot at revision N can catch up from N. If its subscription lags before
   its hello is read, `sent_sequence` is still 0, it is sent events it cannot
   check against its snapshot, and it stops with `EventHistoryUnavailable`. Clients that hold
   their history (all that started empty) see duplicates only.

## Not modelled

Session-id mismatches, undecodable frames and messages of the wrong direction in
`Node` (each ends a connection and changes nothing; `Boundary` has what decodes);
JSON text and bytes of the journal below the level of lines; the client's
`StateSnapshot` branch, as nothing sends that message; metadata; connections
that close in `Backpressure` (they do in `Node`); of the CLI, argument parsing,
printing, the fixed scripts of `demo session` and `demo vote`, and the order in
which `validate` tries the schemas of a file; error texts and numeric close
codes.

Floats: `Capabilities` rounds exact fractions. Where a sum lies exactly between
two ten-thousandths, `f64` may round to the other side. Within the model, one
thing `ObservationsMoveScoresTheRightWay` has to except is a slow success
after nothing but failures: it replaces the neutral latency score of 0.5 by its
own and may lower the total. No document says otherwise.

## Plan

1. done: domain, runtime, session, vote and counter, journal, host, clients,
   back-pressure, documents, and the runs above.
2. done: every safety property the passing runs check, and the refinement of
   `CanonicalLog`, as theorems.
3. left: nothing in TLAPS' reach that the runs check. `Backpressure` repeats the handlers
   of `Node` in finer steps; that the two agree is read off
   the source, not checked.
