---------------------------- MODULE EventJournal ----------------------------
(***************************************************************************)
(* The host's events.jsonl (JournalStore of crate sytog-node) and the      *)
(* validation of an event log (crate sytog-protocol), as operators.        *)
(*                                                                         *)
(* A journal is [entries, torn].  A line holds one accepted command and    *)
(* its events, or one raw event of a v0.2.0 journal; it is kept as one     *)
(* entry per event, the first of them marked as the line's head.  A line   *)
(* that ends in a newline but does not parse is the entry Corrupt.  torn:  *)
(* the file ends in bytes that no newline terminates.                      *)
(***************************************************************************)
EXTENDS SessionRuntime

CONSTANTS
  BlankIds,    \* the message ids and participants that are empty once trimmed
  Corrupt,     \* a terminated line that does not parse
  NoRequest    \* what a raw v0.2.0 event line carries for a request

Entries ==
  [head : BOOLEAN, request : CommandRequests \cup {NoRequest},
   event : SessionEvents]

ASSUME CorruptAssumption == Corrupt \notin Entries
ASSUME NoRequestAssumption == NoRequest \notin CommandRequests

Journals == [entries : Seq(Entries \cup {Corrupt}), torn : BOOLEAN]

-----------------------------------------------------------------------------

\* EventLogV0::validate for a log whose base revision is 0.  An event id is never
\* blank, as it ends in an ordinal.
EventLogValid(events) ==
  /\ \A i \in DOMAIN events :
       events[i].causation_id \notin BlankIds /\ events[i].actor \notin BlankIds
  /\ \A i \in DOMAIN events : i <= MaxU64 /\ events[i].sequence = i
  /\ \A i, j \in DOMAIN events :
       events[i].event_id = events[j].event_id => i = j

-----------------------------------------------------------------------------

\* Mutant: only the last event of a decision is written.
MutRecordLastOnly(request, events) ==
  <<[head |-> TRUE, request |-> request, event |-> events[Len(events)]]>>

\* The entries of one accepted-command line.
Record(request, events) ==
  [i \in DOMAIN events |->
     [head |-> i = 1, request |-> request, event |-> events[i]]]

\* The entries of a raw event log.
LegacyEntries(events) ==
  [i \in DOMAIN events |->
     [head |-> TRUE, request |-> NoRequest, event |-> events[i]]]

\* Mutant: the newline is forgotten.
MutAppendWithoutNewline(j, request, events) == [j EXCEPT !.torn = TRUE]

\* write_all of a whole line.  Bytes that follow an unterminated suffix extend
\* that suffix: the newline then terminates a line that does not parse.
AppendRecord(j, request, events) ==
  IF j.torn
  THEN [entries |-> Append(j.entries, Corrupt), torn |-> FALSE]
  ELSE [entries |-> j.entries \o Record(request, events), torn |-> FALSE]

\* The ways an append can end without success, by what it leaves in the file:
\* nothing, the beginning of the line, or the whole line (written, while
\* sync_data failed or the process stopped before the append was reported).
AppendFailures == {"nothing_written", "torn", "unsynced"}

\* Mutant: an append that is reported as failed has written its line.
MutFailedAppendWrites(j, failure, request, events) ==
  AppendRecord(j, request, events)

FailedAppend(j, failure, request, events) ==
  CASE failure = "nothing_written" -> j
    [] failure = "torn"            -> [j EXCEPT !.torn = TRUE]
    [] failure = "unsynced"        -> AppendRecord(j, request, events)

-----------------------------------------------------------------------------

Heads(entries) ==
  {i \in DOMAIN entries : /\ entries[i] # Corrupt
                          /\ entries[i].head
                          /\ entries[i].request # NoRequest}

\* The events of all lines, in file order.
LoadedEvents(entries) == [i \in DOMAIN entries |-> entries[i].event]

\* The last entry of the line whose head is entry i.
LineEnd(entries, i) ==
  CHOOSE k \in i..Len(entries) :
    /\ \A j \in (i + 1)..k : ~entries[j].head
    /\ k < Len(entries) => entries[k + 1].head

\* The events of the line whose head is entry i.
ReceiptEvents(entries, i) == SubSeq(LoadedEvents(entries), i, LineEnd(entries, i))

\* JournalStore::load succeeds: every terminated line parses, every receipt has
\* an event it caused, and no two receipts share a message id.
Loads(entries) ==
  /\ \A i \in DOMAIN entries : entries[i] # Corrupt
  /\ \A i \in Heads(entries) :
       \E k \in i..LineEnd(entries, i) :
         entries[k].event.causation_id = entries[i].request.message_id
  /\ \A i, k \in Heads(entries) :
       entries[i].request.message_id = entries[k].request.message_id => i = k

\* The line of message id m.
HeadOf(entries, m) == CHOOSE i \in Heads(entries) : entries[i].request.message_id = m

\* Mutant: the index is not rebuilt.
MutIndexNotRebuilt(entries) == <<>>

\* The index of accepted commands that load returns.
LoadedCommands(entries) ==
  [m \in {entries[i].request.message_id : i \in Heads(entries)} |->
     [request |-> entries[HeadOf(entries, m)].request,
      events  |-> ReceiptEvents(entries, HeadOf(entries, m))]]

\* load followed by replay_log, as load_or_create does for a journal with events.
Recovers(entries) ==
  /\ Loads(entries)
  /\ EventLogValid(LoadedEvents(entries))
  /\ Replay(Uninitialized, LoadedEvents(entries)).ok

RecoveredState(entries) == Replay(Uninitialized, LoadedEvents(entries)).state

\* Mutant: the suffix is left in the file.
MutTailLeft(j) == j

\* Mutant: the safe offset is the beginning of the last complete line.
MutTruncateOneLineMore(j) ==
  [entries |-> SubSeq(j.entries, 1, Len(j.entries) - 1), torn |-> FALSE]

\* apply_recovery: cut the unterminated suffix.
TruncateTail(j) == [j EXCEPT !.torn = FALSE]

=============================================================================
