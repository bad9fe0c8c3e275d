----------------------------- MODULE HostProofs -----------------------------
(***************************************************************************)
(* The host and its journal, for any number of participants, commands and  *)
(* crashes.  First, for every choice of append failures that the host      *)
(* survives: no acknowledged event is lost silently, and every variable    *)
(* keeps its type.  Then, when no failed append leaves a line behind: what *)
(* the write-ahead discipline gives.                                       *)
(*                                                                         *)
(* NoSilentLoss alone is not inductive: after a surviving failure the      *)
(* journal and the memory may disagree.  The argument is that such a       *)
(* journal is either still an extension of what was published, or poisoned *)
(* for good: it holds a line that does not parse or an event whose number  *)
(* is not its place, and no later append can mend that.                    *)
(***************************************************************************)
EXTENDS Host, RuntimeLemmas

\* A journal no start accepts, whatever is appended to it.
Poisoned(entries) ==
  \E i \in DOMAIN entries : entries[i] = Corrupt \/ entries[i].event.sequence # i

\* The inductive invariant.
LossInv ==
  /\ IsSeq(journal.entries)
  /\ IsSeq(events)
  /\ IsSeq(published)
  /\ status = "up" => published = events
  /\ Poisoned(journal.entries) \/ IsPrefixOf(published, LoadedEvents(journal.entries))

\* The batches the host commits have one event or two.
LEMMA ShortSequences ==
  ASSUME NEW a, NEW b
  PROVE  /\ IsSeq(<<>>)
         /\ IsSeq(<<a>>) /\ Len(<<a>>) = 1
         /\ IsSeq(<<a, b>>) /\ Len(<<a, b>>) = 2
<1>1. <<>> \in Seq({a})
  OBVIOUS
<1>2. <<a>> \in Seq({a}) /\ Len(<<a>>) = 1
  OBVIOUS
<1>3. <<a, b>> \in Seq({a, b}) /\ Len(<<a, b>>) = 2
  OBVIOUS
<1> QED
  BY <1>1, <1>2, <1>3 DEF IsSeq

\* What concatenation does, for sequences over any set.
LEMMA ConcatFacts ==
  ASSUME NEW s, NEW t, IsSeq(s), IsSeq(t)
  PROVE  /\ IsSeq(s \o t)
         /\ DOMAIN s = 1..Len(s) /\ DOMAIN t = 1..Len(t)
         /\ Len(s) \in Nat /\ Len(t) \in Nat
         /\ DOMAIN (s \o t) = 1..(Len(s) + Len(t))
         /\ Len(s \o t) = Len(s) + Len(t)
         /\ \A i \in 1..Len(s) : (s \o t)[i] = s[i]
         /\ \A i \in 1..Len(t) : (s \o t)[Len(s) + i] = t[i]
<1>1. PICK S : s \in Seq(S)
  BY DEF IsSeq
<1>2. PICK T : t \in Seq(T)
  BY DEF IsSeq
<1> DEFINE U == S \cup T
<1>3. s \in Seq(U) /\ t \in Seq(U)
  <2>1. /\ Len(s) \in Nat /\ DOMAIN s = 1..Len(s)
        /\ \A i \in 1..Len(s) : s[i] \in U
        /\ s = [i \in 1..Len(s) |-> s[i]]
    BY <1>1
  <2>2. /\ Len(t) \in Nat /\ DOMAIN t = 1..Len(t)
        /\ \A i \in 1..Len(t) : t[i] \in U
        /\ t = [i \in 1..Len(t) |-> t[i]]
    BY <1>2
  <2>3. s \in [1..Len(s) -> U] /\ t \in [1..Len(t) -> U]
    BY <2>1, <2>2
  <2> QED
    BY <2>1, <2>2, <2>3
<1>4. s \o t \in Seq(U)
  BY <1>3
<1> HIDE DEF U
<1> QED
  BY <1>3, <1>4 DEF IsSeq

\* A longer journal is no better: it stays poisoned, and it stays an extension.
LEMMA ExtensionKeeps ==
  ASSUME NEW es, NEW ext, NEW p, IsSeq(es), IsSeq(ext), IsSeq(p),
         Poisoned(es) \/ IsPrefixOf(p, LoadedEvents(es))
  PROVE  Poisoned(es \o ext) \/ IsPrefixOf(p, LoadedEvents(es \o ext))
<1> DEFINE long == es \o ext
<1>1. /\ DOMAIN es = 1..Len(es) /\ Len(es) \in Nat /\ Len(ext) \in Nat
      /\ DOMAIN long = 1..(Len(es) + Len(ext))
      /\ \A i \in 1..Len(es) : long[i] = es[i]
  BY ConcatFacts
<1>2. CASE Poisoned(es)
  <2>1. PICK i \in DOMAIN es : es[i] = Corrupt \/ es[i].event.sequence # i
    BY <1>2 DEF Poisoned
  <2>2. i \in DOMAIN long /\ long[i] = es[i]
    BY <1>1, <2>1
  <2> QED
    BY <2>1, <2>2 DEF Poisoned
<1>3. CASE IsPrefixOf(p, LoadedEvents(es))
  <2>1. DOMAIN p = 1..Len(p) /\ Len(p) \in Nat
    BY DEF IsSeq
  <2>2. /\ LoadedEvents(es) \in Seq({es[i].event : i \in DOMAIN es})
        /\ Len(LoadedEvents(es)) = Len(es)
    BY <1>1 DEF LoadedEvents
  <2>3. Len(LoadedEvents(long)) = Len(es) + Len(ext)
    BY <1>1 DEF LoadedEvents
  <2>4. ASSUME NEW i \in DOMAIN p PROVE p[i] = LoadedEvents(long)[i]
    <3>1. i \in 1..Len(es) /\ p[i] = LoadedEvents(es)[i]
      BY <1>3, <2>1, <2>2 DEF IsPrefixOf
    <3>2. i \in DOMAIN es /\ i \in DOMAIN long /\ long[i] = es[i]
      BY <1>1, <3>1
    <3> QED
      BY <3>1, <3>2 DEF LoadedEvents
  <2> QED
    BY <1>1, <1>3, <2>2, <2>3, <2>4 DEF IsPrefixOf
<1> QED
  BY <1>2, <1>3

\* A whole line appended to the journal: the torn tail becomes a line that does
\* not parse, or the entries of the record follow.
LEMMA AppendRecordFacts ==
  ASSUME NEW j, NEW r, NEW es, IsSeq(j.entries), IsSeq(es)
  PROVE  \E ext : /\ AppendRecord(j, r, es).entries = j.entries \o ext
                  /\ IsSeq(ext)
                  /\ j.torn => ext = <<Corrupt>>
                  /\ ~j.torn => ext = Record(r, es)
<1> DEFINE S == {[head |-> i = 1, request |-> r, event |-> es[i]] : i \in DOMAIN es}
<1>1. Len(es) \in Nat /\ DOMAIN es = 1..Len(es)
  BY DEF IsSeq
<1>2. Record(r, es) \in [1..Len(es) -> S]
  BY <1>1 DEF Record
<1>3. Record(r, es) \in Seq(S)
  BY <1>1, <1>2
<1>4. <<Corrupt>> \in Seq({Corrupt})
  OBVIOUS
<1>5. Append(j.entries, Corrupt) = j.entries \o <<Corrupt>>
  BY DEF IsSeq
<1>6. IsSeq(Record(r, es)) /\ IsSeq(<<Corrupt>>)
  BY <1>3, <1>4 DEF IsSeq
<1> HIDE DEF S
<1>7. CASE j.torn
  <2>1. AppendRecord(j, r, es).entries = j.entries \o <<Corrupt>>
    BY <1>5, <1>7 DEF AppendRecord
  <2> QED
    BY <1>6, <1>7, <2>1
<1>8. CASE ~j.torn
  <2>1. AppendRecord(j, r, es).entries = j.entries \o Record(r, es)
    BY <1>8 DEF AppendRecord
  <2> QED
    BY <1>6, <1>8, <2>1
<1> QED
  BY <1>7, <1>8

\* A failed append, survived or not, keeps what the invariant says of the journal.
LEMMA FailedAppendKeeps ==
  ASSUME NEW j, NEW f \in AppendFailures, NEW r, NEW es, NEW p,
         IsSeq(j.entries), IsSeq(es), IsSeq(p),
         Poisoned(j.entries) \/ IsPrefixOf(p, LoadedEvents(j.entries))
  PROVE  /\ IsSeq(FailedAppend(j, f, r, es).entries)
         /\ \/ Poisoned(FailedAppend(j, f, r, es).entries)
            \/ IsPrefixOf(p, LoadedEvents(FailedAppend(j, f, r, es).entries))
<1>1. CASE f = "nothing_written"
  BY <1>1 DEF FailedAppend
<1>2. CASE f = "torn"
  <2>1. FailedAppend(j, f, r, es) = [j EXCEPT !.torn = TRUE]
    BY <1>2 DEF FailedAppend
  <2>2. [j EXCEPT !.torn = TRUE].entries = j.entries
    OBVIOUS
  <2> QED
    BY <2>1, <2>2
<1>3. CASE f = "unsynced"
  <2>1. PICK ext : FailedAppend(j, f, r, es).entries = j.entries \o ext /\ IsSeq(ext)
    BY <1>3, AppendRecordFacts DEF FailedAppend
  <2>2. IsSeq(j.entries \o ext)
    BY <2>1, ConcatFacts
  <2> QED
    BY <2>1, <2>2, ExtensionKeeps
<1> QED
  BY <1>1, <1>2, <1>3 DEF AppendFailures

\* The heart of the argument: after a successful append the journal extends
\* everything published, or is poisoned because the memory it was decided on was
\* not what the journal held.
LEMMA AppendedExtendsOrPoisons ==
  ASSUME NEW j, NEW r, NEW es, NEW mem,
         IsSeq(j.entries), IsSeq(es), IsSeq(mem), Len(es) > 0,
         EventLogValid(mem \o es),
         Poisoned(j.entries) \/ IsPrefixOf(mem, LoadedEvents(j.entries))
  PROVE  /\ IsSeq(AppendRecord(j, r, es).entries)
         /\ \/ Poisoned(AppendRecord(j, r, es).entries)
            \/ IsPrefixOf(mem \o es, LoadedEvents(AppendRecord(j, r, es).entries))
<1>1. PICK ext : /\ AppendRecord(j, r, es).entries = j.entries \o ext
                 /\ IsSeq(ext)
                 /\ j.torn => ext = <<Corrupt>>
                 /\ ~j.torn => ext = Record(r, es)
  BY AppendRecordFacts
<1> DEFINE old == j.entries
           new == AppendRecord(j, r, es).entries
<1>2. /\ IsSeq(new)
      /\ Len(old) \in Nat /\ Len(ext) \in Nat /\ Len(new) = Len(old) + Len(ext)
      /\ DOMAIN old = 1..Len(old) /\ DOMAIN new = 1..Len(new)
      /\ \A i \in 1..Len(old) : new[i] = old[i]
      /\ \A i \in 1..Len(ext) : new[Len(old) + i] = ext[i]
  <2>1. /\ IsSeq(old \o ext)
        /\ Len(old) \in Nat /\ Len(ext) \in Nat
        /\ Len(old \o ext) = Len(old) + Len(ext)
        /\ DOMAIN old = 1..Len(old) /\ DOMAIN (old \o ext) = 1..(Len(old) + Len(ext))
        /\ \A i \in 1..Len(old) : (old \o ext)[i] = old[i]
        /\ \A i \in 1..Len(ext) : (old \o ext)[Len(old) + i] = ext[i]
    BY <1>1, ConcatFacts
  <2>2. new = old \o ext
    BY <1>1
  <2> HIDE DEF old, new
  <2> QED
    BY <2>1, <2>2
<1>3. /\ Len(mem) \in Nat /\ Len(es) \in Nat
      /\ DOMAIN mem = 1..Len(mem) /\ DOMAIN es = 1..Len(es)
      /\ DOMAIN (mem \o es) = 1..(Len(mem) + Len(es))
      /\ Len(mem \o es) = Len(mem) + Len(es)
      /\ \A i \in 1..Len(mem) : (mem \o es)[i] = mem[i]
      /\ \A i \in 1..Len(es) : (mem \o es)[Len(mem) + i] = es[i]
  BY ConcatFacts
<1>4. CASE Poisoned(old)
  <2>1. PICK i \in DOMAIN old : old[i] = Corrupt \/ old[i].event.sequence # i
    BY <1>4 DEF Poisoned
  <2>2. i \in DOMAIN new /\ new[i] = old[i]
    BY <1>2, <2>1
  <2> QED
    BY <1>1, <1>2, <2>1, <2>2 DEF Poisoned
<1>5. CASE j.torn
  <2>1. Len(ext) = 1 /\ ext[1] = Corrupt
    BY <1>1, <1>5
  <2>2. Len(old) + 1 \in DOMAIN new /\ new[Len(old) + 1] = Corrupt
    BY <1>2, <2>1
  <2> QED
    BY <1>1, <1>2, <2>2 DEF Poisoned
<1>6. CASE ~j.torn /\ IsPrefixOf(mem, LoadedEvents(old))
  <2>1. /\ ext = Record(r, es) /\ DOMAIN ext = DOMAIN es /\ Len(ext) = Len(es)
        /\ \A i \in 1..Len(es) : ext[i].event = es[i]
    BY <1>1, <1>3, <1>6 DEF Record
  <2>2. Len(LoadedEvents(old)) = Len(old)
    BY <1>2 DEF LoadedEvents
  <2>3. Len(mem) <= Len(old) /\ \A i \in 1..Len(mem) : mem[i] = old[i].event
    <3>1. Len(mem) <= Len(old)
      BY <1>6, <2>2 DEF IsPrefixOf
    <3>2. ASSUME NEW i \in 1..Len(mem) PROVE mem[i] = old[i].event
      <4>1. i \in DOMAIN mem /\ i \in DOMAIN old
        BY <1>2, <1>3, <3>1
      <4> QED
        BY <1>6, <4>1 DEF IsPrefixOf, LoadedEvents
    <3> QED
      BY <3>1, <3>2
  <2>4. CASE Len(mem) = Len(old)
    <3>1. Len(LoadedEvents(new)) = Len(mem \o es)
      BY <1>2, <1>3, <2>1, <2>4 DEF LoadedEvents
    <3>2. ASSUME NEW i \in DOMAIN (mem \o es)
          PROVE  (mem \o es)[i] = LoadedEvents(new)[i]
      <4>1. i \in DOMAIN new
        BY <1>2, <1>3, <2>1, <2>4
      <4>2. CASE i <= Len(mem)
        <5>1. i \in 1..Len(mem) /\ i \in 1..Len(old)
          BY <1>3, <2>4, <4>2
        <5>2. (mem \o es)[i] = mem[i] /\ mem[i] = old[i].event /\ new[i] = old[i]
          BY <1>2, <1>3, <2>3, <5>1
        <5> QED
          BY <4>1, <5>2 DEF LoadedEvents
      <4>3. CASE i > Len(mem)
        <5>1. PICK n \in 1..Len(es) : i = Len(mem) + n
          <6>1. i - Len(mem) \in 1..Len(es) /\ i = Len(mem) + (i - Len(mem))
            BY <1>3, <4>3
          <6> QED
            BY <6>1
        <5>2. (mem \o es)[i] = es[n] /\ new[i] = ext[n] /\ ext[n].event = es[n]
          BY <1>2, <1>3, <2>1, <2>4, <5>1
        <5> QED
          BY <4>1, <5>2 DEF LoadedEvents
      <4> QED
        BY <1>3, <4>2, <4>3
    <3> QED
      BY <1>1, <1>2, <1>3, <3>1, <3>2 DEF IsPrefixOf
  <2>5. CASE Len(mem) < Len(old)
    <3>1. es[1].sequence = Len(mem) + 1
      <4>1. Len(mem) + 1 \in DOMAIN (mem \o es) /\ 1 \in 1..Len(es)
        BY <1>3
      <4>2. (mem \o es)[Len(mem) + 1] = es[1]
        BY <1>3, <4>1
      <4>3. (mem \o es)[Len(mem) + 1].sequence = Len(mem) + 1
        BY <4>1 DEF EventLogValid
      <4> QED
        BY <4>2, <4>3
    <3>2. new[Len(old) + 1] = ext[1] /\ ext[1].event = es[1]
      BY <1>2, <1>3, <2>1
    <3>3. Len(old) + 1 \in DOMAIN new
      BY <1>2, <1>3, <2>1
    <3>4. new[Len(old) + 1].event.sequence # Len(old) + 1
      BY <1>2, <1>3, <2>5, <3>1, <3>2
    <3> QED
      BY <1>1, <1>2, <3>3, <3>4 DEF Poisoned
  <2> QED
    BY <1>2, <1>3, <2>3, <2>4, <2>5
<1> QED
  BY <1>4, <1>5, <1>6

\* Committing a decision of one or two events keeps the invariant, whichever way
\* the append ends.
LEMMA CommitKeeps ==
  ASSUME NEW candidate, NEW r, NEW es,
         IsSeq(es), Len(es) > 0, status = "up", LossInv,
         Commit(candidate, r, es)
  PROVE  LossInv'
<1> USE DEF LossInv
<1>1. CASE \E code : Reject(r.message_id, code)
  BY <1>1 DEF Reject, Answer, memory
<1>2. CASE EventLogValid(events \o es) /\ CommitAppended(candidate, r, es)
  <2>1. /\ journal' = AppendRecord(journal, r, es)
        /\ events' = events \o es /\ published' = events \o es
    BY <1>2 DEF CommitAppended
  <2>2. IsSeq(events \o es)
    BY ConcatFacts
  <2>3. /\ IsSeq(AppendRecord(journal, r, es).entries)
        /\ \/ Poisoned(AppendRecord(journal, r, es).entries)
           \/ IsPrefixOf(events \o es, LoadedEvents(AppendRecord(journal, r, es).entries))
    BY <1>2, AppendedExtendsOrPoisons
  <2> QED
    BY <2>1, <2>2, <2>3
<1>3. CASE CommitFails(r, es)
  <2>1. PICK fault \in AppendFailures : journal' = FailedAppend(journal, fault, r, es)
    BY <1>3, HostAssumption DEF CommitFails
  <2>2. UNCHANGED <<status, events, published>>
    BY <1>3 DEF CommitFails, Answer, memory
  <2> QED
    BY <2>1, <2>2, FailedAppendKeeps
<1>4. CASE CommitCrashes(r, es)
  <2>1. PICK fault \in AppendFailures : journal' = FailedAppend(journal, fault, r, es)
    BY <1>4 DEF CommitCrashes
  <2>2. status' = "down" /\ events' = <<>> /\ published' = published
    BY <1>4 DEF CommitCrashes, Die
  <2>3. IsSeq(<<>>)
    BY DEF IsSeq
  <2> QED
    BY <2>1, <2>2, <2>3, FailedAppendKeeps
<1> QED
  BY <1>1, <1>2, <1>3, <1>4 DEF Commit

\* The initial journal holds at most a raw log, and nothing was published.
LEMMA InitLossInv == Init => LossInv
<1> SUFFICES ASSUME Init PROVE LossInv
  OBVIOUS
<1>1. PICK es \in LegacyLogs : journal = [entries |-> LegacyEntries(es), torn |-> FALSE]
  BY DEF Init
<1>2. es \in Seq(SessionEvents)
  BY HostAssumption
<1>3. Len(es) \in Nat /\ DOMAIN es = 1..Len(es)
  BY <1>2
<1> DEFINE S == {[head |-> TRUE, request |-> NoRequest, event |-> es[i]] : i \in DOMAIN es}
<1>4. LegacyEntries(es) \in Seq(S)
  <2>1. LegacyEntries(es) \in [1..Len(es) -> S]
    BY <1>3 DEF LegacyEntries
  <2> QED
    BY <1>3, <2>1
<1> HIDE DEF S
<1>5. journal.entries = LegacyEntries(es)
  BY <1>1
<1>6. IsSeq(journal.entries)
  BY <1>4, <1>5 DEF IsSeq
<1>7. LoadedEvents(journal.entries) \in Seq({journal.entries[i].event : i \in DOMAIN journal.entries})
  <2>1. Len(journal.entries) \in Nat /\ DOMAIN journal.entries = 1..Len(journal.entries)
    BY <1>6 DEF IsSeq
  <2> QED
    BY <2>1 DEF LoadedEvents
<1>8. events = <<>> /\ published = <<>> /\ status # "up"
  BY DEF Init
<1>9. IsSeq(<<>>)
  BY DEF IsSeq
<1>10. IsPrefixOf(<<>>, LoadedEvents(journal.entries))
  BY <1>7 DEF IsPrefixOf
<1> QED
  BY <1>6, <1>8, <1>9, <1>10 DEF LossInv

\* Deciding one command and committing it keeps the invariant.
LEMMA AcceptKeeps ==
  ASSUME NEW r, NEW engine, status = "up", LossInv, Accept(r, engine)
  PROVE  LossInv'
<1>1. CASE \E code : Reject(r.message_id, code)
  BY <1>1 DEF Reject, Answer, memory, LossInv
<1>2. CASE \E candidate, event : Commit(candidate, r, <<event>>)
  <2>1. PICK candidate, event : Commit(candidate, r, <<event>>)
    BY <1>2
  <2>2. IsSeq(<<event>>) /\ Len(<<event>>) > 0
    <3>1. IsSeq(<<event>>) /\ Len(<<event>>) = 1
      BY ShortSequences, Zenon
    <3> QED
      BY <3>1
  <2> QED
    BY <2>1, <2>2, CommitKeeps
<1> QED
  BY <1>1, <1>2 DEF Accept

\* The first line of a new journal is the bootstrap event.
LEMMA StartEmptyKeeps ==
  ASSUME LossInv, StartEmpty
  PROVE  LossInv'
<1>1. PICK e : /\ e = DecidedEvent(Uninitialized, BootstrapRequest)
               /\ BootstrapEvents = <<e>>
  BY DEF BootstrapEvents
<1>2. e.sequence = 1
  BY <1>1 DEF DecidedEvent, Uninitialized
<1>3. /\ status' = "up" /\ events' = <<e>> /\ published' = <<e>>
      /\ journal.entries = <<>>
      /\ journal' = AppendRecord(TruncateTail(journal), BootstrapRequest, <<e>>)
  BY <1>1 DEF StartEmpty, Serve
<1>4. TruncateTail(journal).entries = journal.entries
  BY DEF TruncateTail
<1>5. IsSeq(<<>>) /\ IsSeq(<<e>>) /\ Len(<<e>>) = 1
  BY ShortSequences
<1>6. <<>> \o <<e>> = <<e>>
  OBVIOUS
<1>7. EventLogValid(<<e>>)
  <2>1. DOMAIN <<e>> = {1} /\ <<e>>[1] = e
    OBVIOUS
  <2>2. 1 <= MaxU64
    BY MaxU64Assumption
  <2>3. e.causation_id \notin BlankIds /\ e.actor \notin BlankIds
    BY <1>1, HostAssumption DEF DecidedEvent, BootstrapRequest
  <2> QED
    BY <1>2, <2>1, <2>2, <2>3 DEF EventLogValid
<1>8. IsPrefixOf(<<>>, LoadedEvents(<<>>))
  BY DEF IsPrefixOf, LoadedEvents
<1>9. /\ IsSeq(journal'.entries)
      /\ Poisoned(journal'.entries) \/ IsPrefixOf(<<e>>, LoadedEvents(journal'.entries))
  <2> DEFINE cut == TruncateTail(journal)
  <2>1. IsSeq(cut.entries) /\ IsPrefixOf(<<>>, LoadedEvents(cut.entries))
    BY <1>3, <1>4, <1>5, <1>8
  <2>2. Len(<<e>>) > 0 /\ EventLogValid(<<>> \o <<e>>)
    BY <1>5, <1>6, <1>7
  <2>3. /\ IsSeq(AppendRecord(cut, BootstrapRequest, <<e>>).entries)
        /\ \/ Poisoned(AppendRecord(cut, BootstrapRequest, <<e>>).entries)
           \/ IsPrefixOf(<<>> \o <<e>>,
                         LoadedEvents(AppendRecord(cut, BootstrapRequest, <<e>>).entries))
    <3> HIDE DEF cut
    <3> QED
      BY <1>5, <2>1, <2>2, AppendedExtendsOrPoisons
  <2> QED
    BY <1>3, <1>6, <2>3
<1> QED
  BY <1>3, <1>5, <1>9 DEF LossInv

\* Every step of the host keeps the invariant.
LEMMA NextLossInv == LossInv /\ [Next]_vars => LossInv'
<1> SUFFICES ASSUME LossInv, [Next]_vars PROVE LossInv'
  OBVIOUS
<1>1. CASE StartEmpty
  BY <1>1, StartEmptyKeeps
<1>2. CASE StartEmptyFails
  <2>1. PICK failure \in AppendFailures :
          journal' = FailedAppend(TruncateTail(journal), failure,
                                  BootstrapRequest, BootstrapEvents)
    BY <1>2 DEF StartEmptyFails
  <2>2. TruncateTail(journal).entries = journal.entries
    BY DEF TruncateTail
  <2>3. IsSeq(BootstrapEvents)
    BY ShortSequences, Zenon DEF BootstrapEvents
  <2>4. status' # "up" /\ UNCHANGED <<events, published>>
    BY <1>2 DEF StartEmptyFails, memory, history
  <2> QED
    BY <2>1, <2>2, <2>3, <2>4, FailedAppendKeeps DEF LossInv
<1>3. CASE StartRecovered
  <2>1. /\ journal' = TruncateTail(journal)
        /\ events' = LoadedEvents(journal.entries)
        /\ published' = LoadedEvents(journal.entries)
    BY <1>3 DEF StartRecovered, Serve
  <2>2. journal'.entries = journal.entries
    BY <2>1 DEF TruncateTail
  <2>3. IsSeq(LoadedEvents(journal.entries))
    <3>1. /\ Len(journal.entries) \in Nat
          /\ DOMAIN journal.entries = 1..Len(journal.entries)
      BY DEF LossInv, IsSeq
    <3>2. LoadedEvents(journal.entries)
            \in Seq({journal.entries[i].event : i \in DOMAIN journal.entries})
      BY <3>1 DEF LoadedEvents
    <3> QED
      BY <3>2 DEF IsSeq
  <2>4. IsPrefixOf(LoadedEvents(journal.entries), LoadedEvents(journal.entries))
    <3>1. Len(LoadedEvents(journal.entries)) \in Nat
      BY <2>3 DEF IsSeq
    <3> QED
      BY <3>1 DEF IsPrefixOf
  <2> QED
    BY <2>1, <2>2, <2>3, <2>4 DEF LossInv
<1>4. CASE StartRefused
  BY <1>4 DEF StartRefused, memory, history, LossInv
<1>5. CASE Crash
  BY <1>5, ShortSequences DEF Crash, Die, history, LossInv
<1>6. ASSUME NEW p \in Participants, NEW m \in ClientMessageIds, JoinAgain(p, m)
      PROVE  LossInv'
  BY <1>6 DEF JoinAgain, Answer, memory, LossInv
<1>7. ASSUME NEW p \in Participants, NEW m \in ClientMessageIds, NEW blank \in BOOLEAN,
             Join(p, m, blank)
      PROVE  LossInv'
  BY <1>7, AcceptKeeps DEF Join
<1>8. ASSUME NEW r \in ClientRequests, SubmitKnown(r)
      PROVE  LossInv'
  BY <1>8 DEF SubmitKnown, Answer, memory, LossInv
<1>9. ASSUME NEW r \in ClientRequests, SubmitConflict(r)
      PROVE  LossInv'
  BY <1>9 DEF SubmitConflict, Reject, Answer, memory, LossInv
<1>10. ASSUME NEW r \in ClientRequests, SubmitAutoStart(r)
       PROVE  LossInv'
  <2>1. CASE \E code : Reject(r.message_id, code)
    BY <2>1 DEF Reject, Answer, memory, LossInv
  <2>2. CASE \E candidate, a, b : Commit(candidate, r, <<a, b>>)
    <3>1. PICK candidate, a, b : Commit(candidate, r, <<a, b>>)
      BY <2>2
    <3>2. IsSeq(<<a, b>>) /\ Len(<<a, b>>) > 0
      <4>1. IsSeq(<<a, b>>) /\ Len(<<a, b>>) = 2
        BY ShortSequences, Zenon
      <4> QED
        BY <4>1
    <3> QED
      BY <1>10, <3>1, <3>2, CommitKeeps DEF SubmitAutoStart
  <2> QED
    BY <1>10, <2>1, <2>2 DEF SubmitAutoStart
<1>11. ASSUME NEW r \in ClientRequests, SubmitDirect(r)
       PROVE  LossInv'
  BY <1>11, AcceptKeeps DEF SubmitDirect
<1>12. CASE UNCHANGED vars
  BY <1>12 DEF vars, memory, history, LossInv
<1> QED
  BY <1>1, <1>2, <1>3, <1>4, <1>5, <1>6, <1>7, <1>8, <1>9, <1>10, <1>11, <1>12
     DEF Next, Start, Submit

\* Nothing published is lost silently: for every number of participants, commands,
\* restarts and append failures, a journal that the next start accepts begins
\* with every event that was ever committed in memory and broadcast (commit,
\* append_accepted and load of crate sytog-node).
THEOREM NothingPublishedIsLost == Spec => []NoSilentLoss
<1>1. LossInv => NoSilentLoss
  <2> SUFFICES ASSUME LossInv, Recovers(journal.entries), Poisoned(journal.entries)
               PROVE  FALSE
    BY DEF LossInv, NoSilentLoss
  <2>1. PICK i \in DOMAIN journal.entries :
          journal.entries[i] = Corrupt \/ journal.entries[i].event.sequence # i
    BY DEF Poisoned
  <2>2. journal.entries[i] # Corrupt
    BY DEF Recovers, Loads
  <2>3. journal.entries[i].event.sequence = i
    BY DEF Recovers, EventLogValid, LoadedEvents
  <2> QED
    BY <2>1, <2>2, <2>3
<1> QED
  BY <1>1, InitLossInv, NextLossInv, PTL DEF Spec

-----------------------------------------------------------------------------

\* Entry k is the last one of the line whose head is entry i.
IsLineEnd(entries, i, k) ==
  /\ \A j \in (i + 1)..k : ~entries[j].head
  /\ k < Len(entries) => entries[k + 1].head

\* Every line of a journal has an end.
LEMMA LineEndExists ==
  ASSUME NEW entries, Len(entries) \in Nat, NEW i \in 1..Len(entries)
  PROVE  /\ LineEnd(entries, i) \in i..Len(entries)
         /\ IsLineEnd(entries, i, LineEnd(entries, i))
<1> DEFINE T == {k \in i..Len(entries) : k < Len(entries) => entries[k + 1].head}
<1>1. T \in SUBSET Nat /\ Len(entries) \in T
  OBVIOUS
<1>2. PICK m \in T : \A k \in T : m <= k
  BY <1>1, NatLeast
<1>3. ASSUME NEW j \in (i + 1)..m PROVE ~entries[j].head
  <2>1. j - 1 \in i..Len(entries) /\ (j - 1) + 1 = j /\ ~(m <= j - 1)
    BY <1>2
  <2>2. entries[j].head => j - 1 \in T
    BY <2>1
  <2> QED
    BY <1>2, <2>1, <2>2
<1>4. m \in i..Len(entries) /\ IsLineEnd(entries, i, m)
  BY <1>2, <1>3 DEF IsLineEnd
<1>5. LineEnd(entries, i) = CHOOSE k \in i..Len(entries) : IsLineEnd(entries, i, k)
  BY DEF LineEnd, IsLineEnd
<1> QED
  BY <1>4, <1>5

\* A line has one end only.
LEMMA LineEndUnique ==
  ASSUME NEW entries, Len(entries) \in Nat, NEW i \in 1..Len(entries),
         NEW k \in i..Len(entries), IsLineEnd(entries, i, k)
  PROVE  LineEnd(entries, i) = k
<1> DEFINE e == LineEnd(entries, i)
<1>1. e \in i..Len(entries) /\ IsLineEnd(entries, i, e)
  BY LineEndExists
<1> HIDE DEF e
<1>2. ASSUME e < k PROVE FALSE
  <2>1. e + 1 \in (i + 1)..k /\ e < Len(entries)
    BY <1>1, <1>2
  <2> QED
    BY <1>1, <2>1 DEF IsLineEnd
<1>3. ASSUME k < e PROVE FALSE
  <2>1. k + 1 \in (i + 1)..e /\ k < Len(entries)
    BY <1>1, <1>3
  <2> QED
    BY <1>1, <2>1 DEF IsLineEnd
<1> QED
  BY <1>1, <1>2, <1>3 DEF e

\* The events of a journal whose lines all parse.
LEMMA LoadedEventsType ==
  ASSUME NEW entries \in Seq(Entries \cup {Corrupt}),
         \A i \in DOMAIN entries : entries[i] # Corrupt
  PROVE  /\ LoadedEvents(entries) \in Seq(SessionEvents)
         /\ Len(entries) \in Nat /\ DOMAIN entries = 1..Len(entries)
         /\ Len(LoadedEvents(entries)) = Len(entries)
         /\ \A i \in 1..Len(entries) : LoadedEvents(entries)[i] = entries[i].event
<1>1. Len(entries) \in Nat /\ DOMAIN entries = 1..Len(entries)
  OBVIOUS
<1>2. \A i \in DOMAIN entries : entries[i].event \in SessionEvents
  BY DEF Entries
<1>3. LoadedEvents(entries) \in [1..Len(entries) -> SessionEvents]
  BY <1>1, <1>2 DEF LoadedEvents
<1> QED
  BY <1>1, <1>3 DEF LoadedEvents

\* The line of a head belongs to a command request, and its events are a segment
\* of the loaded log.
LEMMA ReceiptEventsType ==
  ASSUME NEW entries \in Seq(Entries \cup {Corrupt}),
         \A i \in DOMAIN entries : entries[i] # Corrupt,
         NEW h \in Heads(entries)
  PROVE  /\ h \in 1..Len(entries)
         /\ entries[h].request \in CommandRequests
         /\ entries[h].request.message_id \in MessageIds
         /\ LineEnd(entries, h) \in h..Len(entries)
         /\ ReceiptEvents(entries, h) \in Seq(SessionEvents)
         /\ Len(ReceiptEvents(entries, h)) = LineEnd(entries, h) - h + 1
         /\ \A k \in 1..Len(ReceiptEvents(entries, h)) :
              ReceiptEvents(entries, h)[k] = entries[h + k - 1].event
<1> DEFINE log == LoadedEvents(entries)
           e == LineEnd(entries, h)
           n == Len(entries)
<1>1. /\ log \in Seq(SessionEvents) /\ n \in Nat /\ DOMAIN entries = 1..n
      /\ Len(log) = n /\ \A i \in 1..n : log[i] = entries[i].event
  BY LoadedEventsType
<1>2. h \in 1..n /\ entries[h] \in Entries /\ entries[h].request # NoRequest
  BY <1>1 DEF Heads
<1>3. entries[h].request \in CommandRequests
  BY <1>2 DEF Entries
<1>4. entries[h].request.message_id \in MessageIds
  BY <1>3 DEF CommandRequests
<1>5. e \in h..n
  BY <1>1, <1>2, LineEndExists
<1> HIDE DEF log, e, n
<1> DEFINE es == SubSeq(log, h, e)
<1>6. /\ es \in Seq(SessionEvents) /\ Len(es) = e - h + 1
      /\ \A k \in 1..Len(es) : es[k] = log[h + k - 1]
  BY <1>1, <1>2, <1>5
<1>7. ReceiptEvents(entries, h) = es
  BY DEF ReceiptEvents, log, e
<1> HIDE DEF es
<1>8. \A k \in 1..Len(es) : es[k] = entries[h + k - 1].event
  <2> TAKE k \in 1..Len(es)
  <2>1. h + k - 1 \in 1..n
    BY <1>1, <1>2, <1>5, <1>6
  <2> QED
    BY <1>1, <1>6, <2>1
<1>9. h \in 1..Len(entries) /\ e \in h..Len(entries)
  BY <1>2, <1>5 DEF n
<1> QED
  BY <1>3, <1>4, <1>6, <1>7, <1>8, <1>9 DEF e

\* The index a load returns maps message ids to accepted commands.
LEMMA LoadedCommandsType ==
  ASSUME NEW entries \in Seq(Entries \cup {Corrupt}),
         \A i \in DOMAIN entries : entries[i] # Corrupt
  PROVE  /\ IsIndex(LoadedCommands(entries),
                    [request : CommandRequests, events : Seq(SessionEvents)])
         /\ \A m \in DOMAIN LoadedCommands(entries) :
              /\ HeadOf(entries, m) \in Heads(entries)
              /\ entries[HeadOf(entries, m)].request.message_id = m
              /\ LoadedCommands(entries)[m]
                   = [request |-> entries[HeadOf(entries, m)].request,
                      events |-> ReceiptEvents(entries, HeadOf(entries, m))]
<1> DEFINE D == {entries[i].request.message_id : i \in Heads(entries)}
<1>1. D \subseteq MessageIds
  BY ReceiptEventsType
<1>2. DOMAIN LoadedCommands(entries) = D
  BY DEF LoadedCommands
<1>3. ASSUME NEW m \in D
      PROVE  /\ HeadOf(entries, m) \in Heads(entries)
             /\ entries[HeadOf(entries, m)].request.message_id = m
             /\ LoadedCommands(entries)[m]
                  = [request |-> entries[HeadOf(entries, m)].request,
                     events |-> ReceiptEvents(entries, HeadOf(entries, m))]
             /\ LoadedCommands(entries)[m]
                  \in [request : CommandRequests, events : Seq(SessionEvents)]
  <2>1. \E i \in Heads(entries) : entries[i].request.message_id = m
    OBVIOUS
  <2>2. /\ HeadOf(entries, m) \in Heads(entries)
        /\ entries[HeadOf(entries, m)].request.message_id = m
    BY <2>1 DEF HeadOf
  <2>3. LoadedCommands(entries)[m]
          = [request |-> entries[HeadOf(entries, m)].request,
             events |-> ReceiptEvents(entries, HeadOf(entries, m))]
    BY <1>3 DEF LoadedCommands
  <2>4. /\ entries[HeadOf(entries, m)].request \in CommandRequests
        /\ ReceiptEvents(entries, HeadOf(entries, m)) \in Seq(SessionEvents)
    BY <2>2, ReceiptEventsType
  <2> QED
    BY <2>2, <2>3, <2>4
<1> HIDE DEF D
<1> QED
  BY <1>1, <1>2, <1>3 DEF IsIndex

\* A line written to the file, or the part of it a failure left, is a journal.
LEMMA AppendedType ==
  ASSUME NEW j \in Journals, NEW r \in CommandRequests, NEW es \in Seq(SessionEvents)
  PROVE  /\ AppendRecord(j, r, es) \in Journals
         /\ \A f \in AppendFailures : FailedAppend(j, f, r, es) \in Journals
<1> DEFINE E == Entries \cup {Corrupt}
<1>1. j.entries \in Seq(E) /\ j.torn \in BOOLEAN /\ j = [entries |-> j.entries, torn |-> j.torn]
  BY DEF Journals
<1>2. Record(r, es) \in Seq(E)
  <2>1. Len(es) \in Nat /\ DOMAIN es = 1..Len(es)
    OBVIOUS
  <2>2. ASSUME NEW i \in DOMAIN es
        PROVE  [head |-> i = 1, request |-> r, event |-> es[i]] \in Entries
    BY DEF Entries
  <2>3. Record(r, es) \in [1..Len(es) -> E]
    BY <2>1, <2>2 DEF Record
  <2> QED
    BY <2>1, <2>3
<1>3. Append(j.entries, Corrupt) \in Seq(E) /\ j.entries \o Record(r, es) \in Seq(E)
  <2> HIDE DEF E
  <2>1. Corrupt \in E
    BY DEF E
  <2> QED
    BY <1>1, <1>2, <2>1
<1>4. AppendRecord(j, r, es) \in Journals
  BY <1>3 DEF AppendRecord, Journals
<1>5. [j EXCEPT !.torn = TRUE] \in Journals
  BY <1>1 DEF Journals
<1> QED
  BY <1>4, <1>5 DEF FailedAppend, AppendFailures

\* Adding an index of loaded or committed commands to the answers given so far.
LEMMA AnsweredType ==
  ASSUME TypeOK, NEW cs,
         IsIndex(cs, [request : CommandRequests, events : Seq(SessionEvents)])
  PROVE  IsIndex(Answered(cs), Seq(SessionEvents))
<1>1. DOMAIN Answered(cs) = DOMAIN receipts \cup DOMAIN cs
  BY DEF Answered
<1>2. ASSUME NEW m \in DOMAIN receipts \cup DOMAIN cs
      PROVE  Answered(cs)[m] \in Seq(SessionEvents)
  <2>1. CASE m \in DOMAIN receipts
    BY <2>1 DEF TypeOK, IsIndex, Answered
  <2>2. CASE m \notin DOMAIN receipts
    <3>1. cs[m] \in [request : CommandRequests, events : Seq(SessionEvents)]
      BY <2>2 DEF IsIndex
    <3> QED
      BY <2>2, <3>1 DEF Answered
  <2> QED
    BY <2>1, <2>2
<1> QED
  BY <1>1, <1>2 DEF IsIndex, TypeOK

\* Answering keeps the types.
LEMMA AnswerType ==
  ASSUME TypeOK, NEW m \in MessageIds, NEW code \in Codes,
         NEW es \in Seq(SessionEvents), Answer(m, code, es),
         journal' \in Journals, faults' \in 0..MaxFaults
  PROVE  TypeOK'
<1>1. /\ status' = status /\ snapshot' = snapshot /\ state' = state
      /\ events' = events /\ accepted' = accepted
      /\ published' = published /\ receipts' = receipts
  BY DEF Answer, memory
<1>2. reply' \in [message_id : MessageIds, code : Codes, events : Seq(SessionEvents)]
  BY DEF Answer
<1>3. refused' \subseteq MessageIds
  BY DEF Answer, TypeOK
<1> QED
  BY <1>1, <1>2, <1>3 DEF TypeOK

\* Refusing keeps the types.
LEMMA RejectType ==
  ASSUME TypeOK, NEW m \in MessageIds, NEW code \in Codes, Reject(m, code)
  PROVE  TypeOK'
<1>1. Answer(m, code, <<>>) /\ journal' = journal /\ faults' = faults
  BY DEF Reject
<1>2. <<>> \in Seq(SessionEvents) /\ journal \in Journals /\ faults \in 0..MaxFaults
  BY DEF TypeOK
<1> QED
  BY <1>1, <1>2, AnswerType

\* The states before anything was created, and after a death.
LEMMA InitialTypes ==
  /\ Uninitialized \in SessionStates
  /\ <<>> \in Seq(SessionEvents)
  /\ NoReply \in [message_id : MessageIds, code : Codes, events : Seq(SessionEvents)]
  /\ \A S : IsIndex(<<>>, S)
<1>1. Uninitialized \in SessionStates
  BY MaxU64Assumption DEF Uninitialized, SessionStates, Lifecycles, U64
<1>2. NoReply \in [message_id : MessageIds, code : Codes, events : Seq(SessionEvents)]
  BY HostAssumption DEF NoReply, Codes
<1>3. DOMAIN <<>> = {}
  OBVIOUS
<1> QED
  BY <1>1, <1>2, <1>3 DEF IsIndex

\* Committing keeps the types, whichever way the append ends.
LEMMA CommitType ==
  ASSUME TypeOK, status = "up", NEW candidate \in SessionStates,
         NEW r \in CommandRequests, NEW es \in Seq(SessionEvents),
         Commit(candidate, r, es)
  PROVE  TypeOK'
<1>1. r.message_id \in MessageIds
  BY DEF CommandRequests
<1>2. CASE \E code \in Codes : Reject(r.message_id, code)
  BY <1>1, <1>2, RejectType
<1>3. CASE CommitAppended(candidate, r, es)
  <2>1. journal' \in Journals
    BY <1>3, AppendedType DEF CommitAppended, TypeOK
  <2>2. events \o es \in Seq(SessionEvents)
    BY DEF TypeOK
  <2>3. IsIndex(accepted', [request : CommandRequests, events : Seq(SessionEvents)])
    <3>1. accepted' = [m \in DOMAIN accepted \cup {r.message_id} |->
                         IF m = r.message_id THEN [request |-> r, events |-> es]
                         ELSE accepted[m]]
      BY <1>3 DEF CommitAppended
    <3>2. IsIndex(accepted, [request : CommandRequests, events : Seq(SessionEvents)])
      BY DEF TypeOK
    <3> QED
      BY <1>1, <3>1, <3>2 DEF IsIndex
  <2>4. IsIndex(receipts', Seq(SessionEvents))
    BY <1>3, <2>3, AnsweredType DEF CommitAppended
  <2>5. reply' \in [message_id : MessageIds, code : Codes, events : Seq(SessionEvents)]
    BY <1>1, <1>3 DEF CommitAppended, Codes
  <2>6. /\ state' = candidate /\ snapshot' \in {snapshot, candidate}
        /\ events' = events \o es /\ published' = events \o es
        /\ refused' \subseteq refused /\ status' = status /\ faults' = faults
    BY <1>3 DEF CommitAppended
  <2> QED
    BY <2>1, <2>2, <2>3, <2>4, <2>5, <2>6 DEF TypeOK
<1>4. CASE CommitFails(r, es)
  <2>1. PICK fault \in AppendFaults :
          /\ faults < MaxFaults /\ faults' = faults + 1
          /\ journal' = FailedAppend(journal, fault, r, es)
          /\ Answer(r.message_id, "persistence_failed", <<>>)
    BY <1>4 DEF CommitFails
  <2>2. journal' \in Journals
    BY <2>1, HostAssumption, AppendedType DEF TypeOK
  <2>3. faults' \in 0..MaxFaults
    BY <2>1, HostAssumption DEF TypeOK
  <2>4. "persistence_failed" \in Codes /\ <<>> \in Seq(SessionEvents)
    BY DEF Codes
  <2> QED
    BY <1>1, <2>1, <2>2, <2>3, <2>4, AnswerType
<1>5. CASE CommitCrashes(r, es)
  <2>1. PICK failure \in AppendFailures : journal' = FailedAppend(journal, failure, r, es)
    BY <1>5 DEF CommitCrashes
  <2>2. journal' \in Journals
    BY <2>1, AppendedType DEF TypeOK
  <2>3. /\ status' = "down" /\ state' = Uninitialized /\ events' = <<>>
        /\ accepted' = <<>> /\ reply' = NoReply /\ refused' \subseteq refused
        /\ snapshot' = snapshot /\ published' = published /\ receipts' = receipts
        /\ faults' = faults
    BY <1>5 DEF CommitCrashes, Die
  <2> QED
    BY <2>2, <2>3, InitialTypes DEF TypeOK
<1> QED
  BY <1>2, <1>3, <1>4, <1>5 DEF Commit, Codes

\* What accept does with one command: it refuses, or it commits one well-formed
\* event that applies.
LEMMA AcceptOutcome ==
  ASSUME state \in SessionStates, NEW r \in CommandRequests, NEW engine \in BOOLEAN,
         Accept(r, engine)
  PROVE  \/ \E code \in Codes : Reject(r.message_id, code)
         \/ LET e == DecidedEvent(state, r) IN
            /\ e \in SessionEvents /\ CanApply(state, e)
            /\ Apply(state, e) \in SessionStates
            /\ Commit(Apply(state, e), r, <<e>>)
<1> DEFINE e == DecidedEvent(state, r)
<1>1. CASE ~Accepted(state, r, engine)
  BY <1>1 DEF Accept, Codes
<1>2. CASE Accepted(state, r, engine) /\ ~CanApply(state, e)
  BY <1>2 DEF Accept, Codes
<1>3. CASE Accepted(state, r, engine) /\ CanApply(state, e)
  <2>1. e \in SessionEvents
    BY <1>3, DecidedEventType
  <2>2. Apply(state, e) \in SessionStates
    BY <2>1, ApplyType
  <2>3. Commit(Apply(state, e), r, <<e>>)
    BY <1>3 DEF Accept
  <2> QED
    BY <1>3, <2>1, <2>2, <2>3
<1> QED
  BY <1>1, <1>2, <1>3

\* What an auto-start does: it refuses, or it commits the start and the activity
\* event, the second decided and applied on the state after the first.
LEMMA AutoStartOutcome ==
  ASSUME state \in SessionStates, NEW r \in ClientRequests, SubmitAutoStart(r)
  PROVE  \/ \E code \in Codes : Reject(r.message_id, code)
         \/ \E a, b \in SessionEvents :
              LET between == Apply(state, a) IN
              /\ a = DecidedEvent(state, StartRequest(r))
              /\ Accepted(state, StartRequest(r), TRUE)
              /\ CanApply(state, a) /\ between \in SessionStates
              /\ b = DecidedEvent(between, [r EXCEPT !.expected_revision = between.revision])
              /\ CanApply(between, b) /\ Apply(between, b) \in SessionStates
              /\ Commit(Apply(between, b), r, <<a, b>>)
<1> DEFINE start == StartRequest(r)
           a == DecidedEvent(state, start)
           between == Apply(state, a)
           adjusted == [r EXCEPT !.expected_revision = between.revision]
           b == DecidedEvent(between, adjusted)
<1>1. r \in CommandRequests /\ r.message_id \in ClientMessageIds
  BY DEF ClientRequests
<1>2. start \in CommandRequests
  <2>1. AutoStartId(r.message_id) \in MessageIds /\ HostId \in Participants
    BY <1>1, HostAssumption
  <2>2. state.revision \in U64
    BY DEF SessionStates
  <2>3. [type |-> "start_activity", descriptor |-> EngineDescriptor] \in Commands
    BY EngineAssumption DEF Commands
  <2> QED
    BY <2>1, <2>2, <2>3 DEF StartRequest, CommandRequests
<1>3. IF ~Accepted(state, start, TRUE) THEN Reject(r.message_id, "rejected")
      ELSE IF ~CanApply(state, a) THEN Reject(r.message_id, "apply_failed")
      ELSE IF ~Accepted(between, adjusted, TRUE) THEN Reject(r.message_id, "rejected")
      ELSE IF ~CanApply(between, b) THEN Reject(r.message_id, "apply_failed")
      ELSE Commit(Apply(between, b), r, <<a, b>>)
  BY DEF SubmitAutoStart
<1>4. "rejected" \in Codes /\ "apply_failed" \in Codes
  BY DEF Codes
<1> SUFFICES ASSUME Accepted(state, start, TRUE), CanApply(state, a),
                    Accepted(between, adjusted, TRUE), CanApply(between, b),
                    Commit(Apply(between, b), r, <<a, b>>)
             PROVE  /\ a \in SessionEvents /\ b \in SessionEvents
                    /\ between \in SessionStates /\ Apply(between, b) \in SessionStates
  <2> HIDE DEF start, a, between, adjusted, b
  <2> QED
    BY <1>3, <1>4 DEF start, a, between, adjusted, b
<1>5. a \in SessionEvents
  BY <1>2, DecidedEventType
<1>6. between \in SessionStates
  BY <1>5, ApplyType
<1>7. adjusted \in CommandRequests
  <2> HIDE DEF between
  <2> QED
    BY <1>1, <1>6 DEF CommandRequests, SessionStates
<1>8. b \in SessionEvents
  <2> HIDE DEF between, adjusted
  <2> QED
    BY <1>6, <1>7, DecidedEventType
<1>9. Apply(between, b) \in SessionStates
  BY <1>6, <1>8, ApplyType
<1> QED
  BY <1>5, <1>6, <1>8, <1>9

\* The bootstrap decision: one well-formed event that applies to nothing.
LEMMA BootstrapFacts ==
  LET e == DecidedEvent(Uninitialized, BootstrapRequest) IN
  /\ BootstrapEvents = <<e>>
  /\ BootstrapRequest \in CommandRequests
  /\ e \in SessionEvents /\ CanApply(Uninitialized, e)
  /\ Apply(Uninitialized, e) \in SessionStates
<1> DEFINE e == DecidedEvent(Uninitialized, BootstrapRequest)
<1>1. BootstrapRequest \in CommandRequests
  BY HostAssumption, MaxU64Assumption DEF BootstrapRequest, CommandRequests, Commands, U64
<1>2. Uninitialized \in SessionStates
  BY InitialTypes
<1>3. Accepted(Uninitialized, BootstrapRequest, FALSE)
  <2>1. /\ BootstrapRequest.expected_revision = 0
        /\ BootstrapRequest.command = [type |-> "create_session", blank |-> FALSE]
    BY DEF BootstrapRequest
  <2>2. Uninitialized.revision = 0 /\ Uninitialized.lifecycle = "uninitialized"
    BY DEF Uninitialized
  <2>3. 0 < MaxU64
    BY MaxU64Assumption
  <2>4. SessionCommandAccepted(Uninitialized, BootstrapRequest.actor,
                               BootstrapRequest.command, FALSE)
    BY <2>1, <2>2 DEF SessionCommandAccepted
  <2> QED
    BY <2>1, <2>2, <2>3, <2>4 DEF Accepted
<1>4. e \in SessionEvents /\ CanApply(Uninitialized, e)
  BY <1>1, <1>2, <1>3, DecidedEventType, DecidedEventApplies
<1>5. Apply(Uninitialized, e) \in SessionStates
  BY <1>2, <1>4, ApplyType
<1> QED
  BY <1>1, <1>4, <1>5 DEF BootstrapEvents

\* The request join builds for a participant.
LEMMA JoinRequestType ==
  ASSUME state \in SessionStates, NEW p \in Participants,
         NEW m \in ClientMessageIds, NEW blank \in BOOLEAN
  PROVE  [message_id |-> m, actor |-> p, expected_revision |-> state.revision,
          command |-> [type |-> "join", blank |-> blank]] \in CommandRequests
<1>1. m \in MessageIds /\ state.revision \in U64
  BY HostAssumption DEF SessionStates
<1>2. [type |-> "join", blank |-> blank] \in Commands
  BY DEF Commands
<1> QED
  BY <1>1, <1>2 DEF CommandRequests

\* The types hold initially.
LEMMA InitTypeOK == Init => TypeOK
<1> SUFFICES ASSUME Init PROVE TypeOK
  OBVIOUS
<1>1. PICK es \in LegacyLogs : journal = [entries |-> LegacyEntries(es), torn |-> FALSE]
  BY DEF Init
<1>2. es \in Seq(SessionEvents)
  BY HostAssumption
<1>3. LegacyEntries(es) \in Seq(Entries \cup {Corrupt})
  <2>1. Len(es) \in Nat /\ DOMAIN es = 1..Len(es)
    BY <1>2
  <2>2. \A i \in DOMAIN es :
          [head |-> TRUE, request |-> NoRequest, event |-> es[i]] \in Entries
    BY <1>2 DEF Entries
  <2>3. LegacyEntries(es) \in [1..Len(es) -> Entries \cup {Corrupt}]
    BY <2>1, <2>2 DEF LegacyEntries
  <2> QED
    BY <2>1, <2>3
<1>4. journal \in Journals
  BY <1>1, <1>3 DEF Journals
<1>5. 0 \in 0..MaxFaults
  BY HostAssumption
<1> QED
  BY <1>4, <1>5, InitialTypes DEF Init, TypeOK

\* Serving what was loaded or created keeps the types.
LEMMA ServeType ==
  ASSUME TypeOK, NEW s \in SessionStates, NEW es \in Seq(SessionEvents), NEW cs,
         IsIndex(cs, [request : CommandRequests, events : Seq(SessionEvents)]),
         Serve(s, es, cs), journal' \in Journals, snapshot' \in SessionStates,
         UNCHANGED <<reply, refused, faults>>
  PROVE  TypeOK'
<1>1. IsIndex(Answered(cs), Seq(SessionEvents))
  BY AnsweredType
<1>2. /\ status' = "up" /\ state' = s /\ events' = es /\ accepted' = cs
      /\ published' = es /\ receipts' = Answered(cs)
  BY DEF Serve
<1> QED
  BY <1>1, <1>2 DEF TypeOK

\* Every step of the host keeps the types.
LEMMA NextTypeOK == TypeOK /\ [Next]_vars => TypeOK'
<1> SUFFICES ASSUME TypeOK, [Next]_vars PROVE TypeOK'
  OBVIOUS
<1>0. /\ journal \in Journals /\ state \in SessionStates /\ snapshot \in SessionStates
      /\ faults \in 0..MaxFaults
      /\ IsIndex(accepted, [request : CommandRequests, events : Seq(SessionEvents)])
  BY DEF TypeOK
<1>t. TruncateTail(journal) \in Journals
  BY <1>0 DEF TruncateTail, Journals
<1>1. CASE StartEmpty
  <2> DEFINE e == DecidedEvent(Uninitialized, BootstrapRequest)
             cs == [m \in {BootstrapId} |->
                      [request |-> BootstrapRequest, events |-> <<e>>]]
  <2>1. /\ BootstrapEvents = <<e>> /\ BootstrapRequest \in CommandRequests
        /\ e \in SessionEvents /\ Apply(Uninitialized, e) \in SessionStates
    BY BootstrapFacts
  <2> HIDE DEF e
  <2>2. <<e>> \in Seq(SessionEvents) /\ <<e>>[1] = e
    BY <2>1
  <2>3. IsIndex(cs, [request : CommandRequests, events : Seq(SessionEvents)])
    BY <2>1, <2>2, HostAssumption DEF IsIndex
  <2>4. /\ journal' = AppendRecord(TruncateTail(journal), BootstrapRequest, <<e>>)
        /\ snapshot' = Apply(Uninitialized, e)
        /\ Serve(Apply(Uninitialized, e), <<e>>, cs)
        /\ UNCHANGED <<reply, refused, faults>>
    BY <1>1, <2>1, <2>2 DEF StartEmpty
  <2> HIDE DEF cs
  <2>5. journal' \in Journals
    BY <1>t, <2>1, <2>2, <2>4, AppendedType
  <2> QED
    BY <2>1, <2>2, <2>3, <2>4, <2>5, ServeType
<1>2. CASE StartEmptyFails
  <2>1. PICK failure \in AppendFailures :
          journal' = FailedAppend(TruncateTail(journal), failure,
                                  BootstrapRequest, BootstrapEvents)
    BY <1>2 DEF StartEmptyFails
  <2>2. BootstrapEvents \in Seq(SessionEvents) /\ BootstrapRequest \in CommandRequests
    BY BootstrapFacts
  <2>3. journal' \in Journals
    BY <1>t, <2>1, <2>2, AppendedType
  <2>4. status' = "down" /\ UNCHANGED <<snapshot, memory, reply, history, faults>>
    BY <1>2 DEF StartEmptyFails
  <2> QED
    BY <2>3, <2>4 DEF TypeOK, memory, history
<1>3. CASE StartRecovered
  <2> DEFINE es == journal.entries
  <2>1. /\ journal' = TruncateTail(journal) /\ Recovers(es)
        /\ Serve(RecoveredState(es), LoadedEvents(es), LoadedCommands(es))
        /\ UNCHANGED <<snapshot, reply, refused, faults>>
    BY <1>3 DEF StartRecovered
  <2>2. es \in Seq(Entries \cup {Corrupt}) /\ \A i \in DOMAIN es : es[i] # Corrupt
    BY <1>0, <2>1 DEF Journals, Recovers, Loads
  <2> HIDE DEF es
  <2>3. LoadedEvents(es) \in Seq(SessionEvents)
    BY <2>2, LoadedEventsType
  <2>4. IsIndex(LoadedCommands(es), [request : CommandRequests, events : Seq(SessionEvents)])
    BY <2>2, LoadedCommandsType
  <2>5. RecoveredState(es) \in SessionStates
    <3> DEFINE log == LoadedEvents(es)
    <3>1. Len(log) \in 0..Len(log)
      BY <2>3
    <3>2. ReplayPath(Uninitialized, log)[Len(log)] \in [ok : BOOLEAN, state : SessionStates]
      BY <2>3, <3>1, InitialTypes, ReplayPathType
    <3> QED
      BY <3>2 DEF RecoveredState, Replay
  <2> QED
    BY <1>0, <1>t, <2>1, <2>3, <2>4, <2>5, ServeType
<1>4. CASE StartRefused
  BY <1>4 DEF StartRefused, TypeOK, memory, history
<1>5. CASE Crash
  BY <1>5, InitialTypes DEF Crash, Die, TypeOK, history
<1>6. ASSUME NEW p \in Participants, NEW m \in ClientMessageIds, JoinAgain(p, m)
      PROVE  TypeOK'
  <2>1. Answer(m, "already_joined", <<>>) /\ journal' = journal /\ faults' = faults
    BY <1>6 DEF JoinAgain
  <2>2. m \in MessageIds /\ "already_joined" \in Codes
    BY HostAssumption DEF Codes
  <2> QED
    BY <1>0, <2>1, <2>2, InitialTypes, AnswerType
<1>7. ASSUME NEW r \in CommandRequests, NEW engine \in BOOLEAN, status = "up",
             Accept(r, engine)
      PROVE  TypeOK'
  <2>1. CASE \E code \in Codes : Reject(r.message_id, code)
    BY <2>1, RejectType DEF CommandRequests
  <2>2. CASE \E e \in SessionEvents : /\ Apply(state, e) \in SessionStates
                                      /\ Commit(Apply(state, e), r, <<e>>)
    <3>1. PICK e \in SessionEvents : /\ Apply(state, e) \in SessionStates
                                     /\ Commit(Apply(state, e), r, <<e>>)
      BY <2>2
    <3>2. <<e>> \in Seq(SessionEvents)
      OBVIOUS
    <3> QED
      BY <1>7, <3>1, <3>2, CommitType
  <2> QED
    BY <1>0, <1>7, <2>1, <2>2, AcceptOutcome
<1>8. ASSUME NEW p \in Participants, NEW m \in ClientMessageIds, NEW blank \in BOOLEAN,
             Join(p, m, blank)
      PROVE  TypeOK'
  <2> DEFINE r == [message_id |-> m, actor |-> p, expected_revision |-> state.revision,
                   command |-> [type |-> "join", blank |-> blank]]
  <2>1. r \in CommandRequests
    BY <1>0, JoinRequestType
  <2>2. status = "up" /\ Accept(r, FALSE)
    BY <1>8 DEF Join
  <2> HIDE DEF r
  <2> QED
    BY <1>7, <2>1, <2>2
<1>9. ASSUME NEW r \in ClientRequests, SubmitKnown(r)
      PROVE  TypeOK'
  <2>1. r.message_id \in MessageIds
    BY DEF ClientRequests, CommandRequests
  <2>2. accepted[r.message_id].events \in Seq(SessionEvents)
    BY <1>0, <1>9 DEF SubmitKnown, IsIndex
  <2>3. "duplicate" \in Codes /\ "command_id_collision" \in Codes
    BY DEF Codes
  <2>4. journal' = journal /\ faults' = faults
    BY <1>9 DEF SubmitKnown
  <2>5. \/ Answer(r.message_id, "duplicate", accepted[r.message_id].events)
        \/ Answer(r.message_id, "command_id_collision", <<>>)
    BY <1>9 DEF SubmitKnown
  <2> QED
    BY <1>0, <2>1, <2>2, <2>3, <2>4, <2>5, InitialTypes, AnswerType
<1>10. ASSUME NEW r \in ClientRequests, SubmitConflict(r)
       PROVE  TypeOK'
  <2>1. r.message_id \in MessageIds /\ "revision_conflict" \in Codes
    BY DEF ClientRequests, CommandRequests, Codes
  <2> QED
    BY <1>10, <2>1, RejectType DEF SubmitConflict
<1>11. ASSUME NEW r \in ClientRequests, SubmitAutoStart(r)
       PROVE  TypeOK'
  <2>0. r \in CommandRequests /\ r.message_id \in MessageIds /\ status = "up"
    BY <1>11 DEF ClientRequests, CommandRequests, SubmitAutoStart
  <2>1. CASE \E code \in Codes : Reject(r.message_id, code)
    BY <2>0, <2>1, RejectType
  <2>2. CASE \E a, b \in SessionEvents, candidate \in SessionStates :
               Commit(candidate, r, <<a, b>>)
    <3>1. PICK a \in SessionEvents, b \in SessionEvents, candidate \in SessionStates :
            Commit(candidate, r, <<a, b>>)
      BY <2>2
    <3>2. <<a, b>> \in Seq(SessionEvents)
      OBVIOUS
    <3> QED
      BY <2>0, <3>1, <3>2, CommitType
  <2> QED
    BY <1>0, <1>11, <2>1, <2>2, AutoStartOutcome
<1>12. ASSUME NEW r \in ClientRequests, SubmitDirect(r)
       PROVE  TypeOK'
  BY <1>7, <1>12 DEF SubmitDirect, ClientRequests
<1>13. CASE UNCHANGED vars
  BY <1>13 DEF vars, memory, history, TypeOK
<1> QED
  BY <1>1, <1>2, <1>3, <1>4, <1>5, <1>6, <1>8, <1>9, <1>10, <1>11, <1>12, <1>13
     DEF Next, Start, Submit

\* Every variable keeps its type, through every append failure and restart: what
\* load rebuilds from any journal it accepts is a session state, a log and an
\* index again, and revisions stay inside u64.
THEOREM HostTypeCorrect == Spec => []TypeOK
<1> QED
  BY InitTypeOK, NextTypeOK, PTL DEF Spec

-----------------------------------------------------------------------------
(***************************************************************************)
(* What the host's write-ahead discipline gives when an append that is     *)
(* reported as failed has left nothing in the file, and the first journal  *)
(* is none or one v0.2.0 wrote: memory and journal agree, every crash      *)
(* leaves a journal that starts, an accepted command is taken once, and    *)
(* the host implements CanonicalLog.  Deaths of the process may still      *)
(* leave nothing, half a line or a whole line behind.                      *)
(*                                                                         *)
(* The inductive invariant speaks of the journal and of what load makes of *)
(* it; the memory of a serving host is a copy of that.  The work is in one *)
(* lemma, AppendedJournal: what load returns after one more line, for a    *)
(* batch that fits the journal.                                            *)
(***************************************************************************)

\* NobodyActsForAnother, of an index and a log.
OwnName(cs, log) ==
  \A m \in DOMAIN cs :
    \A i \in DOMAIN cs[m].events :
      LET e == cs[m].events[i] IN
      \/ e.actor = cs[m].request.actor /\ e.causation_id = m
      \/ /\ e.kind.type = "activity_started"
         /\ e.actor = HostId
         /\ i < Len(cs[m].events)
         /\ Replay(Uninitialized,
                   SubSeq(log, 1, e.sequence - 1)).state.authority = HostId

\* AutoStartIsWhole, of an index.
WholeLines(cs) == \A m \in DOMAIN cs : IsWhole(cs[m].request, cs[m].events)

\* The lines of a journal that only the host wrote.
SoundEntries(entries) ==
  /\ entries \in Seq(Entries)
  /\ Recovers(entries)
  /\ \A i \in DOMAIN entries :
       entries[i].event.event_id
         = EventIdFromCausation(entries[i].event.causation_id, 0)
  /\ OwnName(LoadedCommands(entries), LoadedEvents(entries))
  /\ WholeLines(LoadedCommands(entries))

\* Events es, decided for request r on the state after the journal's events.
FitsAfter(entries, r, es, candidate) ==
  LET log == LoadedEvents(entries) IN
  /\ r \in CommandRequests
  /\ es \in Seq(SessionEvents) /\ Len(es) > 0
  /\ r.message_id \notin DOMAIN LoadedCommands(entries)
  /\ IsWhole(r, es)
  /\ EventLogValid(log \o es)
  /\ Replay(Uninitialized, log \o es) = [ok |-> TRUE, state |-> candidate]
  /\ \A i \in DOMAIN es :
       es[i].event_id = EventIdFromCausation(es[i].causation_id, 0)
  /\ es[Len(es)].causation_id = r.message_id /\ es[Len(es)].actor = r.actor
  /\ \A i \in 1..(Len(es) - 1) :
       /\ es[i].kind.type = "activity_started" /\ es[i].actor = HostId
       /\ Replay(Uninitialized,
                 SubSeq(log \o es, 1, Len(log) + i - 1)).state.authority = HostId

\* Sequences are equal when they have the same length and the same elements.
LEMMA SeqEqual ==
  ASSUME NEW S, NEW s \in Seq(S), NEW t \in Seq(S), Len(s) = Len(t),
         \A i \in 1..Len(s) : s[i] = t[i]
  PROVE  s = t
  OBVIOUS

\* A journal without a line that does not parse.
LEMMA ParsedEntries ==
  ASSUME NEW x \in Seq(Entries)
  PROVE  x \in Seq(Entries \cup {Corrupt}) /\ \A i \in DOMAIN x : x[i] # Corrupt
<1>1. Len(x) \in Nat /\ DOMAIN x = 1..Len(x) /\ \A i \in 1..Len(x) : x[i] \in Entries
  OBVIOUS
<1> QED
  BY <1>1, CorruptAssumption

\* The entries after one more line.
LEMMA AppendedEntries ==
  ASSUME NEW entries \in Seq(Entries), NEW r \in CommandRequests,
         NEW es \in Seq(SessionEvents)
  PROVE  LET n == Len(entries)
             new == entries \o Record(r, es)
         IN  /\ n \in Nat /\ Len(es) \in Nat
             /\ new \in Seq(Entries) /\ Len(new) = n + Len(es)
             /\ \A i \in 1..n : new[i] = entries[i]
             /\ \A i \in 1..Len(es) :
                  new[n + i] = [head |-> i = 1, request |-> r, event |-> es[i]]
<1>1. Len(es) \in Nat /\ DOMAIN es = 1..Len(es)
  OBVIOUS
<1>2. \A i \in DOMAIN es : [head |-> i = 1, request |-> r, event |-> es[i]] \in Entries
  BY DEF Entries
<1>3. Record(r, es) \in [1..Len(es) -> Entries]
  BY <1>1, <1>2 DEF Record
<1>4. Record(r, es) \in Seq(Entries) /\ Len(Record(r, es)) = Len(es)
  BY <1>1, <1>3
<1>5. \A i \in 1..Len(es) :
        Record(r, es)[i] = [head |-> i = 1, request |-> r, event |-> es[i]]
  BY <1>1 DEF Record
<1> DEFINE rec == Record(r, es)
<1> HIDE DEF rec
<1>6. rec \in Seq(Entries) /\ Len(rec) = Len(es)
  BY <1>4 DEF rec
<1>7. /\ entries \o rec \in Seq(Entries) /\ Len(entries \o rec) = Len(entries) + Len(es)
      /\ \A i \in 1..Len(entries) : (entries \o rec)[i] = entries[i]
      /\ \A i \in 1..Len(es) : (entries \o rec)[Len(entries) + i] = rec[i]
  BY <1>1, <1>6
<1> QED
  BY <1>1, <1>5, <1>7 DEF rec

\* The log after one more line.
LEMMA AppendedLog ==
  ASSUME NEW entries \in Seq(Entries), NEW r \in CommandRequests,
         NEW es \in Seq(SessionEvents)
  PROVE  /\ LoadedEvents(entries) \in Seq(SessionEvents)
         /\ Len(LoadedEvents(entries)) = Len(entries)
         /\ LoadedEvents(entries \o Record(r, es)) = LoadedEvents(entries) \o es
<1> DEFINE n == Len(entries)
           new == entries \o Record(r, es)
           log == LoadedEvents(entries)
           long == LoadedEvents(new)
<1>1. /\ n \in Nat /\ Len(es) \in Nat
      /\ new \in Seq(Entries) /\ Len(new) = n + Len(es)
      /\ \A i \in 1..n : new[i] = entries[i]
      /\ \A i \in 1..Len(es) :
           new[n + i] = [head |-> i = 1, request |-> r, event |-> es[i]]
  BY AppendedEntries
<1> HIDE DEF new
<1>2. \A x \in Seq(Entries) :
        x \in Seq(Entries \cup {Corrupt}) /\ \A i \in DOMAIN x : x[i] # Corrupt
  BY ParsedEntries
<1>3. /\ log \in Seq(SessionEvents) /\ Len(log) = n
      /\ \A i \in 1..n : log[i] = entries[i].event
  BY <1>2, LoadedEventsType
<1>4. /\ long \in Seq(SessionEvents) /\ Len(long) = n + Len(es)
      /\ \A i \in 1..(n + Len(es)) : long[i] = new[i].event
  BY <1>1, <1>2, LoadedEventsType
<1> HIDE DEF n, log, long
<1>5. /\ log \o es \in Seq(SessionEvents) /\ Len(log \o es) = n + Len(es)
      /\ \A i \in 1..n : (log \o es)[i] = log[i]
      /\ \A i \in 1..Len(es) : (log \o es)[n + i] = es[i]
  BY <1>1, <1>3
<1>6. ASSUME NEW i \in 1..(n + Len(es)) PROVE long[i] = (log \o es)[i]
  <2>1. CASE i \in 1..n
    <3>1. long[i] = new[i].event
      BY <1>4
    <3>2. new[i] = entries[i]
      BY <1>1, <2>1
    <3>3. log[i] = entries[i].event /\ (log \o es)[i] = log[i]
      BY <1>3, <1>5, <2>1
    <3> QED
      BY <3>1, <3>2, <3>3
  <2>2. CASE i \notin 1..n
    <3>1. i - n \in 1..Len(es) /\ i = n + (i - n)
      BY <1>1, <2>2
    <3>2. PICK k \in 1..Len(es) : i = n + k
      BY <3>1
    <3>3. (log \o es)[i] = es[k]
      BY <1>5, <3>2
    <3>4. new[i] = [head |-> k = 1, request |-> r, event |-> es[k]]
      BY <1>1, <3>2
    <3> QED
      BY <1>4, <3>3, <3>4
  <2> QED
    BY <2>1, <2>2
<1>7. long = log \o es
  BY <1>4, <1>5, <1>6, SeqEqual
<1> QED
  BY <1>3, <1>7 DEF n, log, long, new

\* The first entry of a line is marked.
LEMMA HeadMark ==
  ASSUME NEW x, NEW k, NEW q, NEW e,
         x = [head |-> k = 1, request |-> q, event |-> e]
  PROVE  x.head <=> k = 1
<1>1. x.head = (k = 1)
  OBVIOUS
<1> QED
  BY <1>1

\* The lines after one more line: the old ones are what they were.
LEMMA AppendedLines ==
  ASSUME NEW entries \in Seq(Entries), NEW r \in CommandRequests,
         NEW es \in Seq(SessionEvents), Len(es) > 0
  PROVE  LET n == Len(entries)
             new == entries \o Record(r, es)
         IN  /\ Heads(new) = Heads(entries) \cup {n + 1}
             /\ \A h \in Heads(entries) :
                  /\ new[h] = entries[h] /\ h \in 1..n
                  /\ LineEnd(new, h) = LineEnd(entries, h)
                  /\ ReceiptEvents(new, h) = ReceiptEvents(entries, h)
             /\ new[n + 1].request = r
             /\ LineEnd(new, n + 1) = n + Len(es)
             /\ ReceiptEvents(new, n + 1) = es
<1> DEFINE n == Len(entries)
           new == entries \o Record(r, es)
<1>1. /\ n \in Nat /\ Len(es) \in Nat
      /\ new \in Seq(Entries) /\ Len(new) = n + Len(es)
      /\ \A i \in 1..n : new[i] = entries[i]
      /\ \A i \in 1..Len(es) :
           new[n + i] = [head |-> i = 1, request |-> r, event |-> es[i]]
  BY AppendedEntries
<1>2. DOMAIN entries = 1..n
  OBVIOUS
<1> HIDE DEF n, new
<1>3. DOMAIN new = 1..(n + Len(es))
  BY <1>1
<1>p. /\ entries \in Seq(Entries \cup {Corrupt})
      /\ \A i \in DOMAIN entries : entries[i] # Corrupt
      /\ new \in Seq(Entries \cup {Corrupt})
      /\ \A i \in DOMAIN new : new[i] # Corrupt
  BY <1>1, ParsedEntries
<1>r. r # NoRequest
  BY NoRequestAssumption
<1>4. Heads(new) = Heads(entries) \cup {n + 1}
  <2>1. ASSUME NEW i \in 1..n PROVE i \in Heads(new) <=> i \in Heads(entries)
    <3>1. new[i] = entries[i] /\ i \in DOMAIN new /\ i \in DOMAIN entries
      BY <1>1, <1>2, <1>3
    <3> QED
      BY <3>1 DEF Heads
  <2>2. ASSUME NEW k \in 1..Len(es) PROVE n + k \in Heads(new) <=> k = 1
    <3>1. new[n + k] = [head |-> k = 1, request |-> r, event |-> es[k]]
      BY <1>1
    <3>2. n + k \in DOMAIN new
      BY <1>1, <1>3
    <3>3. new[n + k] # Corrupt /\ new[n + k].request # NoRequest
      BY <1>p, <1>r, <3>1, <3>2
    <3>4. new[n + k].head <=> k = 1
      BY <3>1, HeadMark, ZenonT(30)
    <3> QED
      BY <3>2, <3>3, <3>4 DEF Heads
  <2>3. ASSUME NEW i \in DOMAIN new
        PROVE  i \in 1..n \/ \E k \in 1..Len(es) : i = n + k
    <3>1. i \in 1..n \/ (i - n \in 1..Len(es) /\ i = n + (i - n))
      BY <1>1, <1>3
    <3> QED
      BY <3>1
  <2>4. Heads(new) \subseteq DOMAIN new /\ Heads(entries) \subseteq 1..n
    BY <1>2 DEF Heads
  <2>5. n + 1 \in Heads(new)
    BY <1>1, <2>2
  <2>6. ASSUME NEW i \in Heads(new) PROVE i \in Heads(entries) \cup {n + 1}
    BY <2>1, <2>2, <2>3, <2>4
  <2>7. ASSUME NEW i \in Heads(entries) PROVE i \in Heads(new)
    BY <2>1, <2>4
  <2> QED
    BY <2>5, <2>6, <2>7
<1>5. ASSUME NEW h \in Heads(entries)
      PROVE  /\ new[h] = entries[h] /\ h \in 1..n
             /\ LineEnd(new, h) = LineEnd(entries, h)
             /\ ReceiptEvents(new, h) = ReceiptEvents(entries, h)
  <2> DEFINE k == LineEnd(entries, h)
  <2>1. h \in 1..n
    BY <1>2 DEF Heads
  <2>2. k \in h..n /\ IsLineEnd(entries, h, k)
    BY <1>1, <2>1, LineEndExists DEF n
  <2> HIDE DEF k
  <2>3. IsLineEnd(new, h, k)
    <3>1. ASSUME NEW j \in (h + 1)..k PROVE ~new[j].head
      <4>1. j \in 1..n /\ ~entries[j].head
        BY <1>1, <2>1, <2>2 DEF IsLineEnd
      <4> QED
        BY <1>1, <4>1
    <3>2. new[k + 1].head
      <4>1. CASE k < n
        <5>1. k + 1 \in 1..n /\ entries[k + 1].head
          BY <2>1, <2>2, <4>1 DEF IsLineEnd, n
        <5> QED
          BY <1>1, <5>1
      <4>2. CASE k = n
        <5>1. new[n + 1] = [head |-> 1 = 1, request |-> r, event |-> es[1]]
          BY <1>1
        <5>2. new[n + 1].head
          BY <5>1, HeadMark
        <5> QED
          BY <4>2, <5>2
      <4> QED
        BY <1>1, <2>2, <4>1, <4>2
    <3> QED
      BY <3>1, <3>2 DEF IsLineEnd
  <2>4. k \in h..Len(new) /\ h \in 1..Len(new)
    BY <1>1, <2>1, <2>2
  <2>5. LineEnd(new, h) = k
    BY <1>1, <2>3, <2>4, LineEndUnique
  <2>6. h \in Heads(new)
    BY <1>4
  <2> DEFINE s == ReceiptEvents(new, h)
             t == ReceiptEvents(entries, h)
  <2>7. /\ s \in Seq(SessionEvents) /\ Len(s) = LineEnd(new, h) - h + 1
        /\ \A i \in 1..Len(s) : s[i] = new[h + i - 1].event
    BY <1>p, <2>6, ReceiptEventsType
  <2>8. /\ t \in Seq(SessionEvents) /\ Len(t) = LineEnd(entries, h) - h + 1
        /\ \A i \in 1..Len(t) : t[i] = entries[h + i - 1].event
    BY <1>p, ReceiptEventsType
  <2> HIDE DEF s, t
  <2>9. s = t
    <3>1. Len(s) = k - h + 1 /\ Len(t) = k - h + 1
      BY <2>5, <2>7, <2>8 DEF k
    <3>2. ASSUME NEW i \in 1..Len(s) PROVE s[i] = t[i]
      <4>1. h + i - 1 \in 1..n /\ i \in 1..Len(t)
        BY <2>1, <2>2, <3>1, <1>1
      <4>2. new[h + i - 1] = entries[h + i - 1]
        BY <1>1, <4>1
      <4>3. s[i] = new[h + i - 1].event /\ t[i] = entries[h + i - 1].event
        BY <2>7, <2>8, <4>1
      <4> QED
        BY <4>2, <4>3
    <3> QED
      BY <2>7, <2>8, <3>1, <3>2, SeqEqual
  <2> QED
    BY <1>1, <2>1, <2>5, <2>9 DEF s, t, k
<1>6. /\ new[n + 1].request = r
      /\ LineEnd(new, n + 1) = n + Len(es)
      /\ ReceiptEvents(new, n + 1) = es
  <2>1. new[n + 1] = [head |-> 1 = 1, request |-> r, event |-> es[1]]
    BY <1>1
  <2>2. IsLineEnd(new, n + 1, n + Len(es))
    <3>1. ASSUME NEW j \in (n + 1 + 1)..(n + Len(es)) PROVE ~new[j].head
      <4>1. j - n \in 1..Len(es) /\ j = n + (j - n) /\ j - n # 1
        BY <1>1
      <4>2. PICK k \in 1..Len(es) : j = n + k /\ k # 1
        BY <4>1
      <4>3. new[n + k] = [head |-> k = 1, request |-> r, event |-> es[k]]
        BY <1>1
      <4>4. ~new[n + k].head
        BY <4>2, <4>3, HeadMark, ZenonT(30)
      <4> QED
        BY <4>2, <4>4
    <3> QED
      BY <1>1, <3>1 DEF IsLineEnd
  <2>3. n + 1 \in 1..Len(new) /\ n + Len(es) \in (n + 1)..Len(new)
    BY <1>1
  <2>4. LineEnd(new, n + 1) = n + Len(es)
    BY <1>1, <2>2, <2>3, LineEndUnique, SMTT(30)
  <2>5. n + 1 \in Heads(new)
    BY <1>4
  <2> DEFINE s == ReceiptEvents(new, n + 1)
  <2>6. /\ s \in Seq(SessionEvents) /\ Len(s) = LineEnd(new, n + 1) - (n + 1) + 1
        /\ \A i \in 1..Len(s) : s[i] = new[n + 1 + i - 1].event
    BY <1>p, <2>5, ReceiptEventsType
  <2> HIDE DEF s
  <2>7. Len(s) = Len(es)
    BY <1>1, <2>4, <2>6
  <2>8. ASSUME NEW i \in 1..Len(s) PROVE s[i] = es[i]
    <3>1. n + 1 + i - 1 = n + i /\ i \in 1..Len(es)
      BY <1>1, <2>7
    <3>2. s[i] = new[n + i].event
      BY <2>6, <3>1
    <3>3. new[n + i] = [head |-> i = 1, request |-> r, event |-> es[i]]
      BY <1>1, <3>1
    <3> QED
      BY <3>2, <3>3
  <2>9. s = es
    BY <2>6, <2>7, <2>8, SeqEqual
  <2> QED
    BY <2>1, <2>4, <2>9 DEF s
<1> QED
  BY <1>4, <1>5, <1>6 DEF n, new

\* The index after one more line under a new message id.
LEMMA AppendedCommands ==
  ASSUME NEW entries \in Seq(Entries), NEW r \in CommandRequests,
         NEW es \in Seq(SessionEvents), Len(es) > 0, Loads(entries),
         r.message_id \notin DOMAIN LoadedCommands(entries)
  PROVE  LET new == entries \o Record(r, es)
             old == LoadedCommands(entries)
         IN  /\ DOMAIN LoadedCommands(new) = DOMAIN old \cup {r.message_id}
             /\ LoadedCommands(new)[r.message_id] = [request |-> r, events |-> es]
             /\ \A m \in DOMAIN old : LoadedCommands(new)[m] = old[m]
             /\ \A i, k \in Heads(new) :
                  new[i].request.message_id = new[k].request.message_id => i = k
<1> DEFINE n == Len(entries)
           new == entries \o Record(r, es)
           old == LoadedCommands(entries)
           cs == LoadedCommands(new)
<1>1. /\ Heads(new) = Heads(entries) \cup {n + 1}
      /\ \A h \in Heads(entries) :
           /\ new[h] = entries[h] /\ h \in 1..n
           /\ LineEnd(new, h) = LineEnd(entries, h)
           /\ ReceiptEvents(new, h) = ReceiptEvents(entries, h)
      /\ new[n + 1].request = r
      /\ LineEnd(new, n + 1) = n + Len(es)
      /\ ReceiptEvents(new, n + 1) = es
  BY AppendedLines
<1>2. /\ new \in Seq(Entries \cup {Corrupt}) /\ \A i \in DOMAIN new : new[i] # Corrupt
      /\ entries \in Seq(Entries \cup {Corrupt})
      /\ \A i \in DOMAIN entries : entries[i] # Corrupt
  <2>1. new \in Seq(Entries)
    BY AppendedEntries
  <2> HIDE DEF new
  <2> QED
    BY <2>1, ParsedEntries
<1> HIDE DEF n, new
<1>3. /\ DOMAIN old = {entries[i].request.message_id : i \in Heads(entries)}
      /\ DOMAIN cs = {new[i].request.message_id : i \in Heads(new)}
  BY DEF LoadedCommands
<1>4. DOMAIN cs = DOMAIN old \cup {r.message_id}
  BY <1>1, <1>3
<1>5. /\ \A m \in DOMAIN old :
           /\ HeadOf(entries, m) \in Heads(entries)
           /\ entries[HeadOf(entries, m)].request.message_id = m
           /\ old[m] = [request |-> entries[HeadOf(entries, m)].request,
                        events |-> ReceiptEvents(entries, HeadOf(entries, m))]
      /\ \A m \in DOMAIN cs :
           /\ HeadOf(new, m) \in Heads(new)
           /\ new[HeadOf(new, m)].request.message_id = m
           /\ cs[m] = [request |-> new[HeadOf(new, m)].request,
                       events |-> ReceiptEvents(new, HeadOf(new, m))]
  BY <1>2, LoadedCommandsType
<1> HIDE DEF old, cs
<1>6. ASSUME NEW i \in Heads(new), NEW k \in Heads(new),
             new[i].request.message_id = new[k].request.message_id
      PROVE  i = k
  <2>1. \A h \in Heads(entries) : new[h].request.message_id # r.message_id
    <3>1. \A h \in Heads(entries) : entries[h].request.message_id \in DOMAIN old
      BY <1>3
    <3>2. r.message_id \notin DOMAIN old
      BY DEF old
    <3> QED
      BY <1>1, <3>1, <3>2
  <2>2. CASE i \in Heads(entries) /\ k \in Heads(entries)
    <3>1. entries[i].request.message_id = entries[k].request.message_id
      BY <1>1, <1>6, <2>2
    <3> QED
      BY <2>2, <3>1 DEF Loads
  <2>3. CASE i = n + 1 /\ k = n + 1
    BY <2>3
  <2>4. CASE i = n + 1 /\ k \in Heads(entries)
    BY <1>1, <1>6, <2>1, <2>4
  <2>5. CASE k = n + 1 /\ i \in Heads(entries)
    BY <1>1, <1>6, <2>1, <2>5
  <2> QED
    BY <1>1, <2>2, <2>3, <2>4, <2>5
<1>7. cs[r.message_id] = [request |-> r, events |-> es]
  <2> DEFINE h == HeadOf(new, r.message_id)
  <2>1. h \in Heads(new) /\ new[h].request.message_id = r.message_id
    BY <1>4, <1>5
  <2>2. n + 1 \in Heads(new) /\ new[n + 1].request.message_id = r.message_id
    BY <1>1
  <2> HIDE DEF h
  <2>3. h = n + 1
    BY <1>6, <2>1, <2>2
  <2>4. HeadOf(new, r.message_id) = n + 1
    BY <2>3 DEF h
  <2> QED
    BY <1>1, <1>4, <1>5, <2>4
<1>8. ASSUME NEW m \in DOMAIN old PROVE cs[m] = old[m]
  <2> DEFINE h == HeadOf(entries, m)
  <2>1. h \in Heads(entries) /\ entries[h].request.message_id = m
    BY <1>5
  <2> HIDE DEF h
  <2>2. h \in Heads(new) /\ new[h] = entries[h] /\ new[h].request.message_id = m
    BY <1>1, <2>1
  <2>3. m \in DOMAIN cs
    BY <1>4
  <2>4. HeadOf(new, m) = h
    BY <1>5, <1>6, <2>2, <2>3
  <2>5. cs[m] = [request |-> new[h].request, events |-> ReceiptEvents(new, h)]
    BY <1>5, <2>3, <2>4
  <2>6. old[m] = [request |-> entries[h].request, events |-> ReceiptEvents(entries, h)]
    BY <1>5 DEF h
  <2> QED
    BY <1>1, <2>1, <2>2, <2>5, <2>6
<1> QED
  BY <1>4, <1>6, <1>7, <1>8 DEF new, old, cs

\* Appending to a log keeps its prefixes.
LEMMA PrefixKept ==
  ASSUME NEW log \in Seq(SessionEvents), NEW es \in Seq(SessionEvents),
         NEW q \in 0..Len(log)
  PROVE  SubSeq(log \o es, 1, q) = SubSeq(log, 1, q)
<1> DEFINE s == SubSeq(log \o es, 1, q)
           t == SubSeq(log, 1, q)
           long == log \o es
<1>1. /\ long \in Seq(SessionEvents) /\ Len(long) = Len(log) + Len(es)
      /\ \A i \in 1..Len(log) : long[i] = log[i]
  OBVIOUS
<1>2. t \in Seq(SessionEvents) /\ Len(t) = q /\ \A i \in 1..q : t[i] = log[i]
  OBVIOUS
<1>3. q \in 0..Len(long)
  BY <1>1
<1> HIDE DEF long
<1>4. /\ SubSeq(long, 1, q) \in Seq(SessionEvents) /\ Len(SubSeq(long, 1, q)) = q
      /\ \A i \in 1..q : SubSeq(long, 1, q)[i] = long[i]
  BY <1>1, <1>3
<1>5. SubSeq(long, 1, q) = s
  BY DEF long
<1> HIDE DEF s, t
<1>6. ASSUME NEW i \in 1..q PROVE s[i] = t[i]
  <2>1. i \in 1..Len(log)
    OBVIOUS
  <2> QED
    BY <1>1, <1>2, <1>4, <1>5, <2>1
<1>7. s = t
  BY <1>2, <1>4, <1>5, <1>6, SeqEqual
<1> QED
  BY <1>7 DEF s, t

\* What load makes of the entries new, which are those of entries and one more
\* line.
LoadsOneMore(entries, new, r, es, candidate) ==
  LET old == LoadedCommands(entries) IN
  /\ SoundEntries(new) /\ new # <<>>
  /\ LoadedEvents(new) = LoadedEvents(entries) \o es
  /\ RecoveredState(new) = candidate
  /\ DOMAIN LoadedCommands(new) = DOMAIN old \cup {r.message_id}
  /\ LoadedCommands(new)[r.message_id] = [request |-> r, events |-> es]
  /\ \A m \in DOMAIN old : LoadedCommands(new)[m] = old[m]

\* The journal after one more line that fits it.
LEMMA AppendedJournal ==
  ASSUME NEW entries, SoundEntries(entries), NEW r, NEW es, NEW candidate,
         FitsAfter(entries, r, es, candidate)
  PROVE  LoadsOneMore(entries, entries \o Record(r, es), r, es, candidate)
<1> DEFINE n == Len(entries)
           new == entries \o Record(r, es)
           old == LoadedCommands(entries)
           cs == LoadedCommands(new)
           log == LoadedEvents(entries)
<1>0. /\ entries \in Seq(Entries) /\ Loads(entries) /\ EventLogValid(log)
      /\ OwnName(old, log) /\ WholeLines(old) /\ IsWhole(r, es)
      /\ r \in CommandRequests /\ es \in Seq(SessionEvents) /\ Len(es) > 0
      /\ r.message_id \notin DOMAIN old
  BY DEF SoundEntries, Recovers, FitsAfter
<1>1. /\ n \in Nat /\ Len(es) \in Nat
      /\ new \in Seq(Entries) /\ Len(new) = n + Len(es)
      /\ \A i \in 1..n : new[i] = entries[i]
      /\ \A i \in 1..Len(es) :
           new[n + i] = [head |-> i = 1, request |-> r, event |-> es[i]]
  BY <1>0, AppendedEntries
<1>2. /\ Heads(new) = Heads(entries) \cup {n + 1}
      /\ \A h \in Heads(entries) :
           /\ new[h] = entries[h] /\ h \in 1..n
           /\ LineEnd(new, h) = LineEnd(entries, h)
           /\ ReceiptEvents(new, h) = ReceiptEvents(entries, h)
      /\ new[n + 1].request = r
      /\ LineEnd(new, n + 1) = n + Len(es)
      /\ ReceiptEvents(new, n + 1) = es
  BY <1>0, AppendedLines
<1>3. /\ DOMAIN cs = DOMAIN old \cup {r.message_id}
      /\ cs[r.message_id] = [request |-> r, events |-> es]
      /\ \A m \in DOMAIN old : cs[m] = old[m]
      /\ \A i, k \in Heads(new) :
           new[i].request.message_id = new[k].request.message_id => i = k
  BY <1>0, AppendedCommands
<1>4. /\ log \in Seq(SessionEvents) /\ Len(log) = n /\ LoadedEvents(new) = log \o es
  BY <1>0, AppendedLog
<1>5. /\ EventLogValid(log \o es)
      /\ Replay(Uninitialized, log \o es) = [ok |-> TRUE, state |-> candidate]
      /\ \A i \in DOMAIN es :
           es[i].event_id = EventIdFromCausation(es[i].causation_id, 0)
      /\ es[Len(es)].causation_id = r.message_id /\ es[Len(es)].actor = r.actor
      /\ \A i \in 1..(Len(es) - 1) :
           /\ es[i].kind.type = "activity_started" /\ es[i].actor = HostId
           /\ Replay(Uninitialized,
                     SubSeq(log \o es, 1, Len(log) + i - 1)).state.authority = HostId
  BY DEF FitsAfter
<1>6. ASSUME NEW h \in Heads(entries) PROVE LineEnd(entries, h) \in h..n
  BY <1>0, <1>1, <1>2, LineEndExists
<1>7. ASSUME NEW h \in Heads(entries)
      PROVE  \E k \in h..LineEnd(entries, h) :
               entries[k].event.causation_id = entries[h].request.message_id
  BY <1>0 DEF Loads
<1>8. DOMAIN es = 1..Len(es) /\ DOMAIN entries = 1..n
  BY <1>0
<1>9. \A i \in 1..n : entries[i].event.event_id
                        = EventIdFromCausation(entries[i].event.causation_id, 0)
  BY <1>8 DEF SoundEntries
<1> HIDE DEF n, new, old, cs, log
<1>10. ASSUME NEW i \in DOMAIN new
       PROVE  i \in 1..n \/ \E k \in 1..Len(es) : i = n + k
  <2>1. i \in 1..(n + Len(es))
    BY <1>1
  <2>2. i \in 1..n \/ (i - n \in 1..Len(es) /\ i = n + (i - n))
    BY <1>1, <2>1
  <2> QED
    BY <2>2
<1>11. Loads(new)
  <2>1. \A i \in DOMAIN new : new[i] # Corrupt
    BY <1>1, ParsedEntries
  <2>2. ASSUME NEW h \in Heads(new)
        PROVE  \E k \in h..LineEnd(new, h) :
                 new[k].event.causation_id = new[h].request.message_id
    <3>1. CASE h \in Heads(entries)
      <4>1. PICK k \in h..LineEnd(entries, h) :
              entries[k].event.causation_id = entries[h].request.message_id
        BY <1>7, <3>1
      <4>2. k \in 1..n
        BY <1>1, <1>2, <1>6, <3>1, <4>1
      <4>3. new[k] = entries[k] /\ new[h] = entries[h]
        BY <1>1, <1>2, <3>1, <4>2
      <4>4. k \in h..LineEnd(new, h)
        BY <1>2, <3>1, <4>1
      <4> QED
        BY <4>1, <4>3, <4>4
    <3>2. CASE h = n + 1
      <4>1. Len(es) \in 1..Len(es)
        BY <1>0, <1>1
      <4>2. new[n + Len(es)].event = es[Len(es)]
        <5>1. new[n + Len(es)]
                = [head |-> Len(es) = 1, request |-> r, event |-> es[Len(es)]]
          BY <1>1, <4>1
        <5> QED
          BY <5>1
      <4>3. n + Len(es) \in h..LineEnd(new, h)
        BY <1>0, <1>1, <1>2, <3>2
      <4>4. new[h].request.message_id = r.message_id
        BY <1>2, <3>2
      <4> QED
        BY <1>5, <4>2, <4>3, <4>4
    <3> QED
      BY <1>2, <3>1, <3>2
  <2> QED
    BY <1>3, <2>1, <2>2 DEF Loads
<1>12. Recovers(new) /\ RecoveredState(new) = candidate
  BY <1>4, <1>5, <1>11 DEF Recovers, RecoveredState
<1>13. ASSUME NEW i \in DOMAIN new
       PROVE  new[i].event.event_id = EventIdFromCausation(new[i].event.causation_id, 0)
  <2>1. CASE i \in 1..n
    BY <1>1, <1>9, <2>1
  <2>2. CASE \E k \in 1..Len(es) : i = n + k
    <3>1. PICK k \in 1..Len(es) : i = n + k
      BY <2>2
    <3>2. new[i] = [head |-> k = 1, request |-> r, event |-> es[k]]
      BY <1>1, <3>1
    <3>3. new[i].event = es[k]
      BY <3>2
    <3> QED
      BY <1>5, <1>8, <3>3
  <2> QED
    BY <1>10, <2>1, <2>2
<1>14. OwnName(cs, log \o es)
  <2> SUFFICES ASSUME NEW m \in DOMAIN cs, NEW i \in DOMAIN cs[m].events
               PROVE  LET e == cs[m].events[i] IN
                      \/ e.actor = cs[m].request.actor /\ e.causation_id = m
                      \/ /\ e.kind.type = "activity_started"
                         /\ e.actor = HostId
                         /\ i < Len(cs[m].events)
                         /\ Replay(Uninitialized,
                                   SubSeq(log \o es, 1, e.sequence - 1)).state.authority = HostId
    BY DEF OwnName
  <2> DEFINE e == cs[m].events[i]
  <2>1. CASE m \in DOMAIN old
    <3> DEFINE h == HeadOf(entries, m)
    <3>1. cs[m] = old[m]
      BY <1>3, <2>1
    <3>2. /\ entries \in Seq(Entries \cup {Corrupt})
          /\ \A j \in DOMAIN entries : entries[j] # Corrupt
      BY <1>0, ParsedEntries
    <3>3. /\ h \in Heads(entries)
          /\ old[m] = [request |-> entries[h].request, events |-> ReceiptEvents(entries, h)]
      BY <2>1, <3>2, LoadedCommandsType DEF old
    <3> HIDE DEF h
    <3>4. /\ ReceiptEvents(entries, h) \in Seq(SessionEvents)
          /\ Len(ReceiptEvents(entries, h)) = LineEnd(entries, h) - h + 1
          /\ \A k \in 1..Len(ReceiptEvents(entries, h)) :
               ReceiptEvents(entries, h)[k] = entries[h + k - 1].event
      BY <3>2, <3>3, ReceiptEventsType
    <3>5. i \in 1..Len(ReceiptEvents(entries, h))
      BY <3>1, <3>3, <3>4
    <3>6. h \in 1..n /\ LineEnd(entries, h) \in h..n
      BY <1>2, <1>6, <3>3
    <3>7. h + i - 1 \in 1..n
      BY <1>1, <3>4, <3>5, <3>6
    <3>8. e = entries[h + i - 1].event
      BY <3>1, <3>3, <3>4, <3>5
    <3>9. e = log[h + i - 1]
      BY <1>8, <3>7, <3>8 DEF log, LoadedEvents
    <3>10. e.sequence = h + i - 1
      BY <1>0, <1>4, <3>7, <3>9 DEF EventLogValid
    <3>11. e.sequence - 1 \in 0..Len(log)
      BY <1>1, <1>4, <3>7, <3>10
    <3>12. SubSeq(log \o es, 1, e.sequence - 1) = SubSeq(log, 1, e.sequence - 1)
      <4> HIDE DEF e
      <4> QED
        BY <1>0, <1>4, <3>11, PrefixKept
    <3>13. \/ e.actor = old[m].request.actor /\ e.causation_id = m
           \/ /\ e.kind.type = "activity_started"
              /\ e.actor = HostId
              /\ i < Len(old[m].events)
              /\ Replay(Uninitialized,
                        SubSeq(log, 1, e.sequence - 1)).state.authority = HostId
      BY <1>0, <2>1, <3>1 DEF OwnName
    <3> HIDE DEF e
    <3>14. \/ e.actor = cs[m].request.actor /\ e.causation_id = m
           \/ /\ e.kind.type = "activity_started"
              /\ e.actor = HostId
              /\ i < Len(cs[m].events)
              /\ Replay(Uninitialized,
                        SubSeq(log \o es, 1, e.sequence - 1)).state.authority = HostId
      BY <3>1, <3>12, <3>13
    <3> QED
      BY <3>14 DEF e
  <2>2. CASE m = r.message_id
    <3>1. cs[m].events = es /\ cs[m].request = r /\ e = es[i] /\ i \in 1..Len(es)
      BY <1>3, <1>8, <2>2
    <3>2. CASE i = Len(es)
      BY <1>5, <2>2, <3>1, <3>2
    <3>3. CASE i < Len(es)
      <4>1. i \in 1..(Len(es) - 1)
        BY <1>1, <3>1, <3>3
      <4>2. (log \o es)[n + i] = es[i] /\ n + i \in DOMAIN (log \o es)
        BY <1>0, <1>1, <1>4, <3>1
      <4>3. e.sequence = Len(log) + i
        BY <1>4, <1>5, <3>1, <4>2 DEF EventLogValid
      <4>4. e.sequence - 1 = Len(log) + i - 1
        BY <1>1, <1>4, <3>1, <4>3
      <4>5. /\ es[i].kind.type = "activity_started" /\ es[i].actor = HostId
            /\ Replay(Uninitialized,
                      SubSeq(log \o es, 1, Len(log) + i - 1)).state.authority = HostId
        BY <1>5, <4>1
      <4> HIDE DEF e
      <4>6. /\ e.kind.type = "activity_started" /\ e.actor = HostId
            /\ i < Len(cs[m].events)
            /\ Replay(Uninitialized,
                      SubSeq(log \o es, 1, e.sequence - 1)).state.authority = HostId
        BY <3>1, <3>3, <4>4, <4>5
      <4> QED
        BY <4>6 DEF e
    <3> QED
      BY <1>1, <3>1, <3>2, <3>3
  <2> QED
    BY <1>3, <2>1, <2>2
<1>15. SoundEntries(new) /\ new # <<>>
  <2>1. new # <<>>
    BY <1>0, <1>1
  <2>2. WholeLines(cs)
    BY <1>0, <1>3 DEF WholeLines
  <2> QED
    BY <1>1, <1>4, <1>12, <1>13, <1>14, <2>1, <2>2 DEF SoundEntries, cs
<1>16. LoadsOneMore(entries, new, r, es, candidate)
  BY <1>3, <1>4, <1>12, <1>15 DEF LoadsOneMore, old, cs, log
<1> QED
  BY <1>16 DEF new

-----------------------------------------------------------------------------

\* What holds of the files and of what was answered, whether the host runs or not.
DurableInv ==
  LET index == LoadedCommands(journal.entries) IN
  /\ SoundEntries(journal.entries)
  /\ \A m \in DOMAIN receipts : m \in DOMAIN index /\ index[m].events = receipts[m]
  /\ \A m \in refused : m \in DOMAIN receipts \/ m \notin DOMAIN index
  /\ journal.entries = <<>> => refused = {}
  /\ SnapshotOnJournalPath

\* What holds of the memory: a serving host holds what a load would give, and
\* every command it knows of was answered; a stopped one holds nothing.
MemoryInv ==
  /\ status = "up" =>
       /\ ~journal.torn /\ journal.entries # <<>>
       /\ events = LoadedEvents(journal.entries)
       /\ state = RecoveredState(journal.entries)
       /\ accepted = LoadedCommands(journal.entries)
       /\ DOMAIN accepted \subseteq DOMAIN receipts
  /\ status # "up" => accepted = <<>> /\ events = <<>>

\* The inductive invariant.
CleanInv == TypeOK /\ DurableInv /\ MemoryInv

\* The log of a sound journal replays to the recovered state, whose revision
\* counts the events.
LEMMA SoundReplay ==
  ASSUME NEW entries, SoundEntries(entries)
  PROVE  LET log == LoadedEvents(entries) IN
         /\ log \in Seq(SessionEvents) /\ Len(log) = Len(entries)
         /\ RecoveredState(entries) \in SessionStates
         /\ RecoveredState(entries).revision = Len(log)
         /\ Replay(Uninitialized, log) = [ok |-> TRUE, state |-> RecoveredState(entries)]
<1> DEFINE log == LoadedEvents(entries)
           end == Replay(Uninitialized, log)
<1>1. entries \in Seq(Entries) /\ end.ok
  BY DEF SoundEntries, Recovers
<1>2. log \in Seq(SessionEvents) /\ Len(log) = Len(entries)
  BY <1>1, ParsedEntries, LoadedEventsType
<1>3. RecoveredState(entries) = end.state
  BY DEF RecoveredState
<1> HIDE DEF log
<1>4. Len(log) \in 0..Len(log)
  BY <1>2
<1>5. end = ReplayPath(Uninitialized, log)[Len(log)]
  BY DEF Replay
<1>6. end \in [ok : BOOLEAN, state : SessionStates]
  BY <1>2, <1>4, <1>5, InitialTypes, ReplayPathType
<1>7. end.state.revision = Len(log)
  BY <1>1, <1>2, <1>4, <1>5, ReplayPathRevision
<1> HIDE DEF end
<1>8. end = [ok |-> TRUE, state |-> end.state]
  BY <1>1, <1>6
<1> QED
  BY <1>2, <1>3, <1>6, <1>7, <1>8 DEF log, end

\* One event more, replayed.
LEMMA ReplayOneMore ==
  ASSUME NEW log \in Seq(SessionEvents), NEW s, NEW e \in SessionEvents,
         Replay(Uninitialized, log) = [ok |-> TRUE, state |-> s], CanApply(s, e)
  PROVE  /\ log \o <<e>> \in Seq(SessionEvents)
         /\ Replay(Uninitialized, log \o <<e>>) = [ok |-> TRUE, state |-> Apply(s, e)]
<1>1. log \o <<e>> = Append(log, e) /\ log \o <<e>> \in Seq(SessionEvents)
  OBVIOUS
<1>2. IsSeq(log)
  BY DEF IsSeq
<1>3. Replay(Uninitialized, Append(log, e))
        = ReplayStep(Uninitialized, Replay(Uninitialized, log), e)
  BY <1>2, ReplayAppend
<1>4. ReplayStep(Uninitialized, [ok |-> TRUE, state |-> s], e)
        = [ok |-> TRUE, state |-> Apply(s, e)]
  BY DEF ReplayStep
<1> QED
  BY <1>1, <1>3, <1>4

\* Activity events, and only they, are decided for activity commands.
LEMMA DecidedFact ==
  ASSUME NEW s, NEW r \in CommandRequests
  PROVE  DecidedEvent(s, r).kind.type = "activity" <=> r.command.type = "activity"
<1>1. DecidedEvent(s, r).kind = DecidedKind(s, r.actor, r.command)
  BY DEF DecidedEvent
<1>2. r.command \in Commands
  BY DEF CommandRequests
<1> QED
  BY <1>1, <1>2 DEF DecidedKind, Commands

\* The first event of an activity that was just started.
LEMMA FirstOfActivity ==
  ASSUME NEW s \in SessionStates, NEW a \in SessionEvents, NEW q \in CommandRequests,
         a.kind.type = "activity_started", q.command.type = "activity"
  PROVE  DecidedEvent(Apply(s, a), q).kind.activity_sequence = 1
<1> DEFINE t == Reduce(s, a.kind)
<1>1. t.activity.revision = 0 /\ t \in [DOMAIN s -> {t[x] : x \in DOMAIN s}]
  BY DEF Reduce, Started, SessionStates
<1>2. Apply(s, a).activity.revision = 0
  BY <1>1 DEF Apply, Reduce, Started, SessionStates
<1> QED
  BY <1>2 DEF DecidedEvent, DecidedKind

\* A batch of one decided event fits the journal it was decided on.
LEMMA OneEventFits ==
  ASSUME NEW entries, SoundEntries(entries), NEW r \in CommandRequests, NEW e, NEW s,
         r.message_id \in ClientMessageIds \cup {BootstrapId},
         Replay(Uninitialized, LoadedEvents(entries)) = [ok |-> TRUE, state |-> s],
         e = DecidedEvent(s, r), e \in SessionEvents, CanApply(s, e),
         r.message_id \notin DOMAIN LoadedCommands(entries),
         EventLogValid(LoadedEvents(entries) \o <<e>>)
  PROVE  FitsAfter(entries, r, <<e>>, Apply(s, e))
<1> DEFINE log == LoadedEvents(entries)
<1>1. log \in Seq(SessionEvents)
  BY SoundReplay
<1>2. Replay(Uninitialized, log \o <<e>>) = [ok |-> TRUE, state |-> Apply(s, e)]
  BY <1>1, ReplayOneMore
<1>3. /\ <<e>> \in Seq(SessionEvents) /\ Len(<<e>>) = 1
      /\ DOMAIN <<e>> = {1} /\ <<e>>[1] = e
  OBVIOUS
<1>4. /\ e.event_id = EventIdFromCausation(e.causation_id, 0)
      /\ e.causation_id = r.message_id /\ e.actor = r.actor
  BY DEF DecidedEvent
<1> HIDE DEF log
<1>5. \A i \in DOMAIN <<e>> :
        <<e>>[i].event_id = EventIdFromCausation(<<e>>[i].causation_id, 0)
  BY <1>3, <1>4
<1>6. <<e>>[Len(<<e>>)].causation_id = r.message_id /\ <<e>>[Len(<<e>>)].actor = r.actor
  BY <1>3, <1>4
<1>7. Len(<<e>>) > 0 /\ 1..(Len(<<e>>) - 1) = {}
  BY <1>3
<1>8. IsWhole(r, <<e>>)
  <2>1. e.kind.type = "activity" <=> r.command.type = "activity"
    BY DecidedFact
  <2> HIDE DEF IsWhole
  <2> QED
    BY <1>3, <1>4, <2>1 DEF IsWhole
<1> QED
  BY <1>2, <1>3, <1>5, <1>6, <1>7, <1>8 DEF FitsAfter, log

\* A start and an activity event fit the journal they were decided on: the host
\* holds the authority where its start was decided.
LEMMA TwoEventsFit ==
  ASSUME NEW entries, SoundEntries(entries), NEW r \in CommandRequests,
         r.message_id \in ClientMessageIds, r.command.type = "activity",
         NEW q \in CommandRequests, NEW start, NEW s,
         NEW a \in SessionEvents, NEW b \in SessionEvents,
         Replay(Uninitialized, LoadedEvents(entries)) = [ok |-> TRUE, state |-> s],
         start.command.type = "start_activity", start.actor = HostId,
         start.message_id = AutoStartId(r.message_id), s \in SessionStates,
         Accepted(s, start, TRUE), a = DecidedEvent(s, start), CanApply(s, a),
         q.message_id = r.message_id, q.actor = r.actor, q.command = r.command,
         b = DecidedEvent(Apply(s, a), q), CanApply(Apply(s, a), b),
         r.message_id \notin DOMAIN LoadedCommands(entries),
         EventLogValid(LoadedEvents(entries) \o <<a, b>>)
  PROVE  FitsAfter(entries, r, <<a, b>>, Apply(Apply(s, a), b))
<1> DEFINE log == LoadedEvents(entries)
           es == <<a, b>>
<1>1. log \in Seq(SessionEvents)
  BY SoundReplay
<1>2. /\ log \o <<a>> \in Seq(SessionEvents)
      /\ Replay(Uninitialized, log \o <<a>>) = [ok |-> TRUE, state |-> Apply(s, a)]
  BY <1>1, ReplayOneMore
<1>3. Replay(Uninitialized, (log \o <<a>>) \o <<b>>)
        = [ok |-> TRUE, state |-> Apply(Apply(s, a), b)]
  BY <1>2, ReplayOneMore
<1>4. s.authority = HostId
  BY DEF Accepted, SessionCommandAccepted, ActivityCommandAccepted, RequireAuthority
<1>5. a.kind.type = "activity_started" /\ a.actor = HostId
  BY DEF DecidedEvent, DecidedKind
<1>6. /\ a.event_id = EventIdFromCausation(a.causation_id, 0)
      /\ b.event_id = EventIdFromCausation(b.causation_id, 0)
      /\ b.causation_id = r.message_id /\ b.actor = r.actor
  BY DEF DecidedEvent
<1> HIDE DEF log
<1>7. (log \o <<a>>) \o <<b>> = log \o es
  BY <1>1
<1>8. /\ es \in Seq(SessionEvents) /\ Len(es) = 2 /\ DOMAIN es = {1, 2}
      /\ es[1] = a /\ es[2] = b
  OBVIOUS
<1>9. SubSeq(log \o es, 1, Len(log)) = log
  <2>1. Len(log) \in 0..Len(log) /\ SubSeq(log, 1, Len(log)) = log
    BY <1>1
  <2> HIDE DEF es
  <2> QED
    BY <1>1, <1>8, <2>1, PrefixKept
<1> HIDE DEF es
<1>10. \A i \in 1..(Len(es) - 1) :
         /\ es[i].kind.type = "activity_started" /\ es[i].actor = HostId
         /\ Replay(Uninitialized,
                   SubSeq(log \o es, 1, Len(log) + i - 1)).state.authority = HostId
  <2> TAKE i \in 1..(Len(es) - 1)
  <2>1. i = 1 /\ Len(log) + i - 1 = Len(log)
    BY <1>1, <1>8
  <2>2. Replay(Uninitialized, log).state = s
    BY DEF log
  <2>3. Replay(Uninitialized, SubSeq(log \o es, 1, Len(log) + i - 1)) = Replay(Uninitialized, log)
    BY <1>9, <2>1
  <2> QED
    BY <1>4, <1>5, <1>8, <2>1, <2>2, <2>3
<1>11. \A i \in DOMAIN es : es[i].event_id = EventIdFromCausation(es[i].causation_id, 0)
  BY <1>6, <1>8
<1>12. es[Len(es)].causation_id = r.message_id /\ es[Len(es)].actor = r.actor /\ Len(es) > 0
  BY <1>6, <1>8
<1>13. EventLogValid(log \o es)
  BY DEF log, es
<1>14. IsWhole(r, es)
  <2>1. b.kind.type = "activity" /\ a.causation_id = AutoStartId(r.message_id)
    BY DecidedFact DEF DecidedEvent
  <2>2. b.kind.activity_sequence = 1
    BY <1>5, FirstOfActivity
  <2> QED
    BY <1>5, <1>6, <1>8, <2>1, <2>2 DEF IsWhole
<1>15. FitsAfter(entries, r, es, Apply(Apply(s, a), b))
  BY <1>3, <1>7, <1>8, <1>10, <1>11, <1>12, <1>13, <1>14 DEF FitsAfter, log
<1> QED
  BY <1>15 DEF es

\* The files after one more line that fits, whoever got to hear of it.
LEMMA DurableGrows ==
  ASSUME DurableInv, NEW r, NEW es, NEW candidate,
         FitsAfter(journal.entries, r, es, candidate),
         journal'.entries = journal.entries \o Record(r, es),
         DOMAIN receipts \subseteq DOMAIN receipts',
         \A m \in DOMAIN receipts' :
           \/ m \in DOMAIN receipts /\ receipts'[m] = receipts[m]
           \/ m = r.message_id /\ receipts'[m] = es,
         refused' \subseteq refused \ {r.message_id},
         snapshot \in SessionStates, snapshot' \in {snapshot, candidate}
  PROVE  DurableInv'
<1> DEFINE old == LoadedCommands(journal.entries)
           new == LoadedCommands(journal'.entries)
           log == LoadedEvents(journal.entries)
           long == LoadedEvents(journal'.entries)
<1>1. SoundEntries(journal.entries)
  BY DEF DurableInv
<1>2. /\ SoundEntries(journal'.entries) /\ journal'.entries # <<>>
      /\ long = log \o es
      /\ RecoveredState(journal'.entries) = candidate
      /\ DOMAIN new = DOMAIN old \cup {r.message_id}
      /\ new[r.message_id] = [request |-> r, events |-> es]
      /\ \A m \in DOMAIN old : new[m] = old[m]
  <2>1. LoadsOneMore(journal.entries, journal.entries \o Record(r, es), r, es, candidate)
    BY <1>1, AppendedJournal
  <2>2. LoadsOneMore(journal.entries, journal'.entries, r, es, candidate)
    BY <2>1
  <2> QED
    BY <2>2 DEF LoadsOneMore
<1>3. r.message_id \notin DOMAIN old /\ es \in Seq(SessionEvents)
  BY DEF FitsAfter
<1>4. /\ \A m \in DOMAIN receipts : m \in DOMAIN old /\ old[m].events = receipts[m]
      /\ \A m \in refused : m \in DOMAIN receipts \/ m \notin DOMAIN old
  BY DEF DurableInv
<1>s. SnapshotOnJournalPath'
  <2>1. log \in Seq(SessionEvents)
    BY <1>1, SoundReplay
  <2>2. /\ long \in Seq(SessionEvents) /\ candidate.revision = Len(long)
        /\ Replay(Uninitialized, long) = [ok |-> TRUE, state |-> candidate]
    BY <1>2, SoundReplay
  <2>3. snapshot.revision > 0 =>
          /\ snapshot.revision <= Len(log)
          /\ snapshot = Replay(Uninitialized, SubSeq(log, 1, snapshot.revision)).state
    BY DEF DurableInv, SnapshotOnJournalPath
  <2>4. snapshot.revision \in Nat
    BY MaxU64Assumption DEF SessionStates, U64
  <2> HIDE DEF log, long
  <2>5. CASE snapshot' = candidate
    <3>1. SubSeq(long, 1, Len(long)) = long
      BY <2>2
    <3>2. /\ snapshot'.revision = Len(long)
          /\ snapshot' = Replay(Uninitialized, SubSeq(long, 1, snapshot'.revision)).state
      <4>1. Replay(Uninitialized, long).state = candidate
        BY <2>2
      <4>2. SubSeq(long, 1, candidate.revision) = long
        BY <2>2, <3>1
      <4> QED
        BY <2>2, <2>5, <4>1, <4>2
    <3>3. snapshot'.revision <= Len(long)
      BY <2>2, <3>2
    <3> QED
      BY <3>2, <3>3 DEF SnapshotOnJournalPath, long
  <2>6. CASE snapshot' = snapshot /\ snapshot.revision > 0
    <3>1. snapshot.revision \in 0..Len(log)
      BY <2>1, <2>3, <2>4, <2>6
    <3>2. SubSeq(long, 1, snapshot.revision) = SubSeq(log, 1, snapshot.revision)
      BY <1>2, <1>3, <2>1, <3>1, PrefixKept
    <3>3. Len(log) <= Len(long)
      BY <1>2, <1>3, <2>1
    <3>4. snapshot.revision <= Len(long)
      BY <2>1, <2>2, <3>1, <3>3
    <3> QED
      BY <2>3, <2>6, <3>2, <3>4 DEF SnapshotOnJournalPath, long
  <2>7. CASE snapshot' = snapshot /\ ~(snapshot.revision > 0)
    BY <2>7 DEF SnapshotOnJournalPath
  <2> QED
    BY <2>5, <2>6, <2>7
<1> HIDE DEF old, new, log, long
<1>5. \A m \in DOMAIN receipts' : m \in DOMAIN new /\ new[m].events = receipts'[m]
  <2> TAKE m \in DOMAIN receipts'
  <2>1. CASE m \in DOMAIN receipts /\ receipts'[m] = receipts[m]
    BY <1>2, <1>4, <2>1
  <2>2. CASE m = r.message_id /\ receipts'[m] = es
    BY <1>2, <2>2
  <2> QED
    BY <2>1, <2>2
<1>6. \A m \in refused' : m \in DOMAIN receipts' \/ m \notin DOMAIN new
  BY <1>2, <1>4
<1> QED
  BY <1>2, <1>5, <1>6, <1>s DEF DurableInv, new

\* The files after a step that adds no line.
LEMMA DurableKept ==
  ASSUME DurableInv, journal'.entries = journal.entries, receipts' = receipts,
         snapshot' = snapshot,
         \A m \in refused' :
           \/ m \in refused
           \/ /\ journal.entries # <<>>
              /\ m \in DOMAIN receipts \/ m \notin DOMAIN LoadedCommands(journal.entries)
  PROVE  DurableInv'
<1>1. SnapshotOnJournalPath'
  BY DEF DurableInv, SnapshotOnJournalPath
<1> QED
  BY <1>1 DEF DurableInv

\* An answer without a line: the id was answered before, or has no line.
LEMMA AnswerKeeps ==
  ASSUME DurableInv, MemoryInv, status = "up", NEW m, NEW code, NEW es,
         Answer(m, code, es), journal' = journal
  PROVE  DurableInv' /\ MemoryInv'
<1>1. /\ status' = status /\ snapshot' = snapshot /\ state' = state
      /\ events' = events /\ accepted' = accepted /\ receipts' = receipts
      /\ refused' \subseteq refused \cup {m}
  BY DEF Answer, memory
<1>2. /\ journal.entries # <<>> /\ accepted = LoadedCommands(journal.entries)
      /\ DOMAIN accepted \subseteq DOMAIN receipts
  BY DEF MemoryInv
<1>3. DurableInv'
  BY <1>1, <1>2, DurableKept
<1> QED
  BY <1>1, <1>3 DEF MemoryInv

\* What a write leaves in a file without a torn tail.
LEMMA AppendedWhole ==
  ASSUME NEW j \in Journals, ~j.torn, NEW r, NEW es
  PROVE  /\ AppendRecord(j, r, es) = [entries |-> j.entries \o Record(r, es), torn |-> FALSE]
         /\ FailedAppend(j, "nothing_written", r, es) = j
         /\ FailedAppend(j, "torn", r, es).entries = j.entries
         /\ FailedAppend(j, "unsynced", r, es) = AppendRecord(j, r, es)
  BY DEF AppendRecord, FailedAppend, Journals

\* Committing a batch that fits keeps the invariant, whichever way the append ends.
LEMMA CommitClean ==
  ASSUME CleanFailures, CleanInv, status = "up", NEW candidate, NEW r, NEW es,
         r.message_id \notin DOMAIN accepted /\ EventLogValid(events \o es)
           => FitsAfter(journal.entries, r, es, candidate),
         Commit(candidate, r, es)
  PROVE  DurableInv' /\ MemoryInv'
<1>0. /\ DurableInv /\ MemoryInv /\ journal \in Journals /\ snapshot \in SessionStates
      /\ ~journal.torn /\ journal.entries # <<>>
      /\ events = LoadedEvents(journal.entries)
      /\ accepted = LoadedCommands(journal.entries)
      /\ DOMAIN accepted \subseteq DOMAIN receipts
      /\ SoundEntries(journal.entries)
  BY DEF CleanInv, TypeOK, MemoryInv, DurableInv
<1>1. CASE \E code : Reject(r.message_id, code)
  BY <1>0, <1>1, AnswerKeeps DEF Reject
<1>2. CASE ~\E code : Reject(r.message_id, code)
  <2>1. /\ r.message_id \notin DOMAIN accepted /\ EventLogValid(events \o es)
        /\ \/ CommitAppended(candidate, r, es)
           \/ CommitFails(r, es)
           \/ CommitCrashes(r, es)
    BY <1>2 DEF Commit
  <2>2. FitsAfter(journal.entries, r, es, candidate)
    BY <2>1
  <2>3. /\ AppendRecord(journal, r, es)
             = [entries |-> journal.entries \o Record(r, es), torn |-> FALSE]
        /\ FailedAppend(journal, "nothing_written", r, es) = journal
        /\ FailedAppend(journal, "torn", r, es).entries = journal.entries
        /\ FailedAppend(journal, "unsynced", r, es) = AppendRecord(journal, r, es)
    BY <1>0, AppendedWhole
  <2>4. CASE CommitAppended(candidate, r, es)
    <3>1. journal' = [entries |-> journal.entries \o Record(r, es), torn |-> FALSE]
      BY <2>3, <2>4 DEF CommitAppended
    <3>2. journal'.entries = journal.entries \o Record(r, es) /\ ~journal'.torn
      BY <3>1
    <3>3. LoadsOneMore(journal.entries, journal'.entries, r, es, candidate)
      <4>1. LoadsOneMore(journal.entries, journal.entries \o Record(r, es), r, es, candidate)
        BY <1>0, <2>2, AppendedJournal
      <4> QED
        BY <3>2, <4>1
    <3>4. /\ accepted' = [m \in DOMAIN accepted \cup {r.message_id} |->
                            IF m = r.message_id THEN [request |-> r, events |-> es]
                            ELSE accepted[m]]
          /\ state' = candidate /\ events' = events \o es
          /\ receipts' = Answered(accepted') /\ status' = status
          /\ snapshot' \in {snapshot, candidate}
          /\ refused' \subseteq refused \ {r.message_id}
      BY <2>4 DEF CommitAppended
    <3>5. accepted' = LoadedCommands(journal'.entries)
      <4> DEFINE new == LoadedCommands(journal'.entries)
      <4>1. /\ DOMAIN new = DOMAIN accepted \cup {r.message_id}
            /\ new[r.message_id] = [request |-> r, events |-> es]
            /\ \A m \in DOMAIN accepted : new[m] = accepted[m]
        BY <1>0, <3>3 DEF LoadsOneMore
      <4>2. new = [m \in DOMAIN new |-> new[m]]
        BY DEF LoadedCommands
      <4> HIDE DEF new
      <4>3. new = accepted'
        BY <3>4, <4>1, <4>2
      <4> QED
        BY <4>3 DEF new
    <3>6. /\ DOMAIN accepted' = DOMAIN accepted \cup {r.message_id}
          /\ accepted'[r.message_id].events = es
      BY <3>4
    <3>7. /\ DOMAIN receipts' = DOMAIN receipts \cup DOMAIN accepted'
          /\ \A m \in DOMAIN receipts' :
               receipts'[m] = IF m \in DOMAIN receipts THEN receipts[m]
                              ELSE accepted'[m].events
      BY <3>4 DEF Answered
    <3>8. \A m \in DOMAIN receipts' :
            \/ m \in DOMAIN receipts /\ receipts'[m] = receipts[m]
            \/ m = r.message_id /\ receipts'[m] = es
      BY <1>0, <3>6, <3>7
    <3>9. DurableInv'
      <4>1. DOMAIN receipts \subseteq DOMAIN receipts'
        BY <3>7
      <4>2. /\ refused' \subseteq refused \ {r.message_id}
            /\ snapshot \in SessionStates /\ snapshot' \in {snapshot, candidate}
            /\ journal'.entries = journal.entries \o Record(r, es) /\ DurableInv
        BY <1>0, <3>2, <3>4
      <4> QED
        BY <2>2, <3>8, <4>1, <4>2, DurableGrows
    <3>10. /\ journal'.entries # <<>> /\ events' = LoadedEvents(journal'.entries)
           /\ state' = RecoveredState(journal'.entries)
      BY <1>0, <3>3, <3>4 DEF LoadsOneMore
    <3> QED
      BY <3>2, <3>4, <3>5, <3>7, <3>9, <3>10 DEF MemoryInv
  <2>5. CASE CommitFails(r, es)
    <3>1. /\ journal' = journal
          /\ Answer(r.message_id, "persistence_failed", <<>>)
      BY <2>3, <2>5 DEF CommitFails, CleanFailures
    <3> QED
      BY <1>0, <3>1, AnswerKeeps
  <2>6. CASE CommitCrashes(r, es)
    <3>1. PICK failure \in AppendFailures :
            journal' = FailedAppend(journal, failure, r, es)
      BY <2>6 DEF CommitCrashes
    <3>2. /\ status' = "down" /\ accepted' = <<>> /\ events' = <<>>
          /\ refused' = refused \ {r.message_id}
          /\ snapshot' = snapshot /\ receipts' = receipts
      BY <2>6 DEF CommitCrashes, Die
    <3>3. MemoryInv'
      BY <3>2 DEF MemoryInv
    <3>4. CASE failure = "unsynced"
      <4>1. journal'.entries = journal.entries \o Record(r, es)
        BY <2>3, <3>1, <3>4
      <4>2. DurableInv'
        BY <1>0, <2>2, <3>2, <4>1, DurableGrows
      <4> QED
        BY <3>3, <4>2
    <3>5. CASE failure # "unsynced"
      <4>1. journal'.entries = journal.entries
        BY <2>3, <3>1, <3>5 DEF AppendFailures
      <4>2. DurableInv'
        BY <1>0, <3>2, <4>1, DurableKept
      <4> QED
        BY <3>3, <4>2
    <3> QED
      BY <3>4, <3>5
  <2> QED
    BY <2>1, <2>4, <2>5, <2>6
<1> QED
  BY <1>1, <1>2

\* Accepting one command keeps the invariant.
LEMMA AcceptClean ==
  ASSUME CleanFailures, CleanInv, status = "up", NEW r \in CommandRequests,
         r.message_id \in ClientMessageIds, NEW engine \in BOOLEAN, Accept(r, engine)
  PROVE  DurableInv' /\ MemoryInv'
<1>0. /\ DurableInv /\ MemoryInv /\ state \in SessionStates
      /\ SoundEntries(journal.entries)
      /\ events = LoadedEvents(journal.entries)
      /\ state = RecoveredState(journal.entries)
      /\ accepted = LoadedCommands(journal.entries)
  BY DEF CleanInv, TypeOK, MemoryInv, DurableInv
<1> DEFINE e == DecidedEvent(state, r)
<1>1. CASE \E code : Reject(r.message_id, code)
  BY <1>0, <1>1, AnswerKeeps DEF Reject
<1>2. CASE /\ e \in SessionEvents /\ CanApply(state, e)
           /\ Commit(Apply(state, e), r, <<e>>)
  <2>1. Replay(Uninitialized, LoadedEvents(journal.entries))
          = [ok |-> TRUE, state |-> state]
    BY <1>0, SoundReplay
  <2>2. r.message_id \notin DOMAIN accepted /\ EventLogValid(events \o <<e>>)
          => FitsAfter(journal.entries, r, <<e>>, Apply(state, e))
    BY <1>0, <1>2, <2>1, OneEventFits
  <2> HIDE DEF e
  <2> QED
    BY <1>2, <2>2, CommitClean
<1> QED
  BY <1>0, <1>1, <1>2, AcceptOutcome

\* Starting the activity and deciding a client's command keeps the invariant.
LEMMA AutoStartClean ==
  ASSUME CleanFailures, CleanInv, NEW r \in ClientRequests, SubmitAutoStart(r)
  PROVE  DurableInv' /\ MemoryInv'
<1>0. /\ DurableInv /\ MemoryInv /\ state \in SessionStates /\ status = "up"
      /\ SoundEntries(journal.entries)
      /\ events = LoadedEvents(journal.entries)
      /\ state = RecoveredState(journal.entries)
      /\ accepted = LoadedCommands(journal.entries)
      /\ r \in CommandRequests /\ r.message_id \in ClientMessageIds
      /\ r.command.type = "activity"
  BY DEF CleanInv, TypeOK, MemoryInv, DurableInv, SubmitAutoStart, ClientRequests
<1>1. CASE \E code : Reject(r.message_id, code)
  BY <1>0, <1>1, AnswerKeeps DEF Reject
<1>2. CASE ~\E code : Reject(r.message_id, code)
  <2>1. PICK a \in SessionEvents, b \in SessionEvents :
          LET between == Apply(state, a) IN
          /\ a = DecidedEvent(state, StartRequest(r))
          /\ Accepted(state, StartRequest(r), TRUE)
          /\ CanApply(state, a) /\ between \in SessionStates
          /\ b = DecidedEvent(between, [r EXCEPT !.expected_revision = between.revision])
          /\ CanApply(between, b) /\ Apply(between, b) \in SessionStates
          /\ Commit(Apply(between, b), r, <<a, b>>)
    BY <1>0, <1>2, AutoStartOutcome
  <2> DEFINE between == Apply(state, a)
             q == [r EXCEPT !.expected_revision = between.revision]
             start == StartRequest(r)
  <2>2. Replay(Uninitialized, LoadedEvents(journal.entries))
          = [ok |-> TRUE, state |-> state]
    BY <1>0, SoundReplay
  <2>3. /\ q \in CommandRequests /\ q.message_id = r.message_id /\ q.actor = r.actor
        /\ q.command = r.command
    <3>1. between.revision \in U64
      BY <2>1 DEF SessionStates
    <3> HIDE DEF between
    <3> QED
      BY <1>0, <3>1 DEF CommandRequests
  <2>4. /\ start.command.type = "start_activity" /\ start.actor = HostId
        /\ start.message_id = AutoStartId(r.message_id)
    BY DEF StartRequest
  <2>5. /\ a = DecidedEvent(state, start) /\ Accepted(state, start, TRUE)
        /\ CanApply(state, a) /\ b = DecidedEvent(Apply(state, a), q)
        /\ CanApply(Apply(state, a), b)
        /\ Commit(Apply(Apply(state, a), b), r, <<a, b>>)
    BY <2>1
  <2> HIDE DEF q, start, between
  <2>6. r.message_id \notin DOMAIN accepted /\ EventLogValid(events \o <<a, b>>)
          => FitsAfter(journal.entries, r, <<a, b>>, Apply(Apply(state, a), b))
    BY <1>0, <2>2, <2>3, <2>4, <2>5, TwoEventsFit
  <2> QED
    BY <1>0, <2>5, <2>6, CommitClean
<1> QED
  BY <1>1, <1>2

\* A journal without entries holds no event and no command.
LEMMA EmptyJournal ==
  /\ LoadedEvents(<<>>) = <<>>
  /\ DOMAIN LoadedCommands(<<>>) = {}
<1>1. DOMAIN <<>> = {}
  OBVIOUS
<1>2. Heads(<<>>) = {}
  BY <1>1 DEF Heads
<1>3. DOMAIN LoadedCommands(<<>>) = {}
  BY <1>2 DEF LoadedCommands
<1> QED
  BY <1>1, <1>3 DEF LoadedEvents

\* The bootstrap line fits the empty journal.
LEMMA BootstrapFits ==
  ASSUME SoundEntries(<<>>)
  PROVE  FitsAfter(<<>>, BootstrapRequest, BootstrapEvents,
                   Apply(Uninitialized, DecidedEvent(Uninitialized, BootstrapRequest)))
<1> DEFINE e == DecidedEvent(Uninitialized, BootstrapRequest)
<1>1. /\ BootstrapEvents = <<e>> /\ BootstrapRequest \in CommandRequests
      /\ e \in SessionEvents /\ CanApply(Uninitialized, e)
  BY BootstrapFacts
<1>2. /\ Replay(Uninitialized, LoadedEvents(<<>>)) = [ok |-> TRUE, state |-> Uninitialized]
      /\ BootstrapRequest.message_id = BootstrapId
  BY EmptyJournal, ReplayEmpty DEF BootstrapRequest
<1>3. e.sequence = 1
  BY DEF DecidedEvent, Uninitialized
<1>4. BootstrapRequest.message_id \notin DOMAIN LoadedCommands(<<>>)
  BY EmptyJournal
<1>5. EventLogValid(LoadedEvents(<<>>) \o <<e>>)
  <2>0. e.causation_id \notin BlankIds /\ e.actor \notin BlankIds
    BY HostAssumption DEF DecidedEvent, BootstrapRequest
  <2> HIDE DEF e
  <2>1. <<>> \o <<e>> = <<e>> /\ DOMAIN <<e>> = {1} /\ <<e>>[1] = e
    OBVIOUS
  <2>2. 1 <= MaxU64
    BY MaxU64Assumption
  <2>3. EventLogValid(<<e>>)
    BY <1>3, <2>0, <2>1, <2>2 DEF EventLogValid
  <2> QED
    BY <2>1, <2>3, EmptyJournal
<1>6. FitsAfter(<<>>, BootstrapRequest, <<e>>, Apply(Uninitialized, e))
  BY <1>1, <1>2, <1>4, <1>5, OneEventFits
<1> QED
  BY <1>1, <1>6

\* The invariant holds initially.
LEMMA InitCleanInv ==
  ASSUME LegacyLogsSound, Init
  PROVE  CleanInv
<1>1. PICK es \in LegacyLogs : journal = [entries |-> LegacyEntries(es), torn |-> FALSE]
  BY DEF Init
<1> DEFINE entries == LegacyEntries(es)
<1>2. journal.entries = entries
  BY <1>1
<1>3. es \in Seq(SessionEvents)
  BY HostAssumption
<1>4. /\ Recovers(entries)
      /\ \A i \in DOMAIN es : es[i].event_id = EventIdFromCausation(es[i].causation_id, 0)
  BY DEF LegacyLogsSound
<1>5. /\ DOMAIN entries = DOMAIN es
      /\ \A i \in DOMAIN es :
           entries[i] = [head |-> TRUE, request |-> NoRequest, event |-> es[i]]
  BY DEF LegacyEntries
<1>6. entries \in Seq(Entries)
  <2>1. Len(es) \in Nat /\ DOMAIN es = 1..Len(es)
    BY <1>3
  <2>2. \A i \in DOMAIN es :
          [head |-> TRUE, request |-> NoRequest, event |-> es[i]] \in Entries
    BY <1>3 DEF Entries
  <2>3. entries \in [1..Len(es) -> Entries]
    BY <2>1, <2>2 DEF LegacyEntries
  <2> QED
    BY <2>1, <2>3
<1>7. DOMAIN LoadedCommands(entries) = {}
  <2>1. Heads(entries) = {}
    BY <1>5 DEF Heads
  <2> QED
    BY <2>1 DEF LoadedCommands
<1> HIDE DEF entries
<1>8. \A i \in DOMAIN entries :
        entries[i].event.event_id = EventIdFromCausation(entries[i].event.causation_id, 0)
  BY <1>4, <1>5
<1>9. SoundEntries(entries)
  BY <1>4, <1>6, <1>7, <1>8 DEF SoundEntries, OwnName, WholeLines
<1>10. /\ receipts = <<>> /\ refused = {} /\ snapshot = Uninitialized /\ events = <<>>
       /\ status = "down" /\ accepted = <<>>
  BY DEF Init
<1>11. SnapshotOnJournalPath
  BY <1>10 DEF SnapshotOnJournalPath, Uninitialized
<1>12. DOMAIN receipts = {}
  BY <1>10
<1>13. DurableInv
  BY <1>2, <1>9, <1>10, <1>11, <1>12 DEF DurableInv
<1>14. MemoryInv
  BY <1>10 DEF MemoryInv
<1> QED
  BY <1>13, <1>14, InitTypeOK DEF CleanInv

\* The first line of a new journal.
LEMMA StartEmptyClean ==
  ASSUME CleanInv, StartEmpty
  PROVE  DurableInv' /\ MemoryInv'
<1> DEFINE s == Apply(Uninitialized, DecidedEvent(Uninitialized, BootstrapRequest))
           b == BootstrapRequest
           es == BootstrapEvents
<1>0. /\ DurableInv /\ MemoryInv /\ journal \in Journals /\ snapshot \in SessionStates
      /\ journal.entries = <<>> /\ SoundEntries(<<>>)
      /\ refused = {}
  BY DEF CleanInv, TypeOK, DurableInv, StartEmpty
<1>1. FitsAfter(<<>>, b, es, s) /\ b.message_id = BootstrapId
  BY <1>0, BootstrapFits DEF BootstrapRequest
<1>2. es[1] = DecidedEvent(Uninitialized, BootstrapRequest)
  BY DEF BootstrapEvents
<1>3. /\ journal' = AppendRecord(TruncateTail(journal), b, es)
      /\ snapshot' = s /\ refused' = refused
      /\ Serve(s, es, [m \in {BootstrapId} |-> [request |-> b, events |-> es]])
  BY <1>2 DEF StartEmpty
<1> HIDE DEF s, b, es
<1>4. TruncateTail(journal) \in Journals /\ ~TruncateTail(journal).torn
      /\ TruncateTail(journal).entries = <<>>
  BY <1>0 DEF TruncateTail, Journals
<1>5. journal'.entries = <<>> \o Record(b, es) /\ ~journal'.torn
  <2>1. journal' = [entries |-> TruncateTail(journal).entries \o Record(b, es), torn |-> FALSE]
    BY <1>3, <1>4, AppendedWhole
  <2> QED
    BY <1>4, <2>1
<1>6. LoadsOneMore(<<>>, journal'.entries, b, es, s)
  <2>1. LoadsOneMore(<<>>, <<>> \o Record(b, es), b, es, s)
    BY <1>0, <1>1, AppendedJournal
  <2> QED
    BY <1>5, <2>1
<1>7. DOMAIN receipts = {}
  BY <1>0, EmptyJournal DEF DurableInv
<1>8. /\ status' = "up" /\ state' = s /\ events' = es
      /\ accepted' = [m \in {BootstrapId} |-> [request |-> b, events |-> es]]
      /\ receipts' = Answered([m \in {BootstrapId} |-> [request |-> b, events |-> es]])
  BY <1>3 DEF Serve
<1>9. DOMAIN receipts' = {BootstrapId} /\ receipts'[BootstrapId] = es
  BY <1>7, <1>8 DEF Answered
<1>10. accepted' = LoadedCommands(journal'.entries)
  <2> DEFINE new == LoadedCommands(journal'.entries)
  <2>1. DOMAIN new = {BootstrapId} /\ new[BootstrapId] = [request |-> b, events |-> es]
    BY <1>1, <1>6, EmptyJournal DEF LoadsOneMore
  <2>2. new = [m \in DOMAIN new |-> new[m]]
    BY DEF LoadedCommands
  <2> HIDE DEF new
  <2>3. new = accepted'
    BY <1>8, <2>1, <2>2
  <2> QED
    BY <2>3 DEF new
<1>11. DurableInv'
  <2>1. /\ DOMAIN receipts \subseteq DOMAIN receipts'
        /\ \A m \in DOMAIN receipts' :
             \/ m \in DOMAIN receipts /\ receipts'[m] = receipts[m]
             \/ m = b.message_id /\ receipts'[m] = es
    BY <1>1, <1>7, <1>9
  <2>2. /\ refused' \subseteq refused \ {b.message_id}
        /\ snapshot' \in {snapshot, s}
        /\ journal'.entries = journal.entries \o Record(b, es)
        /\ FitsAfter(journal.entries, b, es, s)
    BY <1>0, <1>1, <1>3, <1>5
  <2> QED
    BY <1>0, <2>1, <2>2, DurableGrows
<1>12. /\ journal'.entries # <<>> /\ events' = LoadedEvents(journal'.entries)
       /\ state' = RecoveredState(journal'.entries)
  <2>1. es \in Seq(SessionEvents)
    BY <1>1 DEF FitsAfter
  <2>2. <<>> \o es = es
    BY <2>1
  <2> QED
    BY <1>6, <1>8, <2>2, EmptyJournal DEF LoadsOneMore
<1>13. DOMAIN accepted' \subseteq DOMAIN receipts'
  BY <1>8, <1>9
<1>14. MemoryInv'
  BY <1>5, <1>8, <1>10, <1>12, <1>13 DEF MemoryInv
<1> QED
  BY <1>11, <1>14

\* A first start that dies on the way.
LEMMA StartEmptyFailsClean ==
  ASSUME CleanInv, StartEmptyFails
  PROVE  DurableInv' /\ MemoryInv'
<1> DEFINE s == Apply(Uninitialized, DecidedEvent(Uninitialized, BootstrapRequest))
           b == BootstrapRequest
           es == BootstrapEvents
           cut == TruncateTail(journal)
<1>0. /\ DurableInv /\ MemoryInv /\ journal \in Journals /\ snapshot \in SessionStates
      /\ journal.entries = <<>> /\ SoundEntries(<<>>)
      /\ refused = {}
  BY DEF CleanInv, TypeOK, DurableInv, StartEmptyFails
<1>1. FitsAfter(<<>>, b, es, s)
  BY <1>0, BootstrapFits
<1>2. /\ status' = "down" /\ snapshot' = snapshot /\ accepted' = accepted
      /\ events' = events /\ receipts' = receipts /\ refused' = refused /\ status # "up"
  BY DEF StartEmptyFails, memory, history
<1>3. PICK failure \in AppendFailures : journal' = FailedAppend(cut, failure, b, es)
  BY DEF StartEmptyFails
<1>4. cut \in Journals /\ ~cut.torn /\ cut.entries = <<>>
  BY <1>0 DEF TruncateTail, Journals
<1> HIDE DEF s, b, es, cut
<1>5. MemoryInv'
  BY <1>0, <1>2 DEF MemoryInv
<1>6. CASE failure = "unsynced"
  <2>1. journal'.entries = journal.entries \o Record(b, es)
    <3>1. /\ AppendRecord(cut, b, es)
               = [entries |-> cut.entries \o Record(b, es), torn |-> FALSE]
          /\ FailedAppend(cut, "unsynced", b, es) = AppendRecord(cut, b, es)
      BY <1>4, AppendedWhole, Zenon
    <3>2. journal' = FailedAppend(cut, "unsynced", b, es)
      BY <1>3, <1>6, Zenon
    <3>3. journal'.entries = cut.entries \o Record(b, es)
      BY <3>1, <3>2
    <3> QED
      BY <1>0, <1>4, <3>3
  <2>2. DurableInv'
    <3>1. FitsAfter(journal.entries, b, es, s)
      BY <1>0, <1>1
    <3>2. /\ DOMAIN receipts \subseteq DOMAIN receipts'
          /\ \A m \in DOMAIN receipts' : m \in DOMAIN receipts /\ receipts'[m] = receipts[m]
          /\ refused' \subseteq refused \ {b.message_id} /\ snapshot' \in {snapshot, s}
      BY <1>0, <1>2
    <3> QED
      BY <1>0, <2>1, <3>1, <3>2, DurableGrows
  <2> QED
    BY <1>5, <2>2
<1>7. CASE failure # "unsynced"
  <2>1. journal'.entries = journal.entries
    BY <1>0, <1>3, <1>4, <1>7, AppendedWhole DEF AppendFailures
  <2>2. DurableInv'
    BY <1>0, <1>2, <2>1, DurableKept
  <2> QED
    BY <1>5, <2>2
<1> QED
  BY <1>6, <1>7

\* A restart that reads the journal back.
LEMMA StartRecoveredClean ==
  ASSUME CleanInv, StartRecovered
  PROVE  DurableInv' /\ MemoryInv'
<1> DEFINE index == LoadedCommands(journal.entries)
<1>0. /\ DurableInv /\ journal \in Journals /\ journal.entries # <<>>
      /\ journal' = TruncateTail(journal)
      /\ Serve(RecoveredState(journal.entries), LoadedEvents(journal.entries), index)
      /\ snapshot' = snapshot /\ refused' = refused
  BY DEF CleanInv, TypeOK, StartRecovered
<1>1. journal'.entries = journal.entries /\ ~journal'.torn
  BY <1>0 DEF TruncateTail, Journals
<1>2. /\ status' = "up" /\ state' = RecoveredState(journal.entries)
      /\ events' = LoadedEvents(journal.entries) /\ accepted' = index
      /\ receipts' = Answered(index)
  BY <1>0 DEF Serve
<1> HIDE DEF index
<1>3. /\ SoundEntries(journal.entries)
      /\ \A m \in DOMAIN receipts : m \in DOMAIN index /\ index[m].events = receipts[m]
      /\ \A m \in refused : m \in DOMAIN receipts \/ m \notin DOMAIN index
      /\ SnapshotOnJournalPath
  BY <1>0 DEF DurableInv, index
<1>4. /\ DOMAIN receipts' = DOMAIN index
      /\ \A m \in DOMAIN index : receipts'[m] = index[m].events
  BY <1>2, <1>3 DEF Answered
<1>5. SnapshotOnJournalPath'
  BY <1>0, <1>1, <1>3 DEF SnapshotOnJournalPath
<1>6. DurableInv'
  BY <1>0, <1>1, <1>3, <1>4, <1>5 DEF DurableInv, index
<1>7. MemoryInv'
  BY <1>0, <1>1, <1>2, <1>4 DEF MemoryInv, index
<1> QED
  BY <1>6, <1>7

\* Every step of the host keeps the invariant.
LEMMA NextCleanInv ==
  ASSUME CleanFailures, CleanInv, [Next]_vars
  PROVE  CleanInv'
<1>0. TypeOK /\ DurableInv /\ MemoryInv /\ state \in SessionStates
  BY DEF CleanInv, TypeOK
<1>t. TypeOK'
  BY <1>0, NextTypeOK
<1> SUFFICES DurableInv' /\ MemoryInv'
  BY <1>t DEF CleanInv
<1>1. CASE StartEmpty
  BY <1>1, StartEmptyClean
<1>2. CASE StartEmptyFails
  BY <1>2, StartEmptyFailsClean
<1>3. CASE StartRecovered
  BY <1>3, StartRecoveredClean
<1>4. CASE StartRefused
  <2>1. /\ status # "up" /\ status' = "refused" /\ journal' = journal
        /\ snapshot' = snapshot /\ events' = events /\ accepted' = accepted
        /\ receipts' = receipts /\ refused' = refused
    BY <1>4 DEF StartRefused, memory, history
  <2>2. DurableInv'
    BY <1>0, <2>1, DurableKept
  <2> QED
    BY <1>0, <2>1, <2>2 DEF MemoryInv
<1>5. CASE Crash
  <2>1. /\ status' = "down" /\ accepted' = <<>> /\ events' = <<>> /\ journal' = journal
        /\ snapshot' = snapshot /\ receipts' = receipts /\ refused' = refused
    BY <1>5 DEF Crash, Die, history
  <2>2. DurableInv'
    BY <1>0, <2>1, DurableKept
  <2> QED
    BY <2>1, <2>2 DEF MemoryInv
<1>6. ASSUME NEW p \in Participants, NEW m \in ClientMessageIds, JoinAgain(p, m)
      PROVE  DurableInv' /\ MemoryInv'
  BY <1>0, <1>6, AnswerKeeps DEF JoinAgain
<1>7. ASSUME NEW p \in Participants, NEW m \in ClientMessageIds, NEW blank \in BOOLEAN,
             Join(p, m, blank)
      PROVE  DurableInv' /\ MemoryInv'
  <2> DEFINE r == [message_id |-> m, actor |-> p, expected_revision |-> state.revision,
                   command |-> [type |-> "join", blank |-> blank]]
  <2>1. r \in CommandRequests
    BY <1>0, JoinRequestType
  <2>2. status = "up" /\ Accept(r, FALSE) /\ r.message_id \in ClientMessageIds
    BY <1>7 DEF Join
  <2> HIDE DEF r
  <2> QED
    BY <2>1, <2>2, AcceptClean
<1>8. ASSUME NEW r \in ClientRequests, SubmitKnown(r)
      PROVE  DurableInv' /\ MemoryInv'
  <2>1. /\ status = "up" /\ journal' = journal
        /\ \/ Answer(r.message_id, "duplicate", accepted[r.message_id].events)
           \/ Answer(r.message_id, "command_id_collision", <<>>)
    BY <1>8 DEF SubmitKnown
  <2> QED
    BY <1>0, <2>1, AnswerKeeps
<1>9. ASSUME NEW r \in ClientRequests, SubmitConflict(r)
      PROVE  DurableInv' /\ MemoryInv'
  BY <1>0, <1>9, AnswerKeeps DEF SubmitConflict, Reject
<1>10. ASSUME NEW r \in ClientRequests, SubmitAutoStart(r)
       PROVE  DurableInv' /\ MemoryInv'
  BY <1>10, AutoStartClean
<1>11. ASSUME NEW r \in ClientRequests, SubmitDirect(r)
       PROVE  DurableInv' /\ MemoryInv'
  BY <1>11, AcceptClean DEF SubmitDirect, ClientRequests
<1>12. CASE UNCHANGED vars
  <2>1. /\ status' = status /\ journal' = journal /\ snapshot' = snapshot
        /\ state' = state /\ events' = events /\ accepted' = accepted
        /\ receipts' = receipts /\ refused' = refused
    BY <1>12 DEF vars, memory, history
  <2>2. DurableInv'
    BY <1>0, <2>1, DurableKept
  <2> QED
    BY <1>0, <2>1, <2>2 DEF MemoryInv
<1> QED
  BY <1>1, <1>2, <1>3, <1>4, <1>5, <1>6, <1>7, <1>8, <1>9, <1>10, <1>11, <1>12
     DEF Next, Start, Submit

\* The invariant is one.
LEMMA CleanInvariant ==
  ASSUME CleanFailures, LegacyLogsSound
  PROVE  Spec => []CleanInv
<1>1. Init => CleanInv
  BY InitCleanInv
<1>2. CleanInv /\ [Next]_vars => CleanInv'
  BY NextCleanInv
<1> QED
  BY <1>1, <1>2, PTL DEF Spec

\* Memory and journal agree whenever the host serves, for every number of clients,
\* commands, crashes and restarts (write-ahead commit and load of sytog-node,
\* INV-013).
THEOREM MemoryIsTheJournal ==
  ASSUME CleanFailures, LegacyLogsSound
  PROVE  Spec => []MemoryMatchesJournal
<1>1. CleanInv => MemoryMatchesJournal
  BY DEF CleanInv, MemoryInv, MemoryMatchesJournal
<1> QED
  BY <1>1, CleanInvariant, PTL

\* No crash, wherever in an append or a start it falls, leaves a journal that the
\* next start would refuse.
THEOREM CrashesLeaveAStartableJournal ==
  ASSUME CleanFailures, LegacyLogsSound
  PROVE  Spec => []JournalAlwaysRecovers
<1>1. CleanInv => JournalAlwaysRecovers
  BY DEF CleanInv, DurableInv, SoundEntries, JournalAlwaysRecovers
<1> QED
  BY <1>1, CleanInvariant, PTL

\* snapshot.json is never ahead of the journal or beside it.
THEOREM SnapshotStaysOnThePath ==
  ASSUME CleanFailures, LegacyLogsSound
  PROVE  Spec => []SnapshotOnJournalPath
<1>1. CleanInv => SnapshotOnJournalPath
  BY DEF CleanInv, DurableInv
<1> QED
  BY <1>1, CleanInvariant, PTL

\* An auto-start and the activity command that caused it are recorded together or
\* not at all, whatever is refused, fails or crashes in between (submit of
\* sytog-node).
THEOREM AutoStartsStayWhole ==
  ASSUME CleanFailures, LegacyLogsSound
  PROVE  Spec => []AutoStartIsWhole
<1>1. CleanInv => AutoStartIsWhole
  BY DEF CleanInv, DurableInv, SoundEntries, WholeLines, AutoStartIsWhole
<1> QED
  BY <1>1, CleanInvariant, PTL

\* A refused command leaves no line (INV-007).
THEOREM RefusedLeavesNoTrace ==
  ASSUME CleanFailures, LegacyLogsSound
  PROVE  Spec => []RejectedIsNotRecorded
<1>1. CleanInv => RejectedIsNotRecorded
  <2> SUFFICES ASSUME CleanInv, NEW m \in refused \ DOMAIN receipts,
                      NEW i \in Heads(journal.entries),
                      journal.entries[i].request.message_id = m
               PROVE  FALSE
    BY DEF RejectedIsNotRecorded
  <2>1. m \notin DOMAIN LoadedCommands(journal.entries)
    BY DEF CleanInv, DurableInv
  <2>2. m \in DOMAIN LoadedCommands(journal.entries)
    BY DEF LoadedCommands
  <2> QED
    BY <2>1, <2>2
<1> QED
  BY <1>1, CleanInvariant, PTL

\* Nobody acts in another's name: an auto-start is only ever the host's own, taken
\* while it held the authority.
THEOREM ActorsAreTheirOwn ==
  ASSUME CleanFailures, LegacyLogsSound
  PROVE  Spec => []NobodyActsForAnother
<1>1. CleanInv => NobodyActsForAnother
  <2> SUFFICES ASSUME CleanInv PROVE NobodyActsForAnother
    OBVIOUS
  <2>1. CASE status = "up"
    <3>1. /\ events = LoadedEvents(journal.entries)
          /\ accepted = LoadedCommands(journal.entries)
          /\ OwnName(LoadedCommands(journal.entries), LoadedEvents(journal.entries))
      BY <2>1 DEF CleanInv, MemoryInv, DurableInv, SoundEntries
    <3>2. OwnName(accepted, events)
      BY <3>1
    <3> QED
      BY <3>2 DEF OwnName, NobodyActsForAnother
  <2>2. CASE status # "up"
    <3>1. accepted = <<>>
      BY <2>2 DEF CleanInv, MemoryInv
    <3>2. DOMAIN accepted = {}
      BY <3>1
    <3> QED
      BY <3>2 DEF NobodyActsForAnother
  <2> QED
    BY <2>1, <2>2
<1> QED
  BY <1>1, CleanInvariant, PTL

\* The events es of message id m are entries h to k of the log, one of which the
\* command caused.
IsLineOf(log, m, es) ==
  \E h \in 1..Len(log) : \E k \in h..Len(log) :
    /\ es \in Seq(SessionEvents) /\ Len(es) = k - h + 1
    /\ \A i \in 1..Len(es) : es[i] = log[h + i - 1]
    /\ \E i \in h..k : log[i].causation_id = m

\* Every loaded command is a line of the loaded log.
LEMMA LoadedLine ==
  ASSUME NEW entries, SoundEntries(entries), NEW m \in DOMAIN LoadedCommands(entries)
  PROVE  IsLineOf(LoadedEvents(entries), m, LoadedCommands(entries)[m].events)
<1> DEFINE h == HeadOf(entries, m)
           k == LineEnd(entries, h)
           es == LoadedCommands(entries)[m].events
           n == Len(entries)
           log == LoadedEvents(entries)
<1>1. entries \in Seq(Entries) /\ Loads(entries)
  BY DEF SoundEntries, Recovers
<1>2. /\ entries \in Seq(Entries \cup {Corrupt})
      /\ \A i \in DOMAIN entries : entries[i] # Corrupt
  BY <1>1, ParsedEntries
<1>3. /\ h \in Heads(entries) /\ entries[h].request.message_id = m
      /\ es = ReceiptEvents(entries, h)
  BY <1>2, LoadedCommandsType
<1>4. n \in Nat /\ Len(log) = n /\ \A i \in 1..n : log[i] = entries[i].event
  BY <1>2, LoadedEventsType
<1> HIDE DEF h, es
<1>5. /\ h \in 1..n /\ k \in h..n
      /\ es \in Seq(SessionEvents) /\ Len(es) = k - h + 1
      /\ \A i \in 1..Len(es) : es[i] = entries[h + i - 1].event
  BY <1>2, <1>3, ReceiptEventsType
<1>6. PICK c \in h..k : entries[c].event.causation_id = entries[h].request.message_id
  BY <1>1, <1>3 DEF Loads
<1> HIDE DEF k, n, log
<1>7. c \in 1..n
  BY <1>4, <1>5, <1>6
<1>8. log[c].causation_id = m
  BY <1>3, <1>4, <1>6, <1>7
<1>9. \A i \in 1..Len(es) : es[i] = log[h + i - 1]
  <2> TAKE i \in 1..Len(es)
  <2>1. h + i - 1 \in 1..n
    BY <1>4, <1>5
  <2> QED
    BY <1>4, <1>5, <2>1
<1>10. h \in 1..Len(log) /\ k \in h..Len(log)
  BY <1>4, <1>5
<1>11. IsLineOf(log, m, es)
  BY <1>5, <1>6, <1>8, <1>9, <1>10 DEF IsLineOf
<1> QED
  BY <1>11 DEF es, log

\* A command is taken at most once, across retries, id collisions and restarts.
THEOREM CommandsAreTakenOnce ==
  ASSUME CleanFailures, LegacyLogsSound
  PROVE  Spec => []AcceptedOnce
<1>1. CleanInv => AcceptedOnce
  <2> SUFFICES ASSUME CleanInv, status = "up", NEW m \in DOMAIN receipts
               PROVE  /\ m \in DOMAIN accepted
                      /\ accepted[m].events = receipts[m]
                      /\ \A i \in DOMAIN events :
                           events[i].causation_id = m =>
                             \E k \in DOMAIN receipts[m] : receipts[m][k] = events[i]
    BY DEF AcceptedOnce
  <2> DEFINE entries == journal.entries
  <2>1. /\ SoundEntries(entries) /\ events = LoadedEvents(entries)
        /\ accepted = LoadedCommands(entries)
        /\ m \in DOMAIN accepted /\ accepted[m].events = receipts[m]
    BY DEF CleanInv, DurableInv, MemoryInv
  <2> HIDE DEF entries
  <2>2. /\ events \in Seq(SessionEvents) /\ Len(events) = Len(entries)
    BY <2>1, SoundReplay
  <2>3. EventLogValid(events) /\ DOMAIN entries = DOMAIN events
    BY <2>1 DEF SoundEntries, Recovers, LoadedEvents
  <2>4. \A i \in DOMAIN events :
          events[i].event_id = EventIdFromCausation(events[i].causation_id, 0)
    BY <2>1, <2>3 DEF SoundEntries, LoadedEvents
  <2> DEFINE es == receipts[m]
  <2>5. IsLineOf(events, m, es)
    <3>1. IsLineOf(LoadedEvents(entries), m, LoadedCommands(entries)[m].events)
      BY <2>1, LoadedLine
    <3> QED
      BY <2>1, <3>1
  <2> HIDE DEF es
  <2>6. PICK h \in 1..Len(events) :
          \E k \in h..Len(events) :
            /\ es \in Seq(SessionEvents) /\ Len(es) = k - h + 1
            /\ \A i \in 1..Len(es) : es[i] = events[h + i - 1]
            /\ \E i \in h..k : events[i].causation_id = m
    BY <2>5, Zenon DEF IsLineOf
  <2>7. PICK k \in h..Len(events) :
          /\ es \in Seq(SessionEvents) /\ Len(es) = k - h + 1
          /\ \A i \in 1..Len(es) : es[i] = events[h + i - 1]
          /\ \E i \in h..k : events[i].causation_id = m
    BY <2>6, Zenon
  <2>8. PICK c \in h..k : events[c].causation_id = m
    BY <2>7, Zenon
  <2>9. c \in DOMAIN events /\ c - h + 1 \in 1..Len(es) /\ h + (c - h + 1) - 1 = c
    BY <2>2, <2>7
  <2>10. es[c - h + 1] = events[c] /\ c - h + 1 \in DOMAIN es
    BY <2>7, <2>9
  <2>11. ASSUME NEW i \in DOMAIN events, events[i].causation_id = m
        PROVE  \E x \in DOMAIN es : es[x] = events[i]
    <3>1. events[i].event_id = events[c].event_id
      BY <2>4, <2>8, <2>9, <2>11
    <3>2. i = c
      BY <2>3, <2>9, <3>1 DEF EventLogValid
    <3> QED
      BY <2>10, <3>2
  <2> QED
    BY <2>1, <2>11 DEF es
<1> QED
  BY <1>1, CleanInvariant, PTL

-----------------------------------------------------------------------------

\* The entries new are old ones with more after them.
IsExtension(new, old) == \E ext : IsSeq(ext) /\ new = old \o ext

\* What no step of the host does, clean failures or not: take a line back or
\* change an answer.
Grows ==
  /\ IsExtension(journal'.entries, journal.entries)
  /\ \A m \in DOMAIN receipts : m \in DOMAIN receipts' /\ receipts'[m] = receipts[m]

\* An append, failed or not, only adds to the file.
LEMMA AppendGrows ==
  ASSUME NEW j, NEW r, NEW es, IsSeq(j.entries), IsSeq(es)
  PROVE  /\ IsExtension(j.entries, j.entries)
         /\ IsExtension(AppendRecord(j, r, es).entries, j.entries)
         /\ \A f \in AppendFailures :
              IsExtension(FailedAppend(j, f, r, es).entries, j.entries)
<1>1. IsExtension(j.entries, j.entries)
  <2>1. IsSeq(<<>>) /\ j.entries = j.entries \o <<>>
    BY ShortSequences DEF IsSeq
  <2> QED
    BY <2>1 DEF IsExtension
<1>2. IsExtension(AppendRecord(j, r, es).entries, j.entries)
  BY AppendRecordFacts DEF IsExtension
<1>3. [j EXCEPT !.torn = TRUE].entries = j.entries
  OBVIOUS
<1>4. ASSUME NEW f \in AppendFailures
      PROVE  IsExtension(FailedAppend(j, f, r, es).entries, j.entries)
  <2>1. CASE f = "nothing_written"
    BY <1>1, <2>1 DEF FailedAppend
  <2>2. CASE f = "torn"
    <3>1. FailedAppend(j, f, r, es).entries = j.entries
      BY <1>3, <2>2 DEF FailedAppend
    <3> QED
      BY <1>1, <3>1
  <2>3. CASE f = "unsynced"
    BY <1>2, <2>3 DEF FailedAppend
  <2> QED
    BY <2>1, <2>2, <2>3 DEF AppendFailures
<1> QED
  BY <1>1, <1>2, <1>4

\* Adding answers changes none.
LEMMA AnsweredGrows ==
  ASSUME NEW cs, receipts' = Answered(cs)
  PROVE  \A m \in DOMAIN receipts : m \in DOMAIN receipts' /\ receipts'[m] = receipts[m]
  BY DEF Answered

\* Every step only adds to the journal and to the answers.
LEMMA NextGrows ==
  ASSUME TypeOK, [Next]_vars
  PROVE  Grows
<1>0. IsSeq(journal.entries) /\ state \in SessionStates
  BY DEF TypeOK, Journals, IsSeq
<1>s. IsExtension(journal.entries, journal.entries)
  BY <1>0, AppendGrows, ShortSequences
<1>t. TruncateTail(journal).entries = journal.entries
  BY DEF TruncateTail
<1>b. IsSeq(BootstrapEvents)
  BY ShortSequences, Zenon DEF BootstrapEvents
<1>c. ASSUME NEW candidate, NEW r, NEW es, IsSeq(es), Commit(candidate, r, es)
      PROVE  Grows
  <2>1. CASE \E code : Reject(r.message_id, code)
    BY <1>s, <2>1 DEF Reject, Answer, Grows
  <2>2. CASE CommitAppended(candidate, r, es)
    <3>1. journal' = AppendRecord(journal, r, es) /\ receipts' = Answered(accepted')
      BY <2>2 DEF CommitAppended
    <3>2. IsExtension(journal'.entries, journal.entries)
      BY <1>0, <1>c, <3>1, AppendGrows
    <3> QED
      BY <3>1, <3>2, AnsweredGrows DEF Grows
  <2>3. CASE CommitFails(r, es) \/ CommitCrashes(r, es)
    <3>1. PICK f \in AppendFailures : journal' = FailedAppend(journal, f, r, es)
      BY <2>3, HostAssumption DEF CommitFails, CommitCrashes
    <3>2. receipts' = receipts
      BY <2>3 DEF CommitFails, CommitCrashes, Answer
    <3>3. IsExtension(journal'.entries, journal.entries)
      BY <1>0, <1>c, <3>1, AppendGrows
    <3> QED
      BY <3>2, <3>3 DEF Grows
  <2> QED
    BY <1>c, <2>1, <2>2, <2>3 DEF Commit
<1>a. ASSUME NEW r, NEW engine, Accept(r, engine) PROVE Grows
  <2>1. CASE \E code : Reject(r.message_id, code)
    BY <1>s, <2>1 DEF Reject, Answer, Grows
  <2>2. CASE \E candidate, event : Commit(candidate, r, <<event>>)
    <3>1. PICK candidate, event : Commit(candidate, r, <<event>>)
      BY <2>2
    <3>2. IsSeq(<<event>>)
      BY ShortSequences, Zenon
    <3> QED
      BY <1>c, <3>1, <3>2
  <2> QED
    BY <1>a, <2>1, <2>2 DEF Accept
<1>1. CASE StartEmpty
  <2>1. /\ journal' = AppendRecord(TruncateTail(journal), BootstrapRequest, BootstrapEvents)
        /\ \E cs : receipts' = Answered(cs)
    BY <1>1 DEF StartEmpty, Serve
  <2>2. IsExtension(journal'.entries, TruncateTail(journal).entries)
    BY <1>0, <1>b, <1>t, <2>1, AppendGrows
  <2> QED
    BY <1>t, <2>1, <2>2, AnsweredGrows DEF Grows
<1>2. CASE StartEmptyFails
  <2>1. PICK f \in AppendFailures :
          journal' = FailedAppend(TruncateTail(journal), f, BootstrapRequest, BootstrapEvents)
    BY <1>2 DEF StartEmptyFails
  <2>2. IsExtension(journal'.entries, TruncateTail(journal).entries)
    BY <1>0, <1>b, <1>t, <2>1, AppendGrows
  <2>3. receipts' = receipts
    BY <1>2 DEF StartEmptyFails, history
  <2> QED
    BY <1>t, <2>2, <2>3 DEF Grows
<1>3. CASE StartRecovered
  <2>1. journal'.entries = journal.entries /\ \E cs : receipts' = Answered(cs)
    BY <1>3, <1>t DEF StartRecovered, Serve
  <2> QED
    BY <1>s, <2>1, AnsweredGrows DEF Grows
<1>4. CASE StartRefused
  BY <1>4, <1>s DEF StartRefused, history, Grows
<1>5. CASE Crash
  BY <1>5, <1>s DEF Crash, history, Grows
<1>6. ASSUME NEW p \in Participants, NEW m \in ClientMessageIds, JoinAgain(p, m)
      PROVE  Grows
  BY <1>6, <1>s DEF JoinAgain, Answer, Grows
<1>7. ASSUME NEW p \in Participants, NEW m \in ClientMessageIds, NEW blank \in BOOLEAN,
             Join(p, m, blank)
      PROVE  Grows
  BY <1>7, <1>a DEF Join
<1>8. ASSUME NEW r \in ClientRequests, SubmitKnown(r) PROVE Grows
  BY <1>8, <1>s DEF SubmitKnown, Answer, Grows
<1>9. ASSUME NEW r \in ClientRequests, SubmitConflict(r) PROVE Grows
  BY <1>9, <1>s DEF SubmitConflict, Reject, Answer, Grows
<1>10. ASSUME NEW r \in ClientRequests, SubmitAutoStart(r) PROVE Grows
  <2>1. CASE \E code : Reject(r.message_id, code)
    BY <1>s, <2>1 DEF Reject, Answer, Grows
  <2>2. CASE \E candidate, a, b : Commit(candidate, r, <<a, b>>)
    <3>1. PICK candidate, a, b : Commit(candidate, r, <<a, b>>)
      BY <2>2
    <3>2. IsSeq(<<a, b>>)
      BY ShortSequences, Zenon
    <3> QED
      BY <1>c, <3>1, <3>2
  <2> QED
    BY <1>10, <2>1, <2>2 DEF SubmitAutoStart
<1>11. ASSUME NEW r \in ClientRequests, SubmitDirect(r) PROVE Grows
  BY <1>11, <1>a DEF SubmitDirect
<1>12. CASE UNCHANGED vars
  BY <1>12, <1>s DEF vars, history, Grows
<1> QED
  BY <1>1, <1>2, <1>3, <1>4, <1>5, <1>6, <1>7, <1>8, <1>9, <1>10, <1>11, <1>12
     DEF Next, Start, Submit

\* A longer journal's log begins with the shorter one's.
LEMMA ExtendedLog ==
  ASSUME NEW old \in Seq(Entries), NEW new \in Seq(Entries), IsExtension(new, old)
  PROVE  LET log == LoadedEvents(old)
             long == LoadedEvents(new)
         IN  /\ log \in Seq(SessionEvents) /\ long \in Seq(SessionEvents)
             /\ Len(log) <= Len(long)
             /\ SubSeq(long, 1, Len(log)) = log
             /\ Len(log) = Len(long) => long = log
<1> DEFINE log == LoadedEvents(old)
           long == LoadedEvents(new)
<1>1. PICK ext : IsSeq(ext) /\ new = old \o ext
  BY DEF IsExtension
<1>2. IsSeq(old)
  BY DEF IsSeq
<1>3. /\ Len(old) \in Nat /\ Len(ext) \in Nat /\ Len(new) = Len(old) + Len(ext)
      /\ \A i \in 1..Len(old) : new[i] = old[i]
  BY <1>1, <1>2, ConcatFacts
<1>4. /\ log \in Seq(SessionEvents) /\ Len(log) = Len(old)
      /\ \A i \in 1..Len(old) : log[i] = old[i].event
  BY ParsedEntries, LoadedEventsType
<1>5. /\ long \in Seq(SessionEvents) /\ Len(long) = Len(new)
      /\ \A i \in 1..Len(new) : long[i] = new[i].event
  BY ParsedEntries, LoadedEventsType
<1> HIDE DEF log, long
<1>6. \A i \in 1..Len(log) : long[i] = log[i]
  <2> TAKE i \in 1..Len(log)
  <2>1. i \in 1..Len(old) /\ i \in 1..Len(new)
    BY <1>3, <1>4
  <2> QED
    BY <1>3, <1>4, <1>5, <2>1
<1>7. Len(log) <= Len(long)
  BY <1>3, <1>4, <1>5
<1> DEFINE s == SubSeq(long, 1, Len(log))
<1>8. s \in Seq(SessionEvents) /\ Len(s) = Len(log) /\ \A i \in 1..Len(log) : s[i] = long[i]
  BY <1>4, <1>5, <1>7
<1> HIDE DEF s
<1>9. s = log
  BY <1>4, <1>6, <1>8, SeqEqual
<1>10. Len(log) = Len(long) => long = log
  BY <1>4, <1>5, <1>6, SeqEqual
<1> QED
  BY <1>4, <1>5, <1>7, <1>9, <1>10 DEF s, log, long

\* The answers given are segments of the log.
LEMMA AnswersAreSegments ==
  ASSUME DurableInv
  PROVE  /\ Canonical!IsValidLog(LoadedEvents(journal.entries))
         /\ \A m \in DOMAIN receipts :
              Canonical!IsSegment(receipts[m], LoadedEvents(journal.entries))
<1> DEFINE entries == journal.entries
           log == LoadedEvents(entries)
<1>1. /\ SoundEntries(entries) /\ EventLogValid(log)
      /\ \A m \in DOMAIN receipts :
           m \in DOMAIN LoadedCommands(entries)
             /\ LoadedCommands(entries)[m].events = receipts[m]
  BY DEF DurableInv, SoundEntries, Recovers
<1>2. Canonical!IsValidLog(log)
  BY <1>1 DEF EventLogValid, Canonical!IsValidLog
<1>3. log \in Seq(SessionEvents)
  BY <1>1, SoundReplay
<1> HIDE DEF log, entries
<1>4. ASSUME NEW m \in DOMAIN receipts PROVE Canonical!IsSegment(receipts[m], log)
  <2> DEFINE es == receipts[m]
  <2>1. IsLineOf(log, m, es)
    BY <1>1, LoadedLine DEF log
  <2> HIDE DEF es
  <2>2. PICK h \in 1..Len(log), k \in 1..Len(log) :
          /\ h <= k /\ es \in Seq(SessionEvents) /\ Len(es) = k - h + 1
          /\ \A i \in 1..Len(es) : es[i] = log[h + i - 1]
    BY <1>3, <2>1 DEF IsLineOf
  <2>3. h - 1 \in 0..Len(log) /\ (h - 1) + Len(es) <= Len(log)
    BY <1>3, <2>2
  <2>4. \A i \in DOMAIN es : log[(h - 1) + i] = es[i]
    <3> TAKE i \in DOMAIN es
    <3>1. i \in 1..Len(es) /\ (h - 1) + i = h + i - 1
      BY <2>2
    <3> QED
      BY <2>2, <3>1
  <2>5. Canonical!IsSegment(es, log)
    BY <2>3, <2>4 DEF Canonical!IsSegment
  <2> QED
    BY <2>5 DEF es
<1> QED
  BY <1>2, <1>4 DEF log, entries

\* Every step of the host is a step of the abstract log, or leaves it alone.
LEMMA StepRefines ==
  ASSUME CleanInv, CleanInv', [Next]_vars
  PROVE  [Canonical!Next]_<<LoadedEvents(journal.entries), receipts>>
<1> DEFINE log == LoadedEvents(journal.entries)
           long == LoadedEvents(journal'.entries)
<1>1. Grows /\ DurableInv /\ DurableInv'
  BY NextGrows DEF CleanInv
<1>2. /\ journal.entries \in Seq(Entries) /\ journal'.entries \in Seq(Entries)
      /\ IsExtension(journal'.entries, journal.entries)
  BY <1>1 DEF DurableInv, SoundEntries, Grows
<1>3. /\ log \in Seq(SessionEvents) /\ long \in Seq(SessionEvents)
      /\ Len(log) <= Len(long)
      /\ SubSeq(long, 1, Len(log)) = log
      /\ Len(log) = Len(long) => long = log
  BY <1>2, ExtendedLog
<1>4. /\ Canonical!IsValidLog(long)
      /\ \A m \in DOMAIN receipts' : Canonical!IsSegment(receipts'[m], long)
  <2>1. (/\ Canonical!IsValidLog(LoadedEvents(journal.entries))
         /\ \A m \in DOMAIN receipts :
              Canonical!IsSegment(receipts[m], LoadedEvents(journal.entries)))'
    BY <1>1, AnswersAreSegments, PTL
  <2> QED
    BY <2>1 DEF Canonical!IsValidLog, Canonical!IsSegment
<1>5. \A m \in DOMAIN receipts : m \in DOMAIN receipts' /\ receipts'[m] = receipts[m]
  BY <1>1 DEF Grows
<1>6. Canonical!AnswersGrow
  BY <1>4, <1>5 DEF Canonical!AnswersGrow
<1>7. CASE Len(log) = Len(long)
  <2>1. Canonical!Reveal
    BY <1>3, <1>6, <1>7 DEF Canonical!Reveal
  <2> QED
    BY <2>1 DEF Canonical!Next
<1>8. CASE Len(log) < Len(long)
  <2>1. Canonical!Publish
    BY <1>3, <1>4, <1>6, <1>8 DEF Canonical!Publish
  <2> QED
    BY <2>1 DEF Canonical!Next
<1> QED
  BY <1>3, <1>7, <1>8

\* The host implements the abstract log: what is durable only grows, in valid whole
\* batches, and answers are final and part of it, through crashes and restarts.
THEOREM HostImplementsCanonicalLog ==
  ASSUME CleanFailures, LegacyLogsSound
  PROVE  Spec => ImplementsCanonicalLog
<1>1. Init => Canonical!Init
  <2> SUFFICES ASSUME Init PROVE Canonical!Init
    OBVIOUS
  <2>1. DurableInv /\ receipts = <<>>
    BY InitCleanInv DEF CleanInv, Init
  <2> QED
    BY <2>1, AnswersAreSegments DEF Canonical!Init
<1>2. CleanInv /\ CleanInv' /\ [Next]_vars
        => [Canonical!Next]_<<LoadedEvents(journal.entries), receipts>>
  BY StepRefines
<1>3. Spec => []CleanInv
  BY CleanInvariant
<1> QED
  BY <1>1, <1>2, <1>3, PTL DEF Spec, ImplementsCanonicalLog, Canonical!Spec

=============================================================================
