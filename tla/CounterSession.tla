--------------------------- MODULE CounterSession ---------------------------
(***************************************************************************)
(* A session whose activity engine is the counter: the composition the     *)
(* CLI's `demo session` drives through execute.                            *)
(***************************************************************************)
EXTENDS Session, CounterActivity

\* The runtime's engine is the counter.
ASSUME CounterEngineAssumption ==
  /\ ActivityStates = I64
  /\ ActivityPayloads = CounterCommands
  /\ EngineInitialState = CounterInitialState
  /\ \A p \in Participants, counter \in I64, c \in CounterCommands :
       EngineAccepts(p, counter, c) =>
         /\ CounterAccepts(p, counter, c)
         /\ EngineResult(p, counter, c) = CounterResult(p, counter, c)

\* The indexes up to i of a log that set the counter, and what they set it to.
CounterEvents(l, i) ==
  {j \in 1..i : l[j].kind.type \in {"activity_started", "activity"}}

CounterSet(k) == IF k.type = "activity_started" THEN 0 ELSE k.resulting_state

\* Along the events of one activity the counter only climbs, from the engine's
\* initial state and never past i64::MAX: an increment that would overflow is
\* refused as a whole, nothing of an earlier activity's counter survives a stop
\* and a start, and no event is recorded for an increment of nothing or less.
CounterOnlyClimbs ==
  \A i \in DOMAIN log :
    log[i].kind.type = "activity" =>
      LET before == CounterSet(log[Latest(CounterEvents(log, i - 1))].kind)
      IN  log[i].kind.resulting_state \in (before + 1)..MaxI64

=============================================================================
