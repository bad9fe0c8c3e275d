--------------------------- MODULE CounterActivity ---------------------------
(***************************************************************************)
(* The counter activity (crate sytog-demo-counter), the engine of the      *)
(* CLI's session demo, as the operators the runtime's Engine* constants    *)
(* stand for.  The activity's state is the i64 `counter` itself.           *)
(***************************************************************************)
EXTENDS Integers

CONSTANT MaxI64   \* i64::MAX; small here, so that the counter reaches it

ASSUME MaxI64Assumption == MaxI64 \in Nat \ {0}

I64 == -(MaxI64 + 1)..MaxI64

\* "unknown" stands for another command_type, "invalid" for a payload that does
\* not parse as a CounterCommand.
CounterCommands ==
  [type : {"increment"}, amount : I64] \cup [type : {"unknown", "invalid"}]

CounterInitialState == 0

\* Mutant: any increment that fits is taken, negative ones too.
MutAnyAmount(counter, c) ==
  c.type = "increment" /\ counter + c.amount \in I64

\* The command is an increment by a positive amount and checked_add succeeds.
CanIncrement(counter, c) ==
  /\ c.type = "increment"
  /\ c.amount > 0
  /\ counter + c.amount <= MaxI64

CounterAccepts(actor, counter, c) == CanIncrement(counter, c)

CounterResult(actor, counter, c) == counter + c.amount

=============================================================================
