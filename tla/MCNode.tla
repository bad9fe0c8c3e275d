------------------------------- MODULE MCNode -------------------------------
(* A host and interactive clients for TLC; the activity is a toggle. *)
EXTENDS Node, TLC

MCAccepts(actor, st, c) == c = "flip"
MCResult(actor, st, c) == 1 - st

MCJoinId(c) == <<"join", c>>
MCCommandId(c, n) == <<"command", c, n>>
MCAutoStartId(m) == <<"auto-start", m>>
MCClientMessageIds ==
  {MCJoinId(c) : c \in Clients} \cup {MCCommandId(c, n) : c \in Clients, n \in U64}
MCMessageIds ==
  {<<"bootstrap">>} \cup MCClientMessageIds
    \cup {MCAutoStartId(m) : m \in MCClientMessageIds}
MCBootstrapId == <<"bootstrap">>

MCNoJournal == {<<>>}

\* A v0.2.0 journal: the session was created and every client had joined.
MCLegacyJournal ==
  LET Request(m, actor, n, type) ==
        [message_id |-> m, actor |-> actor, expected_revision |-> n,
         command |-> [type |-> type, blank |-> FALSE]]
      created == DecidedEvent(Uninitialized,
                   Request(MCBootstrapId, HostId, 0, "create_session"))
      c       == CHOOSE c \in SnapshotClients : TRUE
      joined  == DecidedEvent(Apply(Uninitialized, created),
                   Request(MCJoinId(c), c, 1, "join"))
  IN  {<<created, joined>>}

\* The instances satisfy the hypotheses of the theorems about hosts and nodes.
ASSUME MCHypotheses == CleanFailures /\ LegacyLogsSound

MCSymmetry == Permutations(Clients)

\* No action reads these history variables or the snapshot.
MCView == <<status, journal, memory, faults, net>>

=============================================================================
