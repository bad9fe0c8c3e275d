------------------------------- MODULE MCHost -------------------------------
(* A host, one other participant and a toggle as the activity. *)
EXTENDS Host

\* The toggle accepts "flip" and refuses "bad".
MCPayloads == {"flip", "bad"}
MCAccepts(actor, st, c) == c = "flip"
MCResult(actor, st, c) == 1 - st

\* "auto-start:m1" is also an id a client may choose, and so is a blank one.
MCClientMessageIds == {"m1", "m2", "auto-start:m1", " "}
MCAutoStartId(m) ==
  CASE m = "m1" -> "auto-start:m1"
    [] m = "auto-start:m1" -> "auto-start:auto-start:m1"
    [] m = "m2" -> "auto-start:m2"
    [] m = " " -> "auto-start: "
MCMessageIds ==
  {"bootstrap"} \cup MCClientMessageIds
    \cup {MCAutoStartId(m) : m \in MCClientMessageIds}

\* No journal, or one v0.2.0 left behind: the session and one join, and perhaps
\* a hand-over and back, which leaves room for one event and not for two.
MCLegacyLogs ==
  LET Event(n, m, actor, kind) ==
        [event_id |-> <<m, 0>>, sequence |-> n, causation_id |-> m, actor |-> actor,
         kind |-> kind]
      HandOver(from, to) ==
        [type |-> "authority_transferred", from |-> from, to |-> to]
      p == CHOOSE p \in Participants : p # HostId
      joined ==
        <<Event(1, "bootstrap", HostId, [type |-> "session_created", creator |-> HostId]),
          Event(2, "m1", p, [type |-> "participant_joined", participant |-> p])>>
  IN  {<<>>, joined,
       joined \o <<Event(3, "m2", HostId, HandOver(HostId, p)),
                   Event(4, "auto-start:m1", p, HandOver(p, HostId))>>}

ASSUME MCLegacyLogsSound == LegacyLogsSound

\* No action reads the last reply, so states that differ in it only are one.  No
\* action reads the refusals of a blank id either, and no journal that has a line
\* under it recovers.
MCView ==
  <<status, journal, snapshot, memory, published, receipts, refused \ BlankIds, faults>>

\* What the surviving-failure run looks at: no action reads the snapshot or the
\* other history variables either.
MCFaultView == <<status, journal, memory, published, faults>>

=============================================================================
