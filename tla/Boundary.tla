------------------------------ MODULE Boundary ------------------------------
(***************************************************************************)
(* The documents that cross the program's boundary: a message that is      *)
(* wrapped, sent and decoded at the other end (sytog-transport), a frame   *)
(* somebody else wrote, and a job with a list of nodes, which the command  *)
(* line and the browser facade validate and rank.                          *)
(*                                                                         *)
(* The V2 vocabulary is complete in the source and not yet spoken by host  *)
(* or client, which decode V1 only; both kinds of receiver are here.       *)
(***************************************************************************)
EXTENDS Wire, Capabilities, SequencesExt

CONSTANTS
  OutgoingMessages,  \* families of [version, ids, message] somebody sends
  ForeignFrames,     \* envelopes that were not made by this program
  MatchRequests,     \* families of [job, nodes] files
  Probes             \* observations that could be added to a node

\* A message somebody sends is a value of NetworkMessage or NetworkMessageV2.
ASSUME OutgoingAssumption ==
  \A i \in DOMAIN OutgoingMessages : \A d \in OutgoingMessages[i] :
    /\ DOMAIN d = {"version", "ids", "message"}
    /\ DOMAIN d.ids = {"message_id", "session_id", "sender_id"}
    /\ \/ d.version = 1 /\ IsMessage(FieldsV1, d.message)
       \/ d.version = 2 /\ IsMessage(FieldsV2, d.message)

\* A frame of another program is an Envelope whose payload may have any type and
\* any fields, but numbers where the bounds of a V2 message are about numbers
\* (serde_json refuses anything else).
ASSUME ForeignAssumption ==
  \A e \in ForeignFrames :
    /\ DOMAIN e = {"family", "version", "message_id", "session_id", "sender_id",
                   "message_type", "payload"}
    /\ TypedValues(e.payload)

\* A file that parses has the fields of JobRequirement and NodeOffer, with lists
\* and unsigned numbers; ids are numbers too (see Capabilities).
ASSUME RequestAssumption ==
  \A i \in DOMAIN MatchRequests : \A r \in MatchRequests[i] :
    /\ r.job.estimated_memory \in Nat /\ r.job.requirement.minimum \in Nat
    /\ r.nodes \in Seq(Range(r.nodes))
    /\ \A k \in DOMAIN r.nodes :
         /\ DOMAIN r.nodes[k] = {"node_id", "network", "capabilities", "policy", "online",
                                "active_jobs", "available_memory", "observations"}
         /\ r.nodes[k].node_id \in Nat /\ r.nodes[k].available_memory \in Nat
         /\ r.nodes[k].capabilities \in Seq(Range(r.nodes[k].capabilities))
         /\ \A o \in DOMAIN r.nodes[k].capabilities :
              /\ r.nodes[k].capabilities[o].id \in Nat
              /\ r.nodes[k].capabilities[o].concurrency \in Nat
              /\ r.nodes[k].capabilities[o].contract.limit \in Nat
         /\ r.nodes[k].observations \in Seq(Range(r.nodes[k].observations))
         /\ \A o \in DOMAIN r.nodes[k].observations :
              r.nodes[k].observations[o].latency_ms \in Nat

\* So does an observation.
ASSUME ProbesAssumption == \A probe \in Probes : probe.latency_ms \in Nat

VARIABLES
  origin,   \* the document as it was at first
  stage,    \* how far it came
  item      \* what it is now

boundaryVars == <<origin, stage, item>>

Init ==
  /\ \/ stage = "message" /\ \E i \in DOMAIN OutgoingMessages : item \in OutgoingMessages[i]
     \/ stage = "frame"   /\ item \in ForeignFrames
     \/ stage = "request" /\ \E i \in DOMAIN MatchRequests : item \in MatchRequests[i]
  /\ origin = item

Becomes(s, i) == stage' = s /\ item' = i /\ UNCHANGED origin

\* envelope and envelope_v2; the latter refuses a message out of bounds.
Emit ==
  /\ stage = "message"
  /\ IF item.version = 2 /\ ~ValidMessageV2(item.message)
     THEN Becomes("unsendable", item)
     ELSE Becomes("frame", EnvelopeOf(item.ids, item.version, item.message))

\* decode, at the end of a host or client of today.
ReceiveV1 ==
  /\ stage = "frame"
  /\ IF Decodes(item)
     THEN Becomes("delivered", [version |-> 1, message |-> TypedV1(item.payload)])
     ELSE Becomes("refused_by_v1", item)

\* decode_versioned, at an end that speaks both.
ReceiveVersioned ==
  /\ stage = "frame"
  /\ IF DecodesVersioned(item) THEN Becomes("delivered", DecodedVersioned(item))
     ELSE Becomes("refused", item)

\* validate_capability_inputs of the command line; match_capabilities of the
\* browser facade makes the same two checks.
ValidRequest(r) == ValidJob(r.job) /\ ValidNodes(r.nodes)

\* `capability match`, `demo capabilities` and match_capabilities.
Match ==
  /\ stage = "request"
  /\ IF ValidRequest(item)
     THEN Becomes("ranked", Rank(item.job, item.nodes))
     ELSE Becomes("invalid", item)

Next == Emit \/ ReceiveV1 \/ ReceiveVersioned \/ Match

Spec == Init /\ [][Next]_boundaryVars

-----------------------------------------------------------------------------
\* Frames.

\* What arrives is what was sent.  A message that its sender could wrap is
\* delivered with its version and every field, and is refused only by an end
\* that does not speak its version or for a blank identifier; a frame from
\* elsewhere is never delivered as another version or type than it names
\* ("neither version reinterprets the other", docs/protocol/v2.md).
SentIsWhatArrives ==
  LET Sendable == "ids" \in DOMAIN origin
      BlankIds == \E f \in DOMAIN origin.ids : origin.ids[f] = Blank
  IN
  /\ stage = "delivered" =>
       IF Sendable THEN item = [version |-> origin.version, message |-> origin.message]
       ELSE item.version = origin.version /\ item.message.type = origin.message_type
  /\ stage = "refused" /\ Sendable => BlankIds
  /\ stage = "refused_by_v1" /\ Sendable => BlankIds \/ origin.version # 1

Delivered(type) ==
  stage = "delivered" /\ item.version = 2 /\ item.message.type = type

\* The page that continues p with n events more, out of the same catch-up.
NextPage(p, n) ==
  [p EXCEPT !.from_sequence = p.through_sequence + 1,
            !.through_sequence = p.through_sequence + n,
            !.snapshot_revision = NoRevision,
            !.terminal = p.through_sequence + n = p.current_sequence,
            !.events = [i \in 1..n |-> p.through_sequence + i]]

\* Two consecutive pages as one.
Joined(p, q) ==
  [p EXCEPT !.through_sequence = q.through_sequence, !.terminal = q.terminal,
            !.events = p.events \o q.events]

\* A catch-up can always be carried on page by page: a page that decode_v2 lets
\* through is terminal or is followed by valid pages up to the announced
\* current_sequence, without overflow, and what it makes with each of them is
\* again a valid page, so that no event is missing or repeated between two pages.
CatchUpPagesCompose ==
  Delivered("catch_up_page") =>
    LET p == item.message.page IN
    /\ p.terminal <=> p.current_sequence = p.through_sequence
    /\ \A n \in 1..(p.current_sequence - p.through_sequence) :
         /\ ValidPage(NextPage(p, n))
         /\ ValidPage(Joined(p, NextPage(p, n)))

\* The page that brings a client at revision r up to date.
SuffixPage(m, r, snapshot) ==
  [earliest_available_sequence |-> m.earliest_available_sequence,
   from_sequence |-> r + 1, through_sequence |-> m.current_sequence,
   current_sequence |-> m.current_sequence, snapshot_revision |-> snapshot,
   terminal |-> TRUE, events |-> [i \in 1..(m.current_sequence - r) |-> r + i]]

\* A ResyncRequired that decode_v2 lets through can be acted on: from the
\* snapshot it names, and from every cursor the retained events still reach, the
\* missing suffix is a valid page, or nothing is missing.
ResyncIsActionable ==
  Delivered("resync_required") =>
    LET m == item.message
        s == m.snapshot_revision
    IN  /\ s # NoRevision /\ s # m.current_sequence => ValidPage(SuffixPage(m, s, s))
        /\ \A r \in (m.earliest_available_sequence - 1)..(m.current_sequence - 1) :
             ValidPage(SuffixPage(m, r, NoRevision))

-----------------------------------------------------------------------------
\* Rankings.

\* The same nodes in another order, their offers and observations reversed.
Shuffled(nodes, order) ==
  [i \in DOMAIN nodes |->
     [nodes[order[i]] EXCEPT !.capabilities = Reverse(@), !.observations = Reverse(@)]]

\* The ranking of a valid document depends on what it says and not on the order
\* in which it says it (the ties that scores and statuses leave are always
\* broken), as ranking_is_deterministic_for_every_input_order expects.
RankingIgnoresOrder ==
  stage = "ranked" =>
    \A order \in Bijection(DOMAIN origin.nodes, DOMAIN origin.nodes) :
      item = Rank(origin.job, Shuffled(origin.nodes, order))

\* Every node and offer the requested job could be given to.
Candidates ==
  UNION {{<<node, offer>> : offer \in {o \in Range(node.capabilities) :
                                         o.name = origin.job.capability}}
           : node \in Range(origin.nodes)}

\* With every resource free and nothing running the node is rejected exactly if it
\* is rejected now, and for the same reasons; no observation changes its status
\* or its reasons.
OnlyPolicyRejects(job, node, offer) ==
  LET now   == Evaluate(job, node, offer)
      freed == Evaluate(job,
                 [node EXCEPT !.online = TRUE, !.active_jobs = <<>>,
                              !.available_memory = job.estimated_memory],
                 offer)
      blind == Evaluate(job, [node EXCEPT !.observations = <<>>], offer)
  IN  /\ now.status = "rejected" <=> freed.status = "rejected"
      /\ now.status = "rejected" => now.reasons = freed.reasons
      /\ freed.status # "unavailable"
      /\ blind.status = now.status /\ blind.reasons = now.reasons

\* Policy is a hard gate and observations only rank what passed it (ADR 0006),
\* for every candidate of a ranking.
PolicyIsAGate ==
  stage = "ranked" =>
    \A c \in Candidates : OnlyPolicyRejects(origin.job, c[1], c[2])

\* One more observation moves a score the right way, rounding included: a failure
\* never raises it, a success never lowers it (unless the offer has only failed
\* so far, when the first measured latency may weigh more than the success), and
\* one about another offer or another workload profile leaves it alone.
ObservationsMoveScoresTheRightWay ==
  stage = "ranked" =>
    \A c \in Candidates, probe \in Probes :
      LET node     == c[1]
          relevant == Relevant(origin.job, node, c[2])
          before   == FinalScore(origin.job, node, c[2])
          after    == FinalScore(origin.job,
                        [node EXCEPT !.observations = Append(@, probe)], c[2])
          counts   == /\ probe.capability_offer_id = c[2].id
                      /\ origin.job.workload_profile \in
                           {NoText, probe.workload_profile}
      IN  /\ ~counts => after = before
          /\ counts /\ ~probe.successful => after <= before
          /\ (/\ counts /\ probe.successful
              /\ \/ relevant = {}
                 \/ \E i \in relevant : node.observations[i].successful)
               => after >= before

=============================================================================
