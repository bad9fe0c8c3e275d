---------------------------- MODULE Capabilities ----------------------------
(***************************************************************************)
(* Capability offers and deterministic matching (crate sytog-capabilities) *)
(* as operators: validation of a job and of a list of nodes, evaluation of *)
(* one offer, and the ranking of all.                                      *)
(*                                                                         *)
(* Node and offer ids are numbers ordered as the strings are; 0 is a blank *)
(* id, and the None of a result without an offer, which sorts first.       *)
(* Models, languages and architectures are members of small sets.  Of a    *)
(* result's reasons only their codes are kept, in a set.  Scores are exact *)
(* fractions, rounded to ten-thousandths as round_score does, and given in *)
(* ten-thousandths; the three rounded parts of a ScoreBreakdown, which     *)
(* order nothing, are left out, and so are the hardware inventory and the  *)
(* throughput of an observation, which no function reads.                  *)
(***************************************************************************)
EXTENDS Integers, Sequences, FiniteSets, FiniteSetsExt

CONSTANT NoText   \* None of an Option<String>

-----------------------------------------------------------------------------
\* Validation.

\* JobRequirement::validate; "" is every blank text, and minimum the context
\* or the number of cores the requirement asks for.
ValidJob(job) ==
  /\ job.capability # "" /\ job.requester_id # "" /\ job.requester_network # ""
  /\ job.workload_profile # ""
  /\ job.requirement.minimum > 0

OfferIds(node) == {node.capabilities[i].id : i \in DOMAIN node.capabilities}

\* NodeOffer::validate.
ValidNode(node) ==
  /\ node.node_id # 0 /\ node.network # ""
  /\ \A i \in DOMAIN node.capabilities :
       LET offer == node.capabilities[i] IN
       /\ offer.id # 0 /\ offer.name # "" /\ offer.implementation # ""
       /\ offer.concurrency # 0
       /\ \A j \in DOMAIN node.capabilities :
            node.capabilities[j].id = offer.id => j = i
  /\ \A i \in DOMAIN node.observations :
       node.observations[i].capability_offer_id \in OfferIds(node)
  /\ DOMAIN node.active_jobs \subseteq OfferIds(node)

\* Mutant: node ids may repeat.
MutNodeIdsMayRepeat(nodes) == \A i \in DOMAIN nodes : ValidNode(nodes[i])

\* validate_nodes.
ValidNodes(nodes) ==
  /\ \A i \in DOMAIN nodes : ValidNode(nodes[i])
  /\ \A i, j \in DOMAIN nodes : nodes[i].node_id = nodes[j].node_id => i = j

-----------------------------------------------------------------------------
\* One offer.

\* The codes of the conditions that hold, from a set of <<code, condition>>.
Codes(checks) == {c[1] : c \in {d \in checks : d[2]}}

\* check_llm_contract and check_cpu_contract; the limit of a CPU contract is
\* its number of logical cores.
ContractRejections(required, declared) ==
  CASE required.kind # declared.kind -> {"contract_kind_mismatch"}
    [] required.kind = "llm_inference" /\ declared.kind = "llm_inference" ->
         Codes({<<"model_unavailable",
                  required.model \notin declared.models \cup {NoText}>>,
                <<"context_too_small", declared.limit < required.minimum>>,
                <<"language_unsupported",
                  required.language \notin declared.languages \cup {NoText}>>,
                <<"streaming_unsupported",
                  required.streaming_required /\ ~declared.supports_streaming>>})
    [] required.kind = "cpu_compute" /\ declared.kind = "cpu_compute" ->
         Codes({<<"architecture_unsupported",
                  required.architecture \notin declared.architectures \cup {NoText}>>,
                <<"cores_insufficient", declared.limit < required.minimum>>,
                <<"wasm_unsupported",
                  required.wasm_required /\ ~declared.supports_wasm>>})

\* check_policy.  An empty list of requesters admits everybody.
PolicyRejections(job, node) ==
  LET policy == node.policy IN
  Codes({<<"policy_capability_forbidden",
           job.capability \notin policy.allowed_capabilities>>,
         <<"policy_requester_forbidden",
           /\ policy.allowed_requesters # {}
           /\ job.requester_id \notin policy.allowed_requesters>>,
         <<"policy_locality_forbidden",
           /\ job.local_network_only \/ policy.local_network_only
           /\ job.requester_network # node.network>>,
         <<"consent_required",
           policy.manual_consent_required /\ ~policy.consent_granted>>,
         <<"policy_memory_limit", job.estimated_memory > policy.max_memory>>})

ActiveJobs(node, offer) ==
  IF offer.id \in DOMAIN node.active_jobs THEN node.active_jobs[offer.id] ELSE 0

Unavailabilities(job, node, offer) ==
  Codes({<<"offline", ~node.online>>,
         <<"saturated", ActiveJobs(node, offer) >= offer.concurrency>>,
         <<"memory_unavailable", node.available_memory < job.estimated_memory>>})

\* Mutant: observations of every offer of the node count.
MutObservationsOfNode(job, node, offer) ==
  {i \in DOMAIN node.observations :
     \/ job.workload_profile = NoText
     \/ node.observations[i].workload_profile = job.workload_profile}

\* The observations that count for the job: of this offer and, when the job
\* names a workload profile, of that profile (matches_workload_profile).
Relevant(job, node, offer) ==
  {i \in DOMAIN node.observations :
     /\ node.observations[i].capability_offer_id = offer.id
     /\ \/ job.workload_profile = NoText
        \/ node.observations[i].workload_profile = job.workload_profile}

\* The fraction n/d.
Fraction(n, d) == [n |-> n, d |-> d]

Half == Fraction(1, 2)

\* 1 / (1 + ms/1000).
LatencyScore(ms) == Fraction(1000, 1000 + ms)

ContractHeadroom(required, declared) ==
  Fraction(IF declared.limit > required.minimum
           THEN declared.limit - required.minimum ELSE 0,
           IF declared.limit > 1 THEN declared.limit ELSE 1)

\* round_score(0.4 success_rate + 0.35 latency_score + 0.25 contract_headroom),
\* in ten-thousandths; rounding is to the nearest, halves up.
FinalScore(job, node, offer) ==
  LET relevant == Relevant(job, node, offer)
      good     == {i \in relevant : node.observations[i].successful}
      rate     == IF relevant = {} THEN Half
                  ELSE Fraction(Cardinality(good), Cardinality(relevant))
      latency  == IF good = {} THEN Half
                  ELSE LatencyScore(Min({node.observations[i].latency_ms : i \in good}))
      headroom == ContractHeadroom(job.requirement, offer.contract)
      d        == rate.d * latency.d * headroom.d
      n        == 4000 * rate.n * latency.d * headroom.d
                  + 3500 * latency.n * rate.d * headroom.d
                  + 2500 * headroom.n * rate.d * latency.d
  IN  (2 * n + d) \div (2 * d)

NoScore == -1

Result(node, offerId, status, score, reasons) ==
  [node_id |-> node.node_id, capability_offer_id |-> offerId, status |-> status,
   score |-> score, reasons |-> reasons]

\* Mutant: availability is looked at first.
MutAvailabilityFirst(job, node, offer) ==
  LET rejected    == ContractRejections(job.requirement, offer.contract)
                     \cup PolicyRejections(job, node)
      unavailable == Unavailabilities(job, node, offer)
  IN  IF unavailable # {}
      THEN Result(node, offer.id, "unavailable", NoScore, unavailable)
      ELSE IF rejected # {}
      THEN Result(node, offer.id, "rejected", NoScore, rejected)
      ELSE Result(node, offer.id, "compatible", FinalScore(job, node, offer), {})

\* evaluate.
Evaluate(job, node, offer) ==
  LET rejected    == ContractRejections(job.requirement, offer.contract)
                     \cup PolicyRejections(job, node)
      unavailable == Unavailabilities(job, node, offer)
  IN  IF rejected # {}
      THEN Result(node, offer.id, "rejected", NoScore, rejected)
      ELSE IF unavailable # {}
      THEN Result(node, offer.id, "unavailable", NoScore, unavailable)
      ELSE Result(node, offer.id, "compatible", FinalScore(job, node, offer),
                  {"contract_compatible", "policy_allows", "currently_available"})

-----------------------------------------------------------------------------
\* The ranking.

StatusOrder(status) ==
  CASE status = "compatible" -> 0 [] status = "unavailable" -> 1 [] OTHER -> 2

\* compare_results(left, right) is Ordering::Less: by status, then the higher
\* score, then the lower node id and offer id.
Precedes(left, right) ==
  IF StatusOrder(left.status) # StatusOrder(right.status)
  THEN StatusOrder(left.status) < StatusOrder(right.status)
  ELSE IF left.score # right.score THEN left.score > right.score
  ELSE IF left.node_id # right.node_id THEN left.node_id < right.node_id
  ELSE left.capability_offer_id < right.capability_offer_id

\* The offers of the requested capability, or 0, the None of a node without one.
OfferPlaces(job, node) ==
  LET offers == {o \in DOMAIN node.capabilities :
                   node.capabilities[o].name = job.capability}
  IN  IF offers = {} THEN {0} ELSE offers

\* The places results come from, in the order of the documents: of a node and an
\* offer.
Places(job, nodes) == UNION {{k} \X OfferPlaces(job, nodes[k]) : k \in DOMAIN nodes}

IsEarlier(p, q) == p[1] < q[1] \/ (p[1] = q[1] /\ p[2] < q[2])

\* evaluate, or missing_capability.
ResultAt(job, nodes, p) ==
  IF p[2] = 0
  THEN Result(nodes[p[1]], 0, "rejected", NoScore, {"capability_missing"})
  ELSE Evaluate(job, nodes[p[1]], nodes[p[1]].capabilities[p[2]])

\* sort_by(compare_results), which is stable: a result stands behind those that
\* precede it and behind the earlier ones that compare equal.
IsBefore(result, p, q) ==
  \/ Precedes(result[p], result[q])
  \/ ~Precedes(result[q], result[p]) /\ IsEarlier(p, q)

\* rank.
Rank(job, nodes) ==
  LET places == Places(job, nodes)
      result == [p \in places |-> ResultAt(job, nodes, p)]
      rankOf == [p \in places |-> 1 + Cardinality({q \in places : IsBefore(result, q, p)})]
  IN  [n \in 1..Cardinality(places) |-> result[CHOOSE p \in places : rankOf[p] = n]]

=============================================================================
