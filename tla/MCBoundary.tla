----------------------------- MODULE MCBoundary -----------------------------
(* Small documents for TLC: each varies a few fields of a plain one. *)
EXTENDS Boundary

\* Messages.

MCIds == [message_id : {"m", Blank}, session_id : {"s", Blank}, sender_id : {"p", Blank}]
MCPlainIds == [message_id |-> "m", session_id |-> "s", sender_id |-> "p"]

MCEvents == UNION {[1..n -> U64] : n \in 0..2}
MCRevisions == U64 \cup {NoRevision}

MCSnapshots ==
  [family : {Family, "other"}, protocol_version : {1, 2}, schema_version : {1, 2},
   session_id : {"s", Blank}, revision : {0, 1},
   state : [session_id : {"s", Blank}, revision : {0, 1}]]

MCPages ==
  [earliest_available_sequence : U64, from_sequence : U64, through_sequence : U64,
   current_sequence : U64, snapshot_revision : MCRevisions, terminal : BOOLEAN,
   events : MCEvents]

MCShared ==
  [type : {"join_session"}, display_name : {"Bob"}]
  \cup [type : {"submit_command"}, request : {"r"}]
  \cup [type : {"catch_up_request"}, after_sequence : {0, MaxU64}]
  \cup [type : {"state_snapshot"}, snapshot : MCSnapshots]

MCMessagesV1 ==
  MCShared
  \cup [type : {"hello"}, last_sequence : {0, MaxU64}]
  \cup [type : {"command_rejected"}, message_id : {"m"}, code : {"c"}, detail : {"d"},
        current_revision : {0}]
  \cup [type : {"event_batch"}, from_sequence : U64, events : {<<>>, <<1>>, <<1, 2>>}]

MCMessagesV2 ==
  MCShared
  \cup [type : {"hello"}, last_applied_sequence : {0, MaxU64}]
  \cup [type : {"command_rejected"}, message_id : {"m"}, code : {"c"}, detail : {"d"},
        current_sequence : {0}]
  \cup [type : {"admission_rejected"}, message_id : {"m"}, reason : AdmissionReasons,
        current_sequence : {0}]

MCResyncs ==
  [type : {"resync_required"}, reason : ResyncReasons,
   earliest_available_sequence : U64, current_sequence : U64,
   snapshot_revision : MCRevisions]

MCBatches ==
  [type : {"event_batch"}, from_sequence : U64, through_sequence : U64,
   events : MCEvents]

MCOutgoing ==
  <<[version : {1}, ids : {MCPlainIds}, message : MCMessagesV1],
    [version : {2}, ids : {MCPlainIds}, message : MCMessagesV2],
    [version : {2}, ids : {MCPlainIds}, message : MCResyncs],
    [version : {2}, ids : {MCPlainIds}, message : MCBatches],
    [version : {2}, ids : {MCPlainIds},
     message : [type : {"catch_up_page"}, page : MCPages]],
    [version : {1, 2}, ids : MCIds,
     message : [type : {"catch_up_request"}, after_sequence : {0}]]>>

\* Frames of other programs: wrong headers, labels, unknown and missing fields.
MCForeign ==
  [family : {Family, "other"}, version : 0..3, message_id : {"m", Blank},
   session_id : {"s"}, sender_id : {"p"},
   message_type : {"event_batch", "hello", "resync_required", Blank},
   payload :
     [type : {"event_batch"}, from_sequence : {1}, events : {<<1>>, <<2>>}]
     \cup [type : {"event_batch"}, from_sequence : {1}, through_sequence : {1},
           events : {<<1>>, <<2>>}, extra : {"x"}]
     \cup [type : {"hello"}, last_sequence : {0}, last_applied_sequence : {0}]
     \cup [type : {"hello", "unknown"}]
     \cup [last_sequence : {0}]
     \cup [type : {"resync_required"}, earliest_available_sequence : U64,
           current_sequence : U64, reason : {"write_timeout", "unknown"}]]

-----------------------------------------------------------------------------
\* Jobs and nodes.

Llm(model, minimum, language, streaming) ==
  [kind |-> "llm_inference", model |-> model, minimum |-> minimum,
   language |-> language, streaming_required |-> streaming]

Cpu(architecture, minimum, wasm) ==
  [kind |-> "cpu_compute", architecture |-> architecture, minimum |-> minimum,
   wasm_required |-> wasm]

MCJob ==
  [capability |-> "llm", requirement |-> Llm(NoText, 1, NoText, FALSE),
   workload_profile |-> NoText, local_network_only |-> FALSE,
   requester_id |-> "r1", requester_network |-> "lan", estimated_memory |-> 1]

LlmContract ==
  [kind |-> "llm_inference", models |-> {"m1"}, limit |-> 2, languages |-> {"en"},
   supports_streaming |-> FALSE]

CpuContract ==
  [kind |-> "cpu_compute", architectures |-> {"x86"}, limit |-> 2,
   supports_wasm |-> FALSE]

Offer(id, contract) ==
  [id |-> id, name |-> "llm", implementation |-> "i", contract |-> contract,
   concurrency |-> 1]

MCNode ==
  [node_id |-> 1, network |-> "lan",
   capabilities |-> <<Offer(1, LlmContract)>>,
   policy |-> [allowed_capabilities |-> {"llm"}, allowed_requesters |-> {},
               local_network_only |-> FALSE, manual_consent_required |-> FALSE,
               consent_granted |-> FALSE, max_memory |-> 2],
   online |-> TRUE, active_jobs |-> <<>>, available_memory |-> 2,
   observations |-> <<>>]

MCProbes ==
  [capability_offer_id : {1, 2}, workload_profile : {NoText, "fast"},
   successful : BOOLEAN, latency_ms : {0, 1000, 9000}]

MCOffers == <<Offer(1, LlmContract), Offer(2, LlmContract)>>

\* Policy and availability of one node.
MCPolicyRequests ==
  [job : {[MCJob EXCEPT !.local_network_only = local, !.estimated_memory = memory] :
            local \in BOOLEAN, memory \in {1, 2}},
   nodes :
     [{1} -> [node_id : {1}, network : {"lan", "wan", ""}, capabilities : {MCOffers},
              policy : [allowed_capabilities : {{"llm"}, {}},
                        allowed_requesters : {{}, {"r1"}, {"r2"}},
                        local_network_only : BOOLEAN,
                        manual_consent_required : BOOLEAN,
                        consent_granted : BOOLEAN, max_memory : {1, 2}],
              online : BOOLEAN, active_jobs : {<<>>, <<1>>, <<0, 1>>, <<0, 0, 1>>},
              available_memory : {1, 2}, observations : {<<>>}]]]

\* Contracts of one offer, invalid ones too.
MCContractRequests ==
  LET requirements ==
        {Llm(model, minimum, language, streaming) :
           model \in {NoText, "m1", "m2"}, minimum \in 0..3,
           language \in {NoText, "en", "fr"}, streaming \in BOOLEAN}
        \cup {Cpu(arch, minimum, wasm) : arch \in {NoText, "x86", "arm"},
                                         minimum \in 0..3, wasm \in BOOLEAN}
      contracts ==
        {LlmContract, [LlmContract EXCEPT !.supports_streaming = TRUE],
         [LlmContract EXCEPT !.limit = 0], CpuContract,
         [CpuContract EXCEPT !.supports_wasm = TRUE]}
  IN  [job : {[MCJob EXCEPT !.requirement = r] : r \in requirements}
             \cup {[MCJob EXCEPT !.capability = c] : c \in {"other", ""}},
       nodes : {<<[MCNode EXCEPT !.capabilities =
                     <<[Offer(id, c) EXCEPT !.concurrency = n]>>]>> :
                  c \in contracts, n \in {0, 1}, id \in {0, 1}}]

\* Observations of one node with two offers.
MCObservationRequests ==
  [job : {[MCJob EXCEPT !.workload_profile = p] : p \in {NoText, "fast", ""}},
   nodes :
     [{1} -> [node_id : {1}, network : {"lan"}, capabilities : {MCOffers},
              policy : {MCNode.policy}, online : {TRUE}, active_jobs : {<<>>},
              available_memory : {2},
              observations : UNION {[1..n -> MCProbes] : n \in 0..2}]]]

\* Two nodes, which may tie, share an id or be misdeclared.
MCPairRequests ==
  LET observed(o, good) ==
        <<[capability_offer_id |-> o, workload_profile |-> NoText,
           successful |-> good, latency_ms |-> 1000]>>
  IN  [job : {MCJob},
       nodes :
         [{1, 2} -> [node_id : {0, 1, 2}, network : {"lan"},
                     capabilities : {MCOffers, <<>>,
                                     <<Offer(1, LlmContract), Offer(1, LlmContract)>>},
                     policy : {MCNode.policy}, online : BOOLEAN, active_jobs : {<<>>},
                     available_memory : {0, 2},
                     observations : {<<>>, observed(1, TRUE), observed(2, FALSE),
                                     observed(3, TRUE)}]]]

MCRequests ==
  <<MCPolicyRequests, MCContractRequests, MCObservationRequests, MCPairRequests>>

=============================================================================
