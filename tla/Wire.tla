-------------------------------- MODULE Wire --------------------------------
(***************************************************************************)
(* What travels in a WebSocket frame (crates sytog-protocol and            *)
(* sytog-transport), as operators: the versioned envelope, the V1 and V2   *)
(* messages it may carry, and the bounds a V2 message must satisfy.        *)
(*                                                                         *)
(* A JSON object is a record and its keys are the record's DOMAIN, so that *)
(* serde's rules (a missing field is an error, an unknown one is ignored,  *)
(* an absent Option is None) can be stated.  An event is its sequence      *)
(* number; a text is blank or one of a few values.                         *)
(***************************************************************************)
EXTENDS Naturals, Sequences

CONSTANTS
  MaxU64,       \* u64::MAX; small here
  NoRevision    \* None of Option<u64>

ASSUME WireAssumption == MaxU64 \in Nat \ {0} /\ NoRevision \notin Nat

U64 == 0..MaxU64

Blank == ""
Family == "sytog"        \* PROTOCOL_FAMILY

ResyncReasons ==
  {"outbound_queue_full", "outbound_byte_budget_exceeded", "write_timeout",
   "catch_up_limit_exceeded", "cursor_before_retention"}

AdmissionReasons == {"server_overloaded"}

\* The message types of each version with the fields serde requires.
FieldsV1 ==
  [hello            |-> {"last_sequence"},
   join_session     |-> {"display_name"},
   submit_command   |-> {"request"},
   command_rejected |-> {"message_id", "code", "detail", "current_revision"},
   event_batch      |-> {"from_sequence", "events"},
   state_snapshot   |-> {"snapshot"},
   catch_up_request |-> {"after_sequence"}]

FieldsV2 ==
  [hello              |-> {"last_applied_sequence"},
   join_session       |-> {"display_name"},
   submit_command     |-> {"request"},
   command_rejected   |-> {"message_id", "code", "detail", "current_sequence"},
   admission_rejected |-> {"message_id", "reason", "current_sequence"},
   event_batch        |-> {"from_sequence", "through_sequence", "events"},
   state_snapshot     |-> {"snapshot"},
   catch_up_request   |-> {"after_sequence"},
   catch_up_page      |-> {"page"},
   resync_required    |-> {"reason", "earliest_available_sequence",
                           "current_sequence"}]

\* CatchUpPage with its metadata.
Pages ==
  [earliest_available_sequence : U64, from_sequence : U64, through_sequence : U64,
   current_sequence : U64, snapshot_revision : U64 \cup {NoRevision},
   terminal : BOOLEAN, events : Seq(U64)]

\* The values of the fields the V2 bounds are about, where they are present, have
\* the types that serde gives them.
TypedValues(payload) ==
  "type" \in DOMAIN payload =>
    /\ payload.type = "catch_up_page" /\ "page" \in DOMAIN payload =>
         payload.page \in Pages
    /\ payload.type = "resync_required" =>
         /\ \A f \in {"earliest_available_sequence", "current_sequence"} :
              f \in DOMAIN payload => payload[f] \in U64
         /\ "snapshot_revision" \in DOMAIN payload =>
              payload.snapshot_revision \in U64 \cup {NoRevision}

\* m is a NetworkMessage (fields = FieldsV1) or a NetworkMessageV2: a type and
\* exactly its fields, the Option of a ResyncRequired included.
IsMessage(fields, m) ==
  /\ m.type \in DOMAIN fields
  /\ m = [f \in {"type"} \cup fields[m.type]
              \cup (IF m.type = "resync_required" THEN {"snapshot_revision"} ELSE {})
            |-> m[f]]
  /\ m.type = "resync_required" => m.reason \in ResyncReasons
  /\ m.type = "admission_rejected" => m.reason \in AdmissionReasons
  /\ TypedValues(m)

-----------------------------------------------------------------------------
\* Bounds of the V2 messages.

\* Mutant: the declared end is not compared with the last event.
MutRangeEndUnchecked(from, through, es) ==
  /\ es # <<>>
  /\ \A i \in DOMAIN es : from + (i - 1) <= MaxU64 /\ es[i] = from + (i - 1)

\* validate_event_range: consecutive numbers from the declared first one to the
\* declared last one, the additions checked.
ValidEventRange(from, through, es) ==
  /\ es # <<>>
  /\ \A i \in DOMAIN es : from + (i - 1) <= MaxU64 /\ es[i] = from + (i - 1)
  /\ es[Len(es)] = through

\* CatchUpPage::validate.
ValidPage(p) ==
  /\ p.events # <<>>
  /\ p.earliest_available_sequence # 0
  /\ p.from_sequence # 0
  /\ p.from_sequence <= p.through_sequence
  /\ p.earliest_available_sequence <= p.from_sequence
  /\ p.through_sequence <= p.current_sequence
  /\ p.terminal <=> p.through_sequence = p.current_sequence
  /\ p.snapshot_revision # NoRevision =>
       /\ p.snapshot_revision < MaxU64
       /\ p.from_sequence = p.snapshot_revision + 1
  /\ ValidEventRange(p.from_sequence, p.through_sequence, p.events)

\* Mutant: a snapshot from before the retained events is let through.
MutSnapshotNeedNotBridge(m) ==
  /\ m.current_sequence < MaxU64
  /\ m.earliest_available_sequence \in 1..(m.current_sequence + 1)
  /\ m.snapshot_revision # NoRevision => m.snapshot_revision <= m.current_sequence

\* The bounds of a ResyncRequired: the retained events begin at most one after
\* the current one, and a snapshot reaches up to them.
ValidResync(m) ==
  /\ m.current_sequence < MaxU64
  /\ m.earliest_available_sequence \in 1..(m.current_sequence + 1)
  /\ m.snapshot_revision # NoRevision =>
       /\ m.snapshot_revision <= m.current_sequence
       /\ m.snapshot_revision + 1 >= m.earliest_available_sequence

\* SnapshotV0::validate.  A snapshot carries the V1 header in either version.
ValidSnapshot(s) ==
  /\ s.family = Family
  /\ s.protocol_version = 1
  /\ s.schema_version = 1
  /\ s.session_id # Blank
  /\ s.state.session_id = s.session_id
  /\ s.state.revision = s.revision

\* NetworkMessageV2::validate.
ValidMessageV2(m) ==
  CASE m.type = "event_batch" ->
         ValidEventRange(m.from_sequence, m.through_sequence, m.events)
    [] m.type = "catch_up_page" -> ValidPage(m.page)
    [] m.type = "resync_required" -> ValidResync(m)
    [] m.type = "state_snapshot" -> ValidSnapshot(m.snapshot)
    [] OTHER -> TRUE

-----------------------------------------------------------------------------
\* Envelopes.

\* Envelope::validate.
ValidEnvelope(e) ==
  /\ e.family = Family
  /\ e.version \in {1, 2}
  /\ e.message_type # Blank
  /\ e.message_id # Blank
  /\ e.session_id # Blank
  /\ e.sender_id # Blank

\* serde_json::from_value of a payload: a known type with all of its fields.
Parses(fields, payload) ==
  /\ "type" \in DOMAIN payload
  /\ payload.type \in DOMAIN fields
  /\ fields[payload.type] \subseteq DOMAIN payload

ParsesV2(payload) ==
  /\ Parses(FieldsV2, payload)
  /\ payload.type = "resync_required" => payload.reason \in ResyncReasons
  /\ payload.type = "admission_rejected" => payload.reason \in AdmissionReasons

\* The typed message: fields the type does not have are dropped.
Typed(fields, payload) ==
  [f \in {"type"} \cup fields[payload.type] |-> payload[f]]

TypedV1(payload) == Typed(FieldsV1, payload)

\* snapshot_revision of a ResyncRequired may be absent.
TypedV2(payload) ==
  IF payload.type # "resync_required" THEN Typed(FieldsV2, payload)
  ELSE [f \in {"type", "snapshot_revision"} \cup FieldsV2[payload.type] |->
          IF f \in DOMAIN payload THEN payload[f] ELSE NoRevision]

\* Mutant: the version of the envelope is not looked at.
MutDecodesAnyVersion(e) ==
  /\ ValidEnvelope(e)
  /\ Parses(FieldsV1, e.payload)
  /\ e.message_type = e.payload.type

\* decode returns a NetworkMessage.
Decodes(e) ==
  /\ ValidEnvelope(e)
  /\ e.version = 1
  /\ Parses(FieldsV1, e.payload)
  /\ e.message_type = e.payload.type

\* decode_v2 returns a NetworkMessageV2.
DecodesV2(e) ==
  /\ ValidEnvelope(e)
  /\ e.version = 2
  /\ ParsesV2(e.payload)
  /\ e.message_type = e.payload.type
  /\ ValidMessageV2(TypedV2(e.payload))

\* decode_versioned: the decoder of the envelope's version, and its message.
DecodesVersioned(e) == IF e.version = 2 THEN DecodesV2(e) ELSE Decodes(e)

DecodedVersioned(e) ==
  [version |-> e.version,
   message |-> IF e.version = 2 THEN TypedV2(e.payload) ELSE TypedV1(e.payload)]

\* The envelope that envelope (version 1) or envelope_v2 (version 2) puts around
\* a message; the payload is the serialized message.
EnvelopeOf(ids, version, m) ==
  [family |-> Family, version |-> version, message_id |-> ids.message_id,
   session_id |-> ids.session_id, sender_id |-> ids.sender_id,
   message_type |-> m.type, payload |-> m]

=============================================================================
