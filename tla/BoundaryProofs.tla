--------------------------- MODULE BoundaryProofs ---------------------------
(***************************************************************************)
(* What the decoders and the matcher promise about every document, for     *)
(* every width of the sequence numbers and every set of messages, frames   *)
(* and files: pages compose, a resync can be acted on, a message arrives   *)
(* as it was sent, policy is a gate, an observation moves a score the      *)
(* right way, and a ranking depends on no order but its own.               *)
(*                                                                         *)
(* For the last one, a ranking is the list of the set of its results, each *)
(* at its standing: compare_results is a strict total order on results     *)
(* with different node and offer ids, which a valid file has, so that the  *)
(* standings are 1 to n.  A file in another order has the same set.        *)
(***************************************************************************)
EXTENDS Boundary, FiniteSetTheorems, WellFoundedInduction, TLAPS

-----------------------------------------------------------------------------
\* Pages.

\* n consecutive numbers from the first one on are a valid range.
LEMMA ConsecutiveRange ==
  ASSUME NEW first \in Nat, NEW n \in Nat, n > 0, first + n <= MaxU64 + 1,
         NEW es, es = [i \in 1..n |-> first + (i - 1)]
  PROVE  ValidEventRange(first, first + n - 1, es)
<1>1. DOMAIN es = 1..n /\ Len(es) = n /\ es \in Seq(Nat)
  OBVIOUS
<1>2. es # <<>>
  BY <1>1
<1>3. ASSUME NEW i \in DOMAIN es
      PROVE  first + (i - 1) <= MaxU64 /\ es[i] = first + (i - 1)
  BY <1>1, WireAssumption
<1>4. es[Len(es)] = first + n - 1
  BY <1>1
<1> QED
  BY <1>2, <1>3, <1>4 DEF ValidEventRange

\* A valid range has as many events as the two bounds say.
LEMMA RangeIsConsecutive ==
  ASSUME NEW from \in U64, NEW through \in U64, NEW es \in Seq(U64),
         ValidEventRange(from, through, es)
  PROVE  /\ Len(es) = through - from + 1
         /\ \A i \in 1..Len(es) : es[i] = from + (i - 1)
<1>1. Len(es) \in Nat /\ DOMAIN es = 1..Len(es) /\ Len(es) # 0
  BY DEF ValidEventRange
<1>2. \A i \in 1..Len(es) : es[i] = from + (i - 1)
  BY <1>1 DEF ValidEventRange
<1>3. from + (Len(es) - 1) = through
  BY <1>1, <1>2 DEF ValidEventRange
<1> QED
  BY <1>1, <1>2, <1>3, WireAssumption DEF U64

\* Two ranges of which one begins where the other ends make one range.
LEMMA RangesJoin ==
  ASSUME NEW from \in U64, NEW middle \in U64, NEW through \in U64,
         NEW es \in Seq(U64), NEW fs \in Seq(U64),
         ValidEventRange(from, middle, es), ValidEventRange(middle + 1, through, fs),
         middle + 1 \in U64
  PROVE  ValidEventRange(from, through, es \o fs)
<1>1. Len(es) = middle - from + 1 /\ \A i \in 1..Len(es) : es[i] = from + (i - 1)
  BY RangeIsConsecutive
<1>2. Len(fs) = through - middle /\ \A i \in 1..Len(fs) : fs[i] = middle + i
  <2>1. Len(fs) = through - (middle + 1) + 1
        /\ \A i \in 1..Len(fs) : fs[i] = middle + 1 + (i - 1)
    BY RangeIsConsecutive
  <2>2. middle \in Nat /\ through \in Nat /\ Len(fs) \in Nat
    BY WireAssumption DEF U64
  <2> QED
    BY <2>1, <2>2
<1>3. /\ es \o fs \in Seq(U64) /\ Len(es \o fs) = Len(es) + Len(fs)
      /\ DOMAIN (es \o fs) = 1..(Len(es) + Len(fs))
  OBVIOUS
<1>4. /\ Len(es) \in Nat /\ Len(fs) \in Nat /\ Len(es) # 0 /\ Len(fs) # 0
      /\ from \in Nat /\ middle \in Nat /\ through \in Nat /\ through <= MaxU64
  BY WireAssumption, SMTT(30) DEF ValidEventRange, U64
<1>5. ASSUME NEW i \in 1..(Len(es) + Len(fs))
      PROVE  (es \o fs)[i] = from + (i - 1) /\ from + (i - 1) <= MaxU64
  <2>1. CASE i <= Len(es)
    BY <2>1, <1>1, <1>2, <1>4, WireAssumption
  <2>2. CASE i > Len(es)
    <3>1. (es \o fs)[i] = fs[i - Len(es)]
      BY <2>2, <1>4
    <3>2. i - Len(es) \in 1..Len(fs)
      BY <2>2, <1>4
    <3> QED
      BY <3>1, <3>2, <1>1, <1>2, <1>4, WireAssumption
  <2> QED
    BY <2>1, <2>2, <1>4
<1>6. (es \o fs)[Len(es \o fs)] = through
  BY <1>1, <1>2, <1>3, <1>4, <1>5
<1>7. es \o fs # <<>>
  BY <1>3, <1>4
<1> QED
  BY <1>3, <1>5, <1>6, <1>7 DEF ValidEventRange


\* The bounds of the page that follows one up to t, of c in all.
LEMMA NextBounds ==
  ASSUME NEW e \in U64, NEW f \in U64, NEW t \in U64, NEW c \in U64,
         f <= t, e <= f, t <= c, NEW n \in 1..(c - t)
  PROVE  /\ n \in Nat /\ n > 0 /\ t + 1 \in U64 /\ t + n \in U64
         /\ t + n <= c /\ t + 1 <= t + n /\ t + 1 # 0 /\ e <= t + 1
         /\ t + 1 + n - 1 = t + n /\ f <= t + n
         /\ \A i \in 1..n : t + i \in U64 /\ t + i = t + 1 + (i - 1)
  BY WireAssumption DEF U64

\* A page that CatchUpPage::validate accepts can be continued by every number of
\* events that are still missing, and is then still a page.
LEMMA PagesCompose ==
  ASSUME NEW p \in Pages, ValidPage(p),
         NEW n \in 1..(p.current_sequence - p.through_sequence)
  PROVE  ValidPage(NextPage(p, n)) /\ ValidPage(Joined(p, NextPage(p, n)))
<1> DEFINE q == NextPage(p, n)
           j == Joined(p, q)
           from == p.from_sequence
           through == p.through_sequence
           last == through + n
<1>1. /\ p.earliest_available_sequence \in U64 /\ from \in U64 /\ through \in U64
      /\ p.current_sequence \in U64 /\ p.snapshot_revision \in U64 \cup {NoRevision}
      /\ p.terminal \in BOOLEAN /\ p.events \in Seq(U64)
  BY DEF Pages
<1>2. /\ p.earliest_available_sequence # 0 /\ from # 0 /\ from <= through
      /\ p.earliest_available_sequence <= from /\ through <= p.current_sequence
      /\ p.events # <<>>
      /\ ValidEventRange(from, through, p.events)
      /\ p.snapshot_revision # NoRevision =>
           p.snapshot_revision < MaxU64 /\ from = p.snapshot_revision + 1
  BY DEF ValidPage
<1>3. /\ n \in Nat /\ n > 0 /\ through + 1 \in U64 /\ last \in U64
      /\ last <= p.current_sequence /\ through + 1 <= last
      /\ through + 1 # 0 /\ p.earliest_available_sequence <= through + 1
      /\ through + 1 + n - 1 = last /\ from <= last
      /\ \A i \in 1..n : through + i \in U64 /\ through + i = through + 1 + (i - 1)
  BY <1>1, <1>2, NextBounds
<1>4. /\ q.earliest_available_sequence = p.earliest_available_sequence
      /\ q.from_sequence = through + 1 /\ q.through_sequence = last
      /\ q.current_sequence = p.current_sequence
      /\ q.snapshot_revision = NoRevision
      /\ q.terminal = (last = p.current_sequence)
      /\ q.events = [i \in 1..n |-> through + i]
  BY DEF NextPage, Pages
<1>5. q.events \in Seq(U64) /\ q.events = [i \in 1..n |-> through + 1 + (i - 1)]
  BY <1>3, <1>4
<1>6. ValidEventRange(through + 1, last, q.events)
  <2>1. through + 1 \in Nat /\ through + 1 + n <= MaxU64 + 1
    BY <1>1, <1>3, WireAssumption DEF U64
  <2>2. ValidEventRange(through + 1, through + 1 + n - 1, q.events)
    BY <2>1, <1>3, <1>5, ConsecutiveRange
  <2> QED
    BY <2>2, <1>3
<1>7. /\ j.earliest_available_sequence = p.earliest_available_sequence
      /\ j.from_sequence = from /\ j.through_sequence = last
      /\ j.current_sequence = p.current_sequence
      /\ j.snapshot_revision = p.snapshot_revision
      /\ j.terminal = q.terminal /\ j.events = p.events \o q.events
  BY <1>4 DEF Joined, Pages
<1> HIDE DEF q, j
<1>8. ValidPage(q)
  <2>1. q.events # <<>>
    BY <1>6 DEF ValidEventRange
  <2> QED
    BY <2>1, <1>1, <1>3, <1>4, <1>6 DEF ValidPage
<1>9. ValidPage(j)
  <2>1. ValidEventRange(from, last, p.events \o q.events)
    BY <1>1, <1>2, <1>3, <1>5, <1>6, RangesJoin
  <2>2. j.events # <<>>
    BY <2>1, <1>7 DEF ValidEventRange
  <2> QED
    BY <2>1, <2>2, <1>1, <1>2, <1>3, <1>4, <1>7 DEF ValidPage
<1> QED
  BY <1>8, <1>9 DEF q, j

\* The suffix from a cursor the retained events reach is a page.
LEMMA SuffixIsAPage ==
  ASSUME NEW m, m.earliest_available_sequence \in U64, m.current_sequence \in U64,
         ValidResync(m), NEW r \in Nat,
         r < m.current_sequence, m.earliest_available_sequence <= r + 1,
         NEW s \in {r, NoRevision}
  PROVE  ValidPage(SuffixPage(m, r, s))
<1> DEFINE p == SuffixPage(m, r, s)
           n == m.current_sequence - r
<1>1. /\ p.earliest_available_sequence = m.earliest_available_sequence
      /\ p.from_sequence = r + 1 /\ p.through_sequence = m.current_sequence
      /\ p.current_sequence = m.current_sequence /\ p.snapshot_revision = s
      /\ p.terminal = TRUE /\ p.events = [i \in 1..n |-> r + i]
  BY DEF SuffixPage
<1>2. /\ m.current_sequence < MaxU64 /\ m.earliest_available_sequence # 0
      /\ m.current_sequence \in Nat /\ n \in Nat /\ n > 0
  BY WireAssumption DEF ValidResync, U64
<1>3. p.events = [i \in 1..n |-> r + 1 + (i - 1)]
  <2>1. \A i \in 1..n : r + i = r + 1 + (i - 1)
    BY <1>2
  <2> QED
    BY <2>1, <1>1
<1>4. ValidEventRange(r + 1, m.current_sequence, p.events)
  <2>1. r + 1 \in Nat /\ r + 1 + n <= MaxU64 + 1 /\ r + 1 + n - 1 = m.current_sequence
    BY <1>2, WireAssumption
  <2>2. ValidEventRange(r + 1, r + 1 + n - 1, p.events)
    BY <2>1, <1>2, <1>3, ConsecutiveRange
  <2> QED
    BY <2>1, <2>2
<1>5. p.events # <<>>
  BY <1>4 DEF ValidEventRange
<1> HIDE DEF p
<1>6. r < MaxU64
  BY <1>2, WireAssumption
<1>7. r + 1 # 0 /\ r + 1 <= m.current_sequence /\ m.current_sequence <= m.current_sequence
  BY <1>2
<1> QED
  BY <1>1, <1>2, <1>4, <1>5, <1>6, <1>7 DEF ValidPage, p


-----------------------------------------------------------------------------
\* Encoding and decoding.

\* A message of the program is parsed back as it was, in version 1.
LEMMA RoundTripV1 ==
  ASSUME NEW m, IsMessage(FieldsV1, m)
  PROVE  Parses(FieldsV1, m) /\ TypedV1(m) = m /\ m.type # Blank
<1>1. m.type \in DOMAIN FieldsV1 /\ m.type # "resync_required" /\ m.type # Blank
  BY DEF IsMessage, FieldsV1, Blank
<1>2. m = [f \in {"type"} \cup FieldsV1[m.type] |-> m[f]]
  <2> DEFINE D == {"type"} \cup FieldsV1[m.type]
                  \cup (IF m.type = "resync_required" THEN {"snapshot_revision"} ELSE {})
  <2>1. m = [f \in D |-> m[f]]
    BY DEF IsMessage
  <2>2. D = {"type"} \cup FieldsV1[m.type]
    BY <1>1
  <2> HIDE DEF D
  <2> QED
    BY <2>1, <2>2
<1>3. FieldsV1[m.type] \subseteq DOMAIN m
  BY <1>2
<1> QED
  BY <1>1, <1>2, <1>3 DEF Parses, TypedV1, Typed

\* And in version 2, the Option of a ResyncRequired included.
LEMMA RoundTripV2 ==
  ASSUME NEW m, IsMessage(FieldsV2, m)
  PROVE  ParsesV2(m) /\ TypedV2(m) = m /\ m.type # Blank
<1> DEFINE D == {"type"} \cup FieldsV2[m.type]
                \cup (IF m.type = "resync_required" THEN {"snapshot_revision"} ELSE {})
<1>1. m.type \in DOMAIN FieldsV2 /\ m.type # Blank
  BY DEF IsMessage, FieldsV2, Blank
<1>2. m = [f \in D |-> m[f]]
  BY DEF IsMessage
<1>3. FieldsV2[m.type] \subseteq D
  OBVIOUS
<1>4. CASE m.type # "resync_required"
  <2>1. D = {"type"} \cup FieldsV2[m.type]
    BY <1>4
  <2> HIDE DEF D
  <2>2. TypedV2(m) = m
    BY <2>1, <1>2, <1>4 DEF TypedV2, Typed
  <2>3. ParsesV2(m)
    BY <1>1, <1>2, <1>3, <1>4 DEF IsMessage, ParsesV2, Parses
  <2> QED
    BY <1>1, <2>2, <2>3
<1>5. CASE m.type = "resync_required"
  <2>1. D = {"type", "snapshot_revision"} \cup FieldsV2[m.type]
    BY <1>5
  <2> HIDE DEF D
  <2>2. DOMAIN m = D
    BY <1>2
  <2>3. TypedV2(m) = [f \in D |-> m[f]]
    <3>1. TypedV2(m) = [f \in D |-> IF f \in DOMAIN m THEN m[f] ELSE NoRevision]
      BY <2>1, <1>5 DEF TypedV2
    <3> QED
      BY <3>1, <2>2
  <2>4. ParsesV2(m)
    BY <1>1, <1>2, <1>3, <1>5 DEF IsMessage, ParsesV2, Parses
  <2> QED
    BY <1>1, <1>2, <2>3, <2>4
<1> QED
  BY <1>4, <1>5

\* What decode_v2 makes of a payload is a NetworkMessageV2 of the named type.
LEMMA TypedV2IsMessage ==
  ASSUME NEW payload, ParsesV2(payload), TypedValues(payload)
  PROVE  IsMessage(FieldsV2, TypedV2(payload)) /\ TypedV2(payload).type = payload.type
<1> DEFINE m == TypedV2(payload)
           t == payload.type
<1>1. /\ t \in DOMAIN FieldsV2 /\ FieldsV2[t] \subseteq DOMAIN payload
      /\ "type" \in DOMAIN payload
  BY DEF ParsesV2, Parses
<1>2. CASE t # "resync_required"
  <2>1. m = [f \in {"type"} \cup FieldsV2[t] |-> payload[f]]
    BY <1>2 DEF TypedV2, Typed
  <2> HIDE DEF m
  <2>2. m.type = t
    BY <2>1
  <2>3. m = [f \in {"type"} \cup FieldsV2[m.type] \cup
               (IF m.type = "resync_required" THEN {"snapshot_revision"} ELSE {}) |-> m[f]]
    <3>1. m = [f \in {"type"} \cup FieldsV2[t] |-> m[f]]
      BY <2>1
    <3>2. {"type"} \cup FieldsV2[t] = {"type"} \cup FieldsV2[m.type] \cup
               (IF m.type = "resync_required" THEN {"snapshot_revision"} ELSE {})
      BY <1>2, <2>2
    <3> QED
      BY <3>1, <3>2
  <2>4. t = "admission_rejected" => m.reason \in AdmissionReasons
    <3>1. t = "admission_rejected" => "reason" \in FieldsV2[t]
      BY DEF FieldsV2
    <3> QED
      BY <2>1, <3>1 DEF ParsesV2
  <2>5. t = "catch_up_page" => m.page \in Pages
    <3>1. t = "catch_up_page" => "page" \in FieldsV2[t]
      BY DEF FieldsV2
    <3> QED
      BY <2>1, <3>1, <1>1 DEF TypedValues
  <2>6. TypedValues(m)
    BY <2>2, <2>5, <1>2 DEF TypedValues
  <2>7. IsMessage(FieldsV2, m)
    BY <1>1, <1>2, <2>2, <2>3, <2>4, <2>6 DEF IsMessage
  <2> QED
    BY <2>2, <2>7 DEF m
<1>3. CASE t = "resync_required"
  <2> DEFINE D == {"type", "snapshot_revision"} \cup FieldsV2[t]
  <2>1. m = [f \in D |-> IF f \in DOMAIN payload THEN payload[f] ELSE NoRevision]
    BY <1>3 DEF TypedV2
  <2>2. D = {"type", "snapshot_revision", "reason", "earliest_available_sequence",
             "current_sequence"}
    BY <1>3 DEF FieldsV2
  <2>3. {"reason", "earliest_available_sequence", "current_sequence"} \subseteq DOMAIN payload
    BY <1>1, <1>3 DEF FieldsV2
  <2> HIDE DEF m, D
  <2>4. m.type = t
    BY <1>1, <2>1, <2>2
  <2>5. m.reason = payload.reason
        /\ m.earliest_available_sequence = payload.earliest_available_sequence
        /\ m.current_sequence = payload.current_sequence
    BY <2>1, <2>2, <2>3
  <2>6. m.snapshot_revision \in U64 \cup {NoRevision}
    BY <1>1, <2>1, <2>2, <1>3 DEF TypedValues
  <2>7. TypedValues(m)
    BY <1>1, <2>3, <2>4, <2>5, <2>6, <1>3 DEF TypedValues
  <2>8. m = [f \in {"type"} \cup FieldsV2[m.type] \cup
               (IF m.type = "resync_required" THEN {"snapshot_revision"} ELSE {}) |-> m[f]]
    <3>1. m = [f \in D |-> m[f]]
      BY <2>1
    <3>2. D = {"type"} \cup FieldsV2[m.type] \cup
               (IF m.type = "resync_required" THEN {"snapshot_revision"} ELSE {})
      BY <1>3, <2>4 DEF D
    <3> QED
      BY <3>1, <3>2
  <2>9. IsMessage(FieldsV2, m)
    BY <1>1, <1>3, <2>4, <2>5, <2>7, <2>8 DEF IsMessage, ParsesV2
  <2> QED
    BY <2>4, <2>9 DEF m
<1> QED
  BY <1>2, <1>3


-----------------------------------------------------------------------------
\* The way of a document.

\* d is something the program sends, or a job with nodes.
IsOutgoing(d) == \E i \in DOMAIN OutgoingMessages : d \in OutgoingMessages[i]
IsRequest(r) == \E i \in DOMAIN MatchRequests : r \in MatchRequests[i]

\* What a document is at each stage, in terms of what it was at first.
StageInv ==
  /\ stage = "message" => item = origin /\ IsOutgoing(origin)
  /\ stage = "frame" =>
       /\ TypedValues(item.payload)
       /\ IF "ids" \in DOMAIN origin
          THEN /\ IsOutgoing(origin)
               /\ origin.version = 2 => ValidMessageV2(origin.message)
               /\ item = EnvelopeOf(origin.ids, origin.version, origin.message)
          ELSE item = origin
  /\ stage = "delivered" /\ item.version = 2 =>
       IsMessage(FieldsV2, item.message) /\ ValidMessageV2(item.message)
  /\ stage = "request" => item = origin /\ IsRequest(origin)
  /\ stage = "ranked" => IsRequest(origin) /\ ValidRequest(origin)

\* Every stage of every document, with what arrives of it.
BoundaryInv == StageInv /\ SentIsWhatArrives

LEMMA InitBoundaryInv == Init => BoundaryInv
<1> SUFFICES ASSUME Init PROVE BoundaryInv
  OBVIOUS
<1>1. /\ stage \in {"message", "frame", "request"}
      /\ origin = item
      /\ stage = "message" => IsOutgoing(item)
      /\ stage = "frame" => item \in ForeignFrames
      /\ stage = "request" => IsRequest(item)
  BY DEF Init, IsOutgoing, IsRequest
<1>2. stage = "frame" => TypedValues(item.payload) /\ "ids" \notin DOMAIN origin
  BY <1>1, ForeignAssumption
<1> QED
  BY <1>1, <1>2 DEF BoundaryInv, StageInv, SentIsWhatArrives

\* A wrapped message decodes at an end that speaks its version unless one of its
\* identifiers is blank, and gives the message back.
LEMMA WrappedDecodes ==
  ASSUME NEW d, IsOutgoing(d), d.version = 2 => ValidMessageV2(d.message),
         NEW e, e = EnvelopeOf(d.ids, d.version, d.message)
  PROVE  /\ e.version = d.version /\ d.version \in {1, 2}
         /\ Decodes(e) => d.version = 1 /\ TypedV1(e.payload) = d.message
         /\ DecodesVersioned(e) =>
              DecodedVersioned(e) = [version |-> d.version, message |-> d.message]
         /\ (\A f \in DOMAIN d.ids : d.ids[f] # Blank) =>
              DecodesVersioned(e) /\ (d.version = 1 => Decodes(e))
<1>1. /\ e.family = Family /\ e.version = d.version /\ e.message_type = d.message.type
      /\ e.message_id = d.ids.message_id /\ e.session_id = d.ids.session_id
      /\ e.sender_id = d.ids.sender_id /\ e.payload = d.message
  BY DEF EnvelopeOf
<1>2. /\ DOMAIN d.ids = {"message_id", "session_id", "sender_id"}
      /\ \/ d.version = 1 /\ IsMessage(FieldsV1, d.message)
         \/ d.version = 2 /\ IsMessage(FieldsV2, d.message)
  BY OutgoingAssumption DEF IsOutgoing
<1>3. (\A f \in DOMAIN d.ids : d.ids[f] # Blank) /\ d.message.type # Blank
        => ValidEnvelope(e)
  BY <1>1, <1>2 DEF ValidEnvelope
<1>4. CASE d.version = 1 /\ IsMessage(FieldsV1, d.message)
  <2>1. /\ Parses(FieldsV1, d.message) /\ TypedV1(d.message) = d.message
        /\ d.message.type # Blank
    BY <1>4, RoundTripV1
  <2>2. Decodes(e) <=> ValidEnvelope(e)
    BY <2>1, <1>1, <1>4 DEF Decodes
  <2>3. DecodesVersioned(e) <=> Decodes(e)
    BY <1>1, <1>4 DEF DecodesVersioned
  <2>4. DecodedVersioned(e) = [version |-> d.version, message |-> d.message]
    BY <2>1, <1>1, <1>4 DEF DecodedVersioned
  <2> QED
    BY <2>1, <2>2, <2>3, <2>4, <1>1, <1>3, <1>4
<1>5. CASE d.version = 2 /\ IsMessage(FieldsV2, d.message)
  <2>1. /\ ParsesV2(d.message) /\ TypedV2(d.message) = d.message
        /\ d.message.type # Blank
    BY <1>5, RoundTripV2
  <2>2. ~Decodes(e)
    BY <1>1, <1>5 DEF Decodes
  <2>3. DecodesV2(e) <=> ValidEnvelope(e)
    BY <2>1, <1>1, <1>5 DEF DecodesV2
  <2>4. DecodesVersioned(e) <=> DecodesV2(e)
    BY <1>1, <1>5 DEF DecodesVersioned
  <2>5. DecodedVersioned(e) = [version |-> d.version, message |-> d.message]
    BY <2>1, <1>1, <1>5 DEF DecodedVersioned
  <2> QED
    BY <2>1, <2>2, <2>3, <2>4, <2>5, <1>1, <1>3, <1>5
<1> QED
  BY <1>2, <1>4, <1>5


\* A frame that decodes is delivered with the version and type it names; in
\* version 2 it is a message within its bounds.
LEMMA DecodedIsNamed ==
  ASSUME NEW e, TypedValues(e.payload)
  PROVE  /\ Decodes(e) => e.version = 1 /\ TypedV1(e.payload).type = e.message_type
         /\ DecodesVersioned(e) =>
              /\ DecodedVersioned(e).version = e.version
              /\ DecodedVersioned(e).message.type = e.message_type
              /\ e.version = 2 => /\ IsMessage(FieldsV2, DecodedVersioned(e).message)
                                  /\ ValidMessageV2(DecodedVersioned(e).message)
<1>1. Decodes(e) => e.version = 1 /\ TypedV1(e.payload).type = e.message_type
  BY DEF Decodes, TypedV1, Typed
<1>2. DecodesV2(e) => /\ e.version = 2 /\ TypedV2(e.payload).type = e.message_type
                      /\ IsMessage(FieldsV2, TypedV2(e.payload))
                      /\ ValidMessageV2(TypedV2(e.payload))
  BY TypedV2IsMessage DEF DecodesV2
<1>3. /\ DecodedVersioned(e).version = e.version
      /\ e.version = 2 => DecodedVersioned(e).message = TypedV2(e.payload)
      /\ e.version # 2 => DecodedVersioned(e).message = TypedV1(e.payload)
  BY DEF DecodedVersioned
<1> QED
  BY <1>1, <1>2, <1>3 DEF DecodesVersioned

LEMMA NextBoundaryInv == BoundaryInv /\ [Next]_boundaryVars => BoundaryInv'
<1> SUFFICES ASSUME BoundaryInv, [Next]_boundaryVars PROVE BoundaryInv'
  OBVIOUS
<1> USE DEF Becomes
<1>1. CASE Emit
  <2>1. stage = "message" /\ item = origin /\ IsOutgoing(origin)
    BY <1>1 DEF Emit, BoundaryInv, StageInv
  <2>2. CASE item.version = 2 /\ ~ValidMessageV2(item.message)
    BY <1>1, <2>2 DEF Emit, BoundaryInv, StageInv, SentIsWhatArrives
  <2>3. CASE ~(item.version = 2 /\ ~ValidMessageV2(item.message))
    <3>1. /\ stage' = "frame" /\ origin' = origin
          /\ item' = EnvelopeOf(origin.ids, origin.version, origin.message)
      BY <1>1, <2>1, <2>3 DEF Emit
    <3>2. "ids" \in DOMAIN origin /\ TypedValues(origin.message)
      <4>1. /\ DOMAIN origin = {"version", "ids", "message"}
            /\ \/ IsMessage(FieldsV1, origin.message)
               \/ IsMessage(FieldsV2, origin.message)
        BY <2>1, OutgoingAssumption, Zenon DEF IsOutgoing
      <4> QED
        BY <4>1, Zenon DEF IsMessage
    <3>3. item'.payload = origin.message
      BY <3>1 DEF EnvelopeOf
    <3>4. StageInv'
      BY <2>1, <2>3, <3>1, <3>2, <3>3 DEF StageInv
    <3>5. SentIsWhatArrives'
      BY <3>1 DEF SentIsWhatArrives
    <3> QED
      BY <3>4, <3>5 DEF BoundaryInv
  <2> QED
    BY <2>2, <2>3
<1>2. CASE ReceiveV1
  <2>1. /\ stage = "frame" /\ TypedValues(item.payload) /\ origin' = origin
        /\ "ids" \in DOMAIN origin =>
             /\ IsOutgoing(origin)
             /\ origin.version = 2 => ValidMessageV2(origin.message)
             /\ item = EnvelopeOf(origin.ids, origin.version, origin.message)
        /\ "ids" \notin DOMAIN origin => item = origin
    BY <1>2 DEF ReceiveV1, BoundaryInv, StageInv
  <2>2. CASE Decodes(item)
    <3>1. stage' = "delivered" /\ item' = [version |-> 1, message |-> TypedV1(item.payload)]
      BY <1>2, <2>2 DEF ReceiveV1
    <3>2. StageInv'
      BY <3>1 DEF StageInv
    <3>3. SentIsWhatArrives'
      <4>1. CASE "ids" \in DOMAIN origin
        <5>1. origin.version = 1 /\ TypedV1(item.payload) = origin.message
          BY <2>1, <2>2, <4>1, WrappedDecodes
        <5> QED
          BY <2>1, <3>1, <4>1, <5>1 DEF SentIsWhatArrives
      <4>2. CASE "ids" \notin DOMAIN origin
        <5>1. item.version = 1 /\ TypedV1(item.payload).type = item.message_type
          BY <2>1, <2>2, DecodedIsNamed
        <5> QED
          BY <2>1, <3>1, <4>2, <5>1 DEF SentIsWhatArrives
      <4> QED
        BY <4>1, <4>2
    <3> QED
      BY <3>2, <3>3 DEF BoundaryInv
  <2>3. CASE ~Decodes(item)
    <3>1. stage' = "refused_by_v1"
      BY <1>2, <2>3 DEF ReceiveV1
    <3>2. "ids" \in DOMAIN origin /\ origin.version = 1 =>
            \E f \in DOMAIN origin.ids : origin.ids[f] = Blank
      BY <2>1, <2>3, WrappedDecodes
    <3> QED
      BY <2>1, <3>1, <3>2 DEF BoundaryInv, StageInv, SentIsWhatArrives
  <2> QED
    BY <2>2, <2>3
<1>3. CASE ReceiveVersioned
  <2>1. /\ stage = "frame" /\ TypedValues(item.payload) /\ origin' = origin
        /\ "ids" \in DOMAIN origin =>
             /\ IsOutgoing(origin)
             /\ origin.version = 2 => ValidMessageV2(origin.message)
             /\ item = EnvelopeOf(origin.ids, origin.version, origin.message)
        /\ "ids" \notin DOMAIN origin => item = origin
    BY <1>3 DEF ReceiveVersioned, BoundaryInv, StageInv
  <2>2. CASE DecodesVersioned(item)
    <3>1. stage' = "delivered" /\ item' = DecodedVersioned(item)
      BY <1>3, <2>2 DEF ReceiveVersioned
    <3>2. /\ item'.version = item.version /\ item'.message.type = item.message_type
          /\ item.version = 2 => IsMessage(FieldsV2, item'.message)
                                 /\ ValidMessageV2(item'.message)
      BY <2>1, <2>2, <3>1, DecodedIsNamed
    <3>3. StageInv'
      BY <3>1, <3>2 DEF StageInv
    <3>4. "ids" \in DOMAIN origin =>
            item' = [version |-> origin.version, message |-> origin.message]
      BY <2>1, <2>2, <3>1, WrappedDecodes
    <3>5. SentIsWhatArrives'
      BY <2>1, <3>1, <3>2, <3>4 DEF SentIsWhatArrives
    <3> QED
      BY <3>3, <3>5 DEF BoundaryInv
  <2>3. CASE ~DecodesVersioned(item)
    <3>1. stage' = "refused"
      BY <1>3, <2>3 DEF ReceiveVersioned
    <3>2. "ids" \in DOMAIN origin => \E f \in DOMAIN origin.ids : origin.ids[f] = Blank
      BY <2>1, <2>3, WrappedDecodes
    <3> QED
      BY <2>1, <3>1, <3>2 DEF BoundaryInv, StageInv, SentIsWhatArrives
  <2> QED
    BY <2>2, <2>3
<1>4. CASE Match
  <2>1. stage = "request" /\ item = origin /\ IsRequest(origin) /\ origin' = origin
    BY <1>4 DEF Match, BoundaryInv, StageInv
  <2>2. /\ stage' \in {"ranked", "invalid"}
        /\ stage' = "ranked" => ValidRequest(origin)
    BY <1>4, <2>1 DEF Match
  <2>3. IsRequest(origin') /\ (stage' = "ranked" => ValidRequest(origin'))
    BY <2>1, <2>2
  <2> QED
    BY <2>2, <2>3 DEF BoundaryInv, StageInv, SentIsWhatArrives
<1>5. CASE UNCHANGED boundaryVars
  BY <1>5 DEF boundaryVars, BoundaryInv, StageInv, SentIsWhatArrives
<1> QED
  BY <1>1, <1>2, <1>3, <1>4, <1>5 DEF Next


-----------------------------------------------------------------------------
\* The gate.

\* Whether the answer of evaluate follows from its two sets of codes.
IsVerdict(result, rejected, unavailable) ==
  /\ rejected # {} => result.status = "rejected" /\ result.reasons = rejected
  /\ rejected = {} /\ unavailable # {} =>
       result.status = "unavailable" /\ result.reasons = unavailable
  /\ rejected = {} /\ unavailable = {} =>
       /\ result.status = "compatible"
       /\ result.reasons =
            {"contract_compatible", "policy_allows", "currently_available"}

Rejections(job, node, offer) ==
  ContractRejections(job.requirement, offer.contract) \cup PolicyRejections(job, node)

LEMMA Verdict ==
  ASSUME NEW job, NEW node, NEW offer
  PROVE  IsVerdict(Evaluate(job, node, offer), Rejections(job, node, offer),
                   Unavailabilities(job, node, offer))
  BY DEF Evaluate, Result, IsVerdict, Rejections

\* Nothing is unavailable when everything is free.
LEMMA FreeIsAvailable ==
  ASSUME NEW job, NEW node, NEW offer, node.online = TRUE, node.active_jobs = <<>>,
         job.estimated_memory \in Nat, node.available_memory = job.estimated_memory,
         offer.concurrency \in Nat, offer.concurrency # 0
  PROVE  Unavailabilities(job, node, offer) = {}
<1> DEFINE checks == {<<"offline", ~node.online>>,
                      <<"saturated", ActiveJobs(node, offer) >= offer.concurrency>>,
                      <<"memory_unavailable",
                        node.available_memory < job.estimated_memory>>}
<1>1. ActiveJobs(node, offer) = 0
  BY DEF ActiveJobs
<1>2. (ActiveJobs(node, offer) >= offer.concurrency) = FALSE
  BY <1>1
<1>3. (node.available_memory < job.estimated_memory) = FALSE
  OBVIOUS
<1>4. (~node.online) = FALSE
  OBVIOUS
<1>5. ASSUME NEW d \in checks PROVE d[2] = FALSE
  <2>1. CASE d = <<"offline", ~node.online>>
    BY <1>4, <2>1
  <2>2. CASE d = <<"saturated", ActiveJobs(node, offer) >= offer.concurrency>>
    BY <1>2, <2>2
  <2>3. CASE d = <<"memory_unavailable", node.available_memory < job.estimated_memory>>
    BY <1>3, <2>3
  <2> QED
    BY <2>1, <2>2, <2>3
<1> HIDE DEF checks
<1>6. Codes(checks) = {}
  BY <1>5 DEF Codes
<1> QED
  BY <1>6 DEF Unavailabilities, checks

\* One node and one of its offers.
LEMMA GateHolds ==
  ASSUME NEW job, NEW node, NEW offer,
         DOMAIN node = {"node_id", "network", "capabilities", "policy", "online",
                        "active_jobs", "available_memory", "observations"},
         job.estimated_memory \in Nat, offer.concurrency \in Nat, offer.concurrency # 0
  PROVE  OnlyPolicyRejects(job, node, offer)
<1> DEFINE free == [node EXCEPT !.online = TRUE, !.active_jobs = <<>>,
                                !.available_memory = job.estimated_memory]
           bare == [node EXCEPT !.observations = <<>>]
           now == Evaluate(job, node, offer)
           freed == Evaluate(job, free, offer)
           blind == Evaluate(job, bare, offer)
           rejected == Rejections(job, node, offer)
<1>1. /\ free.policy = node.policy /\ free.network = node.network
      /\ free.online = TRUE /\ free.active_jobs = <<>>
      /\ free.available_memory = job.estimated_memory
  OBVIOUS
<1>2. /\ bare.policy = node.policy /\ bare.network = node.network
      /\ bare.online = node.online /\ bare.active_jobs = node.active_jobs
      /\ bare.available_memory = node.available_memory
  OBVIOUS
<1> HIDE DEF free, bare
<1>3. Rejections(job, free, offer) = rejected
  BY <1>1 DEF PolicyRejections, Rejections
<1>4. Rejections(job, bare, offer) = rejected
  BY <1>2 DEF PolicyRejections, Rejections
<1>5. Unavailabilities(job, bare, offer) = Unavailabilities(job, node, offer)
  BY <1>2 DEF Unavailabilities, ActiveJobs
<1>6. Unavailabilities(job, free, offer) = {}
  BY <1>1, FreeIsAvailable
<1>7. /\ IsVerdict(now, rejected, Unavailabilities(job, node, offer))
      /\ IsVerdict(freed, Rejections(job, free, offer), Unavailabilities(job, free, offer))
      /\ IsVerdict(blind, Rejections(job, bare, offer), Unavailabilities(job, bare, offer))
  BY Verdict
<1> HIDE DEF now, freed, blind, rejected
<1>8. /\ IsVerdict(now, rejected, Unavailabilities(job, node, offer))
      /\ IsVerdict(blind, rejected, Unavailabilities(job, node, offer))
      /\ IsVerdict(freed, rejected, {})
  BY <1>3, <1>4, <1>5, <1>6, <1>7
<1>9. /\ now.status = "rejected" <=> freed.status = "rejected"
      /\ now.status = "rejected" => now.reasons = freed.reasons
      /\ freed.status # "unavailable"
      /\ blind.status = now.status /\ blind.reasons = now.reasons
  BY <1>8 DEF IsVerdict
<1> QED
  BY <1>9 DEF OnlyPolicyRejects, now, freed, blind, free, bare

-----------------------------------------------------------------------------
\* Scores.

\* Products keep the order of their factors.
LEMMA Scaled ==
  ASSUME NEW a \in Int, NEW b \in Int, NEW c \in Nat, a <= b
  PROVE  a * c <= b * c
OBVIOUS

\* What a quotient of naturals is.
LEMMA Quotient ==
  ASSUME NEW a \in Nat, NEW b \in Nat, b > 0
  PROVE  /\ a \div b \in Nat
         /\ b * (a \div b) <= a /\ a < b * (a \div b + 1)
OBVIOUS

\* Rounding to the nearest, halves up, never turns two fractions around.
LEMMA RoundingIsMonotone ==
  ASSUME NEW n1 \in Nat, NEW d1 \in Nat, NEW n2 \in Nat, NEW d2 \in Nat,
         d1 > 0, d2 > 0, n1 * d2 <= n2 * d1
  PROVE  (2 * n1 + d1) \div (2 * d1) <= (2 * n2 + d2) \div (2 * d2)
<1> DEFINE q1 == (2 * n1 + d1) \div (2 * d1)
           q2 == (2 * n2 + d2) \div (2 * d2)
<1>1. /\ 2 * n1 + d1 \in Nat /\ 2 * d1 \in Nat /\ 2 * d1 > 0
      /\ 2 * n2 + d2 \in Nat /\ 2 * d2 \in Nat /\ 2 * d2 > 0
  OBVIOUS
<1>2. /\ q1 \in Nat /\ (2 * d1) * q1 <= 2 * n1 + d1
      /\ q2 \in Nat /\ 2 * n2 + d2 < (2 * d2) * (q2 + 1)
  BY <1>1, Quotient
<1> HIDE DEF q1, q2
<1> SUFFICES ASSUME q2 + 1 <= q1 PROVE FALSE
  BY <1>2 DEF q1, q2
<1>3. (q2 + 1) * (2 * d1) <= q1 * (2 * d1)
  BY <1>1, <1>2, Scaled
<1>4. (q2 + 1) * (2 * d1) <= 2 * n1 + d1
  BY <1>2, <1>3
<1>5. ((q2 + 1) * (2 * d1)) * d2 <= (2 * n1 + d1) * d2
  BY <1>1, <1>2, <1>4, Scaled
<1>6. (2 * n2 + d2 + 1) * d1 <= ((2 * d2) * (q2 + 1)) * d1
  BY <1>1, <1>2, Scaled
<1>7. (2 * n1 + d1) * d2 <= (2 * n2 + d2) * d1
  OBVIOUS
<1>8. (2 * n2 + d2 + 1) * d1 = (2 * n2 + d2) * d1 + d1
  OBVIOUS
<1>9. ((q2 + 1) * (2 * d1)) * d2 = ((2 * d2) * (q2 + 1)) * d1
  BY <1>2
<1>10. /\ (2 * n2 + d2) * d1 \in Int /\ (2 * n1 + d1) * d2 \in Int
       /\ ((2 * d2) * (q2 + 1)) * d1 \in Int
  BY <1>2
<1> QED
  BY <1>5, <1>6, <1>7, <1>8, <1>9, <1>10

-----------------------------------------------------------------------------

\* The parts of FinalScore.
SuccessRate(relevant, good) ==
  IF relevant = {} THEN Half ELSE Fraction(Cardinality(good), Cardinality(relevant))

BestLatency(observations, good) ==
  IF good = {} THEN Half
  ELSE LatencyScore(Min({observations[i].latency_ms : i \in good}))

Weighted(rate, latency, headroom) ==
  4000 * rate.n * latency.d * headroom.d + 3500 * latency.n * rate.d * headroom.d
  + 2500 * headroom.n * rate.d * latency.d

Scale(rate, latency, headroom) == rate.d * latency.d * headroom.d

Rounded(rate, latency, headroom) ==
  LET n == Weighted(rate, latency, headroom)
      d == Scale(rate, latency, headroom)
  IN  (2 * n + d) \div (2 * d)

\* The successes among the observations that count.
Good(node, relevant) == {i \in relevant : node.observations[i].successful}

\* A score is its three parts, weighted and rounded.
LEMMA ScoreParts ==
  ASSUME NEW job, NEW node, NEW offer
  PROVE  LET relevant == Relevant(job, node, offer)
             good == Good(node, relevant)
         IN FinalScore(job, node, offer) =
              Rounded(SuccessRate(relevant, good), BestLatency(node.observations, good),
                      ContractHeadroom(job.requirement, offer.contract))
BY DEF FinalScore, Rounded, Weighted, Scale, SuccessRate, BestLatency, Good

\* Fractions with a denominator that is not 0.
Fractions == {Fraction(n, d) : n \in Nat, d \in Nat \ {0}}

\* A fraction has a numerator and a positive denominator.
LEMMA FractionParts ==
  ASSUME NEW x \in Fractions PROVE x.n \in Nat /\ x.d \in Nat /\ x.d > 0
BY DEF Fractions, Fraction

\* The order of fractions, by cross-multiplication.
AtMost(x, y) == x.n * y.d <= y.n * x.d

\* The product of two positive numbers is one.
LEMMA Positive ==
  ASSUME NEW a \in Nat, NEW b \in Nat, a > 0, b > 0 PROVE a * b \in Nat /\ a * b > 0
OBVIOUS

\* A score whose rate and latency are at least as good is at least as high.
LEMMA WeightedIsMonotone ==
  ASSUME NEW x \in Fractions, NEW y \in Fractions, NEW v \in Fractions, NEW w \in Fractions,
         NEW h \in Fractions, AtMost(x, v), AtMost(y, w)
  PROVE  Rounded(x, y, h) <= Rounded(v, w, h)
<1> DEFINE a == x.n b == x.d l == y.n m == y.d A == v.n B == v.d L == w.n M == w.d
           p == h.n k == h.d
<1>1. /\ a \in Nat /\ b \in Nat /\ l \in Nat /\ m \in Nat
      /\ A \in Nat /\ B \in Nat /\ L \in Nat /\ M \in Nat
      /\ p \in Nat /\ k \in Nat
      /\ b > 0 /\ m > 0 /\ B > 0 /\ M > 0 /\ k > 0
  BY FractionParts
<1>2. a * B <= A * b /\ l * M <= L * m
  BY DEF AtMost
<1> DEFINE n1 == 4000 * a * m * k + 3500 * l * b * k + 2500 * p * b * m
           d1 == b * m * k
           n2 == 4000 * A * M * k + 3500 * L * B * k + 2500 * p * B * M
           d2 == B * M * k
<1>3. /\ Rounded(x, y, h) = (2 * n1 + d1) \div (2 * d1)
      /\ Rounded(v, w, h) = (2 * n2 + d2) \div (2 * d2)
  BY DEF Rounded, Weighted, Scale
<1> HIDE DEF a, b, l, m, A, B, L, M, p, k
<1>4. /\ d1 \in Nat /\ d1 > 0
  <2>1. b * m \in Nat /\ b * m > 0
    BY <1>1, Positive
  <2> QED
    BY <1>1, <2>1, Positive
<1>5. d2 \in Nat /\ d2 > 0
  <2>1. B * M \in Nat /\ B * M > 0
    BY <1>1, Positive
  <2> QED
    BY <1>1, <2>1, Positive
<1>6. n1 \in Nat /\ n2 \in Nat
  BY <1>1
<1>7. n1 * d2 <= n2 * d1
  <2>1. (a * B) * (m * M * k * k) <= (A * b) * (m * M * k * k)
    BY <1>1, <1>2, Scaled
  <2>2. (l * M) * (b * B * k * k) <= (L * m) * (b * B * k * k)
    BY <1>1, <1>2, Scaled
  <2>3. n1 * d2 = 4000 * ((a * B) * (m * M * k * k)) + 3500 * ((l * M) * (b * B * k * k))
                  + 2500 * (p * b * B * m * M * k)
    BY <1>1
  <2>4. n2 * d1 = 4000 * ((A * b) * (m * M * k * k)) + 3500 * ((L * m) * (b * B * k * k))
                  + 2500 * (p * b * B * m * M * k)
    BY <1>1
  <2> DEFINE s == (a * B) * (m * M * k * k)
             t == (A * b) * (m * M * k * k)
             S == (l * M) * (b * B * k * k)
             T == (L * m) * (b * B * k * k)
             c == p * b * B * m * M * k
  <2>5. s \in Int /\ t \in Int /\ S \in Int /\ T \in Int /\ c \in Int
    BY <1>1
  <2> HIDE DEF s, t, S, T, c, n1, n2, d1, d2
  <2>6. n1 * d2 = 4000 * s + 3500 * S + 2500 * c /\ n2 * d1 = 4000 * t + 3500 * T + 2500 * c
    BY <2>3, <2>4 DEF s, t, S, T, c
  <2>7. s <= t /\ S <= T
    BY <2>1, <2>2 DEF s, t, S, T
  <2> QED
    BY <2>5, <2>6, <2>7
<1> HIDE DEF n1, n2, d1, d2
<1> QED
  BY <1>3, <1>4, <1>5, <1>6, <1>7, RoundingIsMonotone

\* The first success of an offer that was never observed: what the rate gains
\* outweighs what the latency may lose.
LEMMA FirstSuccess ==
  ASSUME NEW h \in Fractions, NEW ms \in Nat
  PROVE  Rounded(Half, Half, h) <= Rounded(Fraction(1, 1), LatencyScore(ms), h)
<1> DEFINE p == h.n k == h.d M == 1000 + ms
           n1 == 15000 * k + 10000 * p
           d1 == 4 * k
           n2 == 4000 * M * k + 3500000 * k + 2500 * p * M
           d2 == M * k
<1>1. p \in Nat /\ k \in Nat /\ k > 0 /\ M \in Nat /\ M > 0
  BY FractionParts
<1>2. Half.n = 1 /\ Half.d = 2
  BY DEF Half, Fraction
<1>3. Fraction(1, 1).n = 1 /\ Fraction(1, 1).d = 1
  BY DEF Fraction
<1>4. LatencyScore(ms).n = 1000 /\ LatencyScore(ms).d = M
  BY DEF LatencyScore, Fraction
<1> HIDE DEF p, k, M
<1>5. Rounded(Half, Half, h) = (2 * n1 + d1) \div (2 * d1)
  <2>1. Weighted(Half, Half, h) = n1 /\ Scale(Half, Half, h) = d1
    BY <1>1, <1>2 DEF Weighted, Scale, p, k
  <2> QED
    BY <2>1 DEF Rounded
<1>6. Rounded(Fraction(1, 1), LatencyScore(ms), h) = (2 * n2 + d2) \div (2 * d2)
  <2>1. /\ Weighted(Fraction(1, 1), LatencyScore(ms), h) = n2
        /\ Scale(Fraction(1, 1), LatencyScore(ms), h) = d2
    BY <1>1, <1>3, <1>4 DEF Weighted, Scale, p, k
  <2> QED
    BY <2>1 DEF Rounded
<1>7. d1 \in Nat /\ d1 > 0 /\ n1 \in Nat /\ n2 \in Nat
  BY <1>1
<1>8. d2 \in Nat /\ d2 > 0
  BY <1>1, Positive
<1>9. n1 * d2 <= n2 * d1
  <2> DEFINE c == M * k * k
             e == k * k
             f == p * M * k
  <2>1. c \in Nat /\ e \in Nat /\ f \in Nat
    BY <1>1
  <2>2. n1 * d2 = 15000 * c + 10000 * f
    BY <1>1
  <2>3. n2 * d1 = 16000 * c + 14000000 * e + 10000 * f
    BY <1>1
  <2> HIDE DEF c, e, f, n1, n2, d1, d2
  <2> QED
    BY <2>1, <2>2, <2>3
<1> HIDE DEF n1, n2, d1, d2
<1> QED
  BY <1>5, <1>6, <1>7, <1>8, <1>9, RoundingIsMonotone

\* The three parts of a score are fractions.
LEMMA HalfIsAFraction == Half \in Fractions
<1>1. 1 \in Nat /\ 2 \in Nat \ {0}
  OBVIOUS
<1> QED
  BY <1>1 DEF Half, Fractions

LEMMA HeadroomIsAFraction ==
  ASSUME NEW required, NEW declared, required.minimum \in Nat, declared.limit \in Nat
  PROVE  ContractHeadroom(required, declared) \in Fractions
<1> DEFINE n == IF declared.limit > required.minimum
                THEN declared.limit - required.minimum ELSE 0
           d == IF declared.limit > 1 THEN declared.limit ELSE 1
<1>1. n \in Nat /\ d \in Nat \ {0}
  OBVIOUS
<1>2. ContractHeadroom(required, declared) = Fraction(n, d)
  BY DEF ContractHeadroom
<1> HIDE DEF n, d
<1> QED
  BY <1>1, <1>2 DEF Fractions

\* Min of a non-empty set of naturals is its least member.
LEMMA NatMin ==
  ASSUME NEW T \in SUBSET Nat, T # {}
  PROVE  Min(T) \in T /\ \A k \in T : Min(T) <= k
<1> DEFINE R == OpToRel(<, Nat)
<1>1. IsWellFoundedOn(R, Nat)
  BY NatLessThanWellFounded
<1>2. \A x, y \in Nat : <<x, y>> \in R <=> x < y
  BY Zenon DEF OpToRel
<1> HIDE DEF R
<1>3. PICK x \in T : \A y \in T : ~(<<y, x>> \in R)
  BY <1>1, WFMin
<1>4. ASSUME NEW y \in T PROVE x <= y
  <2>1. y \in Nat /\ x \in Nat
    OBVIOUS
  <2>2. ~(y < x)
    BY <1>2, <1>3, <2>1
  <2> QED
    BY <2>1, <2>2
<1> QED
  BY <1>4 DEF Min

LEMMA LatencyIsAFraction ==
  ASSUME NEW ms \in Nat PROVE LatencyScore(ms) \in Fractions
<1>1. 1000 \in Nat /\ 1000 + ms \in Nat \ {0}
  OBVIOUS
<1> QED
  BY <1>1, SMTT(30) DEF LatencyScore, Fractions

\* A longer latency scores no more than a shorter one.
LEMMA LatencyFalls ==
  ASSUME NEW ms \in Nat, NEW ns \in Nat, ns <= ms
  PROVE  AtMost(LatencyScore(ms), LatencyScore(ns))
BY DEF AtMost, LatencyScore, Fraction

-----------------------------------------------------------------------------

\* The observation counts for the job and the offer.
Counts(job, offer, probe) ==
  /\ probe.capability_offer_id = offer.id
  /\ job.workload_profile \in {NoText, probe.workload_profile}

\* A list of observations with their latencies.
Observed(observations) ==
  /\ observations \in Seq(Range(observations))
  /\ \A i \in DOMAIN observations : observations[i].latency_ms \in Nat

\* more is node with the observation probe added: which observations count for
\* the job then, and which of them are successes.
OneMore(job, node, more, offer, probe) ==
  LET old  == Relevant(job, node, offer)
      new  == Relevant(job, more, offer)
      last == Len(node.observations) + 1
      counts == Counts(job, offer, probe)
  IN  /\ last \notin old /\ IsFiniteSet(old) /\ old \subseteq DOMAIN node.observations
      /\ more.observations[last] = probe
      /\ \A i \in old : more.observations[i] = node.observations[i]
      /\ counts => new = old \cup {last}
      /\ ~counts => new = old
      /\ counts /\ probe.successful => Good(more, new) = Good(node, old) \cup {last}
      /\ ~(counts /\ probe.successful) => Good(more, new) = Good(node, old)

\* An observation added at the end of a node's list is the only one that changes.
LEMMA AppendedObservation ==
  ASSUME NEW job, NEW node, NEW offer, NEW probe, "observations" \in DOMAIN node,
         Observed(node.observations)
  PROVE  OneMore(job, node, [node EXCEPT !.observations = Append(@, probe)], offer, probe)
<1> DEFINE obs  == node.observations
           more == [node EXCEPT !.observations = Append(@, probe)]
           old  == Relevant(job, node, offer)
           new  == Relevant(job, more, offer)
           last == Len(obs) + 1
           os == more.observations
<1>1. os = Append(obs, probe)
  OBVIOUS
<1>2. obs \in Seq(Range(obs))
  BY DEF Observed
<1> HIDE DEF os
<1>3. /\ Len(obs) \in Nat /\ DOMAIN obs = 1..Len(obs)
  BY <1>2
<1>4. /\ DOMAIN os = DOMAIN obs \cup {last} /\ last \notin DOMAIN obs
      /\ os[last] = probe /\ \A i \in DOMAIN obs : os[i] = obs[i]
  <2>0. obs \in Seq(Range(obs) \cup {probe}) /\ probe \in Range(obs) \cup {probe}
    BY <1>2
  <2>1. DOMAIN os = 1..last
    BY <1>1, <1>3, <2>0
  <2>2. os[last] = probe /\ \A i \in 1..Len(obs) : os[i] = obs[i]
    BY <1>1, <1>3, <2>0
  <2>3. 1..last = 1..Len(obs) \cup {last} /\ last \notin 1..Len(obs)
    BY <1>3
  <2> QED
    BY <1>3, <2>1, <2>2, <2>3
<1>5. /\ old \subseteq DOMAIN obs /\ IsFiniteSet(old)
  <2>1. old \subseteq DOMAIN obs
    BY DEF Relevant
  <2>2. IsFiniteSet(1..Len(obs))
    <3>1. 1 \in Int /\ Len(obs) \in Int
      BY <1>3
    <3> HIDE DEF obs
    <3> QED
      BY <3>1, FS_Interval, Zenon
  <2> QED
    BY <1>3, <2>1, <2>2, FS_Subset
<1>6. \A i \in DOMAIN obs : i \in new <=> i \in old
  BY <1>4 DEF Relevant, os
<1>7. last \in new <=> Counts(job, offer, probe)
  BY <1>4 DEF Relevant, Counts, os
<1>8. new \subseteq DOMAIN obs \cup {last}
  BY <1>4 DEF Relevant, os
<1>9. \A i \in old : os[i] = obs[i]
  BY <1>4, <1>5
<1> HIDE DEF old, new, last, obs
<1>10. /\ Counts(job, offer, probe) => new = old \cup {last}
       /\ ~Counts(job, offer, probe) => new = old
  BY <1>4, <1>5, <1>6, <1>7, <1>8
<1>11. /\ Good(more, new) = {i \in new : os[i].successful}
       /\ Good(node, old) = {i \in old : obs[i].successful}
  BY DEF Good, os, obs
<1> HIDE DEF more
<1>12. Counts(job, offer, probe) /\ probe.successful =>
         Good(more, new) = Good(node, old) \cup {last}
  BY <1>4, <1>9, <1>10, <1>11
<1>13. ~(Counts(job, offer, probe) /\ probe.successful) =>
         Good(more, new) = Good(node, old)
  BY <1>4, <1>5, <1>9, <1>10, <1>11
<1> QED
  BY <1>4, <1>5, <1>9, <1>10, <1>12, <1>13 DEF OneMore, more, old, new, last, obs, os

\* How many observations count, and how many of them are successes.
LEMMA Tallies ==
  ASSUME NEW relevant, IsFiniteSet(relevant), NEW good \in SUBSET relevant
  PROVE  /\ Cardinality(relevant) \in Nat /\ Cardinality(good) \in Nat
         /\ Cardinality(good) <= Cardinality(relevant)
         /\ relevant # {} => Cardinality(relevant) > 0
         /\ relevant = {} => Cardinality(good) = 0
         /\ \A x : x \notin relevant =>
              /\ Cardinality(relevant \cup {x}) = Cardinality(relevant) + 1
              /\ Cardinality(good \cup {x}) = Cardinality(good) + 1
<1>1. IsFiniteSet(good) /\ Cardinality(good) <= Cardinality(relevant)
  BY FS_Subset
<1>2. Cardinality(relevant) \in Nat /\ Cardinality(good) \in Nat
  BY <1>1, FS_CardinalityType
<1>3. Cardinality(relevant) = 0 <=> relevant = {}
  BY FS_EmptySet
<1>4. relevant = {} => Cardinality(good) = 0
  BY FS_EmptySet
<1>5. ASSUME NEW x, x \notin relevant
      PROVE  /\ Cardinality(relevant \cup {x}) = Cardinality(relevant) + 1
             /\ Cardinality(good \cup {x}) = Cardinality(good) + 1
  <2>1. x \notin good
    BY <1>5
  <2> QED
    BY <1>1, <1>5, <2>1, FS_AddElement
<1> QED
  BY <1>1, <1>2, <1>3, <1>4, <1>5

LEMMA FractionsHave ==
  ASSUME NEW n \in Nat, NEW d \in Nat, d > 0
  PROVE  /\ Fraction(n, d) \in Fractions
         /\ Fraction(n, d).n = n /\ Fraction(n, d).d = d
<1>1. d \in Nat \ {0}
  OBVIOUS
<1> QED
  BY <1>1 DEF Fraction, Fractions

LEMMA RateIsAFraction ==
  ASSUME NEW relevant, IsFiniteSet(relevant), NEW good \in SUBSET relevant
  PROVE  SuccessRate(relevant, good) \in Fractions
<1>1. CASE relevant = {}
  BY <1>1, HalfIsAFraction DEF SuccessRate
<1>2. CASE relevant # {}
  BY <1>2, Tallies, FractionsHave DEF SuccessRate
<1> QED
  BY <1>1, <1>2

\* A failure more never raises the rate of success.
LEMMA FailureLowersRate ==
  ASSUME NEW relevant, IsFiniteSet(relevant), NEW good \in SUBSET relevant,
         NEW x, x \notin relevant
  PROVE  /\ AtMost(SuccessRate(relevant \cup {x}, good), SuccessRate(relevant, good))
         /\ SuccessRate(relevant \cup {x}, good) \in Fractions
<1> DEFINE g == Cardinality(good) r == Cardinality(relevant)
<1>1. /\ r \in Nat /\ g \in Nat /\ (relevant # {} => r > 0)
      /\ (relevant = {} => g = 0)
      /\ Cardinality(relevant \cup {x}) = r + 1
  BY Tallies
<1>2. SuccessRate(relevant \cup {x}, good) = Fraction(g, r + 1)
  BY <1>1 DEF SuccessRate
<1> HIDE DEF g, r
<1>3. /\ Fraction(g, r + 1) \in Fractions
      /\ Fraction(g, r + 1).n = g /\ Fraction(g, r + 1).d = r + 1
  BY <1>1, FractionsHave
<1>4. CASE relevant = {}
  <2>1. SuccessRate(relevant, good).n = 1 /\ SuccessRate(relevant, good).d = 2
    BY <1>4 DEF SuccessRate, Half, Fraction
  <2> QED
    BY <1>1, <1>2, <1>3, <1>4, <2>1 DEF AtMost
<1>5. CASE relevant # {}
  <2>1. SuccessRate(relevant, good) = Fraction(g, r)
    BY <1>5 DEF SuccessRate, g, r
  <2>2. Fraction(g, r).n = g /\ Fraction(g, r).d = r
    BY <1>1, <1>5, FractionsHave
  <2>3. g * r <= g * (r + 1)
    BY <1>1
  <2> QED
    BY <1>2, <1>3, <2>1, <2>2, <2>3 DEF AtMost
<1> QED
  BY <1>2, <1>3, <1>4, <1>5

\* A success more never lowers it.
LEMMA SuccessRaisesRate ==
  ASSUME NEW relevant, IsFiniteSet(relevant), NEW good \in SUBSET relevant,
         NEW x, x \notin relevant
  PROVE  LET more == SuccessRate(relevant \cup {x}, good \cup {x}) IN
         /\ relevant # {} => AtMost(SuccessRate(relevant, good), more)
         /\ relevant = {} => more = Fraction(1, 1)
         /\ more \in Fractions
<1> DEFINE g == Cardinality(good) r == Cardinality(relevant)
           more == SuccessRate(relevant \cup {x}, good \cup {x})
<1>1. /\ r \in Nat /\ g \in Nat /\ g <= r /\ (relevant # {} => r > 0)
      /\ Cardinality(relevant \cup {x}) = r + 1
      /\ Cardinality(good \cup {x}) = g + 1
  BY Tallies
<1>2. more = Fraction(g + 1, r + 1)
  BY <1>1 DEF SuccessRate
<1>3. relevant = {} => r = 0 /\ g = 0
  BY <1>1, FS_EmptySet
<1>4. relevant # {} => SuccessRate(relevant, good) = Fraction(g, r)
  BY DEF SuccessRate
<1> HIDE DEF g, r, more
<1>5. /\ Fraction(g + 1, r + 1) \in Fractions
      /\ Fraction(g + 1, r + 1).n = g + 1 /\ Fraction(g + 1, r + 1).d = r + 1
  BY <1>1, FractionsHave
<1>6. ASSUME relevant # {} PROVE AtMost(SuccessRate(relevant, good), more)
  <2>1. Fraction(g, r).n = g /\ Fraction(g, r).d = r
    BY <1>1, <1>6, FractionsHave
  <2>2. g * (r + 1) <= (g + 1) * r
    <3>1. g * (r + 1) = g * r + g /\ (g + 1) * r = g * r + r /\ g * r \in Nat
      BY <1>1
    <3> QED
      BY <1>1, <3>1
  <2> QED
    BY <1>2, <1>4, <1>5, <1>6, <2>1, <2>2 DEF AtMost
<1>7. relevant = {} => more = Fraction(1, 1)
  BY <1>1, <1>2, <1>3
<1> QED
  BY <1>2, <1>5, <1>6, <1>7 DEF more

\* The order of fractions is reflexive.
LEMMA AtMostReflexive ==
  ASSUME NEW x \in Fractions PROVE AtMost(x, x)
BY FractionParts DEF AtMost

\* The best latency of any set of successes is a score.
LEMMA BestLatencyIsAFraction ==
  ASSUME NEW obs, NEW good, \A i \in good : obs[i].latency_ms \in Nat
  PROVE  BestLatency(obs, good) \in Fractions
<1> DEFINE T == {obs[i].latency_ms : i \in good}
<1>1. CASE good = {}
  BY <1>1, HalfIsAFraction DEF BestLatency
<1>2. CASE good # {}
  <2>1. T \in SUBSET Nat /\ T # {}
    BY <1>2
  <2>2. Min(T) \in Nat
    BY <2>1, NatMin
  <2> QED
    BY <1>2, <2>2, LatencyIsAFraction DEF BestLatency
<1> QED
  BY <1>1, <1>2

\* Only the successes that count are looked at.
LEMMA BestLatencyOfGood ==
  ASSUME NEW obs, NEW os, NEW good, \A i \in good : os[i] = obs[i]
  PROVE  BestLatency(os, good) = BestLatency(obs, good)
<1>1. {os[i].latency_ms : i \in good} = {obs[i].latency_ms : i \in good}
  OBVIOUS
<1> QED
  BY <1>1 DEF BestLatency

\* A success more never worsens the best latency of a success.
LEMMA SuccessRaisesLatency ==
  ASSUME NEW os, NEW good, NEW x, good # {},
         \A i \in good \cup {x} : os[i].latency_ms \in Nat
  PROVE  AtMost(BestLatency(os, good), BestLatency(os, good \cup {x}))
<1> DEFINE S == {os[i].latency_ms : i \in good}
           T == {os[i].latency_ms : i \in good \cup {x}}
<1>1. S \in SUBSET Nat /\ S # {} /\ T \in SUBSET Nat /\ T # {} /\ S \subseteq T
  OBVIOUS
<1>2. BestLatency(os, good) = LatencyScore(Min(S))
  BY DEF BestLatency
<1>3. BestLatency(os, good \cup {x}) = LatencyScore(Min(T))
  BY DEF BestLatency
<1> HIDE DEF S, T
<1>4. Min(S) \in S /\ Min(T) \in T /\ \A k \in T : Min(T) <= k
  BY <1>1, NatMin
<1>5. Min(S) \in Nat /\ Min(T) \in Nat /\ Min(T) <= Min(S)
  BY <1>1, <1>4
<1> QED
  BY <1>2, <1>3, <1>5, LatencyFalls

\* With one success its latency is the best.
LEMMA FirstLatency ==
  ASSUME NEW os, NEW x, os[x].latency_ms \in Nat
  PROVE  BestLatency(os, {x}) = LatencyScore(os[x].latency_ms)
<1>1. {os[i].latency_ms : i \in {x}} = {os[x].latency_ms}
  OBVIOUS
<1>2. Min({os[x].latency_ms}) = os[x].latency_ms
  BY NatMin
<1> QED
  BY <1>1, <1>2 DEF BestLatency

\* What one more observation does to a score.
LEMMA ScoreMoves ==
  ASSUME NEW job, NEW node, NEW offer, NEW probe, "observations" \in DOMAIN node,
         Observed(node.observations), probe.latency_ms \in Nat,
         job.requirement.minimum \in Nat, offer.contract.limit \in Nat
  PROVE  LET relevant == Relevant(job, node, offer)
             before   == FinalScore(job, node, offer)
             after    == FinalScore(job,
                           [node EXCEPT !.observations = Append(@, probe)], offer)
             counts   == Counts(job, offer, probe)
         IN  /\ ~counts => after = before
             /\ counts /\ ~probe.successful => after <= before
             /\ (/\ counts /\ probe.successful
                 /\ \/ relevant = {}
                    \/ \E i \in relevant : node.observations[i].successful)
                  => after >= before
<1> DEFINE more   == [node EXCEPT !.observations = Append(@, probe)]
           obs    == node.observations
           os     == more.observations
           old    == Relevant(job, node, offer)
           new    == Relevant(job, more, offer)
           x      == Len(obs) + 1
           good   == Good(node, old)
           better == Good(more, new)
           h      == ContractHeadroom(job.requirement, offer.contract)
           before == FinalScore(job, node, offer)
           after  == FinalScore(job, more, offer)
           counts == Counts(job, offer, probe)
<1>1. /\ x \notin old /\ IsFiniteSet(old) /\ old \subseteq DOMAIN obs
      /\ os[x] = probe /\ \A i \in old : os[i] = obs[i]
      /\ counts => new = old \cup {x}
      /\ ~counts => new = old
      /\ counts /\ probe.successful => better = good \cup {x}
      /\ ~(counts /\ probe.successful) => better = good
  <2>1. OneMore(job, node, more, offer, probe)
    BY AppendedObservation
  <2> HIDE DEF more
  <2> QED
    BY <2>1, Zenon DEF OneMore
<1>2. /\ before = Rounded(SuccessRate(old, good), BestLatency(obs, good), h)
      /\ after = Rounded(SuccessRate(new, better), BestLatency(os, better), h)
  BY ScoreParts
<1>3. h \in Fractions
  BY HeadroomIsAFraction
<1>4. good \in SUBSET old
  BY DEF Good
<1>5. \A i \in old : obs[i].latency_ms \in Nat
  BY <1>1 DEF Observed
<1>6. (\E i \in old : obs[i].successful) => good # {}
  BY DEF Good
<1> HIDE DEF more, obs, os, old, new, x, good, better, h, before, after, counts
<1>7. SuccessRate(old, good) \in Fractions
  BY <1>1, <1>4, RateIsAFraction
<1>8. BestLatency(obs, good) \in Fractions /\ BestLatency(os, good) = BestLatency(obs, good)
  <2>1. \A i \in good : obs[i].latency_ms \in Nat /\ os[i] = obs[i]
    BY <1>1, <1>4, <1>5
  <2> QED
    BY <2>1, BestLatencyIsAFraction, BestLatencyOfGood
<1>9. ASSUME ~counts PROVE after = before
  BY <1>1, <1>2, <1>8, <1>9
<1>10. ASSUME counts, ~probe.successful PROVE after <= before
  <2>1. new = old \cup {x} /\ better = good
    BY <1>1, <1>10
  <2>2. /\ AtMost(SuccessRate(new, good), SuccessRate(old, good))
        /\ SuccessRate(new, good) \in Fractions
    BY <1>1, <1>4, <2>1, FailureLowersRate
  <2>3. AtMost(BestLatency(obs, good), BestLatency(obs, good))
    BY <1>8, AtMostReflexive
  <2> QED
    BY <1>2, <1>3, <1>7, <1>8, <2>1, <2>2, <2>3, WeightedIsMonotone
<1>11. ASSUME counts, probe.successful, old = {} PROVE before <= after
  <2>1. new = old \cup {x} /\ better = {x} /\ good = {}
    BY <1>1, <1>4, <1>11
  <2>2. SuccessRate(old, good) = Half /\ BestLatency(obs, good) = Half
    BY <1>11, <2>1 DEF SuccessRate, BestLatency
  <2>3. SuccessRate(new, better) = Fraction(1, 1)
    BY <1>1, <1>4, <1>11, <2>1, SuccessRaisesRate
  <2>4. BestLatency(os, better) = LatencyScore(probe.latency_ms)
    BY <1>1, <2>1, FirstLatency
  <2> QED
    BY <1>2, <1>3, <2>2, <2>3, <2>4, FirstSuccess
<1>12. ASSUME counts, probe.successful, good # {} PROVE before <= after
  <2>1. new = old \cup {x} /\ better = good \cup {x} /\ old # {}
    BY <1>1, <1>4, <1>12
  <2>2. /\ AtMost(SuccessRate(old, good), SuccessRate(new, better))
        /\ SuccessRate(new, better) \in Fractions
    BY <1>1, <1>4, <2>1, SuccessRaisesRate
  <2>3. \A i \in good \cup {x} : os[i].latency_ms \in Nat
    BY <1>1, <1>4, <1>5
  <2>4. AtMost(BestLatency(os, good), BestLatency(os, better))
    BY <1>12, <2>1, <2>3, SuccessRaisesLatency
  <2>5. BestLatency(os, better) \in Fractions
    BY <2>1, <2>3, BestLatencyIsAFraction
  <2> QED
    BY <1>2, <1>3, <1>7, <1>8, <2>2, <2>4, <2>5, WeightedIsMonotone
<1> QED
  BY <1>6, <1>9, <1>10, <1>11, <1>12 DEF more, obs, old, before, after, counts

-----------------------------------------------------------------------------
\* The theorems.

\* decode and decode_versioned give back what envelope and envelope_v2 wrapped,
\* refuse it only for a blank identifier or a version they do not speak, and
\* never deliver a foreign frame as another version or type: for every set of
\* messages and frames.
THEOREM MessagesArriveAsSent == Spec => []SentIsWhatArrives
<1>1. BoundaryInv => SentIsWhatArrives
  BY DEF BoundaryInv
<1> QED
  BY <1>1, InitBoundaryInv, NextBoundaryInv, PTL DEF Spec

\* Every page decode_v2 lets through can be continued to the end of its catch-up
\* by pages of every size, and joined with each of them, for every width of the
\* sequence numbers and every length of a page.
THEOREM PagesAlwaysCompose == Spec => []CatchUpPagesCompose
<1>1. BoundaryInv => CatchUpPagesCompose
  <2> SUFFICES ASSUME BoundaryInv, Delivered("catch_up_page") PROVE CatchUpPagesCompose
    BY DEF CatchUpPagesCompose
  <2> DEFINE p == item.message.page
  <2>1. /\ IsMessage(FieldsV2, item.message) /\ ValidMessageV2(item.message)
        /\ item.message.type = "catch_up_page"
    BY DEF BoundaryInv, StageInv, Delivered
  <2>2. "page" \in DOMAIN item.message /\ "type" \in DOMAIN item.message
    BY <2>1 DEF IsMessage, FieldsV2
  <2>3. p \in Pages
    BY <2>1, <2>2 DEF IsMessage, TypedValues
  <2>4. ValidPage(p)
    BY <2>1 DEF ValidMessageV2
  <2>5. p.terminal <=> p.current_sequence = p.through_sequence
    BY <2>4 DEF ValidPage
  <2>6. \A n \in 1..(p.current_sequence - p.through_sequence) :
          ValidPage(NextPage(p, n)) /\ ValidPage(Joined(p, NextPage(p, n)))
    BY <2>3, <2>4, PagesCompose
  <2> QED
    BY <2>5, <2>6 DEF CatchUpPagesCompose
<1> QED
  BY <1>1, InitBoundaryInv, NextBoundaryInv, PTL DEF Spec

\* From the snapshot a decoded ResyncRequired names, and from every cursor its
\* retained events reach, the missing suffix is a page that decode_v2 accepts,
\* up to the last sequence number but one.
THEOREM ResyncsCanBeActedOn == Spec => []ResyncIsActionable
<1>1. BoundaryInv => ResyncIsActionable
  <2> SUFFICES ASSUME BoundaryInv, Delivered("resync_required") PROVE ResyncIsActionable
    BY DEF ResyncIsActionable
  <2> DEFINE m == item.message
             s == m.snapshot_revision
  <2>1. IsMessage(FieldsV2, m) /\ ValidMessageV2(m) /\ m.type = "resync_required"
    BY DEF BoundaryInv, StageInv, Delivered
  <2>2. {"type", "snapshot_revision", "earliest_available_sequence",
         "current_sequence"} \subseteq DOMAIN m
    BY <2>1 DEF IsMessage, FieldsV2
  <2>3. /\ m.earliest_available_sequence \in U64 /\ m.current_sequence \in U64
        /\ s \in U64 \cup {NoRevision}
    BY <2>1, <2>2 DEF IsMessage, TypedValues
  <2>4. ValidResync(m)
    BY <2>1 DEF ValidMessageV2
  <2> HIDE DEF m
  <2>5. ASSUME s # NoRevision, s # m.current_sequence
        PROVE  ValidPage(SuffixPage(m, s, s))
    <3>1. s \in Nat /\ s < m.current_sequence /\ m.earliest_available_sequence <= s + 1
      BY <2>3, <2>4, <2>5, WireAssumption DEF ValidResync, U64
    <3> QED
      BY <2>3, <2>4, <3>1, SuffixIsAPage
  <2>6. ASSUME NEW r \in (m.earliest_available_sequence - 1)..(m.current_sequence - 1)
        PROVE  ValidPage(SuffixPage(m, r, NoRevision))
    <3>1. r \in Nat /\ r < m.current_sequence /\ m.earliest_available_sequence <= r + 1
      BY <2>3, <2>4, WireAssumption DEF ValidResync, U64
    <3> QED
      BY <2>3, <2>4, <3>1, SuffixIsAPage
  <2> QED
    BY <2>5, <2>6 DEF ResyncIsActionable, m
<1> QED
  BY <1>1, InitBoundaryInv, NextBoundaryInv, PTL DEF Spec

\* Policy and contract alone decide whether evaluate rejects, with which reasons,
\* and observations change neither status nor reasons: for every job and every
\* list of nodes that validate.
THEOREM PolicyStaysAGate == Spec => []PolicyIsAGate
<1>1. BoundaryInv => PolicyIsAGate
  <2> SUFFICES ASSUME BoundaryInv, stage = "ranked", NEW c \in Candidates
               PROVE  OnlyPolicyRejects(origin.job, c[1], c[2])
    BY DEF PolicyIsAGate
  <2>1. IsRequest(origin) /\ ValidRequest(origin)
    BY DEF BoundaryInv, StageInv
  <2>2. PICK node \in Range(origin.nodes) : \E offer \in Range(node.capabilities) :
          c = <<node, offer>>
    BY DEF Candidates
  <2>3. PICK offer \in Range(node.capabilities) : c = <<node, offer>>
    BY <2>2
  <2>4. PICK k \in DOMAIN origin.nodes : node = origin.nodes[k]
    BY DEF Range
  <2>5. PICK o \in DOMAIN node.capabilities : offer = node.capabilities[o]
    BY DEF Range
  <2>6. /\ origin.job.estimated_memory \in Nat
        /\ DOMAIN node = {"node_id", "network", "capabilities", "policy", "online",
                          "active_jobs", "available_memory", "observations"}
        /\ offer.concurrency \in Nat
    BY <2>1, <2>4, <2>5, RequestAssumption DEF IsRequest
  <2>7. offer.concurrency # 0
    BY <2>1, <2>4, <2>5 DEF ValidRequest, ValidNodes, ValidNode
  <2>8. c[1] = node /\ c[2] = offer
    BY <2>3
  <2> QED
    BY <2>6, <2>7, <2>8, GateHolds
<1> QED
  BY <1>1, InitBoundaryInv, NextBoundaryInv, PTL DEF Spec

\* Observations are evidence that works in one direction: for every file, every
\* candidate in it and every observation that could be added, a failure never
\* raises the rounded score, a success never lowers it unless the offer has only
\* failed so far, and an observation about something else does not move it.
THEOREM EvidenceMovesScores == Spec => []ObservationsMoveScoresTheRightWay
<1>1. BoundaryInv => ObservationsMoveScoresTheRightWay
  <2> SUFFICES ASSUME BoundaryInv, stage = "ranked", NEW c \in Candidates,
                      NEW probe \in Probes
               PROVE  LET node     == c[1]
                          relevant == Relevant(origin.job, node, c[2])
                          before   == FinalScore(origin.job, node, c[2])
                          after    == FinalScore(origin.job,
                                        [node EXCEPT !.observations = Append(@, probe)],
                                        c[2])
                          counts   == Counts(origin.job, c[2], probe)
                      IN  /\ ~counts => after = before
                          /\ counts /\ ~probe.successful => after <= before
                          /\ (/\ counts /\ probe.successful
                              /\ \/ relevant = {}
                                 \/ \E i \in relevant : node.observations[i].successful)
                               => after >= before
    BY DEF ObservationsMoveScoresTheRightWay, Counts
  <2>1. IsRequest(origin)
    BY DEF BoundaryInv, StageInv
  <2>2. PICK node \in Range(origin.nodes) : \E offer \in Range(node.capabilities) :
          c = <<node, offer>>
    BY DEF Candidates
  <2>3. PICK offer \in Range(node.capabilities) : c = <<node, offer>>
    BY <2>2
  <2>4. PICK k \in DOMAIN origin.nodes : node = origin.nodes[k]
    BY DEF Range
  <2>5. PICK o \in DOMAIN node.capabilities : offer = node.capabilities[o]
    BY DEF Range
  <2>6. /\ origin.job.requirement.minimum \in Nat
        /\ "observations" \in DOMAIN node /\ offer.contract.limit \in Nat
    BY <2>1, <2>4, <2>5, RequestAssumption DEF IsRequest
  <2>7. Observed(node.observations)
    BY <2>1, <2>4, RequestAssumption DEF IsRequest, Observed
  <2>8. probe.latency_ms \in Nat
    BY ProbesAssumption
  <2>9. c[1] = node /\ c[2] = offer
    BY <2>3
  <2> QED
    BY <2>6, <2>7, <2>8, <2>9, ScoreMoves
<1> QED
  BY <1>1, InitBoundaryInv, NextBoundaryInv, PTL DEF Spec

-----------------------------------------------------------------------------
\* The order of results.

\* Results that compare_results can order, and what it orders them by in the end.
Comparable(r) ==
  /\ r.score \in Int /\ r.node_id \in Nat /\ r.capability_offer_id \in Nat

SameKey(r, s) ==
  r.node_id = s.node_id /\ r.capability_offer_id = s.capability_offer_id

LEMMA StatusOrderIsANumber == \A status : StatusOrder(status) \in Nat
BY DEF StatusOrder

LEMMA PrecedesOneWay ==
  ASSUME NEW r, NEW s, Comparable(r), Comparable(s)
  PROVE  ~(Precedes(r, s) /\ Precedes(s, r))
<1>1. StatusOrder(r.status) \in Nat /\ StatusOrder(s.status) \in Nat
  BY StatusOrderIsANumber
<1> QED
  BY <1>1 DEF Precedes, Comparable

LEMMA PrecedesOrFollows ==
  ASSUME NEW r, NEW s, Comparable(r), Comparable(s), ~SameKey(r, s)
  PROVE  Precedes(r, s) \/ Precedes(s, r)
<1>1. StatusOrder(r.status) \in Nat /\ StatusOrder(s.status) \in Nat
  BY StatusOrderIsANumber
<1> QED
  BY <1>1 DEF Precedes, Comparable, SameKey

LEMMA PrecedesTransitive ==
  ASSUME NEW r, NEW s, NEW t, Comparable(r), Comparable(s), Comparable(t),
         Precedes(r, s), Precedes(s, t)
  PROVE  Precedes(r, t)
<1>1. /\ StatusOrder(r.status) \in Nat /\ StatusOrder(s.status) \in Nat
      /\ StatusOrder(t.status) \in Nat
  BY StatusOrderIsANumber
<1> QED
  BY <1>1 DEF Precedes, Comparable

\* A finite set of results with different keys.
Rankable(S) ==
  /\ IsFiniteSet(S)
  /\ \A r \in S : Comparable(r)
  /\ \A r, s \in S : SameKey(r, s) => r = s

\* Where a result stands among those of S.
Above(S, r) == {s \in S : Precedes(s, r)}
Standing(S, r) == 1 + Cardinality(Above(S, r))

\* What precedes stands further up, so that no two results share a standing.
LEMMA StandingRises ==
  ASSUME NEW S, Rankable(S), NEW r \in S, NEW s \in S, Precedes(r, s)
  PROVE  Standing(S, r) < Standing(S, s)
<1> DEFINE A == Above(S, r) B == Above(S, s)
<1>1. IsFiniteSet(B) /\ Cardinality(B) \in Nat
  BY FS_Subset, FS_CardinalityType DEF Above, Rankable
<1>2. A \in SUBSET B
  BY PrecedesTransitive DEF Above, Rankable
<1>3. r \in B /\ r \notin A
  BY PrecedesOneWay DEF Above, Rankable
<1> HIDE DEF A, B
<1>4. IsFiniteSet(A) /\ Cardinality(A) \in Nat /\ Cardinality(A) <= Cardinality(B)
      /\ (Cardinality(B) = Cardinality(A) => B = A)
  BY <1>1, <1>2, FS_Subset, FS_CardinalityType
<1>5. Cardinality(A) < Cardinality(B)
  BY <1>1, <1>3, <1>4
<1> QED
  BY <1>1, <1>4, <1>5 DEF Standing, A, B

LEMMA StandingIsUnique ==
  ASSUME NEW S, Rankable(S), NEW r \in S, NEW s \in S, Standing(S, r) = Standing(S, s)
  PROVE  r = s
<1> SUFFICES ASSUME r # s PROVE FALSE
  OBVIOUS
<1>1. Precedes(r, s) \/ Precedes(s, r)
  BY PrecedesOrFollows DEF Rankable
<1>2. Standing(S, r) \in Nat /\ Standing(S, s) \in Nat
  <2>1. IsFiniteSet(Above(S, r)) /\ IsFiniteSet(Above(S, s))
    BY FS_Subset DEF Above, Rankable
  <2> QED
    BY <2>1, FS_CardinalityType DEF Standing
<1> QED
  BY <1>1, <1>2, StandingRises

LEMMA EveryStandingIsTaken ==
  ASSUME NEW S, Rankable(S), NEW n \in 1..Cardinality(S)
  PROVE  \E r \in S : Standing(S, r) = n
<1> DEFINE c == Cardinality(S) f == [r \in S |-> Standing(S, r)]
<1>1. IsFiniteSet(S) /\ c \in Nat
  BY FS_CardinalityType DEF Rankable
<1>2. ASSUME NEW r \in S PROVE Standing(S, r) \in 1..c
  <2>1. /\ IsFiniteSet(S \ {r}) /\ Cardinality(S \ {r}) = c - 1
    BY <1>1, FS_RemoveElement
  <2>2. Above(S, r) \in SUBSET (S \ {r})
    BY PrecedesOneWay DEF Above, Rankable
  <2>3. IsFiniteSet(Above(S, r)) /\ Cardinality(Above(S, r)) <= c - 1
    BY <2>1, <2>2, FS_Subset
  <2>4. Cardinality(Above(S, r)) \in Nat
    BY <2>3, FS_CardinalityType
  <2> HIDE DEF c
  <2> QED
    BY <1>1, <2>3, <2>4 DEF Standing
<1>3. f \in Injection(S, 1..c)
  <2>1. f \in [S -> 1..c]
    BY <1>2
  <2>2. \A r, s \in S : f[r] = f[s] => r = s
    BY StandingIsUnique
  <2> HIDE DEF f
  <2> QED
    BY <2>1, <2>2 DEF Injection, IsInjective
<1>4. IsFiniteSet(1..c) /\ Cardinality(1..c) = c
  <2> HIDE DEF c
  <2> QED
    BY <1>1, FS_Interval
<1>5. f \in Surjection(S, 1..c)
  BY <1>3, <1>4, FS_Injection
<1> QED
  BY <1>5 DEF Surjection

\* ranking lists the results of S, each at its standing.
Lists(ranking, S) ==
  /\ ranking = [n \in 1..Cardinality(S) |-> ranking[n]]
  /\ \A n \in 1..Cardinality(S) : ranking[n] \in S /\ Standing(S, ranking[n]) = n

\* There is one such list.
LEMMA ListsAreUnique ==
  ASSUME NEW S, Rankable(S), NEW x, NEW y, Lists(x, S), Lists(y, S)
  PROVE  x = y
<1>1. \A n \in 1..Cardinality(S) : x[n] = y[n]
  BY StandingIsUnique DEF Lists
<1> QED
  BY <1>1 DEF Lists

\* The results a ranking is made of.
Results(job, nodes) == {ResultAt(job, nodes, p) : p \in Places(job, nodes)}

\* The places of results that can be ordered and have different keys.
Sortable(job, nodes) ==
  LET P == Places(job, nodes) IN
  /\ IsFiniteSet(P) /\ P \subseteq Nat \X Nat
  /\ \A p \in P : Comparable(ResultAt(job, nodes, p))
  /\ \A p, q \in P : SameKey(ResultAt(job, nodes, p), ResultAt(job, nodes, q)) => p = q

\* rank lists the results of all places.
LEMMA RankLists ==
  ASSUME NEW job, NEW nodes, Sortable(job, nodes)
  PROVE  Rankable(Results(job, nodes)) /\ Lists(Rank(job, nodes), Results(job, nodes))
<1> DEFINE P == Places(job, nodes)
           R == [p \in P |-> ResultAt(job, nodes, p)]
           S == Results(job, nodes)
           At(p) == 1 + Cardinality({q \in P : IsBefore(R, q, p)})
           rankOf == [p \in P |-> At(p)]
           ranking == [n \in 1..Cardinality(P) |-> R[CHOOSE p \in P : rankOf[p] = n]]
<1>1. Rank(job, nodes) = ranking
  BY DEF Rank
<1>2. /\ IsFiniteSet(P) /\ P \subseteq Nat \X Nat
      /\ \A p \in P : R[p] = ResultAt(job, nodes, p) /\ Comparable(R[p])
      /\ \A p, q \in P : SameKey(R[p], R[q]) => p = q
  BY DEF Sortable
<1>3. S = {R[p] : p \in P} /\ R \in [P -> S]
  BY DEF Results
<1> HIDE DEF P, R, S
<1>4. R \in Bijection(P, S)
  <2>1. \A p, q \in P : R[p] = R[q] => p = q
    BY <1>2 DEF SameKey
  <2> QED
    BY <1>3, <2>1 DEF Bijection, Injection, Surjection, IsInjective
<1>5. IsFiniteSet(S) /\ Cardinality(S) = Cardinality(P)
  BY <1>2, <1>4, FS_Bijection DEF ExistsBijection
<1>6. Rankable(S)
  <2>1. \A r \in S : Comparable(r)
    BY <1>2, <1>3
  <2>2. \A r, s \in S : SameKey(r, s) => r = s
    BY <1>2, <1>3
  <2> QED
    BY <1>5, <2>1, <2>2 DEF Rankable
<1>7. ASSUME NEW p \in P, NEW q \in P PROVE IsBefore(R, q, p) <=> Precedes(R[q], R[p])
  <2>1. CASE p = q
    <3>1. p[1] \in Nat /\ p[2] \in Nat
      BY <1>2
    <3>2. ~IsEarlier(p, p)
      BY <3>1 DEF IsEarlier
    <3> QED
      BY <2>1, <3>2 DEF IsBefore
  <2>2. CASE p # q
    <3>1. ~SameKey(R[p], R[q]) /\ Comparable(R[p]) /\ Comparable(R[q])
      BY <1>2, <2>2
    <3> QED
      BY <3>1, PrecedesOneWay, PrecedesOrFollows DEF IsBefore
  <2> QED
    BY <2>1, <2>2
<1>8. ASSUME NEW p \in P PROVE At(p) = Standing(S, R[p])
  <2> DEFINE Q == {q \in P : IsBefore(R, q, p)} A == Above(S, R[p])
             f == [q \in Q |-> R[q]]
  <2>1. f \in Bijection(Q, A)
    <3>1. \A q \in Q : R[q] \in A
      BY <1>3, <1>7 DEF Above
    <3>2. \A r \in A : \E q \in Q : R[q] = r
      BY <1>3, <1>7 DEF Above
    <3>3. \A q, s \in Q : R[q] = R[s] => q = s
      BY <1>2 DEF SameKey
    <3> HIDE DEF Q, A
    <3> QED
      BY <3>1, <3>2, <3>3 DEF Bijection, Injection, Surjection, IsInjective
  <2>2. IsFiniteSet(Q)
    BY <1>2, FS_Subset
  <2> HIDE DEF Q, A, f
  <2>3. Cardinality(A) = Cardinality(Q)
    BY <2>1, <2>2, FS_Bijection DEF ExistsBijection
  <2> QED
    BY <2>3 DEF Standing, Q, A
<1>9. ASSUME NEW n \in 1..Cardinality(P)
      PROVE  ranking[n] \in S /\ Standing(S, ranking[n]) = n
  <2>1. \E p \in P : rankOf[p] = n
    <3>1. PICK r \in S : Standing(S, r) = n
      BY <1>5, <1>6, EveryStandingIsTaken
    <3>2. PICK p \in P : r = R[p]
      BY <1>3
    <3>3. At(p) = n
      BY <1>8, <3>1, <3>2
    <3> HIDE DEF At
    <3> QED
      BY <3>3
  <2> DEFINE c == CHOOSE p \in P : rankOf[p] = n
  <2>2. c \in P /\ rankOf[c] = n
    BY <2>1
  <2>3. ranking[n] = R[c]
    OBVIOUS
  <2> HIDE DEF c, ranking
  <2>4. At(c) = n
    <3> HIDE DEF At
    <3> QED
      BY <2>2
  <2> QED
    BY <1>3, <1>8, <2>2, <2>3, <2>4
<1>10. Lists(ranking, S)
  <2>1. ranking = [n \in 1..Cardinality(S) |-> ranking[n]]
    BY <1>5
  <2> HIDE DEF ranking
  <2> QED
    BY <1>5, <1>9, <2>1 DEF Lists
<1> QED
  BY <1>1, <1>6, <1>10 DEF S

\* Documents with the same results have the same ranking.
LEMMA SameResultsSameRanking ==
  ASSUME NEW job, NEW nodes, NEW others, Sortable(job, nodes), Sortable(job, others),
         Results(job, nodes) = Results(job, others)
  PROVE  Rank(job, nodes) = Rank(job, others)
BY RankLists, ListsAreUnique

-----------------------------------------------------------------------------
\* The places of a document.

LEMMA SequenceIsFinite ==
  ASSUME NEW q, q \in Seq(Range(q)) PROVE IsFiniteSet(DOMAIN q)
<1>1. DOMAIN q = 1..Len(q) /\ Len(q) \in Nat
  OBVIOUS
<1>2. IsFiniteSet(1..Len(q))
  BY <1>1, FS_Interval
<1> QED
  BY <1>1, <1>2

IsNode(node) ==
  /\ DOMAIN node = {"node_id", "network", "capabilities", "policy", "online",
                    "active_jobs", "available_memory", "observations"}
  /\ node.node_id \in Nat
  /\ node.capabilities \in Seq(Range(node.capabilities))
  /\ \A o \in DOMAIN node.capabilities :
       /\ node.capabilities[o].id \in Nat
       /\ node.capabilities[o].contract.limit \in Nat
  /\ Observed(node.observations)

IsDocument(job, nodes) ==
  /\ job.requirement.minimum \in Nat
  /\ nodes \in Seq(Range(nodes))
  /\ \A k \in DOMAIN nodes : IsNode(nodes[k])
  /\ ValidNodes(nodes)

\* A score is a number.
LEMMA ScoreIsANumber ==
  ASSUME NEW job, NEW node, NEW offer, job.requirement.minimum \in Nat,
         offer.contract.limit \in Nat, Observed(node.observations)
  PROVE  FinalScore(job, node, offer) \in Int
<1> DEFINE relevant == Relevant(job, node, offer) good == Good(node, relevant)
           rate == SuccessRate(relevant, good)
           latency == BestLatency(node.observations, good)
           headroom == ContractHeadroom(job.requirement, offer.contract)
           n == Weighted(rate, latency, headroom) d == Scale(rate, latency, headroom)
<1>1. relevant \in SUBSET (DOMAIN node.observations) /\ good \in SUBSET relevant
  BY DEF Relevant, Good
<1>3. IsFiniteSet(relevant)
  <2>1. IsFiniteSet(DOMAIN node.observations)
    BY SequenceIsFinite DEF Observed
  <2> QED
    BY <1>1, <2>1, FS_Subset
<1>4. rate \in Fractions
  BY <1>1, <1>3, RateIsAFraction
<1>5. latency \in Fractions
  <2>1. \A i \in good : node.observations[i].latency_ms \in Nat
    BY <1>1 DEF Observed
  <2> QED
    BY <2>1, BestLatencyIsAFraction
<1>6. headroom \in Fractions
  BY HeadroomIsAFraction
<1>7. FinalScore(job, node, offer) = Rounded(rate, latency, headroom)
  BY ScoreParts
<1> HIDE DEF rate, latency, headroom
<1>8. /\ rate.n \in Nat /\ rate.d \in Nat /\ rate.d > 0
      /\ latency.n \in Nat /\ latency.d \in Nat /\ latency.d > 0
      /\ headroom.n \in Nat /\ headroom.d \in Nat /\ headroom.d > 0
  BY <1>4, <1>5, <1>6, FractionParts
<1>9. n \in Nat /\ d \in Nat /\ d > 0
  <2>1. rate.d * latency.d \in Nat /\ rate.d * latency.d > 0
    BY <1>8, Positive
  <2>2. d \in Nat /\ d > 0
    BY <1>8, <2>1, Positive DEF Scale
  <2> QED
    BY <1>8, <2>2 DEF Weighted
<1>10. Rounded(rate, latency, headroom) = (2 * n + d) \div (2 * d)
  BY DEF Rounded
<1> HIDE DEF n, d
<1>11. (2 * n + d) \div (2 * d) \in Int
  <2>1. 2 * n + d \in Nat /\ 2 * d \in Nat /\ 2 * d > 0
    BY <1>9
  <2>2. (2 * n + d) \div (2 * d) \in Nat
    BY <2>1, Quotient
  <2> QED
    BY <2>2
<1> QED
  BY <1>7, <1>10, <1>11

\* What a place's result is known by.
LEMMA ResultKey ==
  ASSUME NEW job, NEW nodes, NEW p
  PROVE  /\ ResultAt(job, nodes, p).node_id = nodes[p[1]].node_id
         /\ ResultAt(job, nodes, p).capability_offer_id
              = IF p[2] = 0 THEN 0 ELSE nodes[p[1]].capabilities[p[2]].id
BY DEF ResultAt, Evaluate, Result

LEMMA PlaceParts ==
  ASSUME NEW job, NEW nodes
  PROVE  /\ \A p \in Places(job, nodes) :
              \E k \in DOMAIN nodes : \E o \in OfferPlaces(job, nodes[k]) : p = <<k, o>>
         /\ \A k \in DOMAIN nodes : \A o \in OfferPlaces(job, nodes[k]) :
              <<k, o>> \in Places(job, nodes)
         /\ \A k \in DOMAIN nodes :
              OfferPlaces(job, nodes[k]) \subseteq DOMAIN nodes[k].capabilities \cup {0}
<1> DEFINE P(k) == {k} \X OfferPlaces(job, nodes[k])
<1>1. \A k \in DOMAIN nodes :
        OfferPlaces(job, nodes[k]) \subseteq DOMAIN nodes[k].capabilities \cup {0}
  BY DEF OfferPlaces
<1>2. ASSUME NEW p \in Places(job, nodes)
      PROVE  \E k \in DOMAIN nodes : \E o \in OfferPlaces(job, nodes[k]) : p = <<k, o>>
  <2>1. PICK k \in DOMAIN nodes : p \in P(k)
    BY DEF Places
  <2> QED
    BY <2>1
<1>3. ASSUME NEW k \in DOMAIN nodes, NEW o \in OfferPlaces(job, nodes[k])
      PROVE  <<k, o>> \in Places(job, nodes)
  <2>1. <<k, o>> \in P(k)
    OBVIOUS
  <2> QED
    BY <2>1 DEF Places
<1> QED
  BY <1>1, <1>2, <1>3

LEMMA ScoreOfAPlace ==
  ASSUME NEW job, NEW nodes, IsDocument(job, nodes), NEW k \in DOMAIN nodes,
         NEW o \in DOMAIN nodes[k].capabilities \cup {0}
  PROVE  Comparable(ResultAt(job, nodes, <<k, o>>))
<1> DEFINE node == nodes[k] r == ResultAt(job, nodes, <<k, o>>)
<1>1. IsNode(node)
  BY DEF IsDocument
<1>2. r.node_id \in Nat /\ r.capability_offer_id \in Nat
  <2>1. /\ r.node_id = node.node_id
        /\ r.capability_offer_id = IF o = 0 THEN 0 ELSE node.capabilities[o].id
    BY ResultKey
  <2> QED
    BY <1>1, <2>1 DEF IsNode
<1>3. r.score \in Int
  <2>1. CASE o = 0
    BY <2>1 DEF ResultAt, Result, NoScore
  <2>2. CASE o # 0
    <3> DEFINE offer == node.capabilities[o]
    <3>1. FinalScore(job, node, offer) \in Int
      BY <1>1, <2>2, ScoreIsANumber DEF IsNode, IsDocument
    <3>2. r = Evaluate(job, node, offer)
      BY <2>2 DEF ResultAt
    <3>3. Evaluate(job, node, offer).score \in {NoScore, FinalScore(job, node, offer)}
      BY DEF Evaluate, Result
    <3> QED
      BY <3>1, <3>2, <3>3 DEF NoScore
  <2> QED
    BY <2>1, <2>2
<1> QED
  BY <1>2, <1>3 DEF Comparable

\* The places of a valid document can be sorted: their number is finite, and no two
\* have the same node and offer id.
LEMMA DocumentsAreSortable ==
  ASSUME NEW job, NEW nodes, IsDocument(job, nodes)
  PROVE  Sortable(job, nodes)
<1> DEFINE P == Places(job, nodes)
           Own(k) == {k} \X (DOMAIN nodes[k].capabilities \cup {0})
<1>1. DOMAIN nodes = 1..Len(nodes) /\ Len(nodes) \in Nat
  BY DEF IsDocument
<1>2. ASSUME NEW k \in DOMAIN nodes
      PROVE  /\ DOMAIN nodes[k].capabilities = 1..Len(nodes[k].capabilities)
             /\ Len(nodes[k].capabilities) \in Nat
  BY DEF IsDocument, IsNode
<1>3. ASSUME NEW p \in P
      PROVE  \E k \in DOMAIN nodes : \E o \in DOMAIN nodes[k].capabilities \cup {0} :
               p = <<k, o>>
  BY PlaceParts
<1> HIDE DEF P
<1>4. P \subseteq Nat \X Nat
  BY <1>1, <1>2, <1>3
<1>5. IsFiniteSet(P)
  <2> DEFINE T == UNION {Own(k) : k \in DOMAIN nodes}
             f == [k \in DOMAIN nodes |-> Own(k)]
  <2>1. ASSUME NEW k \in DOMAIN nodes PROVE IsFiniteSet(Own(k))
    <3>1. IsFiniteSet(DOMAIN nodes[k].capabilities)
      BY SequenceIsFinite DEF IsDocument, IsNode
    <3>2. IsFiniteSet(DOMAIN nodes[k].capabilities \cup {0})
      BY <3>1, FS_AddElement
    <3>3. IsFiniteSet({k})
      BY FS_Singleton
    <3> QED
      BY <3>2, <3>3, FS_Product
  <2>2. IsFiniteSet({Own(k) : k \in DOMAIN nodes})
    <3>1. IsFiniteSet(DOMAIN nodes)
      BY SequenceIsFinite DEF IsDocument
    <3> HIDE DEF Own
    <3>2. f \in Surjection(DOMAIN nodes, {Own(k) : k \in DOMAIN nodes})
      BY DEF Surjection
    <3> QED
      BY <3>1, <3>2, FS_Surjection
  <2>3. IsFiniteSet(T)
    <3> HIDE DEF Own
    <3> QED
      BY <2>1, <2>2, FS_UNION
  <2>4. P \in SUBSET T
    <3>1. ASSUME NEW p \in P PROVE p \in T
      BY <1>3
    <3> QED
      BY <3>1
  <2> HIDE DEF T
  <2> QED
    BY <2>3, <2>4, FS_Subset
<1>6. \A p \in P : Comparable(ResultAt(job, nodes, p))
  BY <1>3, ScoreOfAPlace
<1>7. ASSUME NEW p \in P, NEW q \in P,
             SameKey(ResultAt(job, nodes, p), ResultAt(job, nodes, q))
      PROVE  p = q
  <2>1. PICK k \in DOMAIN nodes : \E o \in DOMAIN nodes[k].capabilities \cup {0} :
          p = <<k, o>>
    BY <1>3
  <2>2. PICK o \in DOMAIN nodes[k].capabilities \cup {0} : p = <<k, o>>
    BY <2>1
  <2>3. PICK l \in DOMAIN nodes : \E u \in DOMAIN nodes[l].capabilities \cup {0} :
          q = <<l, u>>
    BY <1>3
  <2>4. PICK u \in DOMAIN nodes[l].capabilities \cup {0} : q = <<l, u>>
    BY <2>3
  <2>5. /\ nodes[k].node_id = nodes[l].node_id
        /\ (IF o = 0 THEN 0 ELSE nodes[k].capabilities[o].id)
             = IF u = 0 THEN 0 ELSE nodes[l].capabilities[u].id
    BY <1>7, <2>2, <2>4, ResultKey DEF SameKey
  <2>6. k = l
    BY <2>5 DEF IsDocument, ValidNodes
  <2>7. ValidNode(nodes[k])
    BY DEF IsDocument, ValidNodes
  <2>8. o = u
    <3>1. \A i \in DOMAIN nodes[k].capabilities :
            /\ nodes[k].capabilities[i].id # 0
            /\ \A j \in DOMAIN nodes[k].capabilities :
                 nodes[k].capabilities[j].id = nodes[k].capabilities[i].id => j = i
      BY <2>7 DEF ValidNode
    <3>2. 0 \notin DOMAIN nodes[k].capabilities
      BY <1>2
    <3> QED
      BY <2>5, <2>6, <3>1, <3>2
  <2> QED
    BY <2>2, <2>4, <2>6, <2>8
<1> QED
  BY <1>4, <1>5, <1>6, <1>7 DEF Sortable, P

-----------------------------------------------------------------------------
\* Documents in another order.

\* Where Reverse has the element i of q.
Mirror(q, i) == (Len(q) - i) + 1

LEMMA ReverseMirrors ==
  ASSUME NEW q, q \in Seq(Range(q))
  PROVE  /\ DOMAIN Reverse(q) = DOMAIN q /\ Len(Reverse(q)) = Len(q)
         /\ Reverse(q) \in Seq(Range(Reverse(q)))
         /\ \A i \in DOMAIN q :
              /\ Mirror(q, i) \in DOMAIN q /\ Mirror(q, Mirror(q, i)) = i
              /\ Reverse(q)[i] = q[Mirror(q, i)] /\ Reverse(q)[Mirror(q, i)] = q[i]
<1>1. DOMAIN q = 1..Len(q) /\ Len(q) \in Nat
  OBVIOUS
<1> DEFINE n == Len(q) r == Reverse(q)
<1>2. r = [i \in 1..n |-> q[(n - i) + 1]]
  BY DEF Reverse
<1>3. \A i \in 1..n : (n - i) + 1 \in 1..n /\ (n - ((n - i) + 1)) + 1 = i
  BY <1>1
<1>4. \A i \in 1..n : r[i] = q[(n - i) + 1]
  BY <1>2
<1>5. DOMAIN r = 1..n
  BY <1>2
<1>6. \A i \in 1..n : r[(n - i) + 1] = q[i]
  BY <1>3, <1>4
<1>7. r \in Seq(Range(r)) /\ Len(r) = n
  <2>1. \A i \in 1..n : r[i] \in Range(r)
    BY <1>5 DEF Range
  <2>2. r \in [1..n -> Range(r)]
    BY <1>2, <2>1
  <2> HIDE DEF r, n
  <2> QED
    BY <1>1, <2>2 DEF n
<1> HIDE DEF r, n
<1> QED
  BY <1>1, <1>3, <1>4, <1>5, <1>6, <1>7 DEF r, n, Mirror

\* The order of its observations does not matter to a score.
LEMMA ScoreIgnoresOrder ==
  ASSUME NEW job, NEW x, NEW y, NEW offer, Observed(x.observations),
         y.observations = Reverse(x.observations)
  PROVE  FinalScore(job, y, offer) = FinalScore(job, x, offer)
<1> DEFINE q == x.observations r == y.observations
           M == Relevant(job, x, offer) N == Relevant(job, y, offer)
           G == Good(x, M) H == Good(y, N)
<1>1. /\ DOMAIN r = DOMAIN q
      /\ \A i \in DOMAIN q :
           /\ Mirror(q, i) \in DOMAIN q /\ Mirror(q, Mirror(q, i)) = i
           /\ r[i] = q[Mirror(q, i)] /\ r[Mirror(q, i)] = q[i]
  BY ReverseMirrors DEF Observed
<1>2. M \subseteq DOMAIN q /\ N \subseteq DOMAIN q /\ G \subseteq M /\ H \subseteq N
  BY <1>1 DEF Relevant, Good
<1>3. /\ \A i \in M : Mirror(q, i) \in N
      /\ \A i \in N : Mirror(q, i) \in M
  BY <1>1 DEF Relevant
<1>4. /\ \A i \in G : Mirror(q, i) \in H
      /\ \A i \in H : Mirror(q, i) \in G
  BY <1>1, <1>2, <1>3 DEF Good
<1>5. IsFiniteSet(M) /\ IsFiniteSet(G)
  <2>1. IsFiniteSet(DOMAIN q)
    BY SequenceIsFinite DEF Observed
  <2> QED
    BY <1>2, <2>1, FS_Subset
<1> HIDE DEF M, N, G, H, q, r
<1>6. ASSUME NEW A \in SUBSET DOMAIN q, NEW B \in SUBSET DOMAIN q, IsFiniteSet(A),
             \A i \in A : Mirror(q, i) \in B, \A i \in B : Mirror(q, i) \in A
      PROVE  Cardinality(A) = Cardinality(B) /\ (A = {} <=> B = {})
  <2> DEFINE f == [i \in A |-> Mirror(q, i)]
  <2>1. f \in Bijection(A, B)
    <3>1. f \in [A -> B]
      BY <1>6
    <3>2. \A i, j \in A : f[i] = f[j] => i = j
      BY <1>1
    <3>3. \A j \in B : \E i \in A : f[i] = j
      BY <1>1, <1>6
    <3> HIDE DEF f
    <3> QED
      BY <3>1, <3>2, <3>3 DEF Bijection, Injection, Surjection, IsInjective
  <2>2. Cardinality(A) = Cardinality(B)
    BY <1>6, <2>1, FS_Bijection DEF ExistsBijection
  <2>3. A = {} <=> B = {}
    BY <1>6
  <2> QED
    BY <2>2, <2>3
<1>7. Cardinality(M) = Cardinality(N) /\ (M = {} <=> N = {})
  BY <1>2, <1>3, <1>5, <1>6
<1>8. Cardinality(G) = Cardinality(H) /\ (G = {} <=> H = {})
  <2>1. G \in SUBSET DOMAIN q /\ H \in SUBSET DOMAIN q
    BY <1>2
  <2> QED
    BY <1>4, <1>5, <1>6, <2>1
<1>9. {q[i].latency_ms : i \in G} = {r[i].latency_ms : i \in H}
  <2>1. ASSUME NEW i \in G PROVE q[i].latency_ms \in {r[j].latency_ms : j \in H}
    BY <1>1, <1>2, <1>4
  <2>2. ASSUME NEW i \in H PROVE r[i].latency_ms \in {q[j].latency_ms : j \in G}
    BY <1>1, <1>2, <1>4
  <2> QED
    BY <2>1, <2>2
<1>10. SuccessRate(N, H) = SuccessRate(M, G)
  BY <1>7, <1>8 DEF SuccessRate
<1>11. BestLatency(r, H) = BestLatency(q, G)
  BY <1>8, <1>9 DEF BestLatency
<1>12. /\ FinalScore(job, x, offer) =
            Rounded(SuccessRate(M, G), BestLatency(q, G),
                    ContractHeadroom(job.requirement, offer.contract))
       /\ FinalScore(job, y, offer) =
            Rounded(SuccessRate(N, H), BestLatency(r, H),
                    ContractHeadroom(job.requirement, offer.contract))
  BY ScoreParts DEF M, N, G, H, q, r
<1> QED
  BY <1>10, <1>11, <1>12

\* A node with its offers and observations in the opposite order.
Turned(node) == [node EXCEPT !.capabilities = Reverse(@), !.observations = Reverse(@)]

LEMMA TurnedFields ==
  ASSUME NEW x, IsNode(x)
  PROVE  LET y == Turned(x) IN
         /\ DOMAIN y = DOMAIN x
         /\ y.capabilities = Reverse(x.capabilities)
         /\ y.observations = Reverse(x.observations)
         /\ y.node_id = x.node_id /\ y.network = x.network /\ y.policy = x.policy
         /\ y.online = x.online /\ y.active_jobs = x.active_jobs
         /\ y.available_memory = x.available_memory
BY DEF IsNode, Turned

LEMMA EvaluateIgnoresOrder ==
  ASSUME NEW job, NEW x, NEW offer, IsNode(x)
  PROVE  Evaluate(job, Turned(x), offer) = Evaluate(job, x, offer)
<1> DEFINE y == Turned(x)
<1>1. /\ y.observations = Reverse(x.observations)
      /\ y.node_id = x.node_id /\ y.network = x.network /\ y.policy = x.policy
      /\ y.online = x.online /\ y.active_jobs = x.active_jobs
      /\ y.available_memory = x.available_memory
  BY TurnedFields
<1> HIDE DEF y
<1>2. FinalScore(job, y, offer) = FinalScore(job, x, offer)
  BY <1>1, ScoreIgnoresOrder DEF IsNode
<1>3. PolicyRejections(job, y) = PolicyRejections(job, x)
  BY <1>1 DEF PolicyRejections
<1>4. Unavailabilities(job, y, offer) = Unavailabilities(job, x, offer)
  BY <1>1 DEF Unavailabilities, ActiveJobs
<1>5. Evaluate(job, y, offer) = Evaluate(job, x, offer)
  BY <1>1, <1>2, <1>3, <1>4 DEF Evaluate, Result
<1> QED
  BY <1>5 DEF y

\* A node keeps its validity and its results.
LEMMA TurnedIsNode ==
  ASSUME NEW x, IsNode(x) PROVE IsNode(Turned(x))
<1> DEFINE y == Turned(x)
<1>1. /\ DOMAIN y = DOMAIN x /\ y.capabilities = Reverse(x.capabilities)
      /\ y.observations = Reverse(x.observations) /\ y.node_id = x.node_id
  BY TurnedFields
<1> HIDE DEF y
<1>2. /\ x.capabilities \in Seq(Range(x.capabilities))
      /\ x.observations \in Seq(Range(x.observations))
  BY DEF IsNode, Observed
<1>3. /\ y.capabilities \in Seq(Range(y.capabilities))
      /\ DOMAIN y.capabilities = DOMAIN x.capabilities
      /\ \A o \in DOMAIN x.capabilities :
           /\ Mirror(x.capabilities, o) \in DOMAIN x.capabilities
           /\ y.capabilities[o] = x.capabilities[Mirror(x.capabilities, o)]
  BY <1>1, <1>2, ReverseMirrors
<1>4. /\ y.observations \in Seq(Range(y.observations))
      /\ DOMAIN y.observations = DOMAIN x.observations
      /\ \A o \in DOMAIN x.observations :
           /\ Mirror(x.observations, o) \in DOMAIN x.observations
           /\ y.observations[o] = x.observations[Mirror(x.observations, o)]
  BY <1>1, <1>2, ReverseMirrors
<1>5. Observed(y.observations)
  BY <1>4 DEF IsNode, Observed
<1>6. \A o \in DOMAIN y.capabilities :
        /\ y.capabilities[o].id \in Nat
        /\ y.capabilities[o].contract.limit \in Nat
  BY <1>3 DEF IsNode
<1>7. IsNode(y)
  BY <1>1, <1>3, <1>5, <1>6 DEF IsNode
<1> QED
  BY <1>7 DEF y

LEMMA TurnedIsValid ==
  ASSUME NEW x, IsNode(x), ValidNode(x) PROVE ValidNode(Turned(x))
<1> DEFINE y == Turned(x) cs == x.capabilities ds == y.capabilities
           os == x.observations ps == y.observations
<1>1. /\ ds = Reverse(cs) /\ ps = Reverse(os)
      /\ y.node_id = x.node_id /\ y.network = x.network /\ y.active_jobs = x.active_jobs
  BY TurnedFields
<1>2. /\ DOMAIN ds = DOMAIN cs
      /\ \A o \in DOMAIN cs :
           /\ Mirror(cs, o) \in DOMAIN cs /\ Mirror(cs, Mirror(cs, o)) = o
           /\ ds[o] = cs[Mirror(cs, o)] /\ ds[Mirror(cs, o)] = cs[o]
  BY <1>1, ReverseMirrors DEF IsNode
<1>3. /\ DOMAIN ps = DOMAIN os
      /\ \A o \in DOMAIN os : Mirror(os, o) \in DOMAIN os /\ ps[o] = os[Mirror(os, o)]
  BY <1>1, ReverseMirrors DEF IsNode, Observed
<1>4. OfferIds(y) = OfferIds(x)
  <2>1. \A o \in DOMAIN cs : ds[o].id \in OfferIds(x)
    BY <1>2 DEF OfferIds
  <2>2. \A o \in DOMAIN cs : cs[o].id \in OfferIds(y)
    BY <1>2 DEF OfferIds
  <2> QED
    BY <1>2, <2>1, <2>2 DEF OfferIds
<1> HIDE DEF y
<1>5. \A i \in DOMAIN ds :
        /\ ds[i].id # 0 /\ ds[i].name # "" /\ ds[i].implementation # ""
        /\ ds[i].concurrency # 0
  <2>1. \A i \in DOMAIN cs :
          /\ cs[i].id # 0 /\ cs[i].name # "" /\ cs[i].implementation # ""
          /\ cs[i].concurrency # 0
    BY DEF ValidNode
  <2>2. ASSUME NEW i \in DOMAIN ds
        PROVE  ds[i] = cs[Mirror(cs, i)] /\ Mirror(cs, i) \in DOMAIN cs
    BY <1>2
  <2> HIDE DEF ds, cs
  <2> QED
    BY <2>1, <2>2, Zenon
<1>6. ASSUME NEW i \in DOMAIN ds, NEW j \in DOMAIN ds, ds[j].id = ds[i].id
      PROVE  j = i
  <2>1. cs[Mirror(cs, j)].id = cs[Mirror(cs, i)].id
    BY <1>2, <1>6
  <2>2. Mirror(cs, j) = Mirror(cs, i)
    BY <1>2, <2>1 DEF ValidNode
  <2> QED
    BY <1>2, <2>2
<1>7. \A i \in DOMAIN ps : ps[i].capability_offer_id \in OfferIds(y)
  BY <1>3, <1>4 DEF ValidNode
<1>8. y.node_id # 0 /\ y.network # "" /\ DOMAIN y.active_jobs \subseteq OfferIds(y)
  BY <1>1, <1>4 DEF ValidNode
<1>9. ValidNode(y)
  BY <1>5, <1>6, <1>7, <1>8 DEF ValidNode
<1> QED
  BY <1>9 DEF y

\* The result at a place, of the node alone.
ResultOf(job, node, o) ==
  IF o = 0 THEN Result(node, 0, "rejected", NoScore, {"capability_missing"})
  ELSE Evaluate(job, node, node.capabilities[o])

LEMMA ResultOfNode ==
  ASSUME NEW job, NEW nodes, NEW k, NEW o
  PROVE  ResultAt(job, nodes, <<k, o>>) = ResultOf(job, nodes[k], o)
BY DEF ResultAt, ResultOf

NodeResults(job, node) == {ResultOf(job, node, o) : o \in OfferPlaces(job, node)}

LEMMA TurnedResults ==
  ASSUME NEW job, NEW x, IsNode(x)
  PROVE  NodeResults(job, Turned(x)) = NodeResults(job, x)
<1> DEFINE y == Turned(x) cs == x.capabilities ds == y.capabilities
           Has(q) == {o \in DOMAIN q : q[o].name = job.capability}
<1>1. ds = Reverse(cs) /\ y.node_id = x.node_id
  BY TurnedFields
<1>2. /\ DOMAIN ds = DOMAIN cs
      /\ \A o \in DOMAIN cs :
           /\ Mirror(cs, o) \in DOMAIN cs /\ Mirror(cs, Mirror(cs, o)) = o
           /\ ds[o] = cs[Mirror(cs, o)] /\ ds[Mirror(cs, o)] = cs[o]
  BY <1>1, ReverseMirrors DEF IsNode
<1>3. \A offer : Evaluate(job, y, offer) = Evaluate(job, x, offer)
  BY EvaluateIgnoresOrder
<1>4. 0 \notin DOMAIN cs
  BY DEF IsNode
<1> HIDE DEF y
<1>5. /\ \A o \in Has(ds) : Mirror(cs, o) \in Has(cs)
      /\ \A o \in Has(cs) : Mirror(cs, o) \in Has(ds)
  BY <1>2
<1>6. /\ \A o \in Has(ds) : ResultOf(job, y, o) = ResultOf(job, x, Mirror(cs, o))
      /\ \A o \in Has(cs) : ResultOf(job, x, o) = ResultOf(job, y, Mirror(cs, o))
  BY <1>2, <1>3, <1>4 DEF ResultOf
<1>7. /\ OfferPlaces(job, x) = IF Has(cs) = {} THEN {0} ELSE Has(cs)
      /\ OfferPlaces(job, y) = IF Has(ds) = {} THEN {0} ELSE Has(ds)
  BY DEF OfferPlaces
<1>8. ResultOf(job, y, 0) = ResultOf(job, x, 0)
  BY <1>1 DEF ResultOf, Result
<1> HIDE DEF Has
<1>9. CASE Has(cs) = {}
  <2>1. Has(ds) = {}
    BY <1>5, <1>9
  <2> QED
    BY <1>7, <1>8, <1>9, <2>1 DEF NodeResults, y
<1>10. CASE Has(cs) # {}
  <2>1. Has(ds) # {}
    BY <1>5, <1>10
  <2>2. ASSUME NEW o \in Has(ds) PROVE ResultOf(job, y, o) \in NodeResults(job, x)
    BY <1>5, <1>6, <1>7, <1>10 DEF NodeResults
  <2>3. ASSUME NEW o \in Has(cs) PROVE ResultOf(job, x, o) \in NodeResults(job, y)
    BY <1>5, <1>6, <1>7, <2>1 DEF NodeResults
  <2>4. NodeResults(job, y) = NodeResults(job, x)
    BY <1>7, <1>10, <2>1, <2>2, <2>3 DEF NodeResults
  <2> QED
    BY <2>4 DEF y
<1> QED
  BY <1>9, <1>10

\* Other nodes in another order are a document again, with the same results.
LEMMA ShuffledDocument ==
  ASSUME NEW job, NEW nodes, IsDocument(job, nodes),
         NEW order \in Bijection(DOMAIN nodes, DOMAIN nodes)
  PROVE  LET others == Shuffled(nodes, order) IN
         IsDocument(job, others) /\ Results(job, others) = Results(job, nodes)
<1> DEFINE others == Shuffled(nodes, order) D == DOMAIN nodes
<1>1. /\ \A i \in D : order[i] \in D
      /\ \A i, j \in D : order[i] = order[j] => i = j
      /\ \A k \in D : \E i \in D : order[i] = k
  BY DEF Bijection, Injection, Surjection, IsInjective
<1>2. others = [i \in D |-> Turned(nodes[order[i]])]
  BY DEF Shuffled, Turned
<1>3. \A i \in D : IsNode(nodes[i]) /\ ValidNode(nodes[i])
  BY DEF IsDocument, ValidNodes
<1>4. D = 1..Len(nodes) /\ Len(nodes) \in Nat
  BY DEF IsDocument
<1>5. DOMAIN others = D /\ \A i \in D : others[i] = Turned(nodes[order[i]])
  BY <1>2
<1>6. others \in Seq(Range(others))
  <2>1. \A i \in D : others[i] \in Range(others)
    BY <1>5 DEF Range
  <2>2. others \in [D -> Range(others)]
    BY <1>2, <2>1
  <2> HIDE DEF others
  <2>3. others \in [1..Len(nodes) -> Range(others)]
    BY <1>4, <2>2
  <2> QED
    BY <1>4, <2>3
<1> HIDE DEF others
<1>7. ASSUME NEW i \in D PROVE IsNode(others[i]) /\ ValidNode(others[i])
  <2> DEFINE x == nodes[order[i]]
  <2>1. IsNode(x) /\ ValidNode(x) /\ others[i] = Turned(x)
    BY <1>1, <1>3, <1>5
  <2> HIDE DEF x
  <2> QED
    BY <2>1, TurnedIsNode, TurnedIsValid
<1>8. ASSUME NEW i \in D, NEW j \in D, others[i].node_id = others[j].node_id
      PROVE  i = j
  <2>1. /\ others[i].node_id = nodes[order[i]].node_id
        /\ others[j].node_id = nodes[order[j]].node_id
    BY <1>1, <1>3, <1>5, TurnedFields
  <2>2. nodes[order[i]].node_id = nodes[order[j]].node_id
    BY <1>8, <2>1
  <2>3. \A k, l \in D : nodes[k].node_id = nodes[l].node_id => k = l
    BY DEF IsDocument, ValidNodes
  <2>4. order[i] = order[j]
    BY <1>1, <2>2, <2>3
  <2> QED
    BY <1>1, <2>4
<1>9. IsDocument(job, others)
  BY <1>5, <1>6, <1>7, <1>8 DEF IsDocument, ValidNodes
<1>10. \A i \in D : NodeResults(job, others[i]) = NodeResults(job, nodes[order[i]])
  BY <1>1, <1>3, <1>5, TurnedResults
<1>11. ASSUME NEW r \in Results(job, others) PROVE r \in Results(job, nodes)
  <2>1. PICK p \in Places(job, others) : r = ResultAt(job, others, p)
    BY DEF Results
  <2>2. PICK i \in D : \E o \in OfferPlaces(job, others[i]) : p = <<i, o>>
    BY <1>5, PlaceParts
  <2>3. PICK o \in OfferPlaces(job, others[i]) : p = <<i, o>>
    BY <2>2
  <2>4. r \in NodeResults(job, others[i])
    BY <2>1, <2>3, ResultOfNode DEF NodeResults
  <2>5. PICK u \in OfferPlaces(job, nodes[order[i]]) :
          r = ResultOf(job, nodes[order[i]], u)
    BY <1>10, <2>4 DEF NodeResults
  <2>6. <<order[i], u>> \in Places(job, nodes)
    BY <1>1, PlaceParts
  <2> QED
    BY <2>5, <2>6, ResultOfNode DEF Results
<1>12. ASSUME NEW r \in Results(job, nodes) PROVE r \in Results(job, others)
  <2>1. PICK p \in Places(job, nodes) : r = ResultAt(job, nodes, p)
    BY DEF Results
  <2>2. PICK k \in D : \E o \in OfferPlaces(job, nodes[k]) : p = <<k, o>>
    BY PlaceParts
  <2>3. PICK o \in OfferPlaces(job, nodes[k]) : p = <<k, o>>
    BY <2>2
  <2>4. r \in NodeResults(job, nodes[k])
    BY <2>1, <2>3, ResultOfNode DEF NodeResults
  <2>5. PICK i \in D : order[i] = k
    BY <1>1
  <2>6. PICK u \in OfferPlaces(job, others[i]) : r = ResultOf(job, others[i], u)
    BY <1>10, <2>4, <2>5 DEF NodeResults
  <2>7. <<i, u>> \in Places(job, others)
    BY <1>5, PlaceParts
  <2> QED
    BY <2>6, <2>7, ResultOfNode DEF Results
<1>13. Results(job, others) = Results(job, nodes)
  BY <1>11, <1>12
<1> QED
  BY <1>9, <1>13 DEF others

\* What is ranked, once it is: item is the ranking of the file it came from.
RankInv ==
  /\ StageInv
  /\ stage = "ranked" => item = Rank(origin.job, origin.nodes)

LEMMA RankInvHolds == Spec => []RankInv
<1>1. Init => RankInv
  BY InitBoundaryInv DEF Init, RankInv, BoundaryInv
<1>2. BoundaryInv /\ RankInv /\ [Next]_boundaryVars => RankInv'
  <2> SUFFICES ASSUME BoundaryInv, RankInv, [Next]_boundaryVars PROVE RankInv'
    OBVIOUS
  <2>1. StageInv'
    BY NextBoundaryInv DEF BoundaryInv
  <2>2. stage' = "ranked" => item' = Rank(origin'.job, origin'.nodes)
    <3>1. CASE Match
      BY <3>1 DEF Match, Becomes, RankInv, StageInv
    <3>2. CASE UNCHANGED boundaryVars
      BY <3>2 DEF boundaryVars, RankInv
    <3>3. CASE Emit \/ ReceiveV1 \/ ReceiveVersioned
      <4>1. stage' \in {"unsendable", "frame", "delivered", "refused_by_v1", "refused"}
        BY <3>3 DEF Emit, ReceiveV1, ReceiveVersioned, Becomes
      <4> QED
        BY <4>1
    <3> QED
      BY <3>1, <3>2, <3>3 DEF Next
  <2> QED
    BY <2>1, <2>2 DEF RankInv
<1> QED
  BY <1>1, <1>2, InitBoundaryInv, NextBoundaryInv, PTL DEF Spec

\* The ranking of a valid file is canonical: its nodes in any order, with their
\* offers and observations reversed, are ranked alike (rank), as no two results
\* compare equal (compare_results).
THEOREM RankingIsCanonical == Spec => []RankingIgnoresOrder
<1>1. RankInv => RankingIgnoresOrder
  <2> SUFFICES ASSUME RankInv, stage = "ranked",
                      NEW order \in Bijection(DOMAIN origin.nodes, DOMAIN origin.nodes)
               PROVE  item = Rank(origin.job, Shuffled(origin.nodes, order))
    BY DEF RankingIgnoresOrder
  <2>1. IsRequest(origin) /\ ValidRequest(origin)
    BY DEF RankInv, StageInv
  <2>2. IsDocument(origin.job, origin.nodes)
    <3>1. ValidNodes(origin.nodes)
      BY <2>1 DEF ValidRequest
    <3>2. /\ origin.job.requirement.minimum \in Nat
          /\ origin.nodes \in Seq(Range(origin.nodes))
      BY <2>1, RequestAssumption DEF IsRequest
    <3>3. \A k \in DOMAIN origin.nodes : IsNode(origin.nodes[k])
      BY <2>1, RequestAssumption DEF IsRequest, IsNode, Observed
    <3> QED
      BY <3>1, <3>2, <3>3 DEF IsDocument
  <2>3. /\ IsDocument(origin.job, Shuffled(origin.nodes, order))
        /\ Results(origin.job, Shuffled(origin.nodes, order))
             = Results(origin.job, origin.nodes)
    BY <2>2, ShuffledDocument
  <2>4. Rank(origin.job, Shuffled(origin.nodes, order)) = Rank(origin.job, origin.nodes)
    BY <2>2, <2>3, DocumentsAreSortable, SameResultsSameRanking
  <2> QED
    BY <2>4 DEF RankInv
<1> QED
  BY <1>1, RankInvHolds, PTL

=============================================================================
