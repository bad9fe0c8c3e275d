----------------------------- MODULE NodeProofs -----------------------------
(***************************************************************************)
(* The host among its connections and clients, for every number of         *)
(* participants, connections and crashes, every capacity of the broadcast  *)
(* channel and every width of the sequence numbers: what runs inside the   *)
(* connections is the host that the other modules prove about, nothing     *)
(* travels that is not in the journal, and no replica leaves the journal's *)
(* path.                                                                   *)
(*                                                                         *)
(* What a connection holds is described once, for an arbitrary set S of    *)
(* events (Connections(S)): with all events it gives the types, with the   *)
(* events of the journal it gives what may travel.  The journal only grows *)
(* and Connections is monotone in S, so a step keeps both at once.         *)
(***************************************************************************)
EXTENDS HostProofs, Node

-----------------------------------------------------------------------------
\* Iterations.

\* g iterates F along 1..n from a on.
IsIteration(g, X, a, n, F) ==
  g \in [0..n -> X] /\ g[0] = a /\ \A i \in 1..n : g[i] = F[<<g[i - 1], i>>]

\* A function may be iterated along 1..n.
LEMMA IterationExists ==
  ASSUME NEW X, NEW a \in X, NEW n \in Nat, NEW F \in [X \X (1..n) -> X]
  PROVE  \E g : IsIteration(g, X, a, n, F)
<1> DEFINE Path(g, k) == /\ g \in [0..k -> X] /\ g[0] = a
                         /\ \A i \in 1..k : g[i] = F[<<g[i - 1], i>>]
           S == {k \in Nat : k <= n => \E g : Path(g, k)}
<1>1. 0 \in S
  <2> DEFINE h == [i \in 0..0 |-> a]
  <2>1. Path(h, 0)
    OBVIOUS
  <2> HIDE DEF h, Path
  <2> QED
    BY <2>1
<1>2. ASSUME NEW k \in Nat, k \in S PROVE k + 1 \in S
  <2> SUFFICES ASSUME k + 1 <= n PROVE \E g : Path(g, k + 1)
    OBVIOUS
  <2>1. k <= n
    OBVIOUS
  <2>2. PICK g : Path(g, k)
    BY <1>2, <2>1
  <2>3. k + 1 \in 1..n /\ k \in 0..k /\ g[k] \in X
    BY <2>2
  <2>4. F[<<g[k], k + 1>>] \in X
    BY <2>3
  <2> DEFINE h == [i \in 0..(k + 1) |-> IF i <= k THEN g[i] ELSE F[<<g[k], k + 1>>]]
  <2>5. h \in [0..(k + 1) -> X]
    BY <2>2, <2>4
  <2>6. h[0] = a
    BY <2>2
  <2>7. ASSUME NEW i \in 1..(k + 1) PROVE h[i] = F[<<h[i - 1], i>>]
    <3>1. CASE i <= k
      <4>1. h[i] = g[i] /\ h[i - 1] = g[i - 1] /\ i \in 1..k
        BY <3>1
      <4> QED
        BY <2>2, <4>1
    <3>2. CASE i = k + 1
      <4>1. h[i] = F[<<g[k], k + 1>>] /\ h[i - 1] = g[k]
        BY <3>2
      <4> QED
        BY <3>2, <4>1
    <3> QED
      BY <3>1, <3>2
  <2> HIDE DEF h
  <2>8. Path(h, k + 1)
    BY <2>5, <2>6, <2>7
  <2> QED
    BY <2>8
<1> HIDE DEF S
<1>3. n \in S
  BY <1>1, <1>2, SetInduction
<1> QED
  BY <1>3 DEF S, IsIteration

\* What holds at first and is kept by every step holds at the end.
LEMMA IterationStays ==
  ASSUME NEW X, NEW h, NEW n \in Nat, h[0] \in X,
         \A i \in 1..n : h[i - 1] \in X => h[i] \in X
  PROVE  h[n] \in X
<1> DEFINE S == {k \in Nat : k <= n => h[k] \in X}
<1>1. 0 \in S
  OBVIOUS
<1>2. ASSUME NEW k \in Nat, k \in S PROVE k + 1 \in S
  <2> SUFFICES ASSUME k + 1 <= n PROVE h[k + 1] \in X
    OBVIOUS
  <2>1. h[k] \in X /\ k + 1 \in 1..n /\ (k + 1) - 1 = k
    BY <1>2
  <2> QED
    BY <2>1
<1> HIDE DEF S
<1>3. n \in S
  BY <1>1, <1>2, SetInduction
<1> QED
  BY <1>3 DEF S


\* Filtering a sequence takes nothing from elsewhere (Host::events_after).
LEMMA LaterKeeps ==
  ASSUME NEW S, NEW es \in Seq(S), NEW n
  PROVE  Later(es, n) \in Seq(S)
<1> DEFINE N == Len(es)
           Part(i) == IF es[i].sequence > n THEN <<es[i]>> ELSE <<>>
           Cat(s, i) == s \o Part(i)
           Body(h) == [i \in 0..N |-> IF i = 0 THEN <<>> ELSE Cat(h[i - 1], i)]
           F == [p \in Seq(S) \X (1..N) |-> Cat(p[1], p[2])]
<1>1. N \in Nat /\ \A i \in 1..N : es[i] \in S
  OBVIOUS
<1> HIDE DEF N
<1>2. \A i \in 1..N : Part(i) \in Seq(S)
  <2> TAKE i \in 1..N
  <2>1. <<es[i]>> \in Seq(S) /\ <<>> \in Seq(S)
    BY <1>1
  <2> QED
    BY <2>1
<1> HIDE DEF Part
<1>3. \A s \in Seq(S), i \in 1..N : Cat(s, i) \in Seq(S)
  BY <1>2
<1> HIDE DEF Cat
<1>4. /\ F \in [Seq(S) \X (1..N) -> Seq(S)]
      /\ \A s \in Seq(S), i \in 1..N : F[<<s, i>>] = Cat(s, i)
  BY <1>3
<1> HIDE DEF F
<1>5. <<>> \in Seq(S)
  OBVIOUS
<1>6. PICK g : IsIteration(g, Seq(S), <<>>, N, F)
  BY <1>1, <1>4, <1>5, IterationExists
<1>7. g = Body(g)
  <2> DEFINE v(i) == IF i = 0 THEN <<>> ELSE Cat(g[i - 1], i)
  <2>1. /\ g \in [0..N -> Seq(S)] /\ g[0] = <<>>
        /\ \A i \in 1..N : g[i] = F[<<g[i - 1], i>>]
    BY <1>6 DEF IsIteration
  <2>2. ASSUME NEW i \in 0..N PROVE g[i] = v(i)
    <3>1. CASE i = 0
      BY <2>1, <3>1
    <3>2. CASE i # 0
      <4>1. i \in 1..N /\ i - 1 \in 0..N
        BY <1>1, <3>2
      <4>2. g[i] = F[<<g[i - 1], i>>] /\ g[i - 1] \in Seq(S)
        BY <2>1, <4>1
      <4> QED
        BY <1>4, <3>2, <4>1, <4>2
    <3> QED
      BY <3>1, <3>2
  <2> HIDE DEF v
  <2>3. g = [i \in 0..N |-> v(i)]
    BY <2>1, <2>2
  <2> QED
    BY <2>3 DEF v
<1> DEFINE k == CHOOSE h : h = Body(h)
<1>8. k = Body(k)
  BY <1>7
<1>9. Later(es, n) = k[N]
  BY DEF Later, N, Part, Cat
<1> HIDE DEF k
<1>10. k[0] = <<>> /\ \A i \in 1..N : k[i] = Cat(k[i - 1], i)
  <2> DEFINE v(i) == IF i = 0 THEN <<>> ELSE Cat(k[i - 1], i)
  <2>1. k = [i \in 0..N |-> v(i)]
    BY <1>8
  <2> HIDE DEF v
  <2>2. \A i \in 0..N : k[i] = v(i)
    BY <2>1
  <2>3. 0 \in 0..N /\ \A i \in 1..N : i \in 0..N /\ i # 0
    BY <1>1
  <2> QED
    BY <2>2, <2>3 DEF v
<1>11. k[N] \in Seq(S)
  BY <1>1, <1>3, <1>5, <1>10, IterationStays
<1> QED
  BY <1>9, <1>11

\* What every event of a batch keeps, the client's loop over the batch keeps.
LEMMA BatchKeeps ==
  ASSUME NEW S, NEW es \in Seq(S), NEW rep, NEW X,
         [replica |-> rep, end |-> "done"] \in X,
         \A x \in X, e \in S : BatchStep(x, e) \in X
  PROVE  AfterBatch(rep, es) \in X
<1> DEFINE N == Len(es)
           first == [replica |-> rep, end |-> "done"]
           Body(h) == [i \in 0..N |-> IF i = 0 THEN first ELSE BatchStep(h[i - 1], es[i])]
           F == [p \in X \X (1..N) |-> BatchStep(p[1], es[p[2]])]
<1>1. N \in Nat /\ \A i \in 1..N : es[i] \in S
  OBVIOUS
<1>2. first \in X
  OBVIOUS
<1> HIDE DEF N, first
<1>3. /\ F \in [X \X (1..N) -> X]
      /\ \A x \in X, i \in 1..N : F[<<x, i>>] = BatchStep(x, es[i])
  BY <1>1
<1> HIDE DEF F
<1>4. PICK g : IsIteration(g, X, first, N, F)
  BY <1>1, <1>2, <1>3, IterationExists
<1>5. g = Body(g)
  <2> DEFINE v(i) == IF i = 0 THEN first ELSE BatchStep(g[i - 1], es[i])
  <2>1. /\ g \in [0..N -> X] /\ g[0] = first
        /\ \A i \in 1..N : g[i] = F[<<g[i - 1], i>>]
    BY <1>4 DEF IsIteration
  <2>2. ASSUME NEW i \in 0..N PROVE g[i] = v(i)
    <3>1. CASE i = 0
      BY <2>1, <3>1
    <3>2. CASE i # 0
      <4>1. i \in 1..N /\ i - 1 \in 0..N
        BY <1>1, <3>2
      <4>2. g[i] = F[<<g[i - 1], i>>] /\ g[i - 1] \in X
        BY <2>1, <4>1
      <4> QED
        BY <1>3, <3>2, <4>1, <4>2
    <3> QED
      BY <3>1, <3>2
  <2> HIDE DEF v
  <2>3. g = [i \in 0..N |-> v(i)]
    BY <2>1, <2>2
  <2> QED
    BY <2>3 DEF v
<1> DEFINE k == CHOOSE h : h = Body(h)
<1>6. k = Body(k)
  BY <1>5
<1>7. AfterBatch(rep, es) = k[N]
  BY DEF AfterBatch, N, first
<1> HIDE DEF k
<1>8. k[0] = first /\ \A i \in 1..N : k[i] = BatchStep(k[i - 1], es[i])
  BY <1>1, <1>6
<1>9. \A i \in 1..N : k[i - 1] \in X => k[i] \in X
  BY <1>1, <1>8
<1>10. k[N] \in X
  BY <1>1, <1>2, <1>8, <1>9, IterationStays
<1> QED
  BY <1>7, <1>10


-----------------------------------------------------------------------------
\* What a connection holds.

\* The messages of each direction, with the events of S.
ServerMessages(S) ==
  [type : {"event_batch"}, events : Seq(S)]
  \cup [type : {"command_rejected"}, current_revision : U64]

ClientMessages ==
  [type : {"hello"}, last_sequence : U64]
  \cup [type : {"join_session"}]
  \cup [type : {"submit_command"}, request : ClientRequests]
  \cup [type : {"catch_up_request"}, after_sequence : U64]

ConnectionFields(S) ==
  [server : {"unused", "pending", "open", "closed"}, owner : Clients \cup {HostId},
   c2s : Seq(ClientMessages), s2c : Seq(ServerMessages(S)), sent : U64,
   participant : BOOLEAN, sub : Seq(Seq(S)), lagged : BOOLEAN]

\* A connection that is in use belongs to a client, whose requests carry ids of
\* clients.
Connections(S) ==
  {x \in ConnectionFields(S) : x.server \in {"pending", "open"} => x.owner \in Clients}

LEMMA SeqMonotone ==
  ASSUME NEW S, NEW T, S \subseteq T
  PROVE  Seq(S) \subseteq Seq(T)
<1> SUFFICES ASSUME NEW s \in Seq(S) PROVE s \in Seq(T)
  OBVIOUS
<1>1. Len(s) \in Nat /\ s \in [1..Len(s) -> S]
  OBVIOUS
<1> QED
  BY <1>1

\* More events allow more connections.
LEMMA ConnectionsMonotone ==
  ASSUME NEW S, NEW T, S \subseteq T
  PROVE  Connections(S) \subseteq Connections(T)
<1>1. Seq(S) \subseteq Seq(T)
  BY SeqMonotone
<1>2. ServerMessages(S) \subseteq ServerMessages(T)
  BY <1>1 DEF ServerMessages
<1>3. Seq(Seq(S)) \subseteq Seq(Seq(T)) /\ Seq(ServerMessages(S)) \subseteq Seq(ServerMessages(T))
  BY <1>1, <1>2, SeqMonotone
<1> QED
  BY <1>3 DEF Connections, ConnectionFields

\* A connection that nobody uses.
LEMMA ClosedConnType ==
  ASSUME NEW S, NEW use \in {"unused", "closed"}
  PROVE  ClosedConn(use) \in Connections(S)
<1>1. 0 \in U64
  BY MaxU64Assumption DEF U64
<1> QED
  BY <1>1 DEF ClosedConn, Connections, ConnectionFields

LEMMA TailType ==
  ASSUME NEW S, NEW s \in Seq(S), s # <<>>
  PROVE  Head(s) \in S /\ Tail(s) \in Seq(S)
  OBVIOUS

LEMMA AppendType ==
  ASSUME NEW S, NEW s \in Seq(S), NEW e \in S
  PROVE  Append(s, e) \in Seq(S)
  OBVIOUS

\* The operators that change one connection.
LEMMA SentType ==
  ASSUME NEW S, NEW x \in Connections(S), NEW k, NEW msg \in ServerMessages(S)
  PROVE  Sent(x, k, msg) \in Connections(S)
<1>1. x \in ConnectionFields(S) /\ x.s2c \in Seq(ServerMessages(S))
  BY DEF Connections, ConnectionFields
<1>2. Append(x.s2c, msg) \in Seq(ServerMessages(S))
  BY <1>1, AppendType
<1>3. [x EXCEPT !.s2c = Append(@, msg)] \in Connections(S)
  BY <1>2 DEF Connections, ConnectionFields
<1> QED
  BY <1>3 DEF Sent

LEMMA ConsumedType ==
  ASSUME NEW S, NEW x \in Connections(S), x.c2s # <<>>
  PROVE  Head(x.c2s) \in ClientMessages /\ Consumed(x) \in Connections(S)
<1>1. x \in ConnectionFields(S) /\ x.c2s \in Seq(ClientMessages)
  BY DEF Connections, ConnectionFields
<1>2. Head(x.c2s) \in ClientMessages /\ Tail(x.c2s) \in Seq(ClientMessages)
  BY <1>1, TailType
<1> QED
  BY <1>2 DEF Consumed, Connections, ConnectionFields

LEMMA SubscribedType ==
  ASSUME NEW S, NEW x \in Connections(S), NEW es \in Seq(S)
  PROVE  Subscribed(x, es) \in Connections(S)
<1>1. x \in ConnectionFields(S) /\ x.sub \in Seq(Seq(S)) /\ Len(x.sub) \in Nat
  BY DEF Connections, ConnectionFields
<1>2. CASE Len(x.sub) < Capacity
  <2>1. Append(x.sub, es) \in Seq(Seq(S))
    BY <1>1, AppendType
  <2>2. [x EXCEPT !.sub = Append(@, es)] \in Connections(S)
    BY <2>1 DEF Connections, ConnectionFields
  <2> QED
    BY <1>2, <2>2 DEF Subscribed
<1>3. CASE ~(Len(x.sub) < Capacity)
  <2>1. x.sub # <<>>
    BY <1>1, <1>3, NodeAssumption
  <2>2. Tail(x.sub) \in Seq(Seq(S))
    BY <1>1, <2>1, TailType
  <2>3. Append(Tail(x.sub), es) \in Seq(Seq(S))
    BY <2>2, AppendType
  <2>4. [x EXCEPT !.sub = Append(Tail(@), es), !.lagged = TRUE] \in Connections(S)
    BY <2>3 DEF Connections, ConnectionFields
  <2> QED
    BY <1>3, <2>4 DEF Subscribed
<1> QED
  BY <1>2, <1>3

LEMMA SendSuffixType ==
  ASSUME NEW S \in SUBSET SessionEvents, NEW x \in Connections(S), NEW k,
         NEW es \in Seq(S)
  PROVE  SendSuffix(x, k, es) \in Connections(S)
<1>1. CASE es = <<>>
  BY <1>1 DEF SendSuffix
<1>2. CASE es # <<>>
  <2> DEFINE y == Sent(x, k, Batch(es))
  <2>1. Batch(es) \in ServerMessages(S)
    BY DEF Batch, ServerMessages
  <2>2. y \in Connections(S)
    BY <2>1, SentType
  <2>3. es[Len(es)] \in S
    BY <1>2
  <2>4. es[Len(es)].sequence \in U64
    BY <2>3 DEF SessionEvents
  <2> HIDE DEF y
  <2>5. [y EXCEPT !.sent = es[Len(es)].sequence] \in Connections(S)
    BY <2>2, <2>4 DEF Connections, ConnectionFields
  <2> QED
    BY <1>2, <2>5 DEF SendSuffix, y
<1> QED
  BY <1>1, <1>2

LEMMA SeveredType ==
  ASSUME NEW S, conn \in [Conns -> Connections(S)]
  PROVE  Severed \in [Conns -> Connections(S)]
<1> SUFFICES ASSUME NEW k \in Conns
             PROVE  [ClosedConn("closed") EXCEPT !.owner = conn[k].owner,
                                                 !.s2c = conn[k].s2c] \in Connections(S)
  BY DEF Severed
<1>1. conn[k].owner \in Clients \cup {HostId} /\ conn[k].s2c \in Seq(ServerMessages(S))
  BY DEF Connections, ConnectionFields
<1>2. ClosedConn("closed") \in Connections(S) /\ ClosedConn("closed").server = "closed"
  BY ClosedConnType DEF ClosedConn
<1> DEFINE z == ClosedConn("closed")
<1> HIDE DEF z
<1>3. z \in ConnectionFields(S) /\ z.server = "closed"
  BY <1>2 DEF z, Connections
<1>4. [z EXCEPT !.owner = conn[k].owner, !.s2c = conn[k].s2c] \in Connections(S)
  BY <1>1, <1>3 DEF Connections, ConnectionFields
<1> QED
  BY <1>4 DEF z

LEMMA UpstreamType ==
  ASSUME NEW S, NEW x \in Connections(S), NEW msg \in ClientMessages
  PROVE  Upstream(x, msg) \in Connections(S)
<1>1. x \in ConnectionFields(S) /\ x.c2s \in Seq(ClientMessages)
  BY DEF Connections, ConnectionFields
<1>2. Append(x.c2s, msg) \in Seq(ClientMessages)
  BY <1>1, AppendType
<1>3. [x EXCEPT !.c2s = Append(@, msg)] \in Connections(S)
  BY <1>2 DEF Connections, ConnectionFields
<1> QED
  BY <1>3 DEF Upstream

LEMMA DetachedType ==
  ASSUME NEW S, NEW x \in Connections(S)
  PROVE  Detached(x) \in Connections(S)
<1>1. <<>> \in Seq(ServerMessages(S))
  OBVIOUS
<1>2. [x EXCEPT !.s2c = <<>>] \in Connections(S)
  BY <1>1 DEF Connections, ConnectionFields
<1> QED
  BY <1>2, ClosedConnType DEF Detached

\* A message read from the server leaves a connection.
LEMMA ReadType ==
  ASSUME NEW S, NEW x \in Connections(S), x.s2c # <<>>
  PROVE  /\ Head(x.s2c) \in ServerMessages(S)
         /\ [x EXCEPT !.s2c = Tail(@)] \in Connections(S)
<1>1. x \in ConnectionFields(S) /\ x.s2c \in Seq(ServerMessages(S))
  BY DEF Connections, ConnectionFields
<1>2. Head(x.s2c) \in ServerMessages(S) /\ Tail(x.s2c) \in Seq(ServerMessages(S))
  BY <1>1, TailType
<1> QED
  BY <1>2 DEF Connections, ConnectionFields


-----------------------------------------------------------------------------
\* The host inside.

\* What reaches the host's handlers.
LEMMA IncomingFacts ==
  ASSUME conn \in [Conns -> Connections(SessionEvents)], NEW k \in Conns, NEW type,
         Incoming(k, type)
  PROVE  /\ conn[k].owner \in Clients
         /\ Head(conn[k].c2s) \in ClientMessages
         /\ type = "submit_command" => Head(conn[k].c2s).request \in ClientRequests
         /\ type = "hello" => Head(conn[k].c2s).last_sequence \in U64
         /\ type = "catch_up_request" => Head(conn[k].c2s).after_sequence \in U64
<1>1. /\ conn[k] \in Connections(SessionEvents) /\ conn[k].server = "open"
      /\ conn[k].c2s # <<>> /\ Head(conn[k].c2s).type = type
  BY DEF Incoming
<1>2. conn[k].owner \in Clients
  BY <1>1 DEF Connections
<1>3. Head(conn[k].c2s) \in ClientMessages
  BY <1>1, ConsumedType
<1> DEFINE m == Head(conn[k].c2s)
<1> HIDE DEF m
<1>4. /\ m.type = "submit_command" => m.request \in ClientRequests
      /\ m.type = "hello" => m.last_sequence \in U64
      /\ m.type = "catch_up_request" => m.after_sequence \in U64
  <2>1. m \in ClientMessages
    BY <1>3 DEF m
  <2> QED
    BY <2>1 DEF ClientMessages
<1> QED
  BY <1>1, <1>2, <1>3, <1>4 DEF m

\* A request of a client is one the host's Next knows.
LEMMA HandlersAreHostSteps ==
  ASSUME conn \in [Conns -> Connections(SessionEvents)], NEW k \in Conns
  PROVE  /\ HandleJoin(k) => Next
         /\ HandleSubmit(k) => Next \/ UNCHANGED vars
<1>1. ASSUME HandleJoin(k) PROVE Next
  <2> DEFINE c == conn[k].owner
  <2>1. Incoming(k, "join_session") /\ (JoinAgain(c, JoinId(c)) \/ Join(c, JoinId(c), FALSE))
    BY <1>1 DEF HandleJoin
  <2>2. c \in Clients
    BY <2>1, IncomingFacts
  <2>3. c \in Participants /\ JoinId(c) \in ClientMessageIds /\ FALSE \in BOOLEAN
    BY <2>2, NodeAssumption
  <2> HIDE DEF c
  <2> QED
    BY <2>1, <2>3 DEF Next
<1>2. ASSUME HandleSubmit(k) PROVE Next \/ UNCHANGED vars
  <2>1. Head(conn[k].c2s).request \in ClientRequests
    BY <1>2, IncomingFacts DEF HandleSubmit
  <2>2. Submit(Head(conn[k].c2s).request) \/ UNCHANGED vars
    BY <1>2 DEF HandleSubmit
  <2> QED
    BY <2>1, <2>2 DEF Next
<1> QED
  BY <1>1, <1>2

\* The host that runs behind the connections takes steps of Host only.
LEMMA NodeStepIsHostStep ==
  ASSUME conn \in [Conns -> Connections(SessionEvents)], [NodeNext]_nodeVars
  PROVE  [Next]_vars
<1>1. CASE HostStarts
  BY <1>1 DEF HostStarts, Next
<1>2. CASE HostCrashes
  BY <1>2 DEF HostCrashes, Next
<1>3. ASSUME NEW k \in Conns, HandlerStep(k) PROVE [Next]_vars
  <2>1. HandleJoin(k) => Next
    BY HandlersAreHostSteps
  <2>2. HandleSubmit(k) => Next \/ UNCHANGED vars
    BY HandlersAreHostSteps
  <2>3. CASE AcceptConn(k) \/ HandleHello(k) \/ HandleCatchUp(k)
             \/ HandleBroadcast(k) \/ HandlerEnds(k)
    BY <2>3 DEF AcceptConn, HandleHello, HandleCatchUp, HandleBroadcast, HandlerEnds
  <2> QED
    BY <1>3, <2>1, <2>2, <2>3 DEF HandlerStep
<1>4. ASSUME NEW c \in Clients,
             \/ Connect(c)
             \/ \E payload \in ActivityPayloads : TypeCommand(c, payload)
             \/ ClientStep(c)
             \/ Disconnect(c)
      PROVE  UNCHANGED vars
  BY <1>4 DEF Connect, TypeCommand, ClientStep, ReceiveBatch, ReceiveRejected,
              ReceiveEof, Disconnect
<1>5. CASE UNCHANGED nodeVars
  BY <1>5 DEF nodeVars
<1> QED
  BY <1>1, <1>2, <1>3, <1>4, <1>5 DEF NodeNext


-----------------------------------------------------------------------------
\* Steps keep the connections.

LEMMA SentCursorType ==
  ASSUME NEW S, NEW x \in Connections(S), NEW n \in U64
  PROVE  [x EXCEPT !.sent = n] \in Connections(S)
  BY DEF Connections, ConnectionFields

LEMMA RejectedType ==
  ASSUME NEW S, state \in SessionStates
  PROVE  Rejected(state.revision) \in ServerMessages(S)
<1>1. state.revision \in U64
  BY DEF SessionStates
<1> QED
  BY <1>1 DEF Rejected, ServerMessages

\* One connection changes, the others stay.
LEMMA OneChanges ==
  ASSUME NEW S, conn \in [Conns -> Connections(S)], NEW k \in Conns,
         NEW y \in Connections(S)
  PROVE  [conn EXCEPT ![k] = y] \in [Conns -> Connections(S)]
  OBVIOUS

LEMMA AfterAnswerType ==
  ASSUME NEW S \in SUBSET SessionEvents, conn \in [Conns -> Connections(S)],
         state \in SessionStates, reply'.events \in Seq(S),
         NEW k \in Conns, NEW x \in Connections(S)
  PROVE  AfterAnswer(k, x) \in [Conns -> Connections(S)]
<1>1. ASSUME NEW j \in Conns
      PROVE  Subscribed(IF j = k THEN x ELSE conn[j], reply'.events) \in Connections(S)
  <2>1. (IF j = k THEN x ELSE conn[j]) \in Connections(S)
    OBVIOUS
  <2> QED
    BY <2>1, SubscribedType
<1>2. [j \in Conns |-> Subscribed(IF j = k THEN x ELSE conn[j], reply'.events)]
        \in [Conns -> Connections(S)]
  BY <1>1
<1>3. Batch(reply'.events) \in ServerMessages(S)
  BY DEF Batch, ServerMessages
<1>4. [conn EXCEPT ![k] = Sent(x, k, Batch(reply'.events))] \in [Conns -> Connections(S)]
  BY <1>3, SentType, OneChanges
<1>5. [conn EXCEPT ![k] = x] \in [Conns -> Connections(S)]
  BY OneChanges
<1>6. [conn EXCEPT ![k] = Sent(x, k, Rejected(state.revision))] \in [Conns -> Connections(S)]
  BY RejectedType, SentType, OneChanges
<1> QED
  BY <1>2, <1>4, <1>5, <1>6 DEF AfterAnswer

\* A handler that asks the host and passes its answer on.
Answering(k) == HandleJoin(k) \/ (HandleSubmit(k) /\ conn[k].participant)

\* The handlers of a connection.
LEMMA HandlerKeepsConns ==
  ASSUME NEW S \in SUBSET SessionEvents, conn \in [Conns -> Connections(S)],
         events \in Seq(S), state \in SessionStates, NEW k \in Conns, HandlerStep(k),
         Answering(k) /\ status' = "up" => reply'.events \in Seq(S)
  PROVE  conn' \in [Conns -> Connections(S)]
<1>1. conn[k] \in Connections(S)
  OBVIOUS
<1>2. conn \in [Conns -> Connections(SessionEvents)]
  <2>1. Connections(S) \subseteq Connections(SessionEvents)
    BY ConnectionsMonotone
  <2> QED
    BY <2>1
<1>3. CASE AcceptConn(k)
  <2>1. [conn[k] EXCEPT !.server = "open"] \in Connections(S)
    BY <1>1, <1>3 DEF AcceptConn, Connections, ConnectionFields
  <2>2. conn' = [conn EXCEPT ![k] = [conn[k] EXCEPT !.server = "open"]]
    BY <1>3 DEF AcceptConn
  <2> QED
    BY <2>1, <2>2, OneChanges
<1>4. CASE HandleHello(k)
  <2> DEFINE n == Head(conn[k].c2s).last_sequence
             x == [Consumed(conn[k]) EXCEPT !.sent = n]
  <2>1. Incoming(k, "hello") /\ conn[k].c2s # <<>>
        /\ conn' = [conn EXCEPT ![k] = SendSuffix(x, k, EventsAfter(n))]
    BY <1>4 DEF HandleHello, Incoming
  <2>2. n \in U64
    BY <1>2, <2>1, IncomingFacts
  <2>3. x \in Connections(S)
    BY <1>1, <2>1, <2>2, ConsumedType, SentCursorType
  <2>4. EventsAfter(n) \in Seq(S)
    BY LaterKeeps DEF EventsAfter
  <2> HIDE DEF x, n
  <2> QED
    BY <2>1, <2>3, <2>4, SendSuffixType, OneChanges
<1>5. CASE HandleCatchUp(k)
  <2> DEFINE n == Head(conn[k].c2s).after_sequence
             x == Consumed(conn[k])
  <2>1. conn[k].c2s # <<>>
        /\ conn' = [conn EXCEPT ![k] = SendSuffix(x, k, EventsAfter(n))]
    BY <1>5 DEF HandleCatchUp, Incoming
  <2>2. x \in Connections(S)
    BY <1>1, <2>1, ConsumedType
  <2>3. EventsAfter(n) \in Seq(S)
    BY LaterKeeps DEF EventsAfter
  <2> HIDE DEF x, n
  <2> QED
    BY <2>1, <2>2, <2>3, SendSuffixType, OneChanges
<1>6. ASSUME NEW x \in Connections(S), Handled(k, x),
             status' = "up" => reply'.events \in Seq(S)
      PROVE  conn' \in [Conns -> Connections(S)]
  <2>1. CASE status' = "up"
    BY <1>6, <2>1, AfterAnswerType DEF Handled
  <2>2. CASE status' # "up"
    BY <1>6, <2>2, SeveredType DEF Handled
  <2> QED
    BY <2>1, <2>2
<1>7. CASE HandleJoin(k)
  <2> DEFINE x == [Consumed(conn[k]) EXCEPT !.participant = TRUE]
  <2>1. conn[k].c2s # <<>> /\ Handled(k, x)
    BY <1>7 DEF HandleJoin, Incoming
  <2>2. Consumed(conn[k]) \in Connections(S)
    BY <1>1, <2>1, ConsumedType
  <2>3. x \in Connections(S)
    BY <2>2 DEF Connections, ConnectionFields
  <2> HIDE DEF x
  <2> QED
    BY <1>6, <1>7, <2>1, <2>3 DEF Answering
<1>8. CASE HandleSubmit(k)
  <2> DEFINE x == Consumed(conn[k])
  <2>1. conn[k].c2s # <<>>
    BY <1>8 DEF HandleSubmit, Incoming
  <2>2. x \in Connections(S)
    BY <1>1, <2>1, ConsumedType
  <2>3. \/ Handled(k, x) /\ conn[k].participant
        \/ conn' = [conn EXCEPT ![k] = Sent(x, k, Rejected(state.revision))]
    BY <1>8 DEF HandleSubmit
  <2> HIDE DEF x
  <2>4. [conn EXCEPT ![k] = Sent(x, k, Rejected(state.revision))] \in [Conns -> Connections(S)]
    BY <2>2, RejectedType, SentType, OneChanges
  <2> QED
    BY <1>6, <1>8, <2>2, <2>3, <2>4 DEF Answering
<1>9. CASE HandleBroadcast(k)
  <2> DEFINE x == conn[k]
             from == IF x.lagged THEN EventsAfter(x.sent) ELSE Head(x.sub)
             y == IF x.lagged THEN [x EXCEPT !.lagged = FALSE]
                  ELSE [x EXCEPT !.sub = Tail(@)]
  <2>1. /\ x.lagged \/ x.sub # <<>>
        /\ conn' = [conn EXCEPT ![k] = SendSuffix(y, k, Later(from, x.sent))]
    BY <1>9 DEF HandleBroadcast
  <2>2. x \in ConnectionFields(S) /\ x.sub \in Seq(Seq(S)) /\ x.lagged \in BOOLEAN
    BY DEF Connections, ConnectionFields
  <2>3. from \in Seq(S) /\ y \in Connections(S)
    <3>1. CASE x.lagged
      <4>1. EventsAfter(x.sent) \in Seq(S)
        BY LaterKeeps DEF EventsAfter
      <4>2. [x EXCEPT !.lagged = FALSE] \in Connections(S)
        BY DEF Connections, ConnectionFields
      <4> QED
        BY <3>1, <4>1, <4>2
    <3>2. CASE ~x.lagged
      <4>1. Head(x.sub) \in Seq(S) /\ Tail(x.sub) \in Seq(Seq(S))
        BY <2>1, <2>2, <3>2, TailType
      <4>2. [x EXCEPT !.sub = Tail(@)] \in Connections(S)
        BY <4>1 DEF Connections, ConnectionFields
      <4> QED
        BY <3>2, <4>1, <4>2
    <3> QED
      BY <3>1, <3>2
  <2> HIDE DEF from, y
  <2>4. Later(from, x.sent) \in Seq(S)
    BY <2>3, LaterKeeps
  <2> QED
    BY <2>1, <2>3, <2>4, SendSuffixType, OneChanges
<1>10. CASE HandlerEnds(k)
  <2>1. conn' = [conn EXCEPT ![k] = ClosedConn("closed")]
    BY <1>10 DEF HandlerEnds
  <2> QED
    BY <2>1, ClosedConnType, OneChanges
<1> QED
  BY <1>3, <1>4, <1>5, <1>7, <1>8, <1>9, <1>10 DEF HandlerStep


\* How the client's loop over a batch can end.
Ends == {"done", "gap", "failed"}

LEMMA AfterEventType ==
  ASSUME NEW rep \in Replicas, NEW e \in SessionEvents
  PROVE  AfterEvent(rep, e) \in Replicas
<1>1. /\ rep.base \in U64 /\ rep.events \in Seq(SessionEvents)
      /\ rep.state \in SessionStates
  BY DEF Replicas
<1>2. Append(rep.events, e) \in Seq(SessionEvents) /\ Apply(rep.state, e) \in SessionStates
  BY <1>1, AppendType, ApplyType
<1>3. [rep EXCEPT !.events = Append(@, e), !.state = Apply(@, e)] \in Replicas
  BY <1>2 DEF Replicas
<1> QED
  BY <1>3 DEF AfterEvent

LEMMA AfterBatchType ==
  ASSUME NEW rep \in Replicas, NEW es \in Seq(SessionEvents)
  PROVE  AfterBatch(rep, es) \in [replica : Replicas, end : Ends]
<1> DEFINE X == [replica : Replicas, end : Ends]
<1>1. [replica |-> rep, end |-> "done"] \in X
  BY DEF Ends
<1>2. ASSUME NEW x \in X, NEW e \in SessionEvents PROVE BatchStep(x, e) \in X
  <2>1. x.replica \in Replicas
    OBVIOUS
  <2>2. AfterEvent(x.replica, e) \in Replicas
    BY <2>1, AfterEventType
  <2> DEFINE end == IF Received(x.replica, e) \in {"gap", "failed"}
                    THEN Received(x.replica, e) ELSE "done"
  <2>3. end \in Ends
    BY DEF Ends
  <2>4. BatchStep(x, e) \in {x, [replica |-> AfterEvent(x.replica, e), end |-> end]}
    BY DEF BatchStep
  <2> HIDE DEF end
  <2>5. [replica |-> AfterEvent(x.replica, e), end |-> end] \in X
    BY <2>2, <2>3
  <2> QED
    BY <2>4, <2>5
<1> HIDE DEF X
<1>3. AfterBatch(rep, es) \in X
  BY <1>1, <1>2, BatchKeeps
<1> QED
  BY <1>3 DEF X

\* The request of a line of input.
LEMMA TypedRequest ==
  ASSUME NEW c \in Clients, NEW n \in U64, NEW payload \in ActivityPayloads
  PROVE  SubmitCommand([message_id |-> CommandId(c, n), actor |-> c,
                        expected_revision |-> n,
                        command |-> [type |-> "activity", descriptor |-> EngineDescriptor,
                                     payload |-> payload]]) \in ClientMessages
<1> DEFINE a == [type |-> "activity", descriptor |-> EngineDescriptor, payload |-> payload]
           r == [message_id |-> CommandId(c, n), actor |-> c, expected_revision |-> n,
                 command |-> a]
<1>1. a \in Commands
  BY EngineAssumption DEF Commands
<1>2. CommandId(c, n) \in ClientMessageIds /\ c \in Participants
      /\ CommandId(c, n) \in MessageIds
  BY NodeAssumption, HostAssumption
<1> HIDE DEF a
<1>3. r \in CommandRequests /\ r.message_id \in ClientMessageIds
  BY <1>1, <1>2 DEF CommandRequests
<1>4. r \in ClientRequests
  BY <1>3 DEF ClientRequests
<1> HIDE DEF r
<1>5. SubmitCommand(r) \in ClientMessages
  BY <1>4 DEF SubmitCommand, ClientMessages
<1> QED
  BY <1>5 DEF r, a

LEMMA RevisionRequests ==
  ASSUME NEW rep \in Replicas
  PROVE  /\ rep.state.revision \in U64
         /\ Hello(rep.state.revision) \in ClientMessages
         /\ CatchUpRequest(rep.state.revision) \in ClientMessages
<1>1. rep.state.revision \in U64
  BY DEF Replicas, SessionStates
<1> QED
  BY <1>1 DEF Hello, CatchUpRequest, ClientMessages

\* What a client does.
ClientActs(c) ==
  \/ Connect(c)
  \/ \E payload \in ActivityPayloads : TypeCommand(c, payload)
  \/ ClientStep(c)
  \/ Disconnect(c)

\* The clients keep the connections, their links and the types of replicas.
LEMMA ClientKeepsConns ==
  ASSUME NEW S \in SUBSET SessionEvents, conn \in [Conns -> Connections(S)],
         link \in [Clients -> Conns \cup {0}], replica \in [Clients -> Replicas],
         NEW c \in Clients, ClientActs(c)
  PROVE  /\ conn' \in [Conns -> Connections(S)]
         /\ link' \in [Clients -> Conns \cup {0}]
         /\ replica' \in [Clients -> Replicas]
<1> DEFINE n == replica[c].state.revision
           k == link[c]
<1>1. n \in U64 /\ Hello(n) \in ClientMessages /\ CatchUpRequest(n) \in ClientMessages
  BY RevisionRequests
<1>2. k # 0 => k \in Conns /\ conn[k] \in Connections(S)
  OBVIOUS
<1>3. ASSUME Detach(c), k # 0
      PROVE  /\ conn' \in [Conns -> Connections(S)]
             /\ link' \in [Clients -> Conns \cup {0}]
  <2>1. conn' = [conn EXCEPT ![k] = Detached(conn[k])] /\ link' = [link EXCEPT ![c] = 0]
    BY <1>3 DEF Detach
  <2>2. Detached(conn[k]) \in Connections(S)
    BY <1>2, <1>3, DetachedType
  <2> QED
    BY <1>2, <1>3, <2>1, <2>2, OneChanges
<1>4. CASE Connect(c)
  <2>1. PICK j \in Conns :
          \/ /\ conn' = [conn EXCEPT ![j] = [ClosedConn("pending") EXCEPT
                           !.owner = c, !.c2s = <<Hello(n), JoinSession>>]]
             /\ link' = [link EXCEPT ![c] = j]
          \/ UNCHANGED <<conn, link>>
    BY <1>4 DEF Connect
  <2> DEFINE y == [ClosedConn("pending") EXCEPT !.owner = c,
                                                !.c2s = <<Hello(n), JoinSession>>]
  <2>2. JoinSession \in ClientMessages
    BY DEF JoinSession, ClientMessages
  <2>3. <<Hello(n), JoinSession>> \in Seq(ClientMessages)
    BY <1>1, <2>2
  <2>4. 0 \in U64
    BY MaxU64Assumption DEF U64
  <2>5. ClosedConn("pending") \in ConnectionFields(S)
    BY <2>4 DEF ClosedConn, ConnectionFields
  <2>6. y \in Connections(S)
    BY <2>3, <2>5 DEF Connections, ConnectionFields
  <2>7. replica' = replica
    BY <1>4 DEF Connect
  <2> HIDE DEF y, n
  <2> QED
    BY <2>1, <2>6, <2>7, OneChanges DEF y, n
<1>5. ASSUME NEW payload \in ActivityPayloads, TypeCommand(c, payload)
      PROVE  /\ conn' \in [Conns -> Connections(S)]
             /\ link' \in [Clients -> Conns \cup {0}]
             /\ replica' \in [Clients -> Replicas]
  <2> DEFINE r == [message_id |-> CommandId(c, n), actor |-> c, expected_revision |-> n,
                   command |-> [type |-> "activity", descriptor |-> EngineDescriptor,
                                payload |-> payload]]
  <2>1. /\ k # 0 /\ link' = link /\ replica' = replica
        /\ conn' = [conn EXCEPT ![k] = Upstream(conn[k], SubmitCommand(r))]
    BY <1>5 DEF TypeCommand
  <2>2. SubmitCommand(r) \in ClientMessages
    BY <1>1, TypedRequest
  <2> HIDE DEF r, k
  <2> QED
    BY <1>2, <2>1, <2>2, UpstreamType, OneChanges
<1>6. CASE ReceiveBatch(c)
  <2> DEFINE x == [conn[k] EXCEPT !.s2c = Tail(@)]
             m == Head(conn[k].s2c)
             after == AfterBatch(replica[c], m.events)
  <2>1. /\ k # 0 /\ conn[k].s2c # <<>> /\ m.type = "event_batch"
        /\ \/ Detach(c) /\ replica' = replica
           \/ /\ replica' = [replica EXCEPT ![c] = after.replica]
              /\ conn' = [conn EXCEPT ![k] =
                   IF after.end = "gap"
                   THEN Upstream(x, CatchUpRequest(after.replica.state.revision))
                   ELSE x]
              /\ link' = link
    BY <1>6 DEF ReceiveBatch, Arrived
  <2>2. m \in ServerMessages(S) /\ x \in Connections(S)
    BY <1>2, <2>1, ReadType
  <2>3. m.events \in Seq(SessionEvents)
    <3>1. m.events \in Seq(S)
      BY <2>1, <2>2 DEF ServerMessages
    <3> QED
      BY <3>1, SeqMonotone
  <2>4. after \in [replica : Replicas, end : Ends]
    BY <2>3, AfterBatchType
  <2> HIDE DEF after, x, m
  <2>5. after.replica \in Replicas
    BY <2>4
  <2>6. Upstream(x, CatchUpRequest(after.replica.state.revision)) \in Connections(S)
    BY <2>2, <2>5, RevisionRequests, UpstreamType
  <2> QED
    BY <1>2, <1>3, <2>1, <2>2, <2>5, <2>6
<1>7. CASE ReceiveRejected(c)
  <2> DEFINE x == [conn[k] EXCEPT !.s2c = Tail(@)]
             m == Head(conn[k].s2c)
  <2>1. /\ k # 0 /\ conn[k].s2c # <<>> /\ link' = link /\ replica' = replica
        /\ conn' = [conn EXCEPT ![k] =
             IF m.current_revision > n THEN Upstream(x, CatchUpRequest(n)) ELSE x]
    BY <1>7 DEF ReceiveRejected, Arrived
  <2>2. x \in Connections(S)
    BY <1>2, <2>1, ReadType
  <2> HIDE DEF x, m, n
  <2>3. Upstream(x, CatchUpRequest(n)) \in Connections(S)
    BY <1>1, <2>2, UpstreamType
  <2> QED
    BY <1>2, <2>1, <2>2, <2>3
<1>8. CASE ReceiveEof(c) \/ Disconnect(c)
  <2>1. k # 0 /\ Detach(c) /\ replica' = replica
    BY <1>8 DEF ReceiveEof, Disconnect
  <2> QED
    BY <1>3, <2>1
<1> QED
  BY <1>4, <1>5, <1>6, <1>7, <1>8 DEF ClientActs, ClientStep


-----------------------------------------------------------------------------
\* Types.

NetTypes ==
  /\ conn \in [Conns -> Connections(SessionEvents)]
  /\ link \in [Clients -> Conns \cup {0}]
  /\ replica \in [Clients -> Replicas]
  /\ failed \subseteq Clients
  /\ typed \in 0..MaxTyped
  /\ crashes \in 0..MaxCrashes

\* The journal at first holds the events of a raw log.
LEMMA FirstJournal ==
  ASSUME Init
  PROVE  LET entries == journal.entries IN
         /\ entries \in Seq(Entries)
         /\ LoadedEvents(entries) \in Seq(SessionEvents)
         /\ Len(LoadedEvents(entries)) = Len(entries)
<1>1. PICK es \in LegacyLogs : journal = [entries |-> LegacyEntries(es), torn |-> FALSE]
  BY DEF Init
<1>2. es \in Seq(SessionEvents)
  BY HostAssumption
<1>3. Len(es) \in Nat /\ DOMAIN es = 1..Len(es) /\ \A i \in 1..Len(es) : es[i] \in SessionEvents
  BY <1>2
<1> DEFINE entries == LegacyEntries(es)
<1>4. entries \in [1..Len(es) -> Entries]
  BY <1>3 DEF LegacyEntries, Entries
<1> HIDE DEF entries
<1>5. entries \in Seq(Entries)
  BY <1>3, <1>4
<1>6. entries \in Seq(Entries \cup {Corrupt}) /\ \A i \in DOMAIN entries : entries[i] # Corrupt
  BY <1>5, ParsedEntries
<1>7. LoadedEvents(entries) \in Seq(SessionEvents) /\ Len(LoadedEvents(entries)) = Len(entries)
  BY <1>6, LoadedEventsType
<1>8. journal.entries = entries
  BY <1>1 DEF entries
<1> QED
  BY <1>5, <1>7, <1>8

\* The state after the first n events of a log is a session state.
LEMMA PrefixStateType ==
  ASSUME NEW log \in Seq(SessionEvents), NEW n \in 0..Len(log)
  PROVE  Replay(Uninitialized, SubSeq(log, 1, n)).state \in SessionStates
<1>1. IsSeq(log)
  BY DEF IsSeq
<1>2. Replay(Uninitialized, SubSeq(log, 1, n)) = ReplayPath(Uninitialized, log)[n]
  BY <1>1, ReplayPrefix
<1>3. ReplayPath(Uninitialized, log)[n] \in [ok : BOOLEAN, state : SessionStates]
  BY InitialTypes, ReplayPathType
<1> QED
  BY <1>2, <1>3

LEMMA InitNetTypes == NodeInit => NetTypes
<1> SUFFICES ASSUME NodeInit PROVE NetTypes
  OBVIOUS
<1>1. Init
  BY DEF NodeInit
<1> DEFINE entries == journal.entries
           log == LoadedEvents(entries)
<1>2. /\ entries \in Seq(Entries) /\ log \in Seq(SessionEvents) /\ Len(log) = Len(entries)
      /\ Len(log) \in Nat
  BY <1>1, FirstJournal
<1>3. conn \in [Conns -> Connections(SessionEvents)]
  <2>1. ClosedConn("unused") \in Connections(SessionEvents)
    BY ClosedConnType
  <2> QED
    BY <2>1 DEF NodeInit
<1>4. FreshReplica \in Replicas
  <2>1. 0 \in U64 /\ <<>> \in Seq(SessionEvents)
    BY MaxU64Assumption DEF U64
  <2> QED
    BY <2>1, InitialTypes DEF FreshReplica, Replicas
<1>5. ASSUME NEW n \in 1..Len(entries)
      PROVE  SnapshotReplica(Replay(Uninitialized, SubSeq(log, 1, n)).state) \in Replicas
  <2> DEFINE s == Replay(Uninitialized, SubSeq(log, 1, n)).state
  <2>1. n \in 0..Len(log)
    BY <1>2
  <2>2. s \in SessionStates
    BY <1>2, <2>1, PrefixStateType
  <2> HIDE DEF s
  <2>3. s.revision \in U64 /\ <<>> \in Seq(SessionEvents)
    BY <2>2 DEF SessionStates
  <2>4. SnapshotReplica(s) \in Replicas
    BY <2>2, <2>3 DEF SnapshotReplica, Replicas
  <2> QED
    BY <2>4 DEF s
<1>6. replica \in [Clients -> Replicas]
  <2> DEFINE T == {FreshReplica} \cup
                  {SnapshotReplica(Replay(Uninitialized, SubSeq(log, 1, n)).state)
                     : n \in 1..Len(entries)}
  <2>1. replica \in [Clients -> T]
    BY DEF NodeInit
  <2>2. T \subseteq Replicas
    BY <1>4, <1>5
  <2> HIDE DEF T
  <2> QED
    BY <2>1, <2>2
<1>7. link \in [Clients -> Conns \cup {0}]
  BY DEF NodeInit
<1>8. failed \subseteq Clients /\ typed \in 0..MaxTyped /\ crashes \in 0..MaxCrashes
  BY NodeAssumption DEF NodeInit
<1> QED
  BY <1>3, <1>6, <1>7, <1>8 DEF NetTypes

\* A step of the host's side leaves the clients alone and counts its crashes.
LEMMA ServerSideKeeps ==
  ASSUME NetTypes, \/ HostStarts \/ HostCrashes \/ \E k \in Conns : HandlerStep(k)
  PROVE  /\ link' = link /\ replica' = replica /\ failed' = failed /\ typed' = typed
         /\ crashes' \in 0..MaxCrashes
<1>1. crashes \in 0..MaxCrashes /\ MaxCrashes \in Nat
  BY NodeAssumption DEF NetTypes
<1>2. crashes < MaxCrashes => crashes + 1 \in 0..MaxCrashes
  BY <1>1
<1>3. CASE HostStarts
  BY <1>1, <1>3 DEF HostStarts, net
<1>4. CASE HostCrashes
  BY <1>2, <1>4 DEF HostCrashes
<1>5. ASSUME NEW k \in Conns, HandlerStep(k)
      PROVE  /\ link' = link /\ replica' = replica /\ failed' = failed /\ typed' = typed
             /\ crashes' \in 0..MaxCrashes
  <2>1. CASE HandleJoin(k) \/ HandleSubmit(k)
    BY <1>1, <1>2, <2>1 DEF HandleJoin, HandleSubmit, Handled
  <2>2. CASE AcceptConn(k) \/ HandleHello(k) \/ HandleCatchUp(k)
             \/ HandleBroadcast(k) \/ HandlerEnds(k)
    BY <1>1, <2>2 DEF AcceptConn, HandleHello, HandleCatchUp, HandleBroadcast, HandlerEnds
  <2> QED
    BY <1>5, <2>1, <2>2 DEF HandlerStep
<1> QED
  BY <1>3, <1>4, <1>5

LEMMA ClientSideCounts ==
  ASSUME NetTypes, NEW c \in Clients, ClientActs(c)
  PROVE  failed' \subseteq Clients /\ typed' \in 0..MaxTyped /\ crashes' = crashes
<1>1. typed \in 0..MaxTyped /\ MaxTyped \in Nat /\ failed \subseteq Clients
  BY NodeAssumption DEF NetTypes
<1>2. CASE Connect(c)
  BY <1>1, <1>2 DEF Connect
<1>3. ASSUME NEW payload \in ActivityPayloads, TypeCommand(c, payload)
      PROVE  failed' = failed /\ typed' \in 0..MaxTyped /\ crashes' = crashes
  BY <1>1, <1>3 DEF TypeCommand
<1>4. CASE ReceiveBatch(c)
  BY <1>1, <1>4 DEF ReceiveBatch
<1>5. CASE ReceiveRejected(c) \/ ReceiveEof(c) \/ Disconnect(c)
  BY <1>1, <1>5 DEF ReceiveRejected, ReceiveEof, Disconnect
<1> QED
  BY <1>1, <1>2, <1>3, <1>4, <1>5 DEF ClientActs, ClientStep

\* The connections after a step of the whole node, for every set of events that
\* covers what the host holds and answers.
LEMMA StepKeepsConns ==
  ASSUME NetTypes, NEW S \in SUBSET SessionEvents, conn \in [Conns -> Connections(S)],
         events \in Seq(S), state \in SessionStates, [NodeNext]_nodeVars,
         \A k \in Conns :
           Answering(k) /\ status' = "up" => reply'.events \in Seq(S)
  PROVE  conn' \in [Conns -> Connections(S)]
<1>1. CASE HostStarts \/ UNCHANGED nodeVars
  BY <1>1 DEF HostStarts, net, nodeVars
<1>2. CASE HostCrashes
  BY <1>2, SeveredType DEF HostCrashes
<1>3. ASSUME NEW k \in Conns, HandlerStep(k) PROVE conn' \in [Conns -> Connections(S)]
  BY <1>3, HandlerKeepsConns
<1>4. ASSUME NEW c \in Clients, ClientActs(c) PROVE conn' \in [Conns -> Connections(S)]
  BY <1>4, ClientKeepsConns DEF NetTypes
<1> QED
  BY <1>1, <1>2, <1>3, <1>4 DEF NodeNext, ClientActs

LEMMA NextNetTypes ==
  ASSUME NetTypes, TypeOK, [NodeNext]_nodeVars
  PROVE  NetTypes' /\ TypeOK'
<1>1. [Next]_vars
  BY NodeStepIsHostStep DEF NetTypes
<1>2. TypeOK'
  BY <1>1, NextTypeOK
<1>3. reply'.events \in Seq(SessionEvents) /\ events \in Seq(SessionEvents)
      /\ state \in SessionStates
  BY <1>2 DEF TypeOK
<1>4. conn' \in [Conns -> Connections(SessionEvents)]
  BY <1>3, StepKeepsConns DEF NetTypes
<1>5. CASE HostStarts \/ HostCrashes \/ \E k \in Conns : HandlerStep(k)
  BY <1>2, <1>4, <1>5, ServerSideKeeps DEF NetTypes
<1>6. ASSUME NEW c \in Clients, ClientActs(c) PROVE NetTypes'
  <2>1. link' \in [Clients -> Conns \cup {0}] /\ replica' \in [Clients -> Replicas]
    BY <1>6, ClientKeepsConns DEF NetTypes
  <2>2. failed' \subseteq Clients /\ typed' \in 0..MaxTyped /\ crashes' = crashes
    BY <1>6, ClientSideCounts
  <2> QED
    BY <1>4, <2>1, <2>2 DEF NetTypes
<1>7. CASE UNCHANGED nodeVars
  BY <1>2, <1>7 DEF nodeVars, net, NetTypes
<1> QED
  BY <1>2, <1>5, <1>6, <1>7 DEF NodeNext, ClientActs

\* NetTypes is what NodeTypeOK says of the network, and a little more.
LEMMA NetTypesSuffice == TypeOK /\ NetTypes => NodeTypeOK
<1>1. ServerMessages(SessionEvents) \subseteq Messages
  BY DEF ServerMessages, Messages
<1>2. ClientMessages \subseteq Messages
  <2>1. ClientRequests \subseteq CommandRequests
    BY DEF ClientRequests
  <2> QED
    BY <2>1 DEF ClientMessages, Messages
<1>3. /\ Seq(ServerMessages(SessionEvents)) \subseteq Seq(Messages)
      /\ Seq(ClientMessages) \subseteq Seq(Messages)
  BY <1>1, <1>2, SeqMonotone
<1> DEFINE T == [server : {"unused", "pending", "open", "closed"},
                 owner : Clients \cup {HostId}, c2s : Seq(Messages),
                 s2c : Seq(Messages), sent : U64, participant : BOOLEAN,
                 sub : Seq(Seq(SessionEvents)), lagged : BOOLEAN]
<1>4. Connections(SessionEvents) \subseteq T
  BY <1>3 DEF Connections, ConnectionFields
<1> HIDE DEF T
<1>5. NetTypes => conn \in [Conns -> T]
  BY <1>4 DEF NetTypes
<1> QED
  BY <1>5 DEF NetTypes, NodeTypeOK, T

\* Host, connections and clients keep their types: for every number of clients,
\* connections, crashes and typed commands and every capacity.
THEOREM NodeTypeCorrect == NodeSpec => []NodeTypeOK
<1>1. NodeInit => TypeOK /\ NetTypes
  BY InitTypeOK, InitNetTypes DEF NodeInit
<1>2. TypeOK /\ NetTypes /\ [NodeNext]_nodeVars => (TypeOK /\ NetTypes)'
  BY NextNetTypes
<1> QED
  BY <1>1, <1>2, NetTypesSuffice, PTL DEF NodeSpec

\* The host behind the connections is the host of module Host: whatever clients
\* send, lose or repeat, its own steps are Host's, so that everything proved of
\* Host holds of it.
THEOREM NodeRunsTheHost == NodeSpec => Spec
<1>1. NodeInit => TypeOK /\ NetTypes /\ Init
  BY InitTypeOK, InitNetTypes DEF NodeInit
<1>2. TypeOK /\ NetTypes /\ [NodeNext]_nodeVars => (TypeOK /\ NetTypes)'
  BY NextNetTypes
<1>3. NetTypes /\ [NodeNext]_nodeVars => [Next]_vars
  BY NodeStepIsHostStep DEF NetTypes
<1> QED
  BY <1>1, <1>2, <1>3, PTL DEF NodeSpec, Spec


-----------------------------------------------------------------------------
\* What travels.

\* The events of a log.
Stored(log) == {log[i] : i \in DOMAIN log}

LEMMA LogIsStored ==
  ASSUME NEW log \in Seq(SessionEvents)
  PROVE  log \in Seq(Stored(log)) /\ Stored(log) \subseteq SessionEvents
<1>1. DOMAIN log = 1..Len(log) /\ Len(log) \in Nat
  OBVIOUS
<1>2. log \in [1..Len(log) -> Stored(log)]
  BY <1>1 DEF Stored
<1> QED
  BY <1>1, <1>2, SMTT(30) DEF Stored

LEMMA StoredGrows ==
  ASSUME NEW old \in Seq(Entries), NEW new \in Seq(Entries), IsExtension(new, old)
  PROVE  Stored(LoadedEvents(old)) \subseteq Stored(LoadedEvents(new))
<1> DEFINE log == LoadedEvents(old)
           long == LoadedEvents(new)
<1>1. /\ log \in Seq(SessionEvents) /\ long \in Seq(SessionEvents)
      /\ Len(log) <= Len(long) /\ SubSeq(long, 1, Len(log)) = log
  BY ExtendedLog
<1> HIDE DEF log, long
<1>2. \A i \in DOMAIN log : i \in DOMAIN long /\ long[i] = log[i]
  BY <1>1
<1>3. Stored(log) \subseteq Stored(long)
  BY <1>2 DEF Stored
<1> QED
  BY <1>3 DEF log, long

\* A line of a log is made of events of the log.
LEMMA LineIsStored ==
  ASSUME NEW log, NEW m, NEW es, log \in Seq(SessionEvents), IsLineOf(log, m, es)
  PROVE  es \in Seq(Stored(log))
<1>0. PICK h \in 1..Len(log) : \E k \in h..Len(log) :
        /\ es \in Seq(SessionEvents) /\ Len(es) = k - h + 1
        /\ \A i \in 1..Len(es) : es[i] = log[h + i - 1]
  BY DEF IsLineOf
<1>1. PICK k \in h..Len(log) :
        /\ es \in Seq(SessionEvents) /\ Len(es) = k - h + 1
        /\ \A i \in 1..Len(es) : es[i] = log[h + i - 1]
  BY <1>0
<1>2. ASSUME NEW i \in 1..Len(es) PROVE es[i] \in Stored(log)
  <2>1. h + i - 1 \in DOMAIN log
    BY <1>1
  <2> QED
    BY <1>1, <2>1 DEF Stored
<1>3. es \in Seq(SessionEvents)
  BY <1>1
<1> HIDE DEF Stored
<1> QED
  BY <1>2, <1>3

LEMMA EndIsStored ==
  ASSUME NEW log \in Seq(SessionEvents), NEW es \in Seq(SessionEvents)
  PROVE  es \in Seq(Stored(log \o es))
<1> DEFINE both == log \o es
<1>1. ASSUME NEW i \in 1..Len(es) PROVE es[i] \in Stored(both)
  <2>1. Len(log) + i \in DOMAIN both /\ both[Len(log) + i] = es[i]
    OBVIOUS
  <2> HIDE DEF both
  <2> QED
    BY <2>1 DEF Stored
<1> HIDE DEF both
<1>2. es \in Seq(Stored(both))
  BY <1>1
<1> QED
  BY <1>2 DEF both

\* The events of an answer are in the journal by the time it is given.
AnswerIsStored == reply'.events \in Seq(Stored(LoadedEvents(journal'.entries)))

LEMMA EmptyAnswer ==
  ASSUME NEW m, NEW code, Answer(m, code, <<>>)
  PROVE  AnswerIsStored
  BY DEF Answer, AnswerIsStored

LEMMA CommitIsStored ==
  ASSUME CleanInv, CleanInv', status' = "up", NEW candidate, NEW r,
         NEW es \in Seq(SessionEvents), Commit(candidate, r, es)
  PROVE  AnswerIsStored
<1>1. CASE \E code : Reject(r.message_id, code)
  BY <1>1, EmptyAnswer DEF Reject
<1>2. CASE CommitAppended(candidate, r, es)
  <2>1. reply'.events = es /\ events' = events \o es
    BY <1>2 DEF CommitAppended
  <2>2. events' = LoadedEvents(journal'.entries)
    BY DEF CleanInv, MemoryInv
  <2>3. events \in Seq(SessionEvents)
    BY DEF CleanInv, TypeOK
  <2>4. es \in Seq(Stored(events \o es))
    BY <2>3, EndIsStored
  <2> QED
    BY <2>1, <2>2, <2>4 DEF AnswerIsStored
<1>3. CASE CommitFails(r, es)
  BY <1>3, EmptyAnswer DEF CommitFails
<1>4. CASE CommitCrashes(r, es)
  BY <1>4 DEF CommitCrashes, Die
<1> QED
  BY <1>1, <1>2, <1>3, <1>4 DEF Commit

LEMMA AcceptIsStored ==
  ASSUME CleanInv, CleanInv', status' = "up", NEW r \in CommandRequests,
         NEW engine \in BOOLEAN, Accept(r, engine)
  PROVE  AnswerIsStored
<1>1. state \in SessionStates
  BY DEF CleanInv, TypeOK
<1> DEFINE e == DecidedEvent(state, r)
<1>2. \/ \E code \in Codes : Reject(r.message_id, code)
      \/ e \in SessionEvents /\ Commit(Apply(state, e), r, <<e>>)
  BY <1>1, AcceptOutcome
<1> HIDE DEF e
<1>3. CASE e \in SessionEvents /\ Commit(Apply(state, e), r, <<e>>)
  <2>1. <<e>> \in Seq(SessionEvents)
    BY <1>3
  <2> QED
    BY <1>3, <2>1, CommitIsStored
<1> QED
  BY <1>2, <1>3, EmptyAnswer DEF Reject

LEMMA AutoStartIsStored ==
  ASSUME CleanInv, CleanInv', status' = "up", NEW r \in ClientRequests, SubmitAutoStart(r)
  PROVE  AnswerIsStored
<1>1. state \in SessionStates
  BY DEF CleanInv, TypeOK
<1>2. \/ \E code \in Codes : Reject(r.message_id, code)
      \/ \E a, b \in SessionEvents : Commit(Apply(Apply(state, a), b), r, <<a, b>>)
  BY <1>1, AutoStartOutcome
<1>3. ASSUME NEW a \in SessionEvents, NEW b \in SessionEvents,
             Commit(Apply(Apply(state, a), b), r, <<a, b>>)
      PROVE  AnswerIsStored
  <2>1. <<a, b>> \in Seq(SessionEvents)
    OBVIOUS
  <2> QED
    BY <1>3, <2>1, CommitIsStored
<1> QED
  BY <1>2, <1>3, EmptyAnswer DEF Reject

LEMMA SubmitIsStored ==
  ASSUME CleanInv, CleanInv', status' = "up", NEW r \in ClientRequests, Submit(r)
  PROVE  AnswerIsStored
<1>1. CASE SubmitKnown(r)
  <2> DEFINE m == r.message_id
  <2>1. /\ status = "up" /\ journal' = journal /\ m \in DOMAIN accepted
        /\ \/ Answer(m, "duplicate", accepted[m].events)
           \/ Answer(m, "command_id_collision", <<>>)
    BY <1>1 DEF SubmitKnown
  <2> DEFINE log == LoadedEvents(journal.entries)
  <2>2. accepted = LoadedCommands(journal.entries) /\ SoundEntries(journal.entries)
    BY <2>1 DEF CleanInv, MemoryInv, DurableInv
  <2>3. IsLineOf(log, m, LoadedCommands(journal.entries)[m].events)
    BY <2>1, <2>2, LoadedLine
  <2>4. log \in Seq(SessionEvents)
    BY <2>2, SoundReplay
  <2>5. LoadedCommands(journal.entries)[m].events \in Seq(Stored(log))
    BY <2>3, <2>4, LineIsStored
  <2>6. CASE Answer(m, "duplicate", accepted[m].events)
    <3>1. reply'.events = accepted[m].events
      BY <2>6 DEF Answer
    <3> QED
      BY <2>1, <2>2, <2>5, <3>1 DEF AnswerIsStored
  <2> QED
    BY <2>1, <2>6, EmptyAnswer
<1>2. CASE SubmitConflict(r)
  BY <1>2, EmptyAnswer DEF SubmitConflict, Reject
<1>3. CASE SubmitAutoStart(r)
  BY <1>3, AutoStartIsStored
<1>4. CASE SubmitDirect(r)
  BY <1>4, AcceptIsStored DEF SubmitDirect, ClientRequests
<1> QED
  BY <1>1, <1>2, <1>3, <1>4 DEF Submit

\* So whatever a handler passes on is in the journal.
LEMMA AnsweredIsStored ==
  ASSUME NetTypes, CleanInv, CleanInv', status' = "up", NEW k \in Conns, Answering(k)
  PROVE  AnswerIsStored
<1>0. conn \in [Conns -> Connections(SessionEvents)] /\ state \in SessionStates
  BY DEF NetTypes, CleanInv, TypeOK
<1>1. CASE HandleJoin(k)
  <2> DEFINE c == conn[k].owner
             r == [message_id |-> JoinId(c), actor |-> c,
                   expected_revision |-> state.revision,
                   command |-> [type |-> "join", blank |-> FALSE]]
  <2>1. Incoming(k, "join_session") /\ (JoinAgain(c, JoinId(c)) \/ Join(c, JoinId(c), FALSE))
    BY <1>1 DEF HandleJoin
  <2>2. c \in Participants /\ JoinId(c) \in ClientMessageIds
    BY <1>0, <2>1, IncomingFacts, NodeAssumption
  <2>3. r \in CommandRequests
    BY <1>0, <2>2, JoinRequestType
  <2>4. CASE JoinAgain(c, JoinId(c))
    BY <2>4, EmptyAnswer DEF JoinAgain
  <2>5. CASE Join(c, JoinId(c), FALSE)
    <3>1. Accept(r, FALSE)
      BY <2>5 DEF Join
    <3> HIDE DEF r
    <3> QED
      BY <2>3, <3>1, AcceptIsStored
  <2> QED
    BY <2>1, <2>4, <2>5
<1>2. CASE HandleSubmit(k) /\ conn[k].participant
  <2> DEFINE r == Head(conn[k].c2s).request
  <2>1. Incoming(k, "submit_command") /\ Submit(r)
    BY <1>2 DEF HandleSubmit
  <2>2. r \in ClientRequests
    BY <1>0, <2>1, IncomingFacts
  <2> HIDE DEF r
  <2> QED
    BY <2>1, <2>2, SubmitIsStored
<1> QED
  BY <1>1, <1>2 DEF Answering


\* All that is under way, in a socket or in a subscription, is in the journal.
Travels == conn \in [Conns -> Connections(Stored(LoadedEvents(journal.entries)))]

\* What a step does to the journal.
LEMMA StepGrows ==
  ASSUME NetTypes, CleanInv, CleanInv', [NodeNext]_nodeVars
  PROVE  /\ journal.entries \in Seq(Entries) /\ journal'.entries \in Seq(Entries)
         /\ IsExtension(journal'.entries, journal.entries)
<1>1. [Next]_vars
  BY NodeStepIsHostStep DEF NetTypes
<1>2. IsExtension(journal'.entries, journal.entries)
  BY <1>1, NextGrows DEF Grows, CleanInv
<1> QED
  BY <1>2 DEF CleanInv, DurableInv, SoundEntries

LEMMA StepTravels ==
  ASSUME NetTypes, CleanInv, CleanInv', Travels, [NodeNext]_nodeVars
  PROVE  Travels'
<1> DEFINE old == Stored(LoadedEvents(journal.entries))
           S == Stored(LoadedEvents(journal'.entries))
<1>1. /\ journal.entries \in Seq(Entries) /\ journal'.entries \in Seq(Entries)
      /\ IsExtension(journal'.entries, journal.entries)
  BY StepGrows
<1>2. old \subseteq S
  BY <1>1, StoredGrows
<1>3. /\ LoadedEvents(journal.entries) \in Seq(SessionEvents)
      /\ LoadedEvents(journal'.entries) \in Seq(SessionEvents)
  BY <1>1, ExtendedLog
<1>4. S \in SUBSET SessionEvents
  BY <1>3, LogIsStored
<1>5. LoadedEvents(journal.entries) \in Seq(old)
  BY <1>3, LogIsStored
<1>6. conn \in [Conns -> Connections(old)]
  BY DEF Travels
<1>7. \A k \in Conns : Answering(k) /\ status' = "up" => reply'.events \in Seq(S)
  BY AnsweredIsStored DEF AnswerIsStored
<1>8. state \in SessionStates
  BY DEF CleanInv, TypeOK
<1>9. events = LoadedEvents(journal.entries) \/ events = <<>>
  BY DEF CleanInv, MemoryInv
<1>10. Travels' <=> conn' \in [Conns -> Connections(S)]
  BY DEF Travels
<1> HIDE DEF old, S
<1>11. Connections(old) \subseteq Connections(S) /\ Seq(old) \subseteq Seq(S)
  BY <1>2, ConnectionsMonotone, SeqMonotone
<1>12. conn \in [Conns -> Connections(S)]
  BY <1>6, <1>11
<1>13. events \in Seq(S)
  <2>1. <<>> \in Seq(S)
    OBVIOUS
  <2>2. LoadedEvents(journal.entries) \in Seq(S)
    BY <1>5, <1>11
  <2> QED
    BY <1>9, <2>1, <2>2
<1> QED
  BY <1>4, <1>7, <1>8, <1>10, <1>12, <1>13, StepKeepsConns

\* In a valid log, an event is stored at its sequence.
LEMMA StoredAtSequence ==
  ASSUME NEW log \in Seq(SessionEvents), EventLogValid(log), NEW e \in Stored(log)
  PROVE  /\ e.sequence \in DOMAIN log /\ log[e.sequence] = e /\ e \in SessionEvents
         /\ e.sequence \in 1..Len(log) /\ e.sequence <= MaxU64
<1>1. PICK i \in DOMAIN log : e = log[i]
  BY DEF Stored
<1>2. e.sequence = i /\ i <= MaxU64
  BY <1>1 DEF EventLogValid
<1> QED
  BY <1>1, <1>2

LEMMA TravelsSuffices ==
  ASSUME Travels, CleanInv
  PROVE  OnlyDurableEventsTravel
<1> DEFINE log == LoadedEvents(journal.entries)
           InJournal(es) ==
             \A i \in DOMAIN es : /\ es[i].sequence \in DOMAIN log
                                  /\ log[es[i].sequence] = es[i]
<1>1. SoundEntries(journal.entries)
  BY DEF CleanInv, DurableInv
<1>2. log \in Seq(SessionEvents) /\ EventLogValid(log)
  BY <1>1, SoundReplay DEF SoundEntries, Recovers
<1>3. conn \in [Conns -> Connections(Stored(log))]
  BY DEF Travels
<1>4. OnlyDurableEventsTravel <=>
        \A k \in Conns :
          /\ \A i \in DOMAIN conn[k].sub : InJournal(conn[k].sub[i])
          /\ \A i \in DOMAIN conn[k].s2c :
               conn[k].s2c[i].type = "event_batch" => InJournal(conn[k].s2c[i].events)
  BY DEF OnlyDurableEventsTravel, Durable
<1> HIDE DEF log
<1>5. ASSUME NEW es \in Seq(Stored(log)) PROVE InJournal(es)
  <2> SUFFICES ASSUME NEW i \in DOMAIN es
               PROVE  es[i].sequence \in DOMAIN log /\ log[es[i].sequence] = es[i]
    OBVIOUS
  <2>1. es[i] \in Stored(log)
    OBVIOUS
  <2> QED
    BY <1>2, <2>1, StoredAtSequence
<1> HIDE DEF InJournal
<1>6. ASSUME NEW k \in Conns
      PROVE  /\ \A i \in DOMAIN conn[k].sub : InJournal(conn[k].sub[i])
             /\ \A i \in DOMAIN conn[k].s2c :
                  conn[k].s2c[i].type = "event_batch" => InJournal(conn[k].s2c[i].events)
  <2>1. /\ conn[k] \in ConnectionFields(Stored(log))
        /\ conn[k].sub \in Seq(Seq(Stored(log)))
        /\ conn[k].s2c \in Seq(ServerMessages(Stored(log)))
    BY <1>3 DEF Connections, ConnectionFields
  <2>2. ASSUME NEW i \in DOMAIN conn[k].sub PROVE InJournal(conn[k].sub[i])
    <3>1. conn[k].sub[i] \in Seq(Stored(log))
      BY <2>1
    <3> QED
      BY <1>5, <3>1
  <2>3. ASSUME NEW i \in DOMAIN conn[k].s2c, conn[k].s2c[i].type = "event_batch"
        PROVE  InJournal(conn[k].s2c[i].events)
    <3>1. conn[k].s2c[i] \in ServerMessages(Stored(log))
      BY <2>1
    <3>2. conn[k].s2c[i].events \in Seq(Stored(log))
      BY <2>3, <3>1 DEF ServerMessages
    <3> QED
      BY <1>5, <3>2
  <2> QED
    BY <2>2, <2>3
<1> QED
  BY <1>4, <1>6


-----------------------------------------------------------------------------
\* Replicas.

\* A log that replays does so at every step of the way: the state after i events
\* has revision i, and the next event applies to it.
OnThePath(log, i) ==
  LET s == Replay(Uninitialized, SubSeq(log, 1, i)).state IN
  /\ s \in SessionStates /\ s.revision = i
  /\ i < Len(log) =>
       /\ CanApply(s, log[i + 1])
       /\ Replay(Uninitialized, SubSeq(log, 1, i + 1)).state = Apply(s, log[i + 1])

LEMMA ReplayNeverHeals ==
  ASSUME NEW es \in Seq(SessionEvents), Replay(Uninitialized, es).ok, NEW i \in 0..Len(es)
  PROVE  ReplayPath(Uninitialized, es)[i].ok
<1> DEFINE p == ReplayPath(Uninitialized, es)
           N == Len(es)
           S == {d \in Nat : d <= N => p[N - d].ok}
<1>0. N \in Nat /\ IsReplayPath(p, Uninitialized, es, N)
  BY ReplayPathIsPath
<1>2. p[N].ok
  BY DEF Replay
<1>4. i \in 0..N
  OBVIOUS
<1> HIDE DEF p, N
<1>1. /\ N \in Nat /\ p[0] = [ok |-> TRUE, state |-> Uninitialized]
      /\ \A k \in 1..N : p[k] = ReplayStep(Uninitialized, p[k - 1], es[k])
  BY <1>0, ReplayPathValues
<1>3. ASSUME NEW k \in 1..N, p[k].ok PROVE p[k - 1].ok
  <2>1. p[k] = ReplayStep(Uninitialized, p[k - 1], es[k])
    BY <1>1
  <2>2. ReplayStep(Uninitialized, p[k - 1], es[k]).ok
    BY <1>3, <2>1
  <2> QED
    BY <2>2 DEF ReplayStep
<1>5. 0 \in S
  BY <1>1, <1>2
<1>6. ASSUME NEW d \in Nat, d \in S PROVE d + 1 \in S
  <2> SUFFICES ASSUME d + 1 <= N PROVE p[N - (d + 1)].ok
    BY <1>1
  <2>1. N - d \in 1..N /\ (N - d) - 1 = N - (d + 1) /\ p[N - d].ok
    BY <1>1, <1>6
  <2> QED
    BY <1>3, <2>1
<1> HIDE DEF S
<1>7. Nat \subseteq S
  BY <1>5, <1>6, SetInduction
<1>8. N - i \in Nat /\ N - i <= N /\ N - (N - i) = i
  BY <1>1, <1>4
<1>9. p[i].ok
  BY <1>7, <1>8 DEF S
<1> QED
  BY <1>9 DEF p

LEMMA ReplayedLog ==
  ASSUME NEW log \in Seq(SessionEvents), Replay(Uninitialized, log).ok, NEW i \in 0..Len(log)
  PROVE  OnThePath(log, i)
<1> DEFINE p == ReplayPath(Uninitialized, log)
<1>1. IsSeq(log) /\ Len(log) \in Nat
  BY DEF IsSeq
<1>2. \A k \in 0..Len(log) : Replay(Uninitialized, SubSeq(log, 1, k)) = p[k] /\ p[k].ok
  BY <1>1, ReplayPrefix, ReplayNeverHeals
<1>3. IsReplayPath(p, Uninitialized, log, Len(log))
  BY <1>1, ReplayPathIsPath
<1>4. p[i].state.revision = i
  BY <1>2, ReplayPathRevision
<1>5. p[i].state \in SessionStates
  BY <1>2, PrefixStateType
<1> HIDE DEF p
<1>9. /\ p[0] = [ok |-> TRUE, state |-> Uninitialized]
      /\ \A k \in 1..Len(log) : p[k] = ReplayStep(Uninitialized, p[k - 1], log[k])
  BY <1>1, <1>3, ReplayPathValues
<1>6. ASSUME i < Len(log)
      PROVE  CanApply(p[i].state, log[i + 1])
             /\ p[i + 1].state = Apply(p[i].state, log[i + 1])
  <2>1. i + 1 \in 1..Len(log) /\ (i + 1) - 1 = i /\ i + 1 \in 0..Len(log)
    BY <1>1, <1>6
  <2>2. p[i + 1] = ReplayStep(Uninitialized, p[i], log[i + 1]) /\ p[i + 1].ok
    BY <1>2, <1>9, <2>1
  <2> QED
    BY <2>2 DEF ReplayStep
<1>7. i < Len(log) => i + 1 \in 0..Len(log)
  BY <1>1
<1>8. Replay(Uninitialized, SubSeq(log, 1, i)) = p[i]
      /\ (i < Len(log) => Replay(Uninitialized, SubSeq(log, 1, i + 1)) = p[i + 1])
  BY <1>2, <1>7
<1> QED
  BY <1>4, <1>5, <1>6, <1>8 DEF OnThePath


\* A piece of a log: its elements, the same piece of a longer log, and the piece
\* that has one more element.
LEMMA Piece ==
  ASSUME NEW S, NEW log \in Seq(S), NEW b \in Nat, NEW n \in Nat, b <= n, n <= Len(log)
  PROVE  LET t == SubSeq(log, b + 1, n) IN
         /\ t \in Seq(S) /\ Len(t) = n - b
         /\ \A j \in 1..(n - b) : t[j] = log[b + j]
<1> DEFINE t == SubSeq(log, b + 1, n)
<1>1. t \in Seq(S) /\ Len(t) = n - b
  OBVIOUS
<1>2. ASSUME NEW j \in 1..(n - b) PROVE t[j] = log[b + j]
  <2>1. t[j] = log[(b + 1) + j - 1]
    OBVIOUS
  <2>2. (b + 1) + j - 1 = b + j
    OBVIOUS
  <2> QED
    BY <2>1, <2>2
<1> QED
  BY <1>1, <1>2

LEMMA SamePiece ==
  ASSUME NEW S, NEW log \in Seq(S), NEW long \in Seq(S), Len(log) <= Len(long),
         \A i \in 1..Len(log) : long[i] = log[i],
         NEW b \in Nat, NEW n \in Nat, b <= n, n <= Len(log)
  PROVE  SubSeq(long, b + 1, n) = SubSeq(log, b + 1, n)
<1> DEFINE t == SubSeq(log, b + 1, n)
           u == SubSeq(long, b + 1, n)
<1>1. t \in Seq(S) /\ Len(t) = n - b /\ \A j \in 1..(n - b) : t[j] = log[b + j]
  BY Piece
<1>2. n <= Len(long)
  OBVIOUS
<1>3. u \in Seq(S) /\ Len(u) = n - b /\ \A j \in 1..(n - b) : u[j] = long[b + j]
  BY <1>2, Piece
<1>4. \A j \in 1..(n - b) : b + j \in 1..Len(log)
  OBVIOUS
<1> HIDE DEF t, u
<1>5. t = u
  BY <1>1, <1>3, <1>4, SeqEqual
<1> QED
  BY <1>5 DEF t, u

LEMMA PieceAppend ==
  ASSUME NEW S, NEW log \in Seq(S), NEW b \in Nat, NEW n \in Nat, b <= n, n < Len(log)
  PROVE  Append(SubSeq(log, b + 1, n), log[n + 1]) = SubSeq(log, b + 1, n + 1)
<1> DEFINE t == SubSeq(log, b + 1, n)
           e == log[n + 1]
           u == SubSeq(log, b + 1, n + 1)
<1>1. t \in Seq(S) /\ Len(t) = n - b /\ \A j \in 1..(n - b) : t[j] = log[b + j]
  BY Piece
<1>2. n + 1 \in Nat /\ b <= n + 1 /\ n + 1 <= Len(log) /\ e \in S
  OBVIOUS
<1>3. /\ u \in Seq(S) /\ Len(u) = (n + 1) - b
      /\ \A j \in 1..((n + 1) - b) : u[j] = log[b + j]
  BY <1>2, Piece
<1>4. u[(n + 1) - b] = e
  <2>1. (n + 1) - b \in 1..((n + 1) - b) /\ b + ((n + 1) - b) = n + 1
    OBVIOUS
  <2> QED
    BY <1>3, <2>1
<1> HIDE DEF t, u, e
<1>5. /\ Append(t, e) \in Seq(S) /\ Len(Append(t, e)) = (n + 1) - b
      /\ Append(t, e)[(n + 1) - b] = e
      /\ \A j \in 1..(n - b) : Append(t, e)[j] = t[j]
  BY <1>1, <1>2
<1>6. ASSUME NEW j \in 1..((n + 1) - b) PROVE Append(t, e)[j] = u[j]
  <2>1. j = (n + 1) - b \/ j \in 1..(n - b)
    OBVIOUS
  <2> QED
    BY <1>1, <1>3, <1>4, <1>5, <2>1
<1>7. Append(t, e) = u
  BY <1>3, <1>5, <1>6, SeqEqual
<1> QED
  BY <1>7 DEF t, u, e

\* The journal's log, as far as replicas are concerned.
GoodLog(log) ==
  log \in Seq(SessionEvents) /\ EventLogValid(log) /\ Replay(Uninitialized, log).ok

\* What ReplicasFollowJournal says of one replica.
Follows(rep, log) ==
  LET n == rep.base + Len(rep.events) IN
  /\ n <= Len(log)
  /\ rep.events = SubSeq(log, rep.base + 1, n)
  /\ rep.state = Replay(Uninitialized, SubSeq(log, 1, n)).state

\* The same, in the terms of the client's checks.
At(rep, log, n) ==
  /\ n = rep.base + Len(rep.events) /\ n \in 0..Len(log)
  /\ rep.base \in Nat /\ rep.events \in Seq(SessionEvents) /\ Len(rep.events) \in Nat
  /\ \A j \in 1..Len(rep.events) : rep.events[j] = log[rep.base + j]
  /\ rep.state.revision = n
  /\ n < Len(log) =>
       /\ CanApply(rep.state, log[n + 1])
       /\ Replay(Uninitialized, SubSeq(log, 1, n + 1)).state = Apply(rep.state, log[n + 1])

LEMMA FollowsAt ==
  ASSUME NEW log, GoodLog(log), NEW rep \in Replicas, Follows(rep, log)
  PROVE  At(rep, log, rep.base + Len(rep.events))
<1> DEFINE n == rep.base + Len(rep.events)
<1>1. /\ rep.base \in Nat /\ rep.events \in Seq(SessionEvents) /\ Len(rep.events) \in Nat
  BY MaxU64Assumption DEF Replicas, U64
<1>2. log \in Seq(SessionEvents) /\ Len(log) \in Nat /\ Replay(Uninitialized, log).ok
  BY DEF GoodLog
<1>3. /\ n <= Len(log) /\ rep.events = SubSeq(log, rep.base + 1, n)
      /\ rep.state = Replay(Uninitialized, SubSeq(log, 1, n)).state
  BY DEF Follows
<1>4. n \in 0..Len(log)
  BY <1>1, <1>2, <1>3
<1>5. OnThePath(log, n)
  BY <1>2, <1>4, ReplayedLog
<1>6. \A j \in 1..Len(rep.events) : rep.events[j] = log[rep.base + j]
  <2>1. n \in Nat /\ rep.base <= n /\ n - rep.base = Len(rep.events)
    BY <1>1
  <2> HIDE DEF n
  <2> QED
    BY <1>1, <1>2, <1>3, <2>1, Piece, SMTT(30)
<1>7. n = rep.base + Len(rep.events)
  OBVIOUS
<1> HIDE DEF n
<1>8. At(rep, log, n)
  BY <1>1, <1>3, <1>4, <1>5, <1>6, <1>7 DEF At, OnThePath
<1> QED
  BY <1>8 DEF n

\* A replica stays on the path of a log that gets longer.
LEMMA FollowsLonger ==
  ASSUME NEW log \in Seq(SessionEvents), NEW long \in Seq(SessionEvents),
         Len(log) <= Len(long), SubSeq(long, 1, Len(log)) = log,
         NEW rep \in Replicas, Follows(rep, log)
  PROVE  Follows(rep, long)
<1> DEFINE n == rep.base + Len(rep.events)
<1>1. rep.base \in Nat /\ Len(rep.events) \in Nat
  BY MaxU64Assumption DEF Replicas, U64
<1>2. /\ n <= Len(log) /\ rep.events = SubSeq(log, rep.base + 1, n)
      /\ rep.state = Replay(Uninitialized, SubSeq(log, 1, n)).state
  BY DEF Follows
<1>3. \A i \in 1..Len(log) : long[i] = log[i]
  OBVIOUS
<1>4. n \in Nat /\ n <= Len(long)
  BY <1>1, <1>2
<1>5. rep.base \in Nat /\ n = rep.base + Len(rep.events)
  BY <1>1
<1> HIDE DEF n
<1>6. SubSeq(long, 1, n) = SubSeq(log, 1, n)
  BY <1>2, <1>3, <1>4
<1>7. SubSeq(long, rep.base + 1, n) = SubSeq(log, rep.base + 1, n)
  <2>1. rep.base <= n
    BY <1>1, <1>5
  <2>2. ASSUME NEW b \in Nat, b <= n PROVE SubSeq(long, b + 1, n) = SubSeq(log, b + 1, n)
    BY <1>2, <1>3, <1>4, <2>2, SamePiece
  <2> QED
    BY <1>5, <2>1, <2>2
<1> QED
  BY <1>2, <1>4, <1>6, <1>7 DEF Follows, n

\* One event from the journal leaves a replica on the path, and a client that holds
\* all events from the first on does not fail over it.
LEMMA EventFollows ==
  ASSUME NEW log, GoodLog(log), NEW rep \in Replicas, Follows(rep, log),
         NEW e \in Stored(log)
  PROVE  /\ AfterEvent(rep, e) \in Replicas /\ AfterEvent(rep, e).base = rep.base
         /\ Follows(AfterEvent(rep, e), log)
         /\ rep.base = 0 => Received(rep, e) # "failed"
<1>1. PICK n : At(rep, log, n)
  BY FollowsAt
<1>2. /\ n = rep.base + Len(rep.events) /\ n \in 0..Len(log)
      /\ rep.base \in Nat /\ rep.events \in Seq(SessionEvents) /\ Len(rep.events) \in Nat
      /\ \A j \in 1..Len(rep.events) : rep.events[j] = log[rep.base + j]
      /\ rep.state.revision = n
      /\ n < Len(log) =>
           /\ CanApply(rep.state, log[n + 1])
           /\ Replay(Uninitialized, SubSeq(log, 1, n + 1)).state
                = Apply(rep.state, log[n + 1])
  BY <1>1 DEF At
<1>3. log \in Seq(SessionEvents) /\ EventLogValid(log) /\ Len(log) \in Nat
  BY DEF GoodLog
<1>4. /\ log[e.sequence] = e /\ e.sequence \in 1..Len(log) /\ e.sequence <= MaxU64
      /\ e \in SessionEvents
  BY <1>3, StoredAtSequence
<1>5. rep.events = SubSeq(log, rep.base + 1, n)
  BY <1>2 DEF Follows
<1>6. AfterEvent(rep, e) \in Replicas
  BY <1>4, AfterEventType
<1>7. CASE Received(rep, e) = "applied"
  <2>1. e.sequence = n + 1
    BY <1>2, <1>7 DEF Received
  <2>2. n + 1 \in 1..Len(log) /\ e = log[n + 1] /\ n < Len(log)
    BY <1>2, <1>4, <2>1
  <2> DEFINE new == AfterEvent(rep, e)
  <2>3. new = [rep EXCEPT !.events = Append(@, e), !.state = Apply(@, e)]
    BY <1>7 DEF AfterEvent
  <2>4. /\ new.base = rep.base /\ new.events = Append(rep.events, e)
        /\ new.state = Apply(rep.state, e)
    BY <2>3 DEF Replicas
  <2> HIDE DEF new
  <2>5. Len(new.events) = Len(rep.events) + 1
    BY <1>2, <2>4
  <2>6. new.base + Len(new.events) = n + 1
    BY <1>2, <2>4, <2>5
  <2>7. Append(rep.events, e) = SubSeq(log, rep.base + 1, n + 1)
    <3>1. rep.base <= n /\ n \in Nat
      BY <1>2
    <3>2. Append(SubSeq(log, rep.base + 1, n), log[n + 1]) = SubSeq(log, rep.base + 1, n + 1)
      BY <1>2, <1>3, <2>2, <3>1, PieceAppend
    <3> QED
      BY <1>5, <2>2, <3>2
  <2>8. new.state = Replay(Uninitialized, SubSeq(log, 1, n + 1)).state
    BY <1>2, <2>2, <2>4
  <2>9. Follows(new, log)
    <3>1. n + 1 <= Len(log)
      BY <1>2, <1>3, <2>2
    <3>2. new.events = SubSeq(log, new.base + 1, n + 1)
      BY <2>4, <2>7
    <3> QED
      BY <2>6, <2>8, <3>1, <3>2 DEF Follows
  <2> QED
    BY <1>6, <1>7, <2>4, <2>9 DEF new
<1>8. CASE Received(rep, e) # "applied"
  <2>1. AfterEvent(rep, e) = rep
    BY <1>8 DEF AfterEvent
  <2>2. ASSUME rep.base = 0 PROVE Received(rep, e) # "failed"
    <3>1. e.sequence > rep.base /\ e.sequence - rep.base = e.sequence
      BY <1>4, <2>2
    <3>2. DOMAIN rep.events = 1..n
      BY <1>2, <2>2
    <3>3. CASE e.sequence <= n
      <4>1. KnownAt(rep, e.sequence)
        BY <1>4, <3>1, <3>2, <3>3 DEF KnownAt
      <4>2. rep.events[e.sequence - rep.base] = e
        BY <1>2, <1>4, <2>2, <3>1, <3>3
      <4> QED
        BY <1>2, <1>4, <3>1, <4>1, <4>2 DEF Received
    <3>4. CASE e.sequence > n
      <4>1. ~KnownAt(rep, e.sequence)
        BY <1>2, <1>4, <3>1, <3>2, <3>4 DEF KnownAt
      <4>2. ASSUME NEW j \in DOMAIN rep.events, rep.events[j].event_id = e.event_id
            PROVE  FALSE
        <5>1. j \in 1..n /\ rep.events[j] = log[j]
          BY <1>2, <2>2, <3>2
        <5>2. j \in DOMAIN log /\ e.sequence \in DOMAIN log
              /\ log[j].event_id = log[e.sequence].event_id
          BY <1>2, <1>3, <1>4, <4>2, <5>1
        <5>3. j = e.sequence
          BY <1>3, <5>2 DEF EventLogValid
        <5> QED
          BY <1>2, <3>4, <5>1, <5>3
      <4>3. rep.state.revision # MaxU64
        BY <1>2, <1>4, <3>4, MaxU64Assumption
      <4>4. e.sequence = n + 1 => CanApply(rep.state, e)
        BY <1>2, <1>4
      <4> QED
        BY <1>2, <1>4, <3>1, <4>1, <4>2, <4>3, <4>4 DEF Received
    <3> QED
      BY <1>2, <1>4, <3>3, <3>4
  <2> QED
    BY <1>6, <2>1, <2>2
<1> QED
  BY <1>7, <1>8


LEMMA FollowerLoads ==
  ASSUME NEW log, GoodLog(log), NEW rep \in Replicas, Follows(rep, log)
  PROVE  LoadsReplica(rep)
<1>1. PICK n : At(rep, log, n)
  BY FollowsAt
<1>2. /\ n = rep.base + Len(rep.events) /\ n \in 0..Len(log)
      /\ rep.base \in Nat /\ rep.events \in Seq(SessionEvents) /\ Len(rep.events) \in Nat
      /\ \A j \in 1..Len(rep.events) : rep.events[j] = log[rep.base + j]
      /\ rep.state.revision = n
  BY <1>1 DEF At
<1>3. log \in Seq(SessionEvents) /\ EventLogValid(log) /\ Len(log) \in Nat
  BY DEF GoodLog
<1>4. ASSUME NEW j \in DOMAIN rep.events
      PROVE  /\ rep.base + j \in DOMAIN log /\ rep.events[j] = log[rep.base + j]
             /\ rep.events[j].sequence = rep.base + j
  <2>1. j \in 1..Len(rep.events)
    BY <1>2
  <2>2. rep.base + j \in DOMAIN log
    BY <1>2, <1>3, <2>1
  <2>3. rep.events[j] = log[rep.base + j]
    BY <1>2, <2>1
  <2> QED
    BY <1>3, <2>2, <2>3 DEF EventLogValid
<1>5. ASSUME NEW i \in DOMAIN rep.events, NEW j \in DOMAIN rep.events,
             rep.events[i].event_id = rep.events[j].event_id
      PROVE  i = j
  <2>1. rep.base + i = rep.base + j
    BY <1>3, <1>4, <1>5 DEF EventLogValid
  <2>2. i \in 1..Len(rep.events) /\ j \in 1..Len(rep.events)
    BY <1>2
  <2> QED
    BY <1>2, <2>1, <2>2
<1> QED
  BY <1>2, <1>4, <1>5 DEF LoadsReplica

\* A batch of events from the journal, however it was filtered or repeated, leaves
\* a replica on the path.
LEMMA BatchFollows ==
  ASSUME NEW log, GoodLog(log), NEW rep \in Replicas, Follows(rep, log),
         NEW es \in Seq(Stored(log))
  PROVE  LET after == AfterBatch(rep, es) IN
         /\ after.replica \in Replicas /\ Follows(after.replica, log)
         /\ after.replica.base = rep.base
         /\ rep.base = 0 => after.end # "failed"
<1> DEFINE X == {x \in [replica : Replicas, end : Ends] :
                   /\ Follows(x.replica, log) /\ x.replica.base = rep.base
                   /\ rep.base = 0 => x.end # "failed"}
<1>1. [replica |-> rep, end |-> "done"] \in X
  BY DEF Ends
<1>2. ASSUME NEW x \in X, NEW e \in Stored(log) PROVE BatchStep(x, e) \in X
  <2>1. /\ x \in [replica : Replicas, end : Ends] /\ x.replica \in Replicas
        /\ Follows(x.replica, log) /\ x.replica.base = rep.base
        /\ rep.base = 0 => x.end # "failed"
    OBVIOUS
  <2> DEFINE what == Received(x.replica, e)
             new == AfterEvent(x.replica, e)
             end == IF what \in {"gap", "failed"} THEN what ELSE "done"
  <2>2. /\ new \in Replicas /\ new.base = x.replica.base /\ Follows(new, log)
        /\ x.replica.base = 0 => what # "failed"
    BY <2>1, EventFollows
  <2>3. end \in Ends /\ (what # "failed" => end # "failed")
    BY DEF Ends
  <2>4. BatchStep(x, e) = IF x.end # "done" THEN x ELSE [replica |-> new, end |-> end]
    BY DEF BatchStep
  <2> HIDE DEF what, new, end
  <2>5. [replica |-> new, end |-> end] \in X
    BY <2>1, <2>2, <2>3
  <2> QED
    BY <2>4, <2>5
<1> HIDE DEF X
<1>3. AfterBatch(rep, es) \in X
  BY <1>1, <1>2, BatchKeeps
<1> QED
  BY <1>3 DEF X

-----------------------------------------------------------------------------
\* The inductive invariant of the whole.

AllFollow == \A c \in Clients : Follows(replica[c], LoadedEvents(journal.entries))

\* A client that began with an empty replica holds every event from the first on,
\* and only the others ever stopped with an error.
OldSnapshotsOnly ==
  /\ \A c \in Clients \ SnapshotClients : replica[c].base = 0
  /\ failed \subseteq SnapshotClients

NodeInv == CleanInv /\ NetTypes /\ Travels /\ AllFollow /\ OldSnapshotsOnly

LEMMA CleanLog ==
  ASSUME CleanInv
  PROVE  GoodLog(LoadedEvents(journal.entries))
<1>1. SoundEntries(journal.entries)
  BY DEF CleanInv, DurableInv
<1>2. LoadedEvents(journal.entries) \in Seq(SessionEvents)
  BY <1>1, SoundReplay
<1> QED
  BY <1>1, <1>2 DEF SoundEntries, Recovers, GoodLog

\* What a client's step does to its replica, before the journal moves.
LEMMA ClientFollows ==
  ASSUME NodeInv, NEW c \in Clients, ClientActs(c)
  PROVE  /\ \A d \in Clients : Follows(replica'[d], LoadedEvents(journal.entries))
         /\ \A d \in Clients : replica'[d].base = replica[d].base
         /\ failed' = failed \/ (c \in SnapshotClients /\ failed' = failed \cup {c})
<1> DEFINE log == LoadedEvents(journal.entries)
           rep == replica[c]
<1>1. /\ GoodLog(log) /\ rep \in Replicas /\ Follows(rep, log)
      /\ replica \in [Clients -> Replicas]
      /\ \A d \in Clients : Follows(replica[d], log)
      /\ c \in Clients \ SnapshotClients => rep.base = 0
  BY CleanLog DEF NodeInv, NetTypes, AllFollow, OldSnapshotsOnly
<1>2. CASE Connect(c)
  <2>1. LoadsReplica(rep)
    BY <1>1, FollowerLoads
  <2>2. replica' = replica /\ failed' = failed
    BY <1>2, <2>1 DEF Connect
  <2> QED
    BY <1>1, <2>2
<1>3. CASE ReceiveBatch(c)
  <2> DEFINE k == link[c]
             es == Head(conn[k].s2c).events
             after == AfterBatch(rep, es)
  <2>1. /\ k # 0 /\ conn[k].s2c # <<>> /\ Head(conn[k].s2c).type = "event_batch"
        /\ \/ after.end = "failed" /\ failed' = failed \cup {c} /\ replica' = replica
           \/ after.end # "failed" /\ failed' = failed
              /\ replica' = [replica EXCEPT ![c] = after.replica]
    BY <1>3 DEF ReceiveBatch, Arrived
  <2>2. k \in Conns /\ conn[k] \in Connections(Stored(log))
    BY <2>1 DEF NodeInv, NetTypes, Travels
  <2>3. Head(conn[k].s2c) \in ServerMessages(Stored(log))
    BY <2>1, <2>2, ReadType
  <2>4. es \in Seq(Stored(log))
    BY <2>1, <2>3 DEF ServerMessages
  <2> HIDE DEF es, k, log, rep
  <2>5. /\ after.replica \in Replicas /\ Follows(after.replica, log)
        /\ after.replica.base = rep.base
        /\ rep.base = 0 => after.end # "failed"
    BY <1>1, <2>4, BatchFollows
  <2> HIDE DEF after
  <2>6. CASE after.end = "failed" /\ failed' = failed \cup {c} /\ replica' = replica
    BY <1>1, <2>5, <2>6 DEF log
  <2>7. CASE failed' = failed /\ replica' = [replica EXCEPT ![c] = after.replica]
    BY <1>1, <2>5, <2>7 DEF log, rep
  <2> QED
    BY <2>1, <2>6, <2>7
<1>4. CASE \/ \E payload \in ActivityPayloads : TypeCommand(c, payload)
           \/ ReceiveRejected(c) \/ ReceiveEof(c) \/ Disconnect(c)
  <2>1. replica' = replica /\ failed' = failed
    BY <1>4 DEF TypeCommand, ReceiveRejected, ReceiveEof, Disconnect
  <2> QED
    BY <1>1, <2>1
<1> QED
  BY <1>2, <1>3, <1>4 DEF ClientActs, ClientStep

LEMMA NextNodeInv ==
  ASSUME CleanFailures, NodeInv, [NodeNext]_nodeVars
  PROVE  NodeInv'
<1>0. CleanInv /\ NetTypes /\ Travels /\ AllFollow /\ OldSnapshotsOnly /\ TypeOK
  BY DEF NodeInv, CleanInv
<1>1. CleanInv'
  BY <1>0, NodeStepIsHostStep, NextCleanInv DEF NetTypes
<1>2. NetTypes'
  BY <1>0, NextNetTypes
<1>3. Travels'
  BY <1>0, <1>1, StepTravels
<1> DEFINE log == LoadedEvents(journal.entries)
           long == LoadedEvents(journal'.entries)
<1>4. /\ log \in Seq(SessionEvents) /\ long \in Seq(SessionEvents)
      /\ Len(log) <= Len(long) /\ SubSeq(long, 1, Len(log)) = log
  BY <1>0, <1>1, StepGrows, ExtendedLog
<1>5. /\ \A d \in Clients : Follows(replica'[d], log)
      /\ OldSnapshotsOnly'
  <2>1. CASE replica' = replica /\ failed' = failed
    BY <1>0, <2>1 DEF AllFollow, OldSnapshotsOnly
  <2>2. ASSUME NEW c \in Clients, ClientActs(c)
        PROVE  /\ \A d \in Clients : Follows(replica'[d], log)
               /\ OldSnapshotsOnly'
    <3>1. /\ \A d \in Clients : Follows(replica'[d], log)
          /\ \A d \in Clients : replica'[d].base = replica[d].base
          /\ failed' = failed \/ (c \in SnapshotClients /\ failed' = failed \cup {c})
      BY <2>2, ClientFollows
    <3> QED
      BY <1>0, <3>1 DEF OldSnapshotsOnly
  <2>3. CASE HostStarts \/ HostCrashes \/ \E k \in Conns : HandlerStep(k)
    BY <1>0, <2>1, <2>3, ServerSideKeeps
  <2>4. CASE UNCHANGED nodeVars
    BY <2>1, <2>4 DEF nodeVars, net
  <2> QED
    BY <2>2, <2>3, <2>4 DEF NodeNext, ClientActs
<1>6. replica' \in [Clients -> Replicas]
  BY <1>2 DEF NetTypes
<1>7. AllFollow' <=> \A d \in Clients : Follows(replica'[d], long)
  BY DEF AllFollow
<1> HIDE DEF log, long
<1>8. AllFollow'
  <2>1. ASSUME NEW d \in Clients PROVE Follows(replica'[d], long)
    BY <1>4, <1>5, <1>6, FollowsLonger
  <2> QED
    BY <1>7, <2>1
<1> QED
  BY <1>1, <1>2, <1>3, <1>5, <1>8 DEF NodeInv


\* A client begins with nothing, or with a state the host passed through.
LEMMA FreshFollows ==
  ASSUME NEW log \in Seq(SessionEvents)
  PROVE  Follows(FreshReplica, log)
<1>1. FreshReplica.base = 0 /\ FreshReplica.events = <<>> /\ FreshReplica.state = Uninitialized
  BY DEF FreshReplica
<1>2. FreshReplica.base + Len(FreshReplica.events) = 0
  BY <1>1
<1>3. SubSeq(log, 1, 0) = <<>> /\ Len(log) \in Nat
  OBVIOUS
<1>4. Replay(Uninitialized, SubSeq(log, 1, 0)).state = Uninitialized
  <2>1. Replay(Uninitialized, <<>>) = [ok |-> TRUE, state |-> Uninitialized]
    BY ReplayEmpty
  <2>2. Replay(Uninitialized, <<>>).state = Uninitialized
    BY <2>1
  <2> QED
    BY <1>3, <2>2
<1> QED
  BY <1>1, <1>2, <1>3, <1>4 DEF Follows

LEMMA SnapshotFollows ==
  ASSUME NEW log, GoodLog(log), NEW n \in 0..Len(log)
  PROVE  Follows(SnapshotReplica(Replay(Uninitialized, SubSeq(log, 1, n)).state), log)
<1> DEFINE s == Replay(Uninitialized, SubSeq(log, 1, n)).state
           rep == SnapshotReplica(s)
<1>1. log \in Seq(SessionEvents) /\ Len(log) \in Nat /\ Replay(Uninitialized, log).ok
  BY DEF GoodLog
<1>2. s.revision = n
  BY <1>1, ReplayedLog DEF OnThePath
<1> HIDE DEF s
<1>3. rep.base = n /\ rep.events = <<>> /\ rep.state = s
  BY <1>2 DEF SnapshotReplica
<1> HIDE DEF rep
<1>4. rep.base + Len(rep.events) = n
  BY <1>1, <1>3
<1>5. SubSeq(log, n + 1, n) = <<>>
  BY <1>1
<1>6. Follows(rep, log)
  BY <1>1, <1>3, <1>4, <1>5 DEF Follows, s
<1> QED
  BY <1>6 DEF rep, s

LEMMA InitNodeInv ==
  ASSUME LegacyLogsSound, NodeInit
  PROVE  NodeInv
<1> DEFINE log == LoadedEvents(journal.entries)
<1>1. CleanInv /\ Init
  BY InitCleanInv DEF NodeInit
<1>2. NetTypes
  BY InitNetTypes
<1>3. Travels
  <2>1. ClosedConn("unused") \in Connections(Stored(log))
    BY ClosedConnType
  <2>2. conn = [k \in Conns |-> ClosedConn("unused")]
    BY DEF NodeInit
  <2> QED
    BY <2>1, <2>2 DEF Travels
<1>4. GoodLog(log)
  BY <1>1, CleanLog
<1>5. log \in Seq(SessionEvents) /\ Len(log) = Len(journal.entries)
  BY <1>1, FirstJournal
<1>6. ASSUME NEW c \in Clients PROVE Follows(replica[c], log)
  <2>1. \/ replica[c] = FreshReplica
        \/ \E n \in 1..Len(journal.entries) :
             replica[c] = SnapshotReplica(Replay(Uninitialized, SubSeq(log, 1, n)).state)
    BY DEF NodeInit
  <2>2. CASE replica[c] = FreshReplica
    BY <1>5, <2>2, FreshFollows
  <2>3. ASSUME NEW n \in 1..Len(journal.entries),
               replica[c] = SnapshotReplica(Replay(Uninitialized, SubSeq(log, 1, n)).state)
        PROVE  Follows(replica[c], log)
    <3> HIDE DEF log
    <3>1. n \in 0..Len(log)
      BY <1>5
    <3>2. Follows(SnapshotReplica(Replay(Uninitialized, SubSeq(log, 1, n)).state), log)
      BY <1>4, <3>1, SnapshotFollows
    <3> QED
      BY <2>3, <3>2
  <2> QED
    BY <2>1, <2>2, <2>3
<1>7. AllFollow
  BY <1>6 DEF AllFollow
<1>8. OldSnapshotsOnly
  <2>1. /\ \A c \in Clients \ SnapshotClients : replica[c] = FreshReplica
        /\ failed = {}
    BY DEF NodeInit
  <2>2. FreshReplica.base = 0
    BY DEF FreshReplica
  <2> QED
    BY <2>1, <2>2 DEF OldSnapshotsOnly
<1> QED
  BY <1>1, <1>2, <1>3, <1>7, <1>8 DEF NodeInv

LEMMA NodeInvariant ==
  ASSUME CleanFailures, LegacyLogsSound
  PROVE  NodeSpec => []NodeInv
<1>1. NodeInit => NodeInv
  BY InitNodeInv
<1>2. NodeInv /\ [NodeNext]_nodeVars => NodeInv'
  BY NextNodeInv
<1> QED
  BY <1>1, <1>2, PTL DEF NodeSpec

-----------------------------------------------------------------------------

\* Persistence before broadcast, for every number of clients, connections and
\* crashes and every capacity: whatever the moment of a crash, each event in a
\* socket or in a subscription is in the journal at its sequence.
THEOREM WhatTravelsIsDurable ==
  ASSUME CleanFailures, LegacyLogsSound
  PROVE  NodeSpec => []OnlyDurableEventsTravel
<1>1. NodeInv => OnlyDurableEventsTravel
  BY TravelsSuffices DEF NodeInv
<1> QED
  BY <1>1, NodeInvariant, PTL

\* No replica ever diverges: whatever was filtered, repeated, lost with a connection
\* or cut short by a crash, what a client holds is the journal up to its revision.
THEOREM ReplicasStayOnTheJournal ==
  ASSUME CleanFailures, LegacyLogsSound
  PROVE  NodeSpec => []ReplicasFollowJournal
<1>1. NodeInv => ReplicasFollowJournal
  BY DEF NodeInv, AllFollow, Follows, ReplicasFollowJournal, Durable
<1> QED
  BY <1>1, NodeInvariant, PTL

\* Nothing the host sends stops a client that holds its history from the first
\* event on: the clients that may fail are those whose replica was a bare snapshot.
THEOREM OnlyOldSnapshotsFail ==
  ASSUME CleanFailures, LegacyLogsSound
  PROVE  NodeSpec => [](failed \subseteq SnapshotClients)
<1>1. NodeInv => failed \subseteq SnapshotClients
  BY DEF NodeInv, OldSnapshotsOnly
<1> QED
  BY <1>1, NodeInvariant, PTL

\* Without such replicas no client ever stops with an error.
THEOREM ClientsKeepRunning ==
  ASSUME CleanFailures, LegacyLogsSound, SnapshotClients = {}
  PROVE  NodeSpec => []ClientsNeverFail
<1>1. NodeInv => ClientsNeverFail
  BY DEF NodeInv, OldSnapshotsOnly, ClientsNeverFail
<1> QED
  BY <1>1, NodeInvariant, PTL

=============================================================================
