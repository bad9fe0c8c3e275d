-------------------------- MODULE BackpressureProofs --------------------------
(***************************************************************************)
(* That no event is forgotten between the host and a slow client, for      *)
(* every number of connections and every capacity of sockets and           *)
(* subscriptions.                                                          *)
(***************************************************************************)
EXTENDS Backpressure, TLAPS

-----------------------------------------------------------------------------
\* Queues.

\* What is in a queue.
LEMMA QueueEmpty == Range(<<>>) = {} /\ \A S : <<>> \in Seq(S)
BY DEF Range

LEMMA QueueOne ==
  ASSUME NEW S, NEW m \in S
  PROVE  <<m>> \in Seq(S) /\ Len(<<m>>) = 1 /\ Range(<<m>>) = {m}
BY DEF Range

LEMMA QueueAppend ==
  ASSUME NEW S, NEW q \in Seq(S), NEW m \in S
  PROVE  /\ Append(q, m) \in Seq(S) /\ Len(Append(q, m)) = Len(q) + 1
         /\ Range(Append(q, m)) = Range(q) \cup {m}
<1>1. /\ Append(q, m) \in Seq(S) /\ Len(Append(q, m)) = Len(q) + 1
      /\ DOMAIN q = 1..Len(q) /\ DOMAIN Append(q, m) = 1..(Len(q) + 1)
      /\ Len(q) \in Nat
  OBVIOUS
<1>2. /\ \A i \in 1..Len(q) : Append(q, m)[i] = q[i]
      /\ Append(q, m)[Len(q) + 1] = m
  OBVIOUS
<1> DEFINE t == Append(q, m)
<1> HIDE DEF t
<1>3. ASSUME NEW y \in Range(t) PROVE y \in Range(q) \cup {m}
  <2>1. PICK i \in 1..(Len(q) + 1) : y = t[i]
    BY <1>1 DEF Range, t
  <2>2. CASE i \in 1..Len(q)
    BY <1>1, <1>2, <2>1, <2>2 DEF Range, t
  <2>3. CASE i = Len(q) + 1
    BY <1>2, <2>1, <2>3 DEF t
  <2> QED
    BY <1>1, <2>2, <2>3
<1>4. ASSUME NEW y \in Range(q) PROVE y \in Range(t)
  <2>1. PICK i \in 1..Len(q) : y = q[i]
    BY <1>1 DEF Range
  <2>2. i \in 1..(Len(q) + 1) /\ t[i] = y
    BY <1>1, <1>2, <2>1 DEF t
  <2> QED
    BY <1>1, <2>2 DEF Range, t
<1>5. m \in Range(t)
  <2>1. Len(q) + 1 \in 1..(Len(q) + 1)
    BY <1>1
  <2> QED
    BY <1>1, <1>2, <2>1 DEF Range, t
<1> QED
  BY <1>1, <1>3, <1>4, <1>5 DEF t

LEMMA QueueTail ==
  ASSUME NEW S, NEW q \in Seq(S), q # <<>>
  PROVE  /\ Head(q) \in S /\ Tail(q) \in Seq(S) /\ Len(Tail(q)) = Len(q) - 1
         /\ Len(q) \in Nat /\ Len(q) > 0
         /\ Range(q) = {Head(q)} \cup Range(Tail(q))
<1> DEFINE t == Tail(q)
<1>1. /\ Head(q) \in S /\ Tail(q) \in Seq(S) /\ Len(Tail(q)) = Len(q) - 1
      /\ Len(q) \in Nat /\ Len(q) > 0
      /\ DOMAIN q = 1..Len(q) /\ DOMAIN t = 1..(Len(q) - 1)
      /\ Head(q) = q[1]
  OBVIOUS
<1>2. \A i \in 1..(Len(q) - 1) : t[i] = q[i + 1]
  OBVIOUS
<1> HIDE DEF t
<1>3. ASSUME NEW y \in Range(q) PROVE y \in {Head(q)} \cup Range(t)
  <2>1. PICK i \in 1..Len(q) : y = q[i]
    BY <1>1 DEF Range
  <2>2. CASE i = 1
    BY <1>1, <2>1, <2>2
  <2>3. CASE i # 1
    <3>1. i - 1 \in 1..(Len(q) - 1) /\ t[i - 1] = y
      BY <1>1, <1>2, <2>1, <2>3
    <3> QED
      BY <1>1, <3>1 DEF Range
  <2> QED
    BY <2>2, <2>3
<1>4. ASSUME NEW y \in Range(t) PROVE y \in Range(q)
  <2>1. PICK i \in 1..(Len(q) - 1) : y = t[i]
    BY <1>1 DEF Range
  <2>2. i + 1 \in 1..Len(q) /\ q[i + 1] = y
    BY <1>1, <1>2, <2>1
  <2> QED
    BY <1>1, <2>2 DEF Range
<1>5. Head(q) \in Range(q)
  BY <1>1 DEF Range
<1> QED
  BY <1>1, <1>3, <1>4, <1>5 DEF t

LEMMA QueueSingle ==
  ASSUME NEW S, NEW q \in Seq(S), q # <<>>, Len(q) <= 1
  PROVE  Head(q) \in S /\ Range(q) = {Head(q)}
<1>1. Len(q) \in Nat /\ Len(q) > 0 /\ DOMAIN q = 1..Len(q) /\ Head(q) = q[1]
  OBVIOUS
<1>2. Len(q) = 1 /\ Head(q) \in S
  BY <1>1
<1>3. DOMAIN q = {1}
  BY <1>1, <1>2
<1> QED
  BY <1>1, <1>2, <1>3 DEF Range

LEMMA QueueRange ==
  ASSUME NEW S, NEW q \in Seq(S) PROVE Range(q) \subseteq S
BY DEF Range

\* The numbers of a queue rise.
Rising(q) == \A i, j \in DOMAIN q : i < j => q[i] < q[j]

LEMMA RisingTail ==
  ASSUME NEW q \in Seq(Nat), q # <<>>, Rising(q)
  PROVE  Rising(Tail(q)) /\ \A k \in Range(q) : Head(q) <= k
<1> DEFINE t == Tail(q)
<1>1. /\ DOMAIN q = 1..Len(q) /\ DOMAIN t = 1..(Len(q) - 1)
      /\ Len(q) \in Nat /\ Len(q) > 0 /\ Head(q) = q[1]
      /\ \A i \in 1..Len(q) : q[i] \in Nat
  OBVIOUS
<1>2. \A i \in 1..(Len(q) - 1) : t[i] = q[i + 1]
  OBVIOUS
<1> HIDE DEF t
<1>3. ASSUME NEW i \in DOMAIN t, NEW j \in DOMAIN t, i < j PROVE t[i] < t[j]
  <2>1. i + 1 \in DOMAIN q /\ j + 1 \in DOMAIN q /\ i + 1 < j + 1
    BY <1>1, <1>3
  <2> QED
    BY <1>1, <1>2, <2>1 DEF Rising
<1>4. ASSUME NEW k \in Range(q) PROVE Head(q) <= k
  <2>1. PICK i \in 1..Len(q) : k = q[i]
    BY <1>1 DEF Range
  <2>2. i = 1 \/ (1 \in DOMAIN q /\ i \in DOMAIN q /\ 1 < i)
    BY <1>1
  <2> QED
    BY <1>1, <2>1, <2>2 DEF Rising
<1> QED
  BY <1>3, <1>4 DEF t, Rising

LEMMA RisingAppend ==
  ASSUME NEW q \in Seq(Nat), Rising(q), NEW n \in Nat, \A k \in Range(q) : k < n
  PROVE  Rising(Append(q, n))
<1> DEFINE t == Append(q, n)
<1>1. /\ DOMAIN q = 1..Len(q) /\ DOMAIN t = 1..(Len(q) + 1) /\ Len(q) \in Nat
      /\ \A i \in 1..Len(q) : t[i] = q[i]
      /\ t[Len(q) + 1] = n
  OBVIOUS
<1> HIDE DEF t
<1>2. ASSUME NEW i \in DOMAIN t, NEW j \in DOMAIN t, i < j PROVE t[i] < t[j]
  <2>1. i \in 1..Len(q)
    BY <1>1, <1>2
  <2>2. CASE j \in 1..Len(q)
    BY <1>1, <1>2, <2>1, <2>2 DEF Rising
  <2>3. CASE j = Len(q) + 1
    <3>1. q[i] \in Range(q)
      BY <1>1, <2>1 DEF Range
    <3> QED
      BY <1>1, <2>1, <2>3, <3>1
  <2> QED
    BY <1>1, <2>2, <2>3
<1> QED
  BY <1>2 DEF t, Rising

-----------------------------------------------------------------------------
\* One connection: its two tasks and the two directions of its socket, in a session
\* with r events.

Handlers ==
  [at : {"select", "lock", "locked"}, job : ToHost \cup {Idle},
   out : Seq(ToClient), sent : Nat, sub : Seq(Nat), lagged : BOOLEAN]

ClientTasks == [local : Nat, out : Seq(ToHost)]

TypedConnection(h, x, up, down) ==
  /\ h \in Handlers /\ x \in ClientTasks
  /\ up \in Seq(ToHost) /\ down \in Seq(ToClient)
  /\ h.at = "select" <=> h.job = Idle
  /\ h.at # "select" => h.out = <<>>
  /\ Len(h.out) <= 1 /\ Len(h.sub) <= Capacity
  /\ Len(up) <= SocketCap /\ Len(down) <= SocketCap

IsRequest(m) == m.type \in {"hello", "catch_up_request"}

\* Nobody is ahead of the session, a client asks from no further on than its
\* replica, and a subscription lists its events in their order.
NobodyIsAhead(h, x, up, down, r) ==
  /\ h.sent <= r /\ x.local <= r
  /\ \A m \in Range(x.out) \cup Range(up) : IsRequest(m) => m.after <= x.local
  /\ IsRequest(h.job) => h.job.after <= x.local \/ h.job.after <= h.sent
  /\ \A m \in Range(down) \cup Range(h.out) : m.type = "event_batch" => m.through <= r
  /\ Rising(h.sub) /\ \A k \in Range(h.sub) : k <= r

\* The client has event n, or it is on its way, asked for or pending.
Accounted(h, x, up, down, n) ==
  \/ n <= x.local
  \/ \E m \in Range(down) \cup Range(h.out) : Covers(m, n)
  \/ \E m \in Range(x.out) \cup Range(up) \cup {h.job} : Asks(m, n)
  \/ n > h.sent /\ (h.lagged \/ n \in Range(h.sub))

Connection(h, x, up, down, r) ==
  /\ TypedConnection(h, x, up, down)
  /\ NobodyIsAhead(h, x, up, down, r)
  /\ \A n \in 1..r : Accounted(h, x, up, down, n)

LEMMA MessageFields ==
  /\ \A m \in ToHost : IsRequest(m) => m.after \in Nat
  /\ \A m \in ToHost : m # Idle
  /\ \A m \in ToHost : m.type = "submit_command" => m.expected \in Nat
  /\ \A m \in ToClient : m.type = "event_batch" => m.from \in Nat /\ m.through \in Nat
  /\ \A m \in ToClient : m.type # "event_batch" => m.current \in Nat
  /\ ~IsRequest(Idle)
BY DEF ToHost, ToClient, Requests, JoinSession, Idle, IsRequest

LEMMA MessageTypes ==
  ASSUME NEW a \in Nat, NEW b \in Nat
  PROVE  /\ Batch(a, b) \in ToClient /\ Rejected(a) \in ToClient
         /\ Hello(a) \in ToHost /\ CatchUpRequest(a) \in ToHost
         /\ JoinSession \in ToHost /\ SubmitCommand(a) \in ToHost
         /\ Batch(a, b).type = "event_batch" /\ Batch(a, b).from = a
         /\ Batch(a, b).through = b
         /\ Rejected(a).type # "event_batch"
         /\ IsRequest(CatchUpRequest(a)) /\ CatchUpRequest(a).after = a
         /\ IsRequest(Hello(a)) /\ Hello(a).after = a
         /\ ~IsRequest(JoinSession) /\ ~IsRequest(SubmitCommand(a))
BY DEF ToHost, ToClient, Requests, JoinSession, IsRequest, Batch, Rejected, Hello,
       CatchUpRequest, SubmitCommand

-----------------------------------------------------------------------------
\* What one step makes of a connection.

LEMMA HandlerFields ==
  ASSUME NEW h \in Handlers
  PROVE  /\ h.at \in {"select", "lock", "locked"} /\ h.job \in ToHost \cup {Idle}
         /\ h.out \in Seq(ToClient) /\ h.sent \in Nat /\ h.sub \in Seq(Nat)
         /\ h.lagged \in BOOLEAN
BY DEF Handlers

\* A message is taken from the socket.
LEMMA MessageTaken ==
  ASSUME NEW h, NEW x, NEW up, NEW down, NEW r \in Nat,
         Connection(h, x, up, down, r), h.at = "select", h.out = <<>>, up # <<>>,
         NEW g, g = [h EXCEPT !.at = "lock", !.job = Head(up),
                              !.sent = IF Head(up).type = "hello" THEN Head(up).after ELSE @]
  PROVE  Connection(g, x, Tail(up), down, r)
<1> DEFINE m == Head(up) rest == Tail(up)
<1>1. /\ h \in Handlers /\ x \in ClientTasks /\ up \in Seq(ToHost) /\ down \in Seq(ToClient)
      /\ Len(h.sub) <= Capacity /\ Len(up) <= SocketCap /\ Len(down) <= SocketCap
      /\ h.job = Idle
  BY DEF Connection, TypedConnection
<1>2. /\ m \in ToHost /\ rest \in Seq(ToHost) /\ Len(rest) = Len(up) - 1 /\ Len(up) \in Nat
      /\ Range(up) = {m} \cup Range(rest)
  BY <1>1, QueueTail
<1>3. /\ m # Idle /\ (m.type = "hello" => IsRequest(m)) /\ (IsRequest(m) => m.after \in Nat)
  BY <1>2, MessageFields DEF IsRequest
<1>4. x.local \in Nat /\ h.sent \in Nat /\ SocketCap \in Nat
  BY <1>1, BackpressureAssumption DEF Handlers, ClientTasks
<1> HIDE DEF m, rest
<1>5. /\ g \in Handlers /\ g.at = "lock" /\ g.job = m
      /\ g.out = h.out /\ g.sub = h.sub /\ g.lagged = h.lagged
      /\ g.sent = IF m.type = "hello" THEN m.after ELSE h.sent
  BY <1>1, <1>2, <1>3 DEF Handlers, m
<1>6. NobodyIsAhead(h, x, up, down, r)
  BY DEF Connection
<1>7. IsRequest(m) => m.after <= x.local /\ m.after <= r
  BY <1>2, <1>3, <1>4, <1>6 DEF NobodyIsAhead
<1>8. g.sent <= r
  BY <1>3, <1>5, <1>6, <1>7 DEF NobodyIsAhead
<1>9. NobodyIsAhead(g, x, rest, down, r)
  BY <1>2, <1>5, <1>6, <1>7, <1>8 DEF NobodyIsAhead
<1>10. TypedConnection(g, x, rest, down)
  <2>1. Len(h.out) = 0
    OBVIOUS
  <2>2. Len(rest) <= SocketCap
    BY <1>1, <1>2, <1>4
  <2> QED
    BY <1>1, <1>2, <1>3, <1>5, <2>1, <2>2 DEF TypedConnection
<1>11. ASSUME NEW n \in 1..r PROVE Accounted(g, x, rest, down, n)
  <2>1. Accounted(h, x, up, down, n)
    BY DEF Connection
  <2>2. CASE \E a \in Range(x.out) \cup Range(up) \cup {h.job} : Asks(a, n)
    <3>1. PICK a \in Range(x.out) \cup Range(up) \cup {h.job} : Asks(a, n)
      BY <2>2
    <3>2. a # Idle
      BY <3>1 DEF Asks, Idle
    <3>3. a \in Range(x.out) \cup Range(rest) \cup {g.job}
      BY <1>1, <1>2, <1>5, <3>1, <3>2
    <3> QED
      BY <3>1, <3>3 DEF Accounted
  <2>3. CASE n > h.sent /\ (h.lagged \/ n \in Range(h.sub)) /\ ~(n <= x.local)
    <3>1. n > g.sent
      BY <1>3, <1>4, <1>5, <1>7, <2>3
    <3> QED
      BY <1>5, <2>3, <3>1 DEF Accounted
  <2> QED
    BY <1>5, <2>1, <2>2, <2>3 DEF Accounted
<1> QED
  BY <1>9, <1>10, <1>11 DEF Connection, rest

\* A broadcast that is not a lag is sent on, or left out if it went out already.
LEMMA BroadcastTaken ==
  ASSUME NEW h, NEW x, NEW up, NEW down, NEW r \in Nat,
         Connection(h, x, up, down, r), h.at = "select", h.out = <<>>,
         ~h.lagged, h.sub # <<>>,
         NEW g, g = IF Head(h.sub) > h.sent
                    THEN [h EXCEPT !.sub = Tail(@), !.sent = Head(h.sub),
                                   !.out = <<Batch(Head(h.sub), Head(h.sub))>>]
                    ELSE [h EXCEPT !.sub = Tail(@)]
  PROVE  Connection(g, x, up, down, r)
<1> DEFINE k == Head(h.sub) rest == Tail(h.sub) b == Batch(k, k)
<1>1. TypedConnection(h, x, up, down) /\ NobodyIsAhead(h, x, up, down, r)
  BY DEF Connection
<1>2. /\ h \in Handlers /\ h.sub \in Seq(Nat) /\ h.sent \in Nat /\ Capacity \in Nat
      /\ h.job = Idle
  BY <1>1, BackpressureAssumption DEF TypedConnection, Handlers
<1>3. /\ k \in Nat /\ rest \in Seq(Nat) /\ Len(rest) = Len(h.sub) - 1 /\ Len(h.sub) \in Nat
      /\ Range(h.sub) = {k} \cup Range(rest)
  BY <1>2, QueueTail
<1>4. Rising(rest) /\ \A j \in Range(h.sub) : k <= j
  BY <1>1, <1>2, RisingTail DEF NobodyIsAhead
<1>5. /\ b \in ToClient /\ b.type = "event_batch" /\ b.from = k /\ b.through = k
  BY <1>3, MessageTypes
<1>6. <<b>> \in Seq(ToClient) /\ Len(<<b>>) = 1 /\ Range(<<b>>) = {b}
  BY <1>5, QueueOne
<1>7. Range(h.out) = {} /\ Len(h.out) = 0
  BY QueueEmpty
<1> HIDE DEF k, rest, b
<1>8. /\ g \in Handlers /\ g.at = h.at /\ g.job = h.job /\ g.sub = rest
      /\ g.lagged = h.lagged
      /\ IF k > h.sent THEN g.sent = k /\ g.out = <<b>> ELSE g.sent = h.sent /\ g.out = <<>>
  BY <1>2, <1>3, <1>6 DEF Handlers, k, rest, b
<1>9. TypedConnection(g, x, up, down)
  <2>1. Len(rest) <= Capacity
    BY <1>1, <1>2, <1>3 DEF TypedConnection
  <2>2. Len(g.out) <= 1
    BY <1>6, <1>7, <1>8
  <2> QED
    BY <1>1, <1>8, <2>1, <2>2 DEF TypedConnection
<1>10. k <= r
  BY <1>1, <1>3 DEF NobodyIsAhead
<1>11. NobodyIsAhead(g, x, up, down, r)
  <2>1. g.sent <= r
    BY <1>1, <1>8, <1>10 DEF NobodyIsAhead
  <2>2. \A m \in Range(g.out) : m.through <= r
    BY <1>5, <1>6, <1>7, <1>8, <1>10
  <2>3. ~IsRequest(h.job)
    BY <1>2, MessageFields
  <2> QED
    BY <1>1, <1>3, <1>4, <1>8, <2>1, <2>2, <2>3 DEF NobodyIsAhead
<1>12. ASSUME NEW n \in 1..r PROVE Accounted(g, x, up, down, n)
  <2>1. Accounted(h, x, up, down, n)
    BY DEF Connection
  <2>2. CASE n > h.sent /\ n \in Range(h.sub)
    <3>1. CASE n = k
      <4>1. b \in Range(g.out) /\ Covers(b, n)
        BY <1>3, <1>5, <1>6, <1>8, <2>2, <3>1 DEF Covers
      <4> QED
        BY <4>1 DEF Accounted
    <3>2. CASE n # k
      <4>1. n \in Range(rest) /\ n > k
        BY <1>3, <1>4, <2>2, <3>2
      <4>2. n > g.sent
        BY <1>8, <2>2, <4>1
      <4> QED
        BY <1>8, <4>1, <4>2 DEF Accounted
    <3> QED
      BY <3>1, <3>2
  <2> QED
    BY <1>7, <1>8, <2>1, <2>2 DEF Accounted
<1> QED
  BY <1>9, <1>11, <1>12 DEF Connection

\* A lag is answered by asking for everything after sent_sequence.
LEMMA LagTaken ==
  ASSUME NEW h, NEW x, NEW up, NEW down, NEW r \in Nat,
         Connection(h, x, up, down, r), h.at = "select", h.out = <<>>,
         NEW g, g = [h EXCEPT !.lagged = FALSE, !.at = "lock", !.job = CatchUpRequest(h.sent)]
  PROVE  Connection(g, x, up, down, r)
<1> DEFINE m == CatchUpRequest(h.sent)
<1>1. TypedConnection(h, x, up, down) /\ NobodyIsAhead(h, x, up, down, r)
  BY DEF Connection
<1>2. h \in Handlers /\ h.sent \in Nat /\ h.job = Idle
  BY <1>1 DEF TypedConnection, Handlers
<1>3. m \in ToHost /\ IsRequest(m) /\ m.after = h.sent /\ m # Idle
  BY <1>2, MessageTypes, MessageFields
<1> HIDE DEF m
<1>4. /\ g \in Handlers /\ g.at = "lock" /\ g.job = m /\ g.sub = h.sub /\ g.out = h.out
      /\ g.sent = h.sent /\ g.lagged = FALSE
  BY <1>2, <1>3 DEF Handlers, m
<1>5. TypedConnection(g, x, up, down)
  BY <1>1, <1>3, <1>4 DEF TypedConnection
<1>6. NobodyIsAhead(g, x, up, down, r)
  BY <1>1, <1>2, <1>3, <1>4 DEF NobodyIsAhead
<1>7. ASSUME NEW n \in 1..r PROVE Accounted(g, x, up, down, n)
  <2>1. Accounted(h, x, up, down, n)
    BY DEF Connection
  <2>2. CASE n > h.sent
    <3>1. Asks(m, n)
      BY <1>2, <1>3, <2>2 DEF Asks, IsRequest
    <3> QED
      BY <1>4, <3>1 DEF Accounted
  <2>3. CASE \E a \in Range(x.out) \cup Range(up) \cup {h.job} : Asks(a, n)
    <3>1. PICK a \in Range(x.out) \cup Range(up) \cup {h.job} : Asks(a, n)
      BY <2>3
    <3>2. a # Idle
      BY <3>1 DEF Asks, Idle
    <3> QED
      BY <1>2, <3>1, <3>2 DEF Accounted
  <2> QED
    BY <1>4, <2>1, <2>2, <2>3 DEF Accounted
<1> QED
  BY <1>5, <1>6, <1>7 DEF Connection

\* The lock is obtained.
LEMMA LockTaken ==
  ASSUME NEW h, NEW x, NEW up, NEW down, NEW r \in Nat,
         Connection(h, x, up, down, r), h.at = "lock",
         NEW g, g = [h EXCEPT !.at = "locked"]
  PROVE  Connection(g, x, up, down, r)
<1>1. TypedConnection(h, x, up, down) /\ NobodyIsAhead(h, x, up, down, r)
  BY DEF Connection
<1>2. /\ g \in Handlers /\ g.at = "locked" /\ g.job = h.job /\ g.sub = h.sub
      /\ g.out = h.out /\ g.sent = h.sent /\ g.lagged = h.lagged
  BY <1>1 DEF TypedConnection, Handlers
<1>3. TypedConnection(g, x, up, down)
  BY <1>1, <1>2 DEF TypedConnection
<1>4. NobodyIsAhead(g, x, up, down, r)
  BY <1>1, <1>2 DEF NobodyIsAhead
<1>5. ASSUME NEW n \in 1..r PROVE Accounted(g, x, up, down, n)
  BY <1>2 DEF Connection, Accounted
<1> QED
  BY <1>3, <1>4, <1>5 DEF Connection

\* The suffix after a cursor is fetched.
LEMMA SuffixFetched ==
  ASSUME NEW h, NEW x, NEW up, NEW down, NEW r \in Nat,
         Connection(h, x, up, down, r), h.at = "locked", IsRequest(h.job),
         NEW g, g = IF h.job.after < r
                    THEN [Done(h) EXCEPT !.sent = r, !.out = <<Batch(h.job.after + 1, r)>>]
                    ELSE Done(h)
  PROVE  Connection(g, x, up, down, r)
<1> DEFINE a == h.job.after b == Batch(a + 1, r) bs == <<b>>
<1>1. TypedConnection(h, x, up, down) /\ NobodyIsAhead(h, x, up, down, r)
  BY DEF Connection
<1>2. h \in Handlers /\ h.sent \in Nat /\ h.out = <<>> /\ x.local \in Nat
  BY <1>1 DEF TypedConnection, Handlers, ClientTasks
<1>3. a \in Nat
  <2>1. h.job \in ToHost
    BY <1>2, MessageFields DEF Handlers
  <2> QED
    BY <2>1, MessageFields
<1>4. b \in ToClient /\ b.type = "event_batch" /\ b.from = a + 1 /\ b.through = r
  <2>1. a + 1 \in Nat
    BY <1>3
  <2> HIDE DEF a
  <2> QED
    BY <2>1, MessageTypes
<1>5. bs \in Seq(ToClient) /\ Len(bs) = 1 /\ Range(bs) = {b}
  BY <1>4, QueueOne
<1>6. Range(h.out) = {} /\ Len(h.out) = 0
  BY <1>2, QueueEmpty
<1> HIDE DEF a, b, bs
<1>7. /\ g \in Handlers /\ g.at = "select" /\ g.job = Idle /\ g.sub = h.sub
      /\ g.lagged = h.lagged
      /\ IF a < r THEN g.sent = r /\ g.out = bs ELSE g.sent = h.sent /\ g.out = h.out
  BY <1>2, <1>5 DEF Handlers, Done, a, b, bs
<1>8. TypedConnection(g, x, up, down)
  <2>1. CASE a < r
    <3>1. g.out = bs
      BY <1>7, <2>1
    <3>2. Len(bs) <= 1
      BY <1>5
    <3>3. Len(g.out) <= 1
      BY <3>1, <3>2, Zenon
    <3> QED
      BY <1>1, <1>7, <3>3 DEF TypedConnection
  <2>2. CASE ~(a < r)
    <3>1. g.out = h.out
      BY <1>7, <2>2
    <3> QED
      BY <1>1, <1>7, <3>1 DEF TypedConnection
  <2> QED
    BY <2>1, <2>2
<1>9. NobodyIsAhead(g, x, up, down, r)
  <2>1. g.sent <= r /\ ~IsRequest(g.job)
    BY <1>1, <1>7, MessageFields DEF NobodyIsAhead
  <2>2. \A m \in Range(g.out) : m.through <= r
    BY <1>4, <1>5, <1>6, <1>7
  <2> QED
    BY <1>1, <1>7, <2>1, <2>2 DEF NobodyIsAhead
<1>10. ASSUME NEW n \in 1..r PROVE Accounted(g, x, up, down, n)
  <2>1. Accounted(h, x, up, down, n)
    BY DEF Connection
  <2>2. a <= x.local \/ a <= h.sent
    BY <1>1 DEF NobodyIsAhead, a
  <2>3. CASE n > a
    <3>1. a < r
      BY <1>3, <2>3
    <3>2. b \in Range(g.out) /\ Covers(b, n)
      BY <1>3, <1>4, <1>5, <1>7, <2>3, <3>1 DEF Covers
    <3> QED
      BY <3>2 DEF Accounted
  <2>4. CASE ~(n > a)
    <3>1. CASE n <= x.local
      BY <3>1 DEF Accounted
    <3>2. CASE ~(n <= x.local)
      <4>1. ~(n > h.sent) /\ ~Asks(h.job, n)
        BY <1>2, <1>3, <2>2, <2>4, <3>2 DEF Asks, a
      <4> QED
        BY <1>6, <2>1, <3>2, <4>1 DEF Accounted
    <3> QED
      BY <3>1, <3>2
  <2> QED
    BY <2>3, <2>4
<1> QED
  BY <1>8, <1>9, <1>10 DEF Connection

\* A job that asked for no events is done, with or without an answer.
LEMMA JobDone ==
  ASSUME NEW h, NEW x, NEW up, NEW down, NEW r \in Nat,
         Connection(h, x, up, down, r), h.at = "locked", ~IsRequest(h.job)
  PROVE  /\ Connection(Done(h), x, up, down, r)
         /\ \A m \in ToClient : (m.type = "event_batch" => m.through <= r) =>
              Connection([Done(h) EXCEPT !.out = <<m>>], x, up, down, r)
<1>1. TypedConnection(h, x, up, down) /\ NobodyIsAhead(h, x, up, down, r)
  BY DEF Connection
<1>2. h \in Handlers /\ h.out = <<>>
  BY <1>1 DEF TypedConnection
<1>3. Range(h.out) = {} /\ Len(h.out) = 0
  BY <1>2, QueueEmpty
<1>4. ~IsRequest(Idle)
  BY MessageFields
<1>5. ASSUME NEW g \in Handlers, g.at = "select", g.job = Idle, g.sub = h.sub,
             g.lagged = h.lagged, g.sent = h.sent, Len(g.out) <= 1,
             \A m \in Range(g.out) : m.type = "event_batch" => m.through <= r
      PROVE  Connection(g, x, up, down, r)
  <2>1. TypedConnection(g, x, up, down)
    BY <1>1, <1>5 DEF TypedConnection
  <2>2. NobodyIsAhead(g, x, up, down, r)
    BY <1>1, <1>4, <1>5 DEF NobodyIsAhead
  <2>3. ASSUME NEW n \in 1..r PROVE Accounted(g, x, up, down, n)
    <3>1. Accounted(h, x, up, down, n)
      BY DEF Connection
    <3>2. ~Asks(h.job, n)
      BY DEF Asks, IsRequest
    <3> QED
      BY <1>3, <1>5, <3>1, <3>2 DEF Accounted
  <2> QED
    BY <2>1, <2>2, <2>3 DEF Connection
<1>6. Connection(Done(h), x, up, down, r)
  <2>1. /\ Done(h) \in Handlers /\ Done(h).at = "select" /\ Done(h).job = Idle
        /\ Done(h).sub = h.sub /\ Done(h).lagged = h.lagged /\ Done(h).sent = h.sent
        /\ Done(h).out = h.out
    BY <1>2 DEF Done, Handlers
  <2> HIDE DEF Done
  <2> QED
    BY <1>3, <1>5, <2>1
<1>7. ASSUME NEW m \in ToClient, m.type = "event_batch" => m.through <= r
      PROVE  Connection([Done(h) EXCEPT !.out = <<m>>], x, up, down, r)
  <2> DEFINE q == <<m>> g == [Done(h) EXCEPT !.out = q]
  <2>1. q \in Seq(ToClient) /\ Len(q) = 1 /\ Range(q) = {m}
    BY QueueOne
  <2> HIDE DEF q
  <2>2. /\ g \in Handlers /\ g.at = "select" /\ g.job = Idle
        /\ g.sub = h.sub /\ g.lagged = h.lagged /\ g.sent = h.sent
        /\ g.out = q
    BY <1>2, <2>1 DEF Done, Handlers
  <2> HIDE DEF g
  <2>3. Connection(g, x, up, down, r)
    <3>0. Len(q) <= 1
      BY <2>1
    <3>1. Len(g.out) <= 1 /\ Range(g.out) = {m}
      BY <2>1, <2>2, <3>0, Zenon
    <3>2. \A a \in Range(g.out) : a.type = "event_batch" => a.through <= r
      BY <1>7, <3>1
    <3> QED
      BY <1>5, <2>2, <3>1, <3>2
  <2> QED
    BY <2>3 DEF g, q
<1> QED
  BY <1>6, <1>7

\* A new event is published to a subscription.
LEMMA EventPublished ==
  ASSUME NEW h, NEW x, NEW up, NEW down, NEW r \in Nat, Connection(h, x, up, down, r)
  PROVE  Connection(Subscribed(h, r + 1), x, up, down, r + 1)
<1> DEFINE g == Subscribed(h, r + 1)
<1>1. TypedConnection(h, x, up, down) /\ NobodyIsAhead(h, x, up, down, r)
  BY DEF Connection
<1>2. /\ h \in Handlers /\ h.sub \in Seq(Nat) /\ h.sent \in Nat /\ x.local \in Nat
      /\ Len(h.sub) <= Capacity /\ Capacity \in Nat /\ Capacity > 0
  BY <1>1, BackpressureAssumption DEF TypedConnection, Handlers, ClientTasks
<1>3. \A m \in Range(down) \cup Range(h.out) : m \in ToClient
  BY <1>1, QueueRange DEF TypedConnection, Handlers
<1>4. Len(h.sub) \in Nat /\ r + 1 \in Nat
  BY <1>2
<1>5. \E q \in Seq(Nat) :
        /\ Rising(q) /\ Len(q) <= Capacity
        /\ Range(q) \subseteq Range(h.sub) \cup {r + 1} /\ r + 1 \in Range(q)
        /\ \/ g = [h EXCEPT !.sub = q] /\ Range(h.sub) \subseteq Range(q)
           \/ g = [h EXCEPT !.sub = q, !.lagged = TRUE]
  <2>1. Rising(h.sub) /\ \A k \in Range(h.sub) : k < r + 1
    <3>1. ASSUME NEW k \in Range(h.sub) PROVE k < r + 1
      BY <1>1, <1>2, QueueRange DEF NobodyIsAhead
    <3> QED
      BY <1>1, <3>1 DEF NobodyIsAhead
  <2>2. CASE Len(h.sub) < Capacity
    <3> DEFINE q == Append(h.sub, r + 1)
    <3>1. q \in Seq(Nat) /\ Len(q) = Len(h.sub) + 1 /\ Range(q) = Range(h.sub) \cup {r + 1}
      BY <1>2, <1>4, QueueAppend
    <3>2. Rising(q)
      BY <1>2, <1>4, <2>1, RisingAppend
    <3>3. g = [h EXCEPT !.sub = q]
      BY <2>2 DEF Subscribed
    <3>4. Len(q) <= Capacity
      BY <1>2, <1>4, <2>2, <3>1
    <3> HIDE DEF q, g
    <3> QED
      BY <3>1, <3>2, <3>3, <3>4
  <2>3. CASE ~(Len(h.sub) < Capacity)
    <3> DEFINE t == Tail(h.sub) q == Append(t, r + 1)
    <3>1. h.sub # <<>> /\ Len(h.sub) = Capacity
      BY <1>2, <1>4, <2>3
    <3>2. /\ t \in Seq(Nat) /\ Len(t) = Len(h.sub) - 1 /\ Range(t) \subseteq Range(h.sub)
      BY <1>2, <3>1, QueueTail
    <3>3. Rising(t)
      BY <1>2, <2>1, <3>1, RisingTail
    <3> HIDE DEF t
    <3>4. q \in Seq(Nat) /\ Len(q) = Len(t) + 1 /\ Range(q) = Range(t) \cup {r + 1}
      BY <1>4, <3>2, QueueAppend
    <3>5. Rising(q)
      BY <1>4, <2>1, <3>2, <3>3, RisingAppend
    <3>6. g = [h EXCEPT !.sub = q, !.lagged = TRUE]
      BY <2>3 DEF Subscribed, t
    <3>7. Len(q) <= Capacity
      BY <1>2, <1>4, <3>1, <3>2, <3>4
    <3> HIDE DEF q, g
    <3> QED
      BY <3>2, <3>4, <3>5, <3>6, <3>7
  <2> QED
    BY <2>2, <2>3
<1>6. PICK q \in Seq(Nat) :
        /\ Rising(q) /\ Len(q) <= Capacity
        /\ Range(q) \subseteq Range(h.sub) \cup {r + 1} /\ r + 1 \in Range(q)
        /\ \/ g = [h EXCEPT !.sub = q] /\ Range(h.sub) \subseteq Range(q)
           \/ g = [h EXCEPT !.sub = q, !.lagged = TRUE]
  BY <1>5, Zenon
<1> HIDE DEF g
<1>7. /\ g \in Handlers /\ g.at = h.at /\ g.job = h.job /\ g.sub = q
      /\ g.out = h.out /\ g.sent = h.sent
      /\ g.lagged \/ (g.lagged = h.lagged /\ Range(h.sub) \subseteq Range(q))
  BY <1>2, <1>6 DEF Handlers
<1>8. TypedConnection(g, x, up, down)
  BY <1>1, <1>6, <1>7 DEF TypedConnection
<1>9. NobodyIsAhead(g, x, up, down, r + 1)
  <2>1. g.sent <= r + 1 /\ x.local <= r + 1
    BY <1>1, <1>2, <1>7 DEF NobodyIsAhead
  <2>2. ASSUME NEW m \in Range(down) \cup Range(g.out), m.type = "event_batch"
        PROVE  m.through <= r + 1
    <3>1. m.through \in Nat /\ m.through <= r
      BY <1>1, <1>3, <1>7, <2>2, MessageFields DEF NobodyIsAhead
    <3> QED
      BY <3>1
  <2>3. ASSUME NEW k \in Range(q) PROVE k <= r + 1
    <3>1. k = r + 1 \/ (k \in Range(h.sub) /\ k <= r /\ k \in Nat)
      BY <1>1, <1>2, <1>6, QueueRange DEF NobodyIsAhead
    <3> QED
      BY <3>1
  <2> QED
    BY <1>1, <1>6, <1>7, <2>1, <2>2, <2>3 DEF NobodyIsAhead
<1>10. ASSUME NEW n \in 1..(r + 1) PROVE Accounted(g, x, up, down, n)
  <2>1. CASE n = r + 1
    <3>1. n > g.sent
      BY <1>1, <1>2, <1>7, <2>1 DEF NobodyIsAhead
    <3> QED
      BY <1>6, <1>7, <2>1, <3>1 DEF Accounted
  <2>2. CASE n # r + 1
    <3>1. n \in 1..r
      BY <2>2
    <3>2. Accounted(h, x, up, down, n)
      BY <3>1 DEF Connection
    <3> QED
      BY <1>7, <3>2 DEF Accounted
  <2> QED
    BY <2>1, <2>2
<1> QED
  BY <1>8, <1>9, <1>10 DEF Connection, g

\* An answer goes into the socket.
LEMMA AnswerSent ==
  ASSUME NEW h, NEW x, NEW up, NEW down, NEW r \in Nat,
         Connection(h, x, up, down, r), h.out # <<>>, Len(down) < SocketCap
  PROVE  Connection([h EXCEPT !.out = <<>>], x, up, Append(down, Head(h.out)), r)
<1> DEFINE m == Head(h.out) q == Append(down, m) g == [h EXCEPT !.out = <<>>]
<1>1. TypedConnection(h, x, up, down) /\ NobodyIsAhead(h, x, up, down, r)
  BY DEF Connection
<1>2. /\ h \in Handlers /\ h.out \in Seq(ToClient) /\ Len(h.out) <= 1 /\ h.at = "select"
      /\ down \in Seq(ToClient) /\ SocketCap \in Nat
  BY <1>1, BackpressureAssumption DEF TypedConnection, Handlers
<1>3. m \in ToClient /\ Range(h.out) = {m}
  BY <1>2, QueueSingle
<1> HIDE DEF m
<1>4. q \in Seq(ToClient) /\ Len(q) = Len(down) + 1 /\ Range(q) = Range(down) \cup {m}
  BY <1>2, <1>3, QueueAppend
<1>5. Len(q) <= SocketCap
  <2>1. Len(down) \in Nat
    BY <1>2
  <2> QED
    BY <1>2, <1>4, <2>1
<1> HIDE DEF q
<1>6. /\ g \in Handlers /\ g.at = h.at /\ g.job = h.job /\ g.sub = h.sub
      /\ g.sent = h.sent /\ g.lagged = h.lagged /\ g.out = <<>>
  <2>1. <<>> \in Seq(ToClient)
    BY QueueEmpty
  <2> QED
    BY <1>2, <2>1 DEF Handlers
<1>7. Len(<<>>) = 0 /\ Range(<<>>) = {}
  BY QueueEmpty
<1> HIDE DEF g
<1>8. Range(q) \cup Range(g.out) = Range(down) \cup Range(h.out)
  BY <1>3, <1>4, <1>6, <1>7
<1>9. TypedConnection(g, x, up, q)
  <2>1. Len(g.out) <= 1
    BY <1>6, <1>7
  <2> QED
    BY <1>1, <1>4, <1>5, <1>6, <2>1 DEF TypedConnection
<1>10. NobodyIsAhead(g, x, up, q, r)
  BY <1>1, <1>6, <1>8 DEF NobodyIsAhead
<1>11. ASSUME NEW n \in 1..r PROVE Accounted(g, x, up, q, n)
  BY <1>6, <1>8 DEF Connection, Accounted
<1> QED
  BY <1>9, <1>10, <1>11 DEF Connection, g, q, m

LEMMA ClientFields ==
  ASSUME NEW x \in ClientTasks
  PROVE  /\ x.local \in Nat /\ x.out \in Seq(ToHost)
         /\ \A q \in Seq(ToHost) :
              /\ [x EXCEPT !.out = q] \in ClientTasks
              /\ [x EXCEPT !.out = q].local = x.local /\ [x EXCEPT !.out = q].out = q
         /\ \A n \in Nat :
              /\ [x EXCEPT !.local = n] \in ClientTasks
              /\ [x EXCEPT !.local = n].local = n /\ [x EXCEPT !.local = n].out = x.out
BY DEF ClientTasks

\* A message of the client goes into the socket.
LEMMA MessageSent ==
  ASSUME NEW h, NEW x, NEW up, NEW down, NEW r \in Nat,
         Connection(h, x, up, down, r), x.out # <<>>, Len(up) < SocketCap
  PROVE  Connection(h, [x EXCEPT !.out = Tail(@)], Append(up, Head(x.out)), down, r)
<1> DEFINE m == Head(x.out) rest == Tail(x.out) q == Append(up, m)
           y == [x EXCEPT !.out = rest]
<1>1. TypedConnection(h, x, up, down) /\ NobodyIsAhead(h, x, up, down, r)
  BY DEF Connection
<1>2. /\ x \in ClientTasks /\ x.out \in Seq(ToHost) /\ up \in Seq(ToHost)
      /\ SocketCap \in Nat
  BY <1>1, ClientFields, BackpressureAssumption DEF TypedConnection
<1>3. m \in ToHost /\ rest \in Seq(ToHost) /\ Range(x.out) = {m} \cup Range(rest)
  BY <1>2, QueueTail
<1> HIDE DEF m, rest
<1>4. q \in Seq(ToHost) /\ Len(q) = Len(up) + 1 /\ Range(q) = Range(up) \cup {m}
  BY <1>2, <1>3, QueueAppend
<1>5. Len(q) <= SocketCap
  <2>1. Len(up) \in Nat
    BY <1>2
  <2> QED
    BY <1>2, <1>4, <2>1
<1> HIDE DEF q
<1>6. y \in ClientTasks /\ y.local = x.local /\ y.out = rest
  BY <1>2, <1>3, ClientFields
<1> HIDE DEF y
<1>7. Range(y.out) \cup Range(q) = Range(x.out) \cup Range(up)
  BY <1>3, <1>4, <1>6
<1>8. TypedConnection(h, y, q, down)
  BY <1>1, <1>4, <1>5, <1>6 DEF TypedConnection
<1>9. NobodyIsAhead(h, y, q, down, r)
  BY <1>1, <1>6, <1>7 DEF NobodyIsAhead
<1>10. ASSUME NEW n \in 1..r PROVE Accounted(h, y, q, down, n)
  BY <1>6, <1>7 DEF Connection, Accounted
<1> QED
  BY <1>8, <1>9, <1>10 DEF Connection, q, m, y, rest

\* A client with nothing to send may ask for what it lacks, or send anything that asks
\* for no events.
LEMMA MessageWritten ==
  ASSUME NEW h, NEW x, NEW up, NEW down, NEW r \in Nat,
         Connection(h, x, up, down, r), x.out = <<>>,
         NEW m \in ToHost, IsRequest(m) => m.after <= x.local
  PROVE  Connection(h, [x EXCEPT !.out = <<m>>], up, down, r)
<1> DEFINE q == <<m>> y == [x EXCEPT !.out = q]
<1>1. TypedConnection(h, x, up, down) /\ NobodyIsAhead(h, x, up, down, r)
  BY DEF Connection
<1>2. x \in ClientTasks
  BY <1>1 DEF TypedConnection
<1>3. q \in Seq(ToHost) /\ Range(q) = {m}
  BY QueueOne
<1>4. Range(x.out) = {}
  BY QueueEmpty
<1> HIDE DEF q
<1>5. y \in ClientTasks /\ y.local = x.local /\ y.out = q
  BY <1>2, <1>3, ClientFields
<1> HIDE DEF y
<1>6. TypedConnection(h, y, up, down)
  BY <1>1, <1>5 DEF TypedConnection
<1>7. NobodyIsAhead(h, y, up, down, r)
  BY <1>1, <1>3, <1>5 DEF NobodyIsAhead
<1>8. ASSUME NEW n \in 1..r PROVE Accounted(h, y, up, down, n)
  BY <1>4, <1>5 DEF Connection, Accounted
<1> QED
  BY <1>6, <1>7, <1>8 DEF Connection, y, q

\* A client reads a message: whatever it makes of it, nothing is lost as long as the
\* events of a batch are taken or asked for.
LEMMA MessageRead ==
  ASSUME NEW h, NEW x, NEW up, NEW down, NEW r \in Nat,
         Connection(h, x, up, down, r), x.out = <<>>, down # <<>>,
         NEW y \in ClientTasks, x.local <= y.local, y.local <= r,
         \A a \in Range(y.out) : IsRequest(a) => a.after <= y.local,
         \A n \in 1..r : Covers(Head(down), n) =>
           n <= y.local \/ \E a \in Range(y.out) : Asks(a, n)
  PROVE  Connection(h, y, up, Tail(down), r)
<1> DEFINE m == Head(down) rest == Tail(down)
<1>1. TypedConnection(h, x, up, down) /\ NobodyIsAhead(h, x, up, down, r)
  BY DEF Connection
<1>2. /\ x.local \in Nat /\ y.local \in Nat /\ down \in Seq(ToClient) /\ up \in Seq(ToHost)
      /\ h \in Handlers /\ SocketCap \in Nat
  BY <1>1, ClientFields, BackpressureAssumption DEF TypedConnection
<1>3. /\ rest \in Seq(ToClient) /\ Len(rest) = Len(down) - 1 /\ Len(down) \in Nat
      /\ Range(down) = {m} \cup Range(rest)
  BY <1>2, QueueTail
<1>4. Range(x.out) = {}
  BY QueueEmpty
<1>5. \A n \in 1..r : Covers(m, n) =>
        n <= y.local \/ \E a \in Range(y.out) : Asks(a, n)
  OBVIOUS
<1> HIDE DEF m, rest
<1>6. TypedConnection(h, y, up, rest)
  <2>1. Len(rest) <= SocketCap
    BY <1>1, <1>2, <1>3 DEF TypedConnection
  <2> QED
    BY <1>1, <1>3, <2>1 DEF TypedConnection
<1>7. NobodyIsAhead(h, y, up, rest, r)
  <2>1. ASSUME NEW a \in Range(y.out) \cup Range(up), IsRequest(a) PROVE a.after <= y.local
    <3>1. CASE a \in Range(y.out)
      BY <2>1, <3>1
    <3>2. CASE a \in Range(up)
      <4>1. a.after <= x.local /\ a \in ToHost
        BY <1>1, <1>2, <2>1, <3>2, QueueRange DEF NobodyIsAhead
      <4>2. a.after \in Nat
        BY <2>1, <4>1, MessageFields
      <4> QED
        BY <1>2, <4>1, <4>2
    <3> QED
      BY <2>1, <3>1, <3>2
  <2>2. IsRequest(h.job) => h.job.after <= y.local \/ h.job.after <= h.sent
    <3>1. SUFFICES ASSUME IsRequest(h.job), h.job.after <= x.local
                   PROVE  h.job.after <= y.local
      BY <1>1 DEF NobodyIsAhead
    <3>2. h.job \in ToHost
      BY <1>2, <3>1, HandlerFields, MessageFields
    <3>3. h.job.after \in Nat
      BY <3>1, <3>2, MessageFields
    <3> QED
      BY <1>2, <3>1, <3>3
  <2>3. \A a \in Range(rest) \cup Range(h.out) : a.type = "event_batch" => a.through <= r
    BY <1>1, <1>3 DEF NobodyIsAhead
  <2> QED
    BY <1>1, <2>1, <2>2, <2>3 DEF NobodyIsAhead
<1>8. ASSUME NEW n \in 1..r PROVE Accounted(h, y, up, rest, n)
  <2>1. Accounted(h, x, up, down, n)
    BY DEF Connection
  <2>2. CASE n <= x.local
    <3>1. n <= y.local
      BY <1>2, <2>2
    <3> QED
      BY <3>1 DEF Accounted
  <2>3. CASE Covers(m, n)
    BY <1>5, <2>3 DEF Accounted
  <2>4. CASE ~(n <= x.local) /\ ~Covers(m, n)
    BY <1>3, <1>4, <2>1, <2>4 DEF Accounted
  <2> QED
    BY <2>2, <2>3, <2>4
<1> QED
  BY <1>6, <1>7, <1>8 DEF Connection, rest

LEMMA ClientAsks ==
  ASSUME NEW x \in ClientTasks, NEW q \in Seq(ToHost), NEW y, y = [x EXCEPT !.out = q]
  PROVE  y \in ClientTasks /\ y.local = x.local /\ y.out = q
BY DEF ClientTasks

LEMMA ClientAdvances ==
  ASSUME NEW x \in ClientTasks, NEW n \in Nat, NEW y, y = [x EXCEPT !.local = n]
  PROVE  y \in ClientTasks /\ y.local = n /\ y.out = x.out
BY DEF ClientTasks

\* The replica's answer to a batch and to a rejection.
LEMMA BatchRead ==
  ASSUME NEW h, NEW x, NEW up, NEW down, NEW r \in Nat,
         Connection(h, x, up, down, r), x.out = <<>>, down # <<>>
  PROVE  Connection(h, IF Head(down).type = "event_batch" THEN ReceiveBatch(x, Head(down))
                       ELSE ReceiveRejected(x, Head(down)), up, Tail(down), r)
<1> DEFINE y == IF Head(down).type = "event_batch" THEN ReceiveBatch(x, Head(down))
                ELSE ReceiveRejected(x, Head(down))
           m == Head(down) ask == CatchUpRequest(x.local) q == <<ask>>
<1>1. TypedConnection(h, x, up, down) /\ NobodyIsAhead(h, x, up, down, r)
  BY DEF Connection
<1>2. /\ x \in ClientTasks /\ x.local \in Nat /\ x.local <= r /\ down \in Seq(ToClient)
      /\ Range(x.out) = {}
  BY <1>1, ClientFields, QueueEmpty DEF TypedConnection, NobodyIsAhead
<1>3. m \in ToClient /\ m \in Range(down)
  BY <1>2, QueueTail
<1>4. /\ m.type = "event_batch" => m.from \in Nat /\ m.through \in Nat /\ m.through <= r
      /\ m.type # "event_batch" => m.current \in Nat
  BY <1>1, <1>3, MessageFields DEF NobodyIsAhead
<1>5. ask \in ToHost /\ IsRequest(ask) /\ ask.after = x.local
  BY <1>2, MessageTypes
<1>6. q \in Seq(ToHost) /\ Range(q) = {ask}
  BY <1>5, QueueOne
<1> HIDE DEF ask, m
<1>7. \/ y = [x EXCEPT !.out = q]
      \/ /\ y = [x EXCEPT !.local = m.through] /\ m.type = "event_batch"
         /\ m.through > x.local
      \/ y = x /\ (m.type = "event_batch" => ~(m.through > x.local))
  BY DEF m, ask, ReceiveBatch, ReceiveRejected
<1> SUFFICES Connection(h, y, up, Tail(down), r)
  OBVIOUS
<1> HIDE DEF q, y
<1>8. CASE y = [x EXCEPT !.out = q]
  <2>1. y \in ClientTasks /\ y.local = x.local /\ y.out = q
    BY <1>2, <1>6, <1>8, ClientAsks
  <2>2. \A a \in Range(y.out) : IsRequest(a) => a.after <= y.local
    BY <1>2, <1>5, <1>6, <2>1
  <2>3. ASSUME NEW n \in 1..r PROVE n <= y.local \/ \E a \in Range(y.out) : Asks(a, n)
    <3>1. n <= x.local \/ Asks(ask, n)
      BY <1>2, <1>5 DEF Asks, IsRequest
    <3> QED
      BY <1>6, <2>1, <3>1
  <2>4. x.local <= y.local /\ y.local <= r
    BY <1>2, <2>1
  <2> QED
    BY <2>1, <2>2, <2>3, <2>4, MessageRead
<1>9. CASE /\ y = [x EXCEPT !.local = m.through] /\ m.type = "event_batch"
           /\ m.through > x.local
  <2>1. y \in ClientTasks /\ y.local = m.through /\ y.out = x.out
    BY <1>2, <1>4, <1>9, ClientAdvances
  <2>2. x.local <= y.local /\ y.local <= r
    BY <1>2, <1>4, <1>9, <2>1
  <2>3. \A n \in 1..r : Covers(m, n) => n <= y.local
    BY <1>4, <1>9, <2>1 DEF Covers
  <2>4. Range(y.out) = {}
    BY <1>2, <2>1
  <2> QED
    BY <2>1, <2>2, <2>3, <2>4, MessageRead DEF m
<1>10. CASE y = x /\ (m.type = "event_batch" => ~(m.through > x.local))
  <2>1. \A n \in 1..r : Covers(m, n) => n <= x.local
    BY <1>2, <1>4, <1>10 DEF Covers
  <2> QED
    BY <1>2, <1>10, <2>1, MessageRead DEF m
<1> QED
  BY <1>7, <1>8, <1>9, <1>10

-----------------------------------------------------------------------------
\* All connections.

\* The inductive invariant: every connection is in order by itself, and a command that
\* was accepted had a revision the session has left.
Inv ==
  /\ revision \in Nat \ {0} /\ typed \in 0..MaxTyped
  /\ joined \subseteq Clients /\ accepted \subseteq Clients \X Nat
  /\ \A c \in Clients, n \in Nat : <<c, n>> \in accepted => n < revision
  /\ handler \in [Clients -> Handlers] /\ client \in [Clients -> ClientTasks]
  /\ c2s \in [Clients -> Seq(ToHost)] /\ s2c \in [Clients -> Seq(ToClient)]
  /\ \A c \in Clients : Connection(handler[c], client[c], c2s[c], s2c[c], revision)

LEMMA InvFields ==
  ASSUME Inv, NEW c \in Clients
  PROVE  /\ revision \in Nat /\ revision > 0
         /\ Connection(handler[c], client[c], c2s[c], s2c[c], revision)
         /\ handler[c] \in Handlers /\ client[c] \in ClientTasks
         /\ c2s[c] \in Seq(ToHost) /\ s2c[c] \in Seq(ToClient)
BY DEF Inv

\* Function g is f but for c, where it has v.
Becomes(f, g, c, v) == g = [f EXCEPT ![c] = v]

\* A step of one connection that leaves the session alone.
LEMMA OneConnection ==
  ASSUME Inv, NEW c \in Clients, NEW h, NEW x, NEW up, NEW down,
         Connection(h, x, up, down, revision),
         Becomes(handler, handler', c, h), Becomes(client, client', c, x),
         Becomes(c2s, c2s', c, up), Becomes(s2c, s2c', c, down),
         session' = session, typed' \in 0..MaxTyped
  PROVE  Inv'
<1>1. h \in Handlers /\ x \in ClientTasks /\ up \in Seq(ToHost) /\ down \in Seq(ToClient)
  BY DEF Connection, TypedConnection
<1>2. /\ handler \in [Clients -> Handlers] /\ client \in [Clients -> ClientTasks]
      /\ c2s \in [Clients -> Seq(ToHost)] /\ s2c \in [Clients -> Seq(ToClient)]
  BY DEF Inv
<1>3. /\ handler' \in [Clients -> Handlers] /\ client' \in [Clients -> ClientTasks]
      /\ c2s' \in [Clients -> Seq(ToHost)] /\ s2c' \in [Clients -> Seq(ToClient)]
  BY <1>1, <1>2 DEF Becomes
<1>4. ASSUME NEW d \in Clients
      PROVE  Connection(handler'[d], client'[d], c2s'[d], s2c'[d], revision)
  <2>1. CASE d = c
    <3>1. handler'[d] = h /\ client'[d] = x /\ c2s'[d] = up /\ s2c'[d] = down
      BY <1>2, <2>1 DEF Becomes
    <3> QED
      BY <3>1
  <2>2. CASE d # c
    <3>1. /\ handler'[d] = handler[d] /\ client'[d] = client[d]
          /\ c2s'[d] = c2s[d] /\ s2c'[d] = s2c[d]
      BY <1>2, <2>2 DEF Becomes
    <3> QED
      BY <3>1, InvFields
  <2> QED
    BY <2>1, <2>2
<1>5. revision' = revision /\ joined' = joined /\ accepted' = accepted
  BY DEF session
<1> QED
  BY <1>3, <1>4, <1>5 DEF Inv

LEMMA Unchanged ==
  ASSUME Inv, NEW c \in Clients
  PROVE  /\ handler' = handler => Becomes(handler, handler', c, handler[c])
         /\ client' = client => Becomes(client, client', c, client[c])
         /\ c2s' = c2s => Becomes(c2s, c2s', c, c2s[c])
         /\ s2c' = s2c => Becomes(s2c, s2c', c, s2c[c])
         /\ typed' = typed => typed' \in 0..MaxTyped
BY DEF Inv, Becomes

LEMMA InitEstablishes == Init => Inv
<1> SUFFICES ASSUME Init PROVE Inv
  OBVIOUS
<1> DEFINE h == [at |-> "select", job |-> Idle, out |-> <<>>, sent |-> 0, sub |-> <<>>,
                 lagged |-> FALSE]
<1>1. Len(<<>>) = 0 /\ Range(<<>>) = {} /\ \A S : <<>> \in Seq(S)
  BY QueueEmpty
<1>2. /\ h \in Handlers /\ h.at = "select" /\ h.job = Idle /\ h.out = <<>> /\ h.sent = 0
      /\ h.sub = <<>>
  BY <1>1 DEF Handlers
<1> HIDE DEF h
<1>3. ASSUME NEW x \in {[local |-> n, out |-> <<Hello(n), JoinSession>>] : n \in 0..1}
      PROVE  Connection(h, x, <<>>, <<>>, 1)
  <2>1. PICK n \in 0..1 : x = [local |-> n, out |-> <<Hello(n), JoinSession>>]
    BY <1>3
  <2> DEFINE q == <<Hello(n), JoinSession>>
  <2>2. /\ Hello(n) \in ToHost /\ JoinSession \in ToHost /\ IsRequest(Hello(n))
        /\ Hello(n).after = n /\ ~IsRequest(JoinSession)
    BY MessageTypes
  <2>3. q \in Seq(ToHost) /\ Range(q) = {Hello(n), JoinSession}
    BY <2>2 DEF Range
  <2> HIDE DEF q
  <2>4. x \in ClientTasks /\ x.local = n /\ x.out = q
    BY <2>1, <2>3 DEF ClientTasks, q
  <2>5. TypedConnection(h, x, <<>>, <<>>)
    BY <1>1, <1>2, <2>4, BackpressureAssumption DEF TypedConnection
  <2>6. NobodyIsAhead(h, x, <<>>, <<>>, 1)
    <3>1. ~IsRequest(Idle) /\ Rising(<<>>)
      BY MessageFields DEF Rising
    <3> QED
      BY <1>1, <1>2, <2>2, <2>3, <2>4, <3>1 DEF NobodyIsAhead
  <2>7. ASSUME NEW k \in 1..1 PROVE Accounted(h, x, <<>>, <<>>, k)
    <3>1. k <= n \/ Asks(Hello(n), k)
      BY <2>2 DEF Asks, IsRequest
    <3> QED
      BY <2>3, <2>4, <3>1 DEF Accounted
  <2> QED
    BY <2>5, <2>6, <2>7 DEF Connection
<1>4. ASSUME NEW c \in Clients
      PROVE  Connection(handler[c], client[c], c2s[c], s2c[c], revision)
  <2>1. /\ handler[c] = h /\ c2s[c] = <<>> /\ s2c[c] = <<>> /\ revision = 1
        /\ client[c] \in {[local |-> n, out |-> <<Hello(n), JoinSession>>] : n \in 0..1}
    BY DEF Init, h
  <2> QED
    BY <1>3, <2>1
<1>5. /\ handler \in [Clients -> Handlers]
      /\ c2s \in [Clients -> Seq(ToHost)] /\ s2c \in [Clients -> Seq(ToClient)]
  BY <1>1, <1>2 DEF Init, h
<1>6. client \in [Clients -> ClientTasks]
  <2>1. \A c \in Clients : client[c] \in ClientTasks
    BY <1>4 DEF Connection, TypedConnection
  <2>2. client \in [Clients -> {client[c] : c \in Clients}]
    BY DEF Init
  <2> QED
    BY <2>1, <2>2
<1>7. /\ revision \in Nat \ {0} /\ typed \in 0..MaxTyped
      /\ joined \subseteq Clients /\ accepted = {}
  BY BackpressureAssumption DEF Init
<1> QED
  BY <1>4, <1>5, <1>6, <1>7 DEF Inv

\* The steps of a handler that leave the session alone.
LEMMA MessageIsTaken ==
  ASSUME Inv, NEW c \in Clients, TakeMessage(c) PROVE Inv'
<1> DEFINE h == handler[c]
           g == [h EXCEPT !.at = "lock", !.job = Head(c2s[c]),
                          !.sent = IF Head(c2s[c]).type = "hello" THEN Head(c2s[c]).after ELSE @]
<1>1. /\ h.at = "select" /\ h.out = <<>> /\ c2s[c] # <<>>
      /\ Becomes(handler, handler', c, g) /\ Becomes(c2s, c2s', c, Tail(c2s[c]))
      /\ session' = session /\ client' = client /\ s2c' = s2c /\ typed' = typed
  BY DEF TakeMessage, Selecting, Inv, Handlers, Becomes
<1>2. Connection(g, client[c], Tail(c2s[c]), s2c[c], revision)
  BY <1>1, InvFields, MessageTaken
<1> HIDE DEF g
<1> QED
  BY <1>1, <1>2, Unchanged, OneConnection

LEMMA BroadcastIsTaken ==
  ASSUME Inv, NEW c \in Clients, TakeBroadcast(c) PROVE Inv'
<1> DEFINE h == handler[c]
           g == IF Head(h.sub) > h.sent
                THEN [h EXCEPT !.sub = Tail(@), !.sent = Head(h.sub),
                               !.out = <<Batch(Head(h.sub), Head(h.sub))>>]
                ELSE [h EXCEPT !.sub = Tail(@)]
<1>1. /\ h.at = "select" /\ h.out = <<>> /\ ~h.lagged /\ h.sub # <<>>
      /\ Becomes(handler, handler', c, g)
      /\ session' = session /\ client' = client /\ c2s' = c2s /\ s2c' = s2c
      /\ typed' = typed
  BY DEF TakeBroadcast, Selecting, Becomes
<1>2. Connection(g, client[c], c2s[c], s2c[c], revision)
  BY <1>1, InvFields, BroadcastTaken
<1> HIDE DEF g
<1> QED
  BY <1>1, <1>2, Unchanged, OneConnection

LEMMA LagIsTaken ==
  ASSUME Inv, NEW c \in Clients, TakeLag(c) PROVE Inv'
<1> DEFINE h == handler[c]
           g == [h EXCEPT !.lagged = FALSE, !.at = "lock", !.job = CatchUpRequest(h.sent)]
<1>1. /\ h.at = "select" /\ h.out = <<>>
      /\ Becomes(handler, handler', c, g)
      /\ session' = session /\ client' = client /\ c2s' = c2s /\ s2c' = s2c
      /\ typed' = typed
  BY DEF TakeLag, Selecting, Becomes
<1>2. Connection(g, client[c], c2s[c], s2c[c], revision)
  BY <1>1, InvFields, LagTaken
<1> HIDE DEF g
<1> QED
  BY <1>1, <1>2, Unchanged, OneConnection

LEMMA LockIsTaken ==
  ASSUME Inv, NEW c \in Clients, Acquire(c) PROVE Inv'
<1> DEFINE h == handler[c]
           g == [h EXCEPT !.at = "locked"]
<1>1. /\ h.at = "lock"
      /\ Becomes(handler, handler', c, g)
      /\ session' = session /\ client' = client /\ c2s' = c2s /\ s2c' = s2c
      /\ typed' = typed
  BY DEF Acquire, Becomes
<1>2. Connection(g, client[c], c2s[c], s2c[c], revision)
  BY <1>1, InvFields, LockTaken
<1> HIDE DEF g
<1> QED
  BY <1>1, <1>2, Unchanged, OneConnection

LEMMA SuffixIsFetched ==
  ASSUME Inv, NEW c \in Clients, FetchSuffix(c) PROVE Inv'
<1> DEFINE h == handler[c]
           g == IF h.job.after < revision
                THEN [Done(h) EXCEPT !.sent = revision,
                                     !.out = <<Batch(h.job.after + 1, revision)>>]
                ELSE Done(h)
<1>1. /\ h.at = "locked" /\ IsRequest(h.job)
      /\ Becomes(handler, handler', c, g)
      /\ session' = session /\ client' = client /\ c2s' = c2s /\ s2c' = s2c
      /\ typed' = typed
  BY DEF FetchSuffix, HoldsLock, IsRequest, Becomes
<1>2. Connection(g, client[c], c2s[c], s2c[c], revision)
  BY <1>1, InvFields, SuffixFetched
<1> HIDE DEF g
<1> QED
  BY <1>1, <1>2, Unchanged, OneConnection

LEMMA AnswerIsSent ==
  ASSUME Inv, NEW c \in Clients, HandlerSends(c) PROVE Inv'
<1> DEFINE h == handler[c] g == [h EXCEPT !.out = <<>>] q == Append(s2c[c], Head(h.out))
<1>1. /\ h.out # <<>> /\ Len(s2c[c]) < SocketCap
      /\ Becomes(handler, handler', c, g) /\ Becomes(s2c, s2c', c, q)
      /\ session' = session /\ client' = client /\ c2s' = c2s /\ typed' = typed
  BY DEF HandlerSends, Becomes
<1>2. Connection(g, client[c], c2s[c], q, revision)
  BY <1>1, InvFields, AnswerSent
<1> HIDE DEF g, q
<1> QED
  BY <1>1, <1>2, Unchanged, OneConnection

\* The steps of a client.
LEMMA MessageIsSent ==
  ASSUME Inv, NEW c \in Clients, ClientSends(c) PROVE Inv'
<1> DEFINE x == client[c] y == [x EXCEPT !.out = Tail(@)] q == Append(c2s[c], Head(x.out))
<1>1. /\ x.out # <<>> /\ Len(c2s[c]) < SocketCap
      /\ Becomes(client, client', c, y) /\ Becomes(c2s, c2s', c, q)
      /\ session' = session /\ handler' = handler /\ s2c' = s2c /\ typed' = typed
  BY DEF ClientSends, Becomes
<1>2. Connection(handler[c], y, q, s2c[c], revision)
  BY <1>1, InvFields, MessageSent
<1> HIDE DEF y, q
<1> QED
  BY <1>1, <1>2, Unchanged, OneConnection

LEMMA MessageIsRead ==
  ASSUME Inv, NEW c \in Clients, ClientReceives(c) PROVE Inv'
<1> DEFINE x == client[c] m == Head(s2c[c])
           y == IF m.type = "event_batch" THEN ReceiveBatch(x, m) ELSE ReceiveRejected(x, m)
<1>1. /\ x.out = <<>> /\ s2c[c] # <<>>
      /\ Becomes(client, client', c, y) /\ Becomes(s2c, s2c', c, Tail(s2c[c]))
      /\ session' = session /\ handler' = handler /\ c2s' = c2s /\ typed' = typed
  BY DEF ClientReceives, Becomes
<1>2. Connection(handler[c], y, c2s[c], Tail(s2c[c]), revision)
  BY <1>1, InvFields, BatchRead
<1> HIDE DEF y
<1> QED
  BY <1>1, <1>2, Unchanged, OneConnection

LEMMA CommandIsTyped ==
  ASSUME Inv, NEW c \in Clients, TypeCommand(c) PROVE Inv'
<1> DEFINE x == client[c] m == SubmitCommand(x.local) y == [x EXCEPT !.out = <<m>>]
<1>1. /\ x.out = <<>> /\ Becomes(client, client', c, y)
      /\ session' = session /\ handler' = handler /\ c2s' = c2s /\ s2c' = s2c
  BY DEF TypeCommand, Becomes
<1>2. typed' \in 0..MaxTyped
  BY BackpressureAssumption DEF TypeCommand, Inv
<1>3. x \in ClientTasks /\ x.local \in Nat
  BY InvFields, ClientFields
<1>4. m \in ToHost /\ ~IsRequest(m)
  BY <1>3, MessageTypes
<1>5. Connection(handler[c], y, c2s[c], s2c[c], revision)
  BY <1>1, <1>4, InvFields, MessageWritten
<1> HIDE DEF y
<1> QED
  BY <1>1, <1>2, <1>5, Unchanged, OneConnection

\* A commit disturbs every connection: its event is published to all of them.
LEMMA EventIsCommitted ==
  ASSUME Inv, NEW c \in Clients, HoldsLock(c), ~IsRequest(handler[c].job), Commit(c),
         UNCHANGED <<client, c2s, s2c, typed>>,
         joined' \subseteq Clients, accepted' \subseteq Clients \X Nat,
         \A d \in Clients, n \in Nat : <<d, n>> \in accepted' => n <= revision
  PROVE  Inv'
<1>1. revision' = revision + 1 /\ revision \in Nat
  BY InvFields DEF Commit
<1>2. ASSUME NEW d \in Clients
      PROVE  Connection(handler'[d], client'[d], c2s'[d], s2c'[d], revision')
  <2> DEFINE h == IF d = c THEN Done(handler[d]) ELSE handler[d]
  <2>1. Connection(h, client[d], c2s[d], s2c[d], revision)
    <3>1. CASE d = c
      <4>1. Connection(Done(handler[c]), client[c], c2s[c], s2c[c], revision)
        BY InvFields, JobDone DEF HoldsLock
      <4> QED
        BY <3>1, <4>1
    <3>2. CASE d # c
      BY <3>2, InvFields
    <3> QED
      BY <3>1, <3>2
  <2>2. handler'[d] = Subscribed(h, revision + 1)
    BY DEF Commit
  <2> HIDE DEF h
  <2> QED
    BY <1>1, <2>1, <2>2, EventPublished
<1>3. handler' \in [Clients -> Handlers]
  <2>1. \A d \in Clients : handler'[d] \in Handlers
    BY <1>2 DEF Connection, TypedConnection
  <2>2. handler' = [d \in Clients |->
          Subscribed(IF d = c THEN Done(handler[d]) ELSE handler[d], revision + 1)]
    BY DEF Commit
  <2>3. handler' = [d \in Clients |-> handler'[d]]
    BY <2>2, Zenon
  <2> QED
    BY <2>1, <2>3
<1>4. \A d \in Clients, n \in Nat : <<d, n>> \in accepted' => n < revision'
  BY <1>1
<1>5. revision' \in Nat \ {0}
  BY <1>1
<1> QED
  BY <1>2, <1>3, <1>4, <1>5 DEF Inv

\* A handler that holds the lock and answers, or has no answer.
LEMMA JobIsDone ==
  ASSUME Inv, NEW c \in Clients, HoldsLock(c), ~IsRequest(handler[c].job),
         UNCHANGED <<session, client, c2s, s2c, typed>>
  PROVE  /\ handler' = [handler EXCEPT ![c] = Done(@)] => Inv'
         /\ \A m \in ToClient :
              (m.type = "event_batch" => m.through <= revision) /\ Answer(c, m) => Inv'
<1>1. Connection(Done(handler[c]), client[c], c2s[c], s2c[c], revision)
  BY InvFields, JobDone DEF HoldsLock
<1>2. ASSUME handler' = [handler EXCEPT ![c] = Done(@)] PROVE Inv'
  <2>1. Becomes(handler, handler', c, Done(handler[c]))
    BY <1>2 DEF Becomes
  <2> QED
    BY <1>1, <2>1, Unchanged, OneConnection
<1>3. ASSUME NEW m \in ToClient, m.type = "event_batch" => m.through <= revision,
             Answer(c, m)
      PROVE  Inv'
  <2> DEFINE g == [Done(handler[c]) EXCEPT !.out = <<m>>]
  <2>1. Becomes(handler, handler', c, g)
    BY <1>3 DEF Answer, Becomes
  <2>2. Connection(g, client[c], c2s[c], s2c[c], revision)
    BY <1>3, InvFields, JobDone DEF HoldsLock
  <2> HIDE DEF g
  <2> QED
    BY <2>1, <2>2, Unchanged, OneConnection
<1> QED
  BY <1>2, <1>3

LEMMA JoinIsDecided ==
  ASSUME Inv, NEW c \in Clients, DecideJoin(c) PROVE Inv'
<1>1. /\ HoldsLock(c) /\ ~IsRequest(handler[c].job)
      /\ UNCHANGED <<accepted, client, c2s, s2c, typed>>
  BY DEF DecideJoin, IsRequest
<1>2. revision \in Nat /\ revision > 0 /\ joined \subseteq Clients
  BY InvFields DEF Inv
<1>3. \/ /\ handler' = [handler EXCEPT ![c] = Done(@)]
         /\ UNCHANGED <<revision, joined>>
      \/ Commit(c) /\ joined' = joined \cup {c}
      \/ Answer(c, Rejected(revision)) /\ UNCHANGED <<revision, joined>>
  BY DEF DecideJoin
<1>4. CASE handler' = [handler EXCEPT ![c] = Done(@)] /\ UNCHANGED <<revision, joined>>
  <2>1. UNCHANGED <<session, client, c2s, s2c, typed>>
    BY <1>1, <1>4 DEF session
  <2> QED
    BY <1>1, <1>4, <2>1, JobIsDone
<1>5. CASE Commit(c) /\ joined' = joined \cup {c}
  <2>1. joined' \subseteq Clients /\ accepted' \subseteq Clients \X Nat
    BY <1>1, <1>2, <1>5 DEF Inv
  <2>2. ASSUME NEW d \in Clients, NEW n \in Nat, <<d, n>> \in accepted'
        PROVE  n <= revision
    <3>1. n < revision
      BY <1>1, <2>2 DEF Inv
    <3> QED
      BY <1>2, <3>1
  <2> QED
    BY <1>1, <1>5, <2>1, <2>2, EventIsCommitted
<1>6. CASE Answer(c, Rejected(revision)) /\ UNCHANGED <<revision, joined>>
  <2>1. Rejected(revision) \in ToClient /\ Rejected(revision).type # "event_batch"
    BY <1>2, MessageTypes
  <2>2. UNCHANGED <<session, client, c2s, s2c, typed>>
    BY <1>1, <1>6 DEF session
  <2> QED
    BY <1>1, <1>6, <2>1, <2>2, JobIsDone
<1> QED
  BY <1>3, <1>4, <1>5, <1>6

LEMMA SubmitIsDecided ==
  ASSUME Inv, NEW c \in Clients, DecideSubmit(c) PROVE Inv'
<1> DEFINE n == handler[c].job.expected
<1>1. /\ HoldsLock(c) /\ ~IsRequest(handler[c].job)
      /\ UNCHANGED <<joined, client, c2s, s2c, typed>>
  BY DEF DecideSubmit, IsRequest
<1>2. n \in Nat
  <2>1. handler[c].job.type = "submit_command" /\ handler[c].job \in ToHost \cup {Idle}
    BY InvFields, HandlerFields DEF DecideSubmit
  <2>2. handler[c].job \in ToHost
    BY <2>1 DEF Idle
  <2> QED
    BY <2>1, <2>2, MessageFields
<1>3. revision \in Nat /\ revision > 0
  BY InvFields
<1>4. \/ /\ <<c, n>> \in accepted /\ Answer(c, Batch(n + 1, n + 1))
         /\ UNCHANGED <<revision, accepted>>
      \/ Answer(c, Rejected(revision)) /\ UNCHANGED <<revision, accepted>>
      \/ n = revision /\ Commit(c) /\ accepted' = accepted \cup {<<c, n>>}
  BY DEF DecideSubmit
<1> HIDE DEF n
<1>5. CASE /\ <<c, n>> \in accepted /\ Answer(c, Batch(n + 1, n + 1))
           /\ UNCHANGED <<revision, accepted>>
  <2>1. n < revision
    BY <1>2, <1>5 DEF Inv
  <2>2. n + 1 \in Nat /\ n + 1 <= revision
    BY <1>2, <1>3, <2>1
  <2>3. Batch(n + 1, n + 1) \in ToClient /\ Batch(n + 1, n + 1).through <= revision
    BY <2>2, MessageTypes
  <2>4. UNCHANGED <<session, client, c2s, s2c, typed>>
    BY <1>1, <1>5 DEF session
  <2> QED
    BY <1>1, <1>5, <2>3, <2>4, JobIsDone
<1>6. CASE Answer(c, Rejected(revision)) /\ UNCHANGED <<revision, accepted>>
  <2>1. Rejected(revision) \in ToClient /\ Rejected(revision).type # "event_batch"
    BY <1>3, MessageTypes
  <2>2. UNCHANGED <<session, client, c2s, s2c, typed>>
    BY <1>1, <1>6 DEF session
  <2> QED
    BY <1>1, <1>6, <2>1, <2>2, JobIsDone
<1>7. CASE n = revision /\ Commit(c) /\ accepted' = accepted \cup {<<c, n>>}
  <2>1. joined' \subseteq Clients /\ accepted' \subseteq Clients \X Nat
    BY <1>1, <1>2, <1>7 DEF Inv
  <2>2. ASSUME NEW d \in Clients, NEW k \in Nat, <<d, k>> \in accepted'
        PROVE  k <= revision
    <3>1. CASE <<d, k>> \in accepted
      <4>1. k < revision
        BY <3>1 DEF Inv
      <4> QED
        BY <1>3, <4>1
    <3>2. CASE <<d, k>> = <<c, n>>
      <4>1. k = revision
        BY <1>7, <3>2
      <4> QED
        BY <1>3, <4>1
    <3> QED
      BY <1>7, <2>2, <3>1, <3>2
  <2> QED
    BY <1>1, <1>7, <2>1, <2>2, EventIsCommitted
<1> QED
  BY <1>4, <1>5, <1>6, <1>7

LEMMA NextPreserves == Inv /\ [Next]_vars => Inv'
<1> SUFFICES ASSUME Inv, [Next]_vars PROVE Inv'
  OBVIOUS
<1>1. CASE UNCHANGED vars
  BY <1>1 DEF vars, session, Inv
<1>2. ASSUME NEW c \in Clients, HandlerRuns(c) PROVE Inv'
  BY <1>2, MessageIsTaken, BroadcastIsTaken, LagIsTaken, SuffixIsFetched, JoinIsDecided,
     SubmitIsDecided, AnswerIsSent DEF HandlerRuns
<1>3. ASSUME NEW c \in Clients, ClientRuns(c) PROVE Inv'
  BY <1>3, MessageIsSent, MessageIsRead DEF ClientRuns
<1> QED
  BY <1>1, <1>2, <1>3, LockIsTaken, CommandIsTyped DEF Next

LEMMA InvHolds == Spec => []Inv
<1>1. Init => Inv
  BY InitEstablishes
<1>2. Inv /\ [Next]_vars => Inv'
  BY NextPreserves
<1> QED
  BY <1>1, <1>2, PTL DEF Spec

\* Sockets and subscriptions stay within their capacities, and a task waits for one thing
\* at a time, for any number of connections and any capacities.
THEOREM BackpressureTypeCorrect == Spec => []TypeOK
<1>1. Inv => TypeOK
  <2> SUFFICES ASSUME Inv PROVE TypeOK
    OBVIOUS
  <2>1. ASSUME NEW c \in Clients
        PROVE  TypedConnection(handler[c], client[c], c2s[c], s2c[c])
    BY InvFields DEF Connection
  <2> QED
    BY <2>1 DEF Inv, TypeOK, TypedConnection, Handlers, ClientTasks
<1> QED
  BY <1>1, InvHolds, PTL

\* However slow the clients are and whatever the subscriptions overwrite, every event that
\* a client lacks is on its way, asked for or pending.
THEOREM NothingIsForgotten == Spec => []NoEventIsForgotten
<1>1. Inv => NoEventIsForgotten
  <2> SUFFICES ASSUME Inv, NEW c \in Clients, NEW n \in 1..revision
               PROVE  \/ n <= client[c].local \/ Travels(c, n) \/ AskedFor(c, n)
                      \/ Pending(c, n)
    BY DEF NoEventIsForgotten
  <2>1. Accounted(handler[c], client[c], c2s[c], s2c[c], n)
    BY InvFields DEF Connection
  <2> QED
    BY <2>1 DEF Accounted, Travels, AskedFor, Pending
<1> QED
  BY <1>1, InvHolds, PTL

=============================================================================
