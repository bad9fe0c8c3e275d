---------------------------- MODULE Backpressure ----------------------------
(***************************************************************************)
(* Slow connections (crate sytog-node: handle_connection, connect_client   *)
(* and the locking of Host).  A socket holds only so much: who sends on a  *)
(* full one waits and does nothing else meanwhile, neither reading its own *)
(* end of the connection nor its subscription.  The handlers share the     *)
(* host's canonical lock.                                                  *)
(*                                                                         *)
(* Node has these handlers as single actions with sockets that never fill; *)
(* here each stops at its lock().await and at its send().await.  The       *)
(* session is reduced to its revision: one event per accepted command and  *)
(* batches as ranges of sequence numbers.  Connections stay open: a client *)
(* may stop reading for ever, which is worse for the host than leaving.    *)
(***************************************************************************)
EXTENDS Naturals, Sequences, Functions

CONSTANTS
  Clients,        \* connected participants, one connection each
  PromptClients,  \* those that go on reading; any other may stall for ever
  SocketCap,      \* messages that fit into one direction of a socket
  Capacity,       \* capacity of the broadcast channel (256 in the code)
  MaxTyped        \* commands ever typed (a bound)

ASSUME BackpressureAssumption ==
  /\ PromptClients \subseteq Clients
  /\ SocketCap \in Nat \ {0}
  /\ Capacity \in Nat \ {0}
  /\ MaxTyped \in Nat

VARIABLES
  revision,   \* of the canonical session, also its number of events
  joined,     \* the participants of the session
  accepted,   \* <<client, expected revision>> of the accepted commands
  handler,    \* the task of each connection at the host
  client,     \* the task of each client
  c2s,        \* each connection's messages to the host
  s2c,        \* each connection's messages to the client
  typed       \* commands typed so far

session == <<revision, joined, accepted>>
vars == <<session, handler, client, c2s, s2c, typed>>

\* Messages.
Hello(n) == [type |-> "hello", after |-> n]
JoinSession == [type |-> "join_session"]
SubmitCommand(n) == [type |-> "submit_command", expected |-> n]
CatchUpRequest(n) == [type |-> "catch_up_request", after |-> n]
Batch(a, b) == [type |-> "event_batch", from |-> a, through |-> b]
Rejected(n) == [type |-> "command_rejected", current |-> n]

Idle == [type |-> "none"]

\* The host has created its session; every client has connected, with a fresh
\* replica or one that holds the first event, and has its hello and its join to
\* send.  sent_sequence is 0 and the subscription is empty.
Init ==
  /\ revision = 1
  /\ joined = {}
  /\ accepted = {}
  /\ handler = [c \in Clients |->
       [at |-> "select", job |-> Idle, out |-> <<>>, sent |-> 0, sub |-> <<>>,
        lagged |-> FALSE]]
  /\ client \in [Clients -> {[local |-> n, out |-> <<Hello(n), JoinSession>>] : n \in 0..1}]
  /\ c2s = [c \in Clients |-> <<>>]
  /\ s2c = [c \in Clients |-> <<>>]
  /\ typed = 0

-----------------------------------------------------------------------------
\* The task of a connection.  It selects when it neither waits for the lock,
\* nor holds it, nor has something to send.

Selecting(c) == handler[c].at = "select" /\ handler[c].out = <<>>

\* receive(): every message of a client needs the canonical session.
TakeMessage(c) ==
  /\ Selecting(c)
  /\ c2s[c] # <<>>
  /\ LET m == Head(c2s[c]) IN
     handler' = [handler EXCEPT
       ![c].at = "lock", ![c].job = m,
       ![c].sent = IF m.type = "hello" THEN m.after ELSE @]
  /\ c2s' = [c2s EXCEPT ![c] = Tail(@)]
  /\ UNCHANGED <<session, client, s2c, typed>>

\* recv() of a subscription that kept up: no lock is needed, and an event that
\* went out already is left out.
TakeBroadcast(c) ==
  LET x == handler[c]
      n == Head(x.sub)
  IN
  /\ Selecting(c)
  /\ ~x.lagged
  /\ x.sub # <<>>
  /\ handler' = [handler EXCEPT ![c] =
       IF n > x.sent
       THEN [x EXCEPT !.sub = Tail(@), !.sent = n, !.out = <<Batch(n, n)>>]
       ELSE [x EXCEPT !.sub = Tail(@)]]
  /\ UNCHANGED <<session, client, c2s, s2c, typed>>

\* Mutant: a lag sends on what is left in the subscription.
MutLagIsSkipped(c) ==
  /\ Selecting(c)
  /\ handler[c].lagged
  /\ handler' = [handler EXCEPT ![c].lagged = FALSE]
  /\ UNCHANGED <<session, client, c2s, s2c, typed>>

\* recv() says Lagged: the events after sent_sequence are fetched.
TakeLag(c) ==
  /\ Selecting(c)
  /\ handler[c].lagged
  /\ handler' = [handler EXCEPT ![c].lagged = FALSE, ![c].at = "lock",
       ![c].job = CatchUpRequest(handler[c].sent)]
  /\ UNCHANGED <<session, client, c2s, s2c, typed>>

\* Mutant: the guard lives until the answer is sent.
MutHoldsLockWhileSending(c) ==
  handler[c].at = "locked" \/ handler[c].out # <<>>

\* The canonical lock is held inside join, submit, events_after and
\* current_revision, and released when they return.
HoldsLock(c) == handler[c].at = "locked"

Acquire(c) ==
  /\ handler[c].at = "lock"
  /\ ~\E d \in Clients : HoldsLock(d)
  /\ handler' = [handler EXCEPT ![c].at = "locked"]
  /\ UNCHANGED <<session, client, c2s, s2c, typed>>

Done(x) == [x EXCEPT !.at = "select", !.job = Idle]

Answer(c, m) == handler' = [handler EXCEPT ![c] = [Done(@) EXCEPT !.out = <<m>>]]

\* events_after for a hello, a catch-up request or a lag.
FetchSuffix(c) ==
  /\ HoldsLock(c) /\ handler[c].job.type \in {"hello", "catch_up_request"}
  /\ LET n == handler[c].job.after IN
     handler' = [handler EXCEPT ![c] =
       IF n < revision
       THEN [Done(@) EXCEPT !.sent = revision, !.out = <<Batch(n + 1, revision)>>]
       ELSE Done(@)]
  /\ UNCHANGED <<session, client, c2s, s2c, typed>>

\* Mutant: the channel grows.
MutChannelIsUnbounded(x, n) == [x EXCEPT !.sub = Append(@, n)]

\* A subscription after a send: at capacity the oldest value is overwritten.
Subscribed(x, n) ==
  IF Len(x.sub) < Capacity THEN [x EXCEPT !.sub = Append(@, n)]
  ELSE [x EXCEPT !.sub = Append(Tail(@), n), !.lagged = TRUE]

\* commit: the next event exists and goes to every subscription; the sender does
\* not wait for any of them.
Commit(c) ==
  /\ revision' = revision + 1
  /\ handler' = [d \in Clients |->
       Subscribed(IF d = c THEN Done(handler[d]) ELSE handler[d], revision + 1)]

\* join: a participant of the session is left alone; anybody else comes in, or is
\* answered why not (the session is not open, the name is blank, the journal
\* cannot be written).
DecideJoin(c) ==
  /\ HoldsLock(c) /\ handler[c].job.type = "join_session"
  /\ \/ /\ c \in joined
        /\ handler' = [handler EXCEPT ![c] = Done(@)]
        /\ UNCHANGED <<revision, joined>>
     \/ /\ c \notin joined
        /\ Commit(c)
        /\ joined' = joined \cup {c}
     \/ /\ c \notin joined
        /\ Answer(c, Rejected(revision))
        /\ UNCHANGED <<revision, joined>>
  /\ UNCHANGED <<accepted, client, c2s, s2c, typed>>

\* submit: a message id that was accepted before repeats its event or collides;
\* a stale revision conflicts; of the rest, the activity accepts what it likes of
\* participants.
DecideSubmit(c) ==
  LET n == handler[c].job.expected IN
  /\ HoldsLock(c) /\ handler[c].job.type = "submit_command"
  /\ \/ /\ <<c, n>> \in accepted
        /\ Answer(c, Batch(n + 1, n + 1))
        /\ UNCHANGED <<revision, accepted>>
     \/ /\ Answer(c, Rejected(revision))
        /\ UNCHANGED <<revision, accepted>>
     \/ /\ <<c, n>> \notin accepted
        /\ n = revision /\ c \in joined
        /\ Commit(c)
        /\ accepted' = accepted \cup {<<c, n>>}
  /\ UNCHANGED <<joined, client, c2s, s2c, typed>>

\* Mutant: what does not fit is dropped.
MutSendDropsWhenFull(c) ==
  /\ handler[c].out # <<>>
  /\ s2c' = [s2c EXCEPT ![c] =
       IF Len(@) < SocketCap THEN Append(@, Head(handler[c].out)) ELSE @]
  /\ handler' = [handler EXCEPT ![c].out = <<>>]
  /\ UNCHANGED <<session, client, c2s, typed>>

\* send_host_message: waits for room in the socket.
HandlerSends(c) ==
  /\ handler[c].out # <<>>
  /\ Len(s2c[c]) < SocketCap
  /\ s2c' = [s2c EXCEPT ![c] = Append(@, Head(handler[c].out))]
  /\ handler' = [handler EXCEPT ![c].out = <<>>]
  /\ UNCHANGED <<session, client, c2s, typed>>

-----------------------------------------------------------------------------
\* The task of a client.

\* send_client_message: waits for room in the socket.
ClientSends(c) ==
  /\ client[c].out # <<>>
  /\ Len(c2s[c]) < SocketCap
  /\ c2s' = [c2s EXCEPT ![c] = Append(@, Head(client[c].out))]
  /\ client' = [client EXCEPT ![c].out = Tail(@)]
  /\ UNCHANGED <<session, handler, s2c, typed>>

\* The replica takes the events that continue it; a batch that starts further
\* on is a gap.
ReceiveBatch(x, m) ==
  IF m.from > x.local + 1 THEN [x EXCEPT !.out = <<CatchUpRequest(x.local)>>]
  ELSE IF m.through > x.local THEN [x EXCEPT !.local = m.through]
  ELSE x

ReceiveRejected(x, m) ==
  IF m.current > x.local THEN [x EXCEPT !.out = <<CatchUpRequest(x.local)>>] ELSE x

ClientReceives(c) ==
  /\ client[c].out = <<>>
  /\ s2c[c] # <<>>
  /\ LET m == Head(s2c[c]) IN
     client' = [client EXCEPT ![c] =
       IF m.type = "event_batch" THEN ReceiveBatch(@, m) ELSE ReceiveRejected(@, m)]
  /\ s2c' = [s2c EXCEPT ![c] = Tail(@)]
  /\ UNCHANGED <<session, handler, c2s, typed>>

TypeCommand(c) ==
  /\ client[c].out = <<>>
  /\ typed < MaxTyped
  /\ typed' = typed + 1
  /\ client' = [client EXCEPT ![c].out = <<SubmitCommand(client[c].local)>>]
  /\ UNCHANGED <<session, handler, c2s, s2c>>

-----------------------------------------------------------------------------

HandlerRuns(c) ==
  \/ TakeMessage(c) \/ TakeBroadcast(c) \/ TakeLag(c) \/ FetchSuffix(c)
  \/ DecideJoin(c) \/ DecideSubmit(c) \/ HandlerSends(c)

ClientRuns(c) == ClientSends(c) \/ ClientReceives(c)

Next ==
  \E c \in Clients : HandlerRuns(c) \/ Acquire(c) \/ ClientRuns(c) \/ TypeCommand(c)

\* tokio polls every task that is woken; its mutex is handed to the waiters in
\* turn, also if others keep asking for it; a prompt client reads.  Nothing is
\* assumed of a client that may stall, nor of the user who types.
Fairness ==
  /\ \A c \in Clients : WF_vars(HandlerRuns(c)) /\ SF_vars(Acquire(c))
  /\ \A c \in PromptClients : WF_vars(ClientRuns(c))

Spec == Init /\ [][Next]_vars /\ Fairness

-----------------------------------------------------------------------------

Requests == [type : {"hello", "catch_up_request"}, after : Nat]
ToHost ==
  Requests \cup {JoinSession} \cup [type : {"submit_command"}, expected : Nat]
ToClient ==
  [type : {"event_batch"}, from : Nat, through : Nat]
  \cup [type : {"command_rejected"}, current : Nat]

\* Sockets and subscriptions stay within their capacity, and a task waits for one
\* thing at a time: a handler with an answer to send has nothing else to do.
TypeOK ==
  /\ revision \in Nat \ {0} /\ typed \in 0..MaxTyped
  /\ joined \subseteq Clients /\ accepted \subseteq Clients \X Nat
  /\ handler \in [Clients ->
       [at : {"select", "lock", "locked"}, job : ToHost \cup {Idle},
        out : Seq(ToClient), sent : Nat, sub : Seq(Nat), lagged : BOOLEAN]]
  /\ client \in [Clients -> [local : Nat, out : Seq(ToHost)]]
  /\ c2s \in [Clients -> Seq(ToHost)] /\ s2c \in [Clients -> Seq(ToClient)]
  /\ \A c \in Clients :
       /\ handler[c].at = "select" <=> handler[c].job = Idle
       /\ handler[c].at # "select" => handler[c].out = <<>>
       /\ Len(handler[c].out) <= 1 /\ Len(handler[c].sub) <= Capacity
       /\ Len(c2s[c]) <= SocketCap /\ Len(s2c[c]) <= SocketCap

Covers(m, n) == m.type = "event_batch" /\ n \in m.from..m.through

Asks(m, n) == m.type \in {"hello", "catch_up_request"} /\ m.after < n

\* A batch with event n is in the socket or about to be sent.
Travels(c, n) == \E m \in Range(s2c[c]) \cup Range(handler[c].out) : Covers(m, n)

\* The events from n on, at least, were asked for.
AskedFor(c, n) ==
  \E m \in Range(client[c].out) \cup Range(c2s[c]) \cup {handler[c].job} : Asks(m, n)

\* The subscription has it, or knows that it missed something.
Pending(c, n) ==
  n > handler[c].sent /\ (handler[c].lagged \/ n \in Range(handler[c].sub))

\* However full the sockets are and whatever a subscription overwrites, an event
\* that a client lacks is on its way, asked for or pending: nothing is forgotten
\* between the three ways by which events reach a client (broadcast, the suffix
\* for a hello or a request, the suffix after a lag), although each of them moves
\* sent_sequence, from which the others start.
NoEventIsForgotten ==
  \A c \in Clients, n \in 1..revision :
    n <= client[c].local \/ Travels(c, n) \/ AskedFor(c, n) \/ Pending(c, n)

\* Both ends of the connection wait for the other to read.
Jammed(c) ==
  /\ handler[c].out # <<>> /\ Len(s2c[c]) = SocketCap
  /\ client[c].out # <<>> /\ Len(c2s[c]) = SocketCap

\* "A slow connection cannot block authoritative commit indefinitely" (ADR 0008):
\* a handler that asks for the canonical session gets it, whatever the other
\* connections and its own client do.
CommitsAreNeverBlocked ==
  \A c \in Clients : handler[c].at = "lock" ~> handler[c].at = "select"

\* Slowness stays on its connection.  A client that goes on reading ends up with
\* every event of the session, however far its subscription fell behind and
\* however the others stall, unless its own two ends wait for each other: the one
\* standstill the code allows, as nothing in it limits the time of a write.
SlownessIsLocal ==
  \A c \in PromptClients : <>[](client[c].local = revision \/ Jammed(c))

=============================================================================
