-------------------------------- MODULE Node --------------------------------
(***************************************************************************)
(* The host, its WebSocket connections and the interactive clients (crate  *)
(* sytog-node: serve, handle_connection, connect_client).                  *)
(*                                                                         *)
(* A connection is a slot of conn, used once.  Both directions are FIFO;   *)
(* what is under way is lost when an end goes away.  The server end of a   *)
(* connection outlives the client and still handles what had arrived.      *)
(* Every handler takes the host's lock at most once and changes only its   *)
(* own connection besides, so it is one action.                            *)
(*                                                                         *)
(* The client saves its replica after every batch and changes it nowhere   *)
(* else, so the file and the memory of a waiting client agree and one      *)
(* variable stands for both; a client that stops before it saved keeps the *)
(* older one.                                                              *)
(***************************************************************************)
EXTENDS Host, ClientReplica

CONSTANTS
  Clients,          \* the participants that run connect_client
  SnapshotClients,  \* those whose replica may be an old snapshot at first
  Capacity,         \* capacity of the broadcast channel (256 in the code)
  MaxConns,         \* connections ever opened (a bound)
  MaxTyped,         \* commands ever typed (a bound)
  MaxCrashes,       \* crashes of the host process (a bound)
  JoinId(_),        \* "<participant>-2", the id of a client's JoinSession
  CommandId(_, _)   \* "<participant>:command:<revision>"

ASSUME NodeAssumption ==
  /\ Clients \subseteq Participants \ {HostId}
  /\ SnapshotClients \subseteq Clients
  /\ Capacity \in Nat \ {0}
  /\ MaxConns \in Nat /\ MaxTyped \in Nat /\ MaxCrashes \in Nat
  /\ \A c \in Clients : JoinId(c) \in ClientMessageIds
  /\ \A c \in Clients, n \in U64 : CommandId(c, n) \in ClientMessageIds

VARIABLES
  conn,      \* the connections
  link,      \* the connection each client uses, 0 for none
  replica,   \* the replica each client holds and has saved
  failed,    \* history: the clients that ever stopped with an error
  typed,     \* commands typed so far
  crashes    \* crashes so far

net == <<conn, link, replica, failed, typed, crashes>>
nodeVars == <<vars, net>>

Conns == 1..MaxConns

ClosedConn(use) ==
  [server |-> use, owner |-> HostId, c2s |-> <<>>, s2c |-> <<>>, sent |-> 0,
   participant |-> FALSE, sub |-> <<>>, lagged |-> FALSE]

NodeInit ==
  /\ Init
  /\ conn = [k \in Conns |-> ClosedConn("unused")]
  /\ link = [c \in Clients |-> 0]
  /\ replica \in [Clients ->
       {FreshReplica} \cup
       {SnapshotReplica(Replay(Uninitialized,
                               SubSeq(LoadedEvents(journal.entries), 1, n)).state)
          : n \in 1..Len(journal.entries)}]
  /\ \A c \in Clients \ SnapshotClients : replica[c] = FreshReplica
  /\ failed = {}
  /\ typed = 0
  /\ crashes = 0

-----------------------------------------------------------------------------
\* Messages.

Batch(es) == [type |-> "event_batch", events |-> es]
Rejected(revision) == [type |-> "command_rejected", current_revision |-> revision]
Hello(n) == [type |-> "hello", last_sequence |-> n]
JoinSession == [type |-> "join_session"]
SubmitCommand(r) == [type |-> "submit_command", request |-> r]
CatchUpRequest(n) == [type |-> "catch_up_request", after_sequence |-> n]

\* Whether the client end of a connection still reads.
Attached(k) == \E c \in Clients : link[c] = k

\* A connection after one message was sent to its client.
Sent(x, k, msg) == IF Attached(k) THEN [x EXCEPT !.s2c = Append(@, msg)] ELSE x

Consumed(x) == [x EXCEPT !.c2s = Tail(@)]

\* The events of a sequence that come after sequence number n, in their order.
Later(es, n) ==
  LET kept[i \in 0..Len(es)] ==
        IF i = 0 THEN <<>>
        ELSE kept[i - 1] \o (IF es[i].sequence > n THEN <<es[i]>> ELSE <<>>)
  IN  kept[Len(es)]

\* Mutant: the first missing event is left out.
MutEventsAfterNext(n) == Later(events, n + 1)

\* Host::events_after.
EventsAfter(n) == Later(events, n)

\* A receiver of the tokio broadcast channel after a send: at capacity the
\* oldest value is overwritten and the receiver will be told that it lags.
Subscribed(x, es) ==
  IF x.server # "open" THEN x
  ELSE IF Len(x.sub) < Capacity THEN [x EXCEPT !.sub = Append(@, es)]
  ELSE [x EXCEPT !.sub = Append(Tail(@), es), !.lagged = TRUE]

\* The connections once the host process is gone; what it had sent may still
\* be read.
Severed ==
  [k \in Conns |->
     IF conn[k].server \in {"pending", "open"}
     THEN [ClosedConn("closed") EXCEPT !.owner = conn[k].owner, !.s2c = conn[k].s2c]
     ELSE conn[k]]

-----------------------------------------------------------------------------
\* The host's side of a connection.

\* serve accepts the connection; handle_connection subscribes first.
AcceptConn(k) ==
  /\ status = "up"
  /\ conn[k].server = "pending"
  /\ conn' = [conn EXCEPT ![k].server = "open"]
  /\ UNCHANGED <<vars, link, replica, failed, typed, crashes>>

Incoming(k, type) ==
  /\ conn[k].server = "open"
  /\ conn[k].c2s # <<>>
  /\ Head(conn[k].c2s).type = type

\* A suffix of the journal goes out and sent_sequence follows it.
SendSuffix(x, k, es) ==
  IF es = <<>> THEN x
  ELSE [Sent(x, k, Batch(es)) EXCEPT !.sent = es[Len(es)].sequence]

\* Mutant: a hello only records where the client is.
MutHelloWithoutSuffix(k) ==
  /\ Incoming(k, "hello")
  /\ conn' = [conn EXCEPT ![k] =
       [Consumed(@) EXCEPT !.sent = Head(conn[k].c2s).last_sequence]]
  /\ UNCHANGED <<vars, link, replica, failed, typed, crashes>>

HandleHello(k) ==
  /\ Incoming(k, "hello")
  /\ LET n == Head(conn[k].c2s).last_sequence
         x == [Consumed(conn[k]) EXCEPT !.sent = n]
     IN  conn' = [conn EXCEPT ![k] = SendSuffix(x, k, EventsAfter(n))]
  /\ UNCHANGED <<vars, link, replica, failed, typed, crashes>>

HandleCatchUp(k) ==
  /\ Incoming(k, "catch_up_request")
  /\ LET n == Head(conn[k].c2s).after_sequence
     IN  conn' = [conn EXCEPT ![k] = SendSuffix(Consumed(conn[k]), k, EventsAfter(n))]
  /\ UNCHANGED <<vars, link, replica, failed, typed, crashes>>

\* What the connections look like after the host answered a join or a submit
\* that came in on k: an acceptance goes to every subscription, a duplicate's
\* events go straight back, a refusal carries the current revision.
AfterAnswer(k, x) ==
  CASE reply'.code = "accepted" ->
         [j \in Conns |-> Subscribed(IF j = k THEN x ELSE conn[j], reply'.events)]
    [] reply'.code = "duplicate" ->
         [conn EXCEPT ![k] = Sent(x, k, Batch(reply'.events))]
    [] reply'.code = "already_joined" -> [conn EXCEPT ![k] = x]
    [] OTHER -> [conn EXCEPT ![k] = Sent(x, k, Rejected(state.revision))]

\* Either the host answered, or its process died in the append.
Handled(k, x) ==
  /\ IF status' = "up"
     THEN conn' = AfterAnswer(k, x) /\ UNCHANGED crashes
     ELSE /\ crashes < MaxCrashes
          /\ crashes' = crashes + 1
          /\ conn' = Severed
  /\ UNCHANGED <<link, replica, failed, typed>>

HandleJoin(k) ==
  LET c == conn[k].owner IN
  /\ Incoming(k, "join_session")
  /\ JoinAgain(c, JoinId(c)) \/ Join(c, JoinId(c), FALSE)
  /\ Handled(k, [Consumed(conn[k]) EXCEPT !.participant = TRUE])

\* A submit before the join is answered sender_mismatch without the host.
HandleSubmit(k) ==
  /\ Incoming(k, "submit_command")
  /\ IF conn[k].participant
     THEN /\ Submit(Head(conn[k].c2s).request)
          /\ Handled(k, Consumed(conn[k]))
     ELSE /\ conn' = [conn EXCEPT ![k] =
               Sent(Consumed(conn[k]), k, Rejected(state.revision))]
          /\ UNCHANGED <<vars, link, replica, failed, typed, crashes>>

\* subscription.recv(): the oldest value kept, or everything after
\* sent_sequence once the receiver lagged; events already sent are left out.
HandleBroadcast(k) ==
  LET x  == conn[k]
      es == Later(IF x.lagged THEN EventsAfter(x.sent) ELSE Head(x.sub), x.sent)
      y  == IF x.lagged THEN [x EXCEPT !.lagged = FALSE]
            ELSE [x EXCEPT !.sub = Tail(@)]
  IN
  /\ x.server = "open"
  /\ x.lagged \/ x.sub # <<>>
  /\ conn' = [conn EXCEPT ![k] = SendSuffix(y, k, es)]
  /\ UNCHANGED <<vars, link, replica, failed, typed, crashes>>

\* The client is gone: the handler reads the end of the stream, or a write fails.
HandlerEnds(k) ==
  /\ conn[k].server \in {"pending", "open"}
  /\ ~Attached(k)
  /\ conn' = [conn EXCEPT ![k] = ClosedConn("closed")]
  /\ UNCHANGED <<vars, link, replica, failed, typed, crashes>>

HostStarts == Start /\ UNCHANGED net

HostCrashes ==
  /\ crashes < MaxCrashes
  /\ Crash
  /\ crashes' = crashes + 1
  /\ conn' = Severed
  /\ UNCHANGED <<link, replica, failed, typed>>

-----------------------------------------------------------------------------
\* The clients.

\* connect_client up to its loop: load the replica, say hello, join; or stop at a
\* stored replica that does not load.
Connect(c) ==
  LET n == replica[c].state.revision IN
  /\ status = "up"
  /\ link[c] = 0
  /\ \E k \in Conns :
       /\ conn[k].server = "unused"
       /\ \A j \in Conns : j < k => conn[j].server # "unused"
       /\ IF LoadsReplica(replica[c])
          THEN /\ conn' = [conn EXCEPT ![k] = [ClosedConn("pending") EXCEPT
                             !.owner = c, !.c2s = <<Hello(n), JoinSession>>]]
               /\ link' = [link EXCEPT ![c] = k]
               /\ UNCHANGED failed
          ELSE /\ failed' = failed \cup {c}
               /\ UNCHANGED <<conn, link>>
  /\ UNCHANGED <<vars, replica, typed, crashes>>

\* A message from the client reaches the server end unless that is closed.
Upstream(x, msg) ==
  IF x.server = "closed" THEN x ELSE [x EXCEPT !.c2s = Append(@, msg)]

\* A line of input that parses as an activity command.
TypeCommand(c, payload) ==
  LET n == replica[c].state.revision
      r == [message_id |-> CommandId(c, n), actor |-> c, expected_revision |-> n,
            command |-> [type |-> "activity", descriptor |-> EngineDescriptor,
                         payload |-> payload]]
  IN
  /\ link[c] # 0
  /\ typed < MaxTyped
  /\ typed' = typed + 1
  /\ conn' = [conn EXCEPT ![link[c]] = Upstream(@, SubmitCommand(r))]
  /\ UNCHANGED <<vars, link, replica, failed, crashes>>

\* The client's side of connection k goes away.
Detached(x) ==
  IF x.server = "closed" THEN ClosedConn("closed") ELSE [x EXCEPT !.s2c = <<>>]

Detach(c) ==
  /\ conn' = [conn EXCEPT ![link[c]] = Detached(@)]
  /\ link' = [link EXCEPT ![c] = 0]

Arrived(c, type) ==
  /\ link[c] # 0
  /\ conn[link[c]].s2c # <<>>
  /\ Head(conn[link[c]].s2c).type = type

\* An EventBatch: reduce, save, ask for what is missing; or stop with an error
\* and nothing saved.
ReceiveBatch(c) ==
  /\ Arrived(c, "event_batch")
  /\ LET k     == link[c]
         x     == [conn[k] EXCEPT !.s2c = Tail(@)]
         after == AfterBatch(replica[c], Head(conn[k].s2c).events)
     IN  IF after.end = "failed"
         THEN /\ Detach(c)
              /\ failed' = failed \cup {c}
              /\ UNCHANGED replica
         ELSE /\ replica' = [replica EXCEPT ![c] = after.replica]
              /\ conn' = [conn EXCEPT ![k] =
                   IF after.end = "gap"
                   THEN Upstream(x, CatchUpRequest(after.replica.state.revision))
                   ELSE x]
              /\ UNCHANGED <<link, failed>>
  /\ UNCHANGED <<vars, typed, crashes>>

ReceiveRejected(c) ==
  /\ Arrived(c, "command_rejected")
  /\ LET k == link[c]
         x == [conn[k] EXCEPT !.s2c = Tail(@)]
         n == replica[c].state.revision
     IN  conn' = [conn EXCEPT ![k] =
           IF Head(conn[k].s2c).current_revision > n
           THEN Upstream(x, CatchUpRequest(n)) ELSE x]
  /\ UNCHANGED <<vars, link, replica, failed, typed, crashes>>

\* The client reads the end of the stream.
ReceiveEof(c) ==
  /\ link[c] # 0
  /\ conn[link[c]].server = "closed"
  /\ conn[link[c]].s2c = <<>>
  /\ Detach(c)
  /\ UNCHANGED <<vars, replica, failed, typed, crashes>>

\* The user quits, the connection breaks, or the client process stops, possibly
\* in the middle of a batch it has not saved.
Disconnect(c) ==
  /\ link[c] # 0
  /\ Detach(c)
  /\ UNCHANGED <<vars, replica, failed, typed, crashes>>

-----------------------------------------------------------------------------

HandlerStep(k) ==
  \/ AcceptConn(k) \/ HandleHello(k) \/ HandleCatchUp(k) \/ HandleJoin(k)
  \/ HandleSubmit(k) \/ HandleBroadcast(k) \/ HandlerEnds(k)

ClientStep(c) == ReceiveBatch(c) \/ ReceiveRejected(c) \/ ReceiveEof(c)

NodeNext ==
  \/ HostStarts
  \/ HostCrashes
  \/ \E k \in Conns : HandlerStep(k)
  \/ \E c \in Clients :
       \/ Connect(c)
       \/ \E payload \in ActivityPayloads : TypeCommand(c, payload)
       \/ ClientStep(c)
       \/ Disconnect(c)

NodeSpec == NodeInit /\ [][NodeNext]_nodeVars

\* When the task of connection k, or client c, has something to do: exactly when
\* HandlerStep(k), or ClientStep(c), is enabled.
HandlerReady(k) ==
  \/ conn[k].server = "pending" /\ (status = "up" \/ ~Attached(k))
  \/ /\ conn[k].server = "open"
     /\ \/ conn[k].c2s # <<>>
        \/ conn[k].sub # <<>>
        \/ conn[k].lagged
        \/ ~Attached(k)

ClientReady(c) ==
  link[c] # 0 /\ (conn[link[c]].s2c # <<>> \/ conn[link[c]].server = "closed")

\* Weak fairness, with the enabling condition written out: the host is started
\* again after a crash; a connection's task and a client that have something to
\* do get their turn (tokio polls every task that is woken, and select! takes a
\* branch that is ready).
Fairness ==
  /\ []<>(status = "up") \/ []<><<StartEmpty \/ StartRecovered>>_nodeVars
  /\ \A k \in Conns : []<>(~HandlerReady(k)) \/ []<><<HandlerStep(k)>>_nodeVars
  /\ \A c \in Clients : []<>(~ClientReady(c)) \/ []<><<ClientStep(c)>>_nodeVars

LiveNodeSpec == NodeSpec /\ Fairness

-----------------------------------------------------------------------------

Messages ==
  [type : {"event_batch"}, events : Seq(SessionEvents)]
  \cup [type : {"command_rejected"}, current_revision : U64]
  \cup [type : {"hello"}, last_sequence : U64]
  \cup [type : {"join_session"}]
  \cup [type : {"submit_command"}, request : CommandRequests]
  \cup [type : {"catch_up_request"}, after_sequence : U64]

NodeTypeOK ==
  /\ TypeOK
  /\ conn \in [Conns -> [server : {"unused", "pending", "open", "closed"},
                         owner : Clients \cup {HostId}, c2s : Seq(Messages),
                         s2c : Seq(Messages), sent : U64, participant : BOOLEAN,
                         sub : Seq(Seq(SessionEvents)), lagged : BOOLEAN]]
  /\ link \in [Clients -> Conns \cup {0}]
  /\ replica \in [Clients -> Replicas]
  /\ failed \subseteq Clients
  /\ typed \in 0..MaxTyped
  /\ crashes \in 0..MaxCrashes

Durable == LoadedEvents(journal.entries)

\* A replica never diverges from the host: whatever batches were duplicated,
\* filtered, lost with a connection or cut short by a crash of either side, the
\* events a client has reduced are those of the durable journal up to its
\* revision, and its state is the replay of them (INV-005).
ReplicasFollowJournal ==
  \A c \in Clients :
    LET rep == replica[c]
        n   == rep.base + Len(rep.events)
    IN  /\ n <= Len(Durable)
        /\ rep.events = SubSeq(Durable, rep.base + 1, n)
        /\ rep.state = Replay(Uninitialized, SubSeq(Durable, 1, n)).state

\* Persistence before broadcast (INV-013): an event on its way to a client, in a
\* socket or in a subscription, is already in the journal at its sequence, so a
\* crash cannot take back what a client may have seen.
OnlyDurableEventsTravel ==
  \A k \in Conns :
    LET InJournal(es) ==
          \A i \in DOMAIN es : /\ es[i].sequence \in DOMAIN Durable
                               /\ Durable[es[i].sequence] = es[i]
    IN  /\ \A i \in DOMAIN conn[k].sub : InJournal(conn[k].sub[i])
        /\ \A i \in DOMAIN conn[k].s2c :
             conn[k].s2c[i].type = "event_batch" => InJournal(conn[k].s2c[i].events)

\* A client never stops with an error over what the host sends it: "A client
\* with a local snapshot at revision N can announce N, request strictly later
\* events, and reduce the contiguous suffix" (INV-011).
ClientsNeverFail == failed = {}

\* Once commands, connections and crashes cease, the host serves and every
\* client that stays connected holds the host's revision and its state
\* (INV-005, INV-011).
ClientsConverge ==
  <>[](/\ status = "up"
       /\ \A c \in Clients : link[c] # 0 => replica[c].state = state)

=============================================================================
