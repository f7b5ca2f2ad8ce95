----------------------------- MODULE RealtimeHub -----------------------------
(***************************************************************************)
(* The WebSocket stream of the Rust back end: the hub of                   *)
(* back-end/src/services/todo_realtime_service.rs and the two tasks of     *)
(* every connection in controllers/todo_realtime_controller.rs.            *)
(*                                                                         *)
(* The hub keeps, under a lock, the senders of the channels of every user  *)
(* (`clients').  A connection's send task forwards what arrives on its     *)
(* channel to the socket; its receive loop ends when the peer is gone,     *)
(* stops the send task and unsubscribes the user.  A broadcast is known by *)
(* its number; `log' remembers how often it was sent to whom.              *)
(***************************************************************************)
EXTENDS Naturals, Sequences, FiniteSets

CONSTANTS User, Conn,  \* users, and the sockets they open
          UserOf,      \* the user a socket was authenticated for
          MaxEvents    \* bound on the broadcasts of a behaviour

ASSUME HubAssumption == UserOf \in [Conn -> User] /\ MaxEvents \in Nat

VARIABLES
  clients,  \* user -> the connections whose sender is in the hub
  sock,     \* the socket, as the receive loop knows it
  task,     \* the send task, which owns the receiving end of the channel
  queue,    \* the events in the channel
  seen,     \* the events that reached the peer
  log,      \* history: for every broadcast, the copies sent to each user
  since     \* history: the broadcasts before a connection subscribed

vars == <<clients, sock, task, queue, seen, log, since>>

TypeOK ==
  /\ clients \in [User -> SUBSET Conn]
  /\ \A u \in User : \A c \in clients[u] : UserOf[c] = u
  /\ sock \in [Conn -> {"new", "open", "gone", "leaving", "closed"}]
  /\ task \in [Conn -> {"none", "running", "ended"}]
  /\ queue \in [Conn -> Seq(1..Len(log))]
  /\ seen \in [Conn -> Seq(1..Len(log))]
  /\ log \in Seq([User -> Nat]) /\ Len(log) <= MaxEvents
  /\ since \in [Conn -> 0..Len(log)]

Init ==
  /\ clients = [u \in User |-> {}]
  /\ sock = [c \in Conn |-> "new"]
  /\ task = [c \in Conn |-> "none"]
  /\ queue = [c \in Conn |-> <<>>]
  /\ seen = [c \in Conn |-> <<>>]
  /\ log = <<>>
  /\ since = [c \in Conn |-> 0]

Subscribed(c) == c \in clients[UserOf[c]]

-----------------------------------------------------------------------------
\* Mutant: under the user that the request names, not the one of its token.
SubscribeNamed(c) ==
  /\ sock[c] = "new"
  /\ sock' = [sock EXCEPT ![c] = "open"]
  /\ task' = [task EXCEPT ![c] = "running"]
  /\ \E u \in User : clients' = [clients EXCEPT ![u] = @ \cup {c}]
  /\ since' = [since EXCEPT ![c] = Len(log)]
  /\ UNCHANGED <<queue, seen, log>>

\* The upgrade: subscribe, then spawn the send task.
Subscribe(c) ==
  /\ sock[c] = "new"
  /\ sock' = [sock EXCEPT ![c] = "open"]
  /\ task' = [task EXCEPT ![c] = "running"]
  /\ clients' = [clients EXCEPT ![UserOf[c]] = @ \cup {c}]
  /\ since' = [since EXCEPT ![c] = Len(log)]
  /\ UNCHANGED <<queue, seen, log>>

\* How often u is among the targets, to which the actor is added if absent.
Copies(actor, targets, u) ==
  IF u = actor /\ \A i \in DOMAIN targets : targets[i] # u THEN 1
  ELSE Cardinality({i \in DOMAIN targets : targets[i] = u})

\* One send per copy; a sender whose receiver is gone is dropped.
Broadcast(actor, targets) ==
  LET e == Len(log) + 1
      copies == [u \in User |-> Copies(actor, targets, u)]
  IN /\ Len(log) < MaxEvents
     /\ log' = Append(log, copies)
     /\ queue' = [c \in Conn |->
          IF Subscribed(c) /\ task[c] = "running"
          THEN queue[c] \o [i \in 1..copies[UserOf[c]] |-> e] ELSE queue[c]]
     /\ clients' = [u \in User |->
          IF copies[u] > 0 THEN {c \in clients[u] : task[c] = "running"}
          ELSE clients[u]]
     /\ UNCHANGED <<sock, task, seen, since>>

\* Mutant: the newest event first.
ForwardNewest(c) ==
  /\ task[c] = "running" /\ queue[c] # <<>>
  /\ LET n == Len(queue[c]) IN
     /\ seen' = [seen EXCEPT ![c] = Append(@, queue[c][n])]
     /\ queue' = [queue EXCEPT ![c] = SubSeq(@, 1, n - 1)]
  /\ UNCHANGED <<clients, sock, task, log, since>>

\* Mutant: a watch channel, which keeps only the newest event.
ForwardLast(c) ==
  /\ task[c] = "running" /\ queue[c] # <<>>
  /\ seen' = [seen EXCEPT ![c] = Append(@, queue[c][Len(queue[c])])]
  /\ queue' = [queue EXCEPT ![c] = <<>>]
  /\ UNCHANGED <<clients, sock, task, log, since>>

\* The send task.  To a peer that is gone a send is lost, or fails and ends the
\* task.
Forward(c) ==
  /\ task[c] = "running" /\ queue[c] # <<>>
  /\ \/ /\ sock[c] = "open"
        /\ seen' = [seen EXCEPT ![c] = Append(@, Head(queue[c]))]
        /\ queue' = [queue EXCEPT ![c] = Tail(@)]
        /\ UNCHANGED task
     \/ /\ sock[c] # "open"
        /\ queue' = [queue EXCEPT ![c] = Tail(@)]
        /\ UNCHANGED <<seen, task>>
     \/ /\ sock[c] # "open"
        /\ task' = [task EXCEPT ![c] = "ended"]
        /\ queue' = [queue EXCEPT ![c] = <<>>]
        /\ UNCHANGED seen
  /\ UNCHANGED <<clients, sock, log, since>>

\* Mutant: the receiver is closed at once, with what is in the channel.
ChannelDrops(c) ==
  /\ task[c] = "running" /\ ~Subscribed(c)
  /\ task' = [task EXCEPT ![c] = "ended"]
  /\ queue' = [queue EXCEPT ![c] = <<>>]
  /\ UNCHANGED <<clients, sock, seen, log, since>>

\* rx.recv() returns None: the hub has dropped the last sender.  The receive
\* loop does not notice.
ChannelCloses(c) ==
  /\ task[c] = "running" /\ queue[c] = <<>> /\ ~Subscribed(c)
  /\ task' = [task EXCEPT ![c] = "ended"]
  /\ UNCHANGED <<clients, sock, queue, seen, log, since>>

PeerCloses(c) ==
  /\ sock[c] = "open"
  /\ sock' = [sock EXCEPT ![c] = "gone"]
  /\ UNCHANGED <<clients, task, queue, seen, log, since>>

\* Mutant: no remove_all_for_user.
StopOnly(c) ==
  /\ sock[c] = "gone"
  /\ sock' = [sock EXCEPT ![c] = "closed"]
  /\ task' = [task EXCEPT ![c] = "ended"]
  /\ queue' = [queue EXCEPT ![c] = <<>>]
  /\ UNCHANGED <<clients, seen, log, since>>

\* The receive loop ends and aborts the send task ...
StopSending(c) ==
  /\ sock[c] = "gone"
  /\ sock' = [sock EXCEPT ![c] = "leaving"]
  /\ task' = [task EXCEPT ![c] = "ended"]
  /\ queue' = [queue EXCEPT ![c] = <<>>]
  /\ UNCHANGED <<clients, seen, log, since>>

\* ... and, once it has the hub's lock, remove_all_for_user.
RemoveAll(c) ==
  /\ sock[c] = "leaving"
  /\ sock' = [sock EXCEPT ![c] = "closed"]
  /\ clients' = [clients EXCEPT ![UserOf[c]] = {}]
  /\ UNCHANGED <<task, queue, seen, log, since>>

-----------------------------------------------------------------------------
\* broadcast_todo_event names the reporter and the assignee of a todo, who may
\* be the same, or nobody.
Targets == {<<>>} \cup {<<u, v>> : u \in User, v \in User}

Serve(c) == Forward(c) \/ ChannelCloses(c) \/ StopSending(c) \/ RemoveAll(c)

Next == \/ \E c \in Conn : Subscribe(c) \/ PeerCloses(c) \/ Serve(c)
        \/ \E actor \in User, targets \in Targets : Broadcast(actor, targets)

Spec == Init /\ [][Next]_vars

\* The runtime polls every task that is ready.
FairSpec == Spec /\ \A c \in Conn : WF_vars(Serve(c))

-----------------------------------------------------------------------------
(* Properties *)

Received(c) == seen[c] \o queue[c]

\* A connection is sent the events of its user only, in the order of the
\* broadcasts, each as often as it was sent to the user at most.
OnlyOwnInOrder ==
  \A c \in Conn :
    /\ \A i, j \in DOMAIN Received(c) : i <= j => Received(c)[i] <= Received(c)[j]
    /\ \A e \in 1..Len(log) :
         Cardinality({i \in DOMAIN Received(c) : Received(c)[i] = e})
           <= IF e > since[c] THEN log[e][UserOf[c]] ELSE 0

\* As long as the hub holds its sender, an open connection misses nothing that
\* was sent to its user since it subscribed.
SubscribedMissesNothing ==
  \A c \in Conn : sock[c] = "open" /\ Subscribed(c) =>
    \A e \in (since[c] + 1)..Len(log) :
      Cardinality({i \in DOMAIN Received(c) : Received(c)[i] = e})
        = log[e][UserOf[c]]

\* No leak: what a connection left in the hub when its peer went is removed, and
\* its send task ends.
GoneIsForgotten ==
  \A c \in Conn : sock[c] = "gone" ~> ~Subscribed(c) /\ task[c] = "ended"

\* What is in the channel of a connection reaches its peer, unless the peer goes.
EventsArrive ==
  \A c \in Conn : \A e \in 1..MaxEvents :
    (\E i \in DOMAIN queue[c] : queue[c][i] = e)
      ~> (\E i \in DOMAIN seen[c] : seen[c][i] = e) \/ sock[c] # "open"

\* README.md: who opens GET /todos/stream is "to receive real-time todo changes".
\* When one connection of a user ends, the others stay open and are dropped from
\* the hub with it.
OpenIsSubscribed == \A c \in Conn : sock[c] = "open" => Subscribed(c)
=============================================================================
