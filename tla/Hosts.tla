-------------------------------- MODULE Hosts --------------------------------
(***************************************************************************)
(* The router and its hosts, src/NetGroup.c.  A host is a thread that      *)
(* receives from a work queue of its own and calls the user's callbacks;   *)
(* from inside a callback it sends to other hosts, waiting INFINITE for    *)
(* room in their queues.  The message server's thread sends too, and the   *)
(* thread that creates and deletes the router tells the hosts to end by    *)
(* messages in the same queues.                                            *)
(*                                                                         *)
(* A host's queue is what BoundedFifo promises of src/WQ.c: a FIFO of at   *)
(* most Capacity messages, in which the one being handled keeps its place. *)
(* It is kept as everything that ever arrived and the number of messages   *)
(* dropped so far; the k-th arrival uses slot (k - 1) % Capacity, and a    *)
(* slot's ack semaphore is acks[host][slot].                               *)
(***************************************************************************)
EXTENDS Platform, Sequences, FiniteSets

CONSTANTS
  HostLen,       \* _host_len; a host is its place in the list of the hosts
  Talks,         \* Talks[h]: the hosts that h's callbacks send unicasts to
  Broadcasters,  \* the hosts whose callbacks broadcast
  Blockers,      \* the hosts that may pass WQ_SEND_FLAGS_BLOCK
  Alarmed,       \* the hosts that have alarms
  Capacity,      \* _queue_length
  MaxCalls,      \* bound: calls of the router's functions per host
  MaxServerCasts,\* bound: datagrams the message server hands on
  Routes,        \* 0 .. _max_routeindex - 1
  MayFail,       \* TRUE: NetGroup_router_create may fail
  MayDelete      \* TRUE: the owner may call NetGroup_router_delete

Hosts == 1 .. HostLen
NULL == 0                            \* no host
Owner == HostLen + 1                 \* runs router_create and router_delete
Server == HostLen + 2                \* message_server_start_routine
Threads == Hosts \cup {Owner, Server}

ASSUME HostLenAssumption == HostLen \in Nat
ASSUME TalksAssumption ==
  Talks \in [Hosts -> SUBSET Hosts] /\ Broadcasters \cup Blockers \cup Alarmed \subseteq Hosts
ASSUME CapacityAssumption == Capacity \in Nat \ {0}
ASSUME BoundsAssumption == MaxCalls \in Nat /\ MaxServerCasts \in Nat /\ Routes \subseteq Nat
ASSUME MayAssumption == MayFail \in BOOLEAN /\ MayDelete \in BOOLEAN

VARIABLES
  listed,       \* the length of the linked list router->_net_hosts
  arrived,      \* per host: the messages copied into its queue so far
  dropped,      \* ... how many of them have been dropped
  held,         \* ... is the oldest of the others being handled?
  acks,         \* ... the ack semaphores of its slots
  loc,          \* where a host's thread is in host_start_routine
  todo,         \* per thread: the hosts its call has still to send to
  msg,          \* ... and the message it sends
  awaits,       \* ... << >>, or the <<host, slot>> whose ack it waits for
  calls,        \* ... how often it has sent or changed a route
  routetable,   \* _routetable
  members,      \* history: who has joined which route and not dropped it
  server,       \* the message server: "off", "up" or "ended"
  owner         \* where the owner is in router_create or router_delete

queues == <<arrived, dropped, held, acks>>
senders == <<todo, msg, awaits, calls>>
routes == <<routetable, members>>
vars == <<listed, queues, loc, senders, routes, server, owner>>

Casts == {"unicast", "broadcast", "multicast", "disconnect", "closing"}
CallLimit(t) == CASE t = Owner -> 2 [] t = Server -> MaxServerCasts [] OTHER -> MaxCalls
Messages == [cast : Casts, from : Threads, n : 0 .. MaxCalls + MaxServerCasts + 2,
             block : BOOLEAN]
Slots == 0 .. Capacity - 1
Columns == 1 .. HostLen

(* The user's callbacks and where host_start_routine goes on after each. *)
Callbacks == {"init", "connected", "alarm", "handle", "disconnected", "deinit"}
(* As elsewhere, Wrong... names a faulty variant of what follows: here one *)
(* that goes on to wait without dropping the message it has handled.       *)
WrongAfter == [init |-> "connected", connected |-> "schedule", alarm |-> "receive",
               handle |-> "wait", disconnected |-> "schedule", deinit |-> "ended"]

After == [init |-> "connected", connected |-> "schedule", alarm |-> "receive",
          handle |-> "schedule", disconnected |-> "schedule", deinit |-> "ended"]
Locations == Callbacks \cup {"unborn", "schedule", "receive", "wait", "ended"}

Phases == {"create", "run", "joining", "disconnect", "closing", "freed"}

TypeOK ==
  /\ listed \in 0 .. HostLen
  /\ arrived \in [Hosts -> Seq(Messages)] /\ dropped \in [Hosts -> Nat]
  /\ held \in [Hosts -> BOOLEAN] /\ acks \in [Hosts -> [Slots -> Nat]]
  /\ loc \in [Hosts -> Locations]
  /\ todo \in [Threads -> SUBSET Hosts] /\ msg \in [Threads -> Messages]
  /\ awaits \in [Threads -> (Hosts \X Slots) \cup {<< >>}]
  /\ calls \in [Threads -> Nat] /\ \A t \in Threads : calls[t] <= CallLimit(t)
  /\ routetable \in [Routes -> [Columns -> Hosts \cup {NULL}]]
  /\ members \subseteq Routes \X Hosts
  /\ server \in {"off", "up", "ended"} /\ owner \in Phases
  /\ \A h \in Hosts : Len(arrived[h]) - dropped[h] \in 0 .. Capacity

(* NetGroup_router_create up to the point where it runs the hosts. *)
Init ==
  /\ listed = HostLen
  /\ arrived = [h \in Hosts |-> << >>] /\ dropped = [h \in Hosts |-> 0]
  /\ held = [h \in Hosts |-> FALSE] /\ acks = [h \in Hosts |-> [i \in Slots |-> 0]]
  /\ loc = [h \in Hosts |-> "unborn"]
  /\ todo = [t \in Threads |-> {}] /\ awaits = [t \in Threads |-> << >>]
  /\ msg = [t \in Threads |-> [cast |-> "closing", from |-> t, n |-> 0, block |-> FALSE]]
  /\ calls = [t \in Threads |-> 0]
  /\ routetable = [r \in Routes |-> [i \in Columns |-> NULL]] /\ members = {}
  /\ server = "off" /\ owner = "create"
-----------------------------------------------------------------------------
(* WQ_send, as used by every function here: wait INFINITE for a free slot, *)
(* copy, and with the blocking flag wait INFINITE for the acknowledgement. *)

(* Does not count the message that is being handled. *)
WrongOccupied(h) == Len(arrived[h]) - dropped[h] - (IF held[h] THEN 1 ELSE 0)

Occupied(h) == Len(arrived[h]) - dropped[h]

Sending(t) == todo[t] # {} \/ awaits[t] # << >>

(* The thread t calls a function that sends a message to the given hosts.  *)
StartCall(t, cast, targets, block) ==
  /\ calls' = [calls EXCEPT ![t] = @ + 1]
  /\ msg' = [msg EXCEPT ![t] = [cast |-> cast, from |-> t, n |-> calls[t] + 1, block |-> block]]
  /\ todo' = [todo EXCEPT ![t] = targets]

(* Hosts are sent to in the order of the list.  (A multicast goes by the   *)
(* columns of the route instead, which hosts fill in any order.)           *)
Turn(t, h) ==
  /\ awaits[t] = << >>
  /\ h \in todo[t]
  /\ msg[t].cast = "multicast" \/ \A g \in todo[t] : h <= g

(* The message is put into the queue of the host whose turn it is. *)
Send(t, h) ==
  /\ Turn(t, h)
  /\ "WQ_SIGNALED" \in LockOutcomes(Capacity - Occupied(h), "INFINITE")
  /\ arrived' = [arrived EXCEPT ![h] = Append(@, msg[t])]
  /\ todo' = [todo EXCEPT ![t] = @ \ {h}]
  /\ awaits' = [awaits EXCEPT ![t] =
                  IF msg[t].block THEN <<h, Len(arrived[h]) % Capacity>> ELSE << >>]
  /\ UNCHANGED <<listed, dropped, held, acks, loc, msg, calls, routes, server, owner>>

(* The wait for a slot was interrupted: nobody looks at WQ_send's result.  *)
SendFails(t, h) ==
  /\ Turn(t, h)
  /\ "WQ_FAIL" \in LockOutcomes(Capacity - Occupied(h), "INFINITE")
  /\ todo' = [todo EXCEPT ![t] = @ \ {h}]
  /\ UNCHANGED <<listed, queues, loc, msg, awaits, calls, routes, server, owner>>

SendAck(t) ==
  /\ awaits[t] # << >>
  /\ LET h == awaits[t][1]  i == awaits[t][2] IN
       \E r \in LockOutcomes(acks[h][i], "INFINITE") :
         acks' = [acks EXCEPT ![h][i] = IF r = "WQ_SIGNALED" THEN @ - 1 ELSE @]
  /\ awaits' = [awaits EXCEPT ![t] = << >>]
  /\ UNCHANGED <<listed, arrived, dropped, held, loc, todo, msg, calls, routes, server, owner>>
-----------------------------------------------------------------------------
(* What a host's callbacks may call.  After the router has been freed, a   *)
(* broadcast, a multicast or a change of a route would work on freed       *)
(* memory; the model does not follow it.                                   *)

MayCall(h) == loc[h] \in Callbacks /\ ~Sending(h) /\ calls[h] < MaxCalls

Unicast(h, target, block) ==
  /\ MayCall(h)
  /\ target \in Talks[h] /\ (block => h \in Blockers)
  /\ StartCall(h, "unicast", {target}, block)
  /\ UNCHANGED <<listed, queues, loc, awaits, routes, server, owner>>

(* To every host of the list. *)
WrongBroadcast(h) ==
  /\ MayCall(h) /\ owner # "freed"
  /\ h \in Broadcasters
  /\ StartCall(h, "broadcast", 1 .. listed, FALSE)
  /\ UNCHANGED <<listed, queues, loc, awaits, routes, server, owner>>

(* To every host of the list but the sender. *)
Broadcast(h) ==
  /\ MayCall(h) /\ owner # "freed"
  /\ h \in Broadcasters
  /\ StartCall(h, "broadcast", (1 .. listed) \ {h}, FALSE)
  /\ UNCHANGED <<listed, queues, loc, awaits, routes, server, owner>>

(* To every other member of the route.  (The columns are read one by one   *)
(* without the lock; but see Join, none of them ever changes.)             *)
Multicast(h, r) ==
  /\ MayCall(h) /\ owner # "freed"
  /\ StartCall(h, "multicast", {routetable[r][i] : i \in Columns} \ {NULL, h}, FALSE)
  /\ UNCHANGED <<listed, queues, loc, awaits, routes, server, owner>>

Holding(r, g) == {i \in Columns : routetable[r][i] = g}
FirstOf(I) == CHOOSE i \in I : \A j \in I : i <= j

(* NetGroup_membership_join.  Its second loop, which looks for an empty    *)
(* column, goes on from the index where the first one has ended, which     *)
(* looks for a column that holds the host already: only the columns from   *)
(* such a one on are searched.                                             *)
Join(h, r) ==
  /\ MayCall(h) /\ owner # "freed"
  /\ calls' = [calls EXCEPT ![h] = @ + 1]
  /\ members' = members \cup {<<r, h>>}
  /\ LET dup == Holding(r, h) # {}
         searched == {i \in Columns : \E j \in 1 .. i : j \in Holding(r, h)}
         free == searched \cap Holding(r, NULL)
     IN routetable' = IF ~dup /\ free # {}
                      THEN [routetable EXCEPT ![r][FirstOf(free)] = h] ELSE routetable
  /\ UNCHANGED <<listed, queues, loc, todo, msg, awaits, server, owner>>

(* NetGroup_membership_drop. *)
Drop(h, r) ==
  /\ MayCall(h) /\ owner # "freed"
  /\ calls' = [calls EXCEPT ![h] = @ + 1]
  /\ members' = members \ {<<r, h>>}
  /\ routetable' = IF Holding(r, h) # {}
                   THEN [routetable EXCEPT ![r][FirstOf(Holding(r, h))] = NULL] ELSE routetable
  /\ UNCHANGED <<listed, queues, loc, todo, msg, awaits, server, owner>>

HostCalls(h) ==
  \/ \E target \in Hosts, block \in BOOLEAN : Unicast(h, target, block)
  \/ Broadcast(h)
  \/ \E r \in Routes : Multicast(h, r) \/ Join(h, r) \/ Drop(h, r)
-----------------------------------------------------------------------------
(* host_start_routine. *)

Goto(h, l) == loc' = [loc EXCEPT ![h] = l]

(* A callback returns. *)
Return(h) ==
  /\ loc[h] \in Callbacks /\ ~Sending(h)
  /\ Goto(h, After[loc[h]])
  /\ UNCHANGED <<listed, queues, senders, routes, server, owner>>

(* alarm_schdule calls the alarms that are due, if there are any. *)
Schedule(h) ==
  /\ loc[h] = "schedule"
  /\ \E due \in BOOLEAN : (due => h \in Alarmed) /\ Goto(h, IF due THEN "alarm" ELSE "receive")
  /\ UNCHANGED <<listed, queues, senders, routes, server, owner>>

(* Acknowledges nothing. *)
WrongRelease(h) ==
  /\ loc[h] = "receive"
  /\ dropped' = [dropped EXCEPT ![h] = IF held[h] THEN @ + 1 ELSE @]
  /\ held' = [held EXCEPT ![h] = FALSE]
  /\ Goto(h, "wait")
  /\ UNCHANGED <<listed, arrived, acks, senders, routes, server, owner>>

(* First half of WQ_recv: the message handled last is acknowledged and     *)
(* dropped.                                                                *)
Release(h) ==
  /\ loc[h] = "receive"
  /\ held[h] =>
       LET k == dropped[h] + 1 IN
       acks' = [acks EXCEPT ![h][dropped[h] % Capacity] =
                  IF arrived[h][k].block THEN @ + 1 ELSE @]
  /\ ~held[h] => UNCHANGED acks
  /\ dropped' = [dropped EXCEPT ![h] = IF held[h] THEN @ + 1 ELSE @]
  /\ held' = [held EXCEPT ![h] = FALSE]
  /\ Goto(h, "wait")
  /\ UNCHANGED <<listed, arrived, senders, routes, server, owner>>

(* Takes disconnect for closing. *)
WrongRouting(cast) == IF cast \in {"unicast", "broadcast"} THEN "handle" ELSE "deinit"

(* host_routing: where a message leads.  The branch meant for multicast    *)
(* tests for unicast again.                                                *)
Routing(cast) == CASE cast \in {"unicast", "broadcast"} -> "handle"
                   [] cast = "disconnect" -> "disconnected"
                   [] OTHER -> "deinit"

(* Second half of WQ_recv, and host_routing. *)
Receive(h) ==
  /\ loc[h] = "wait"
  /\ Occupied(h) > 0
  /\ held' = [held EXCEPT ![h] = TRUE]
  /\ Goto(h, Routing(arrived[h][dropped[h] + 1].cast))
  /\ UNCHANGED <<listed, arrived, dropped, acks, senders, routes, server, owner>>

(* No message: with alarms WQ_recv may time out and the loop goes on; any  *)
(* other failure ends it.                                                  *)
ReceiveNothing(h) ==
  /\ loc[h] = "wait"
  /\ LET time == IF h \in Alarmed THEN "finite" ELSE "INFINITE" IN
       \E r \in LockOutcomes(Occupied(h), time) \ {"WQ_SIGNALED"} :
         Goto(h, IF r = "WQ_TIMED_OUT" THEN "schedule" ELSE "deinit")
  /\ UNCHANGED <<listed, queues, senders, routes, server, owner>>

HostStep(h) == \/ Return(h) \/ Schedule(h) \/ Release(h) \/ Receive(h) \/ ReceiveNothing(h)
-----------------------------------------------------------------------------
(* message_server_start_routine: a datagram is sent to the hosts that the  *)
(* user's decoder has marked.                                              *)

ServerCast(marked) ==
  /\ server = "up" /\ ~Sending(Server) /\ owner = "run"
  /\ calls[Server] < MaxServerCasts
  /\ StartCall(Server, "unicast", marked, FALSE)
  /\ UNCHANGED <<listed, queues, loc, awaits, routes, server, owner>>

(* The server ends when the pipe is written to, or on an error. *)
ServerEnd ==
  /\ server = "up" /\ ~Sending(Server)
  /\ server' = "ended"
  /\ UNCHANGED <<listed, queues, loc, senders, routes, owner>>
-----------------------------------------------------------------------------
(* The owner. *)

(* NetGroup_router_create runs the hosts in the order of the list ... *)
StartHost(h) ==
  /\ owner = "create"
  /\ loc[h] = "unborn" /\ \A g \in 1 .. h - 1 : loc[g] # "unborn"
  /\ Goto(h, "init")
  /\ UNCHANGED <<listed, queues, senders, routes, server, owner>>

(* ... and then the message server. *)
Created ==
  /\ owner = "create" /\ \A h \in Hosts : loc[h] # "unborn"
  /\ server' = "up" /\ owner' = "run"
  /\ UNCHANGED <<listed, queues, loc, senders, routes>>

(* Or it fails, in host_in of a host or in the message server's setup: the *)
(* hosts linked so far have no thread, and the router is deleted.          *)
CreateFails ==
  /\ MayFail /\ owner = "create" /\ \A h \in Hosts : loc[h] = "unborn"
  /\ \E k \in 0 .. HostLen :
       listed' = k /\ StartCall(Owner, "disconnect", 1 .. k, FALSE)
  /\ owner' = "disconnect"
  /\ UNCHANGED <<queues, loc, awaits, routes, server>>

(* NetGroup_router_delete stops the message server and joins its thread,   *)
Delete ==
  /\ MayDelete /\ owner = "run"
  /\ owner' = "joining"
  /\ UNCHANGED <<listed, queues, loc, senders, routes, server>>

(* sends disconnect to every host, *)
Disconnect ==
  /\ owner = "joining" /\ server = "ended"
  /\ StartCall(Owner, "disconnect", 1 .. listed, FALSE)
  /\ owner' = "disconnect"
  /\ UNCHANGED <<listed, queues, loc, awaits, routes, server>>

(* Forgets the last host. *)
WrongClosing ==
  /\ owner = "disconnect" /\ ~Sending(Owner)
  /\ StartCall(Owner, "closing", 1 .. listed - 1, FALSE)
  /\ owner' = "closing"
  /\ UNCHANGED <<listed, queues, loc, awaits, routes, server>>

(* sends closing to every host, *)
Closing ==
  /\ owner = "disconnect" /\ ~Sending(Owner)
  /\ StartCall(Owner, "closing", 1 .. listed, FALSE)
  /\ owner' = "closing"
  /\ UNCHANGED <<listed, queues, loc, awaits, routes, server>>

(* and frees the router.  The loop that should join the hosts' threads and *)
(* free their queues runs over a list that the loop before has used up.    *)
Free ==
  /\ owner = "closing" /\ ~Sending(Owner)
  /\ owner' = "freed"
  /\ UNCHANGED <<listed, queues, loc, senders, routes, server>>

OwnerStep == (\E h \in Hosts : StartHost(h)) \/ Created \/ Disconnect \/ Closing \/ Free

Next ==
  \/ \E t \in Threads : SendAck(t) \/ \E h \in Hosts : Send(t, h) \/ SendFails(t, h)
  \/ \E h \in Hosts : HostCalls(h) \/ HostStep(h)
  \/ \E marked \in SUBSET Hosts : ServerCast(marked)
  \/ ServerEnd
  \/ OwnerStep \/ CreateFails \/ Delete

Spec == Init /\ [][Next]_vars

(* Every thread keeps running and callbacks return; nobody has to send or  *)
(* to delete the router, and nothing has to fail.                          *)
FairSpec ==
  /\ Spec
  /\ \A t \in Threads : WF_vars(\E h \in Hosts : Send(t, h)) /\ WF_vars(SendAck(t))
  /\ \A h \in Hosts : WF_vars(HostStep(h))
  /\ WF_vars(owner = "joining" /\ ServerEnd) /\ WF_vars(OwnerStep)
-----------------------------------------------------------------------------
(* Properties *)

(* The number of copies of a thread's n-th message in the queue of h, and  *)
(* of those it still has to send there.                                    *)
Copies(h, t, n) == Cardinality({k \in DOMAIN arrived[h] : arrived[h][k].from = t
                                                        /\ arrived[h][k].n = n})
Pending(h, t, n) == IF msg[t].n = n /\ h \in todo[t] THEN 1 ELSE 0

(* A broadcast reaches every host but its sender exactly once, whatever    *)
(* the other threads do while NetGroup_host_broadcast walks the list, the  *)
(* deletion of the router included.                                        *)
BroadcastReachesOthers ==
  ~Interrupts =>
    \A g \in Hosts : \A k \in DOMAIN arrived[g] :
      LET m == arrived[g][k] IN
        m.cast = "broadcast" =>
          \A h \in Hosts :
            Copies(h, m.from, m.n) + Pending(h, m.from, m.n) = (IF h = m.from THEN 0 ELSE 1)

(* A host leaves host_start_routine's loop only after the owner has told   *)
(* it to disconnect and then to close, and after it has handled everything *)
(* that reached its queue before that.                                     *)
EndsWhenTold ==
  ~Interrupts =>
    \A h \in Hosts : loc[h] \in {"deinit", "ended"} =>
      \E j, k \in DOMAIN arrived[h] :
        /\ j < k /\ k = dropped[h] + 1
        /\ arrived[h][j].cast = "disconnect" /\ arrived[h][k].cast = "closing"
        /\ \A i \in 1 .. k - 1 : arrived[h][i].cast # "closing"

(* The invariant behind it.  What the callbacks send never tells a host to *)
(* disconnect or close; no route ever has a member, so that no multicast   *)
(* reaches host_routing, which would end the host; and the owner sends     *)
(* disconnect to every host of the list before it sends closing to any.    *)
Has(h, cast) == \E k \in DOMAIN arrived[h] : arrived[h][k].cast = cast

Told ==
  /\ \A t \in Hosts \cup {Server} :
       todo[t] # {} => msg[t].cast \in {"unicast", "broadcast"}
  /\ todo[Owner] # {} => owner = msg[Owner].cast /\ owner \in {"disconnect", "closing"}
  /\ todo[Owner] \subseteq 1 .. listed
  /\ \A r \in Routes, i \in Columns : routetable[r][i] = NULL
  /\ \A h \in Hosts : ~Has(h, "multicast")
  /\ \A h \in Hosts : Has(h, "closing") =>
       owner \in {"closing", "freed"} /\ h \notin todo[Owner]
  /\ \A h \in 1 .. listed :
       \/ owner = "disconnect" /\ h \notin todo[Owner]
       \/ owner \in {"closing", "freed"}
       => Has(h, "disconnect")

ClosingLast ==
  \A h \in Hosts : \A k \in DOMAIN arrived[h] : arrived[h][k].cast = "closing" =>
    /\ \E j \in 1 .. k - 1 : arrived[h][j].cast = "disconnect"
    /\ \A j \in 1 .. k - 1 : arrived[h][j].cast # "closing"

EndsAtClosing ==
  \A h \in Hosts : loc[h] \in {"deinit", "ended"} =>
    Occupied(h) > 0 /\ arrived[h][dropped[h] + 1].cast = "closing"

(* ... with what holds of the single threads: the owner's progress, and    *)
(* that a host that waits in WQ_recv holds no message.                     *)
OwnerCalls == calls[Owner] = CASE owner = "disconnect" -> 1
                               [] owner \in {"closing", "freed"} -> 2
                               [] OTHER -> 0
HeldIsQueued == \A h \in Hosts : /\ held[h] => Occupied(h) > 0
                                 /\ loc[h] = "wait" => ~held[h]

IInv == /\ TypeOK /\ OwnerCalls /\ HeldIsQueued
        /\ ~Interrupts => Told /\ ClosingLast /\ EndsAtClosing

(* Acknowledgements posted and owed, slot by slot, cover the threads that  *)
(* wait for them: a thread in NetGroup_host_unicast with the blocking flag *)
(* is never left waiting for a host that has nothing to acknowledge.       *)
Owed(h, i) == {k \in dropped[h] + 1 .. Len(arrived[h]) :
                 (k - 1) % Capacity = i /\ arrived[h][k].block}

AcksAccounted ==
  \A h \in Hosts, i \in Slots :
    LET waiting == Cardinality({t \in Threads : awaits[t] = <<h, i>>})
        coming == acks[h][i] + Cardinality(Owed(h, i))
    IN waiting <= coming /\ (~Interrupts => waiting = coming)

(* The queues of the hosts are the bounded FIFOs that WorkQueue implements *)
(* step by step: the hosts use nothing that src/WQ.c does not give them.   *)
Queue(h) == INSTANCE BoundedFifo WITH
              queue <- SubSeq(arrived[h], dropped[h] + 1, Len(arrived[h])),
              held <- held[h],
              delivered <- SubSeq(arrived[h], 1, dropped[h] + (IF held[h] THEN 1 ELSE 0))

QueuesAreFifos ==
  /\ \A h \in Hosts : Queue(h)!Init
  /\ [][\A h \in Hosts : [Queue(h)!Next]_(Queue(h)!vars)]_vars

(* The thread that t waits for, if it cannot go on by itself. *)
WaitsFor(t) ==
  IF awaits[t] # << >>
  THEN IF acks[awaits[t][1]][awaits[t][2]] = 0 THEN awaits[t][1] ELSE NULL
  ELSE IF todo[t] # {}
  THEN LET h == CHOOSE h \in todo[t] : Turn(t, h)
       IN IF Occupied(h) = Capacity THEN h ELSE NULL
  ELSE IF t = Owner /\ owner = "joining" /\ server # "ended" THEN Server ELSE NULL

(* A host without a thread: ended, or never started by a failed create.    *)
Gone(t) == /\ t \in Hosts
           /\ \/ loc[t] = "ended"
              \/ loc[t] = "unborn" /\ owner # "create"

(* The threads that wait in a circle, or for a host that is gone. *)
Doomed == UNION {D \in SUBSET Threads : \A t \in D : Gone(t) \/ WaitsFor(t) \in D}

(* A call that sends returns, unless its thread waits in a circle of hosts *)
(* with full queues (or unacknowledged messages) or for a host that has    *)
(* ended: no other reason makes WQ_send's INFINITE wait last for ever.     *)
SendsReturnUnlessDoomed == \A t \in Threads : Sending(t) ~> (~Sending(t) \/ t \in Doomed)

(* Once nothing but the host itself can stop it, a host that was told to   *)
(* close ends: NetGroup_router_delete is followed by the end of every      *)
(* thread that is not caught in a wait.                                    *)
HostsEndUnlessDoomed == \A h \in Hosts : owner = "freed" ~> (Gone(h) \/ h \in Doomed)

(* All that can reach a queue: the calls of every host, what the message   *)
(* server casts, the disconnect and the closing.                           *)
MaxArrivals == MaxCalls * Cardinality(Hosts) + MaxServerCasts + 2

(* Whatever reaches a host's queue is handled, unless the host is told to  *)
(* close before it comes to it, or is caught in a wait.                    *)
ArrivalsHandledUnlessDoomed ==
  \A h \in Hosts, k \in 1 .. MaxArrivals :
    Len(arrived[h]) >= k ~> (dropped[h] + (IF held[h] THEN 1 ELSE 0) >= k
                              \/ h \in Doomed \/ Gone(h))

(* NetGroup_router_delete returns. *)
DeleteReturns == owner \in {"joining", "disconnect", "closing"} ~> owner = "freed"

(* The router is freed after its hosts, whose threads use it.              *)
HostsEndBeforeFree == owner = "freed" => \A h \in Hosts : Gone(h)

(* Who has joined a route and has not dropped it is in the route's table.  *)
MembersAreRouted ==
  \A r \in Routes, h \in Hosts :
    <<r, h>> \in members => \E i \in Columns : routetable[r][i] = h
=============================================================================
