----------------------------- MODULE HostsProofs -----------------------------
(***************************************************************************)
(* What holds of Hosts for any number of hosts, any queue length, any      *)
(* number of calls and whoever may send to whom: how hosts end, and, in    *)
(* the second half, that what is sent to them comes to them.               *)
(***************************************************************************)
EXTENDS Hosts, SequenceTheorems, FiniteSetTheorems, TLAPS

(* The slot of the next message is one of the queue's. *)
LEMMA SlotOfNext == \A n \in Nat : n % Capacity \in Slots
BY CapacityAssumption DEF Slots

LEMMA ThreadKinds == /\ Owner \in Threads /\ Server \in Threads /\ Hosts \subseteq Threads
                     /\ Owner # Server /\ Owner \notin Hosts /\ Server \notin Hosts
                     /\ NULL \notin Hosts
BY HostLenAssumption DEF Threads, Owner, Server, Hosts, NULL

(* A semaphore is taken only while it counts to something, and an          *)
(* uninterrupted INFINITE wait does not fail.                              *)
LEMMA LockTakes == \A n \in Nat, time \in WaitTimes :
                     /\ "WQ_SIGNALED" \in LockOutcomes(n, time) => n > 0
                     /\ ~Interrupts => LockOutcomes(n, "INFINITE") \subseteq {"WQ_SIGNALED"}
BY DEF LockOutcomes, Results, WaitTimes

(* The router as NetGroup_router_create has made it is well typed. *)
LEMMA InitTyped == Init => TypeOK /\ OwnerCalls /\ HeldIsQueued
<1> SUFFICES ASSUME Init PROVE TypeOK /\ OwnerCalls /\ HeldIsQueued
  OBVIOUS
<1>1. \A h \in Hosts : Occupied(h) = 0
  BY DEF Init, Occupied
<1>2. \A t \in Threads : calls[t] = 0 /\ CallLimit(t) \in Nat
  BY BoundsAssumption DEF Init, CallLimit
<1>3. msg \in [Threads -> Messages]
  BY BoundsAssumption DEF Init, Messages, Casts
<1> QED
  BY <1>1, <1>2, <1>3, HostLenAssumption, CapacityAssumption, ThreadKinds
  DEF Init, TypeOK, OwnerCalls, HeldIsQueued, Occupied, Slots, Columns, Phases, Locations,
      Callbacks

(* The part of the invariant that holds of interrupted waits too. *)
Basic == TypeOK /\ OwnerCalls /\ HeldIsQueued

(* A call that sends numbers its message and names hosts. *)
LEMMA StartTyped ==
  ASSUME NEW t \in Threads, NEW cast \in Casts, NEW targets \in SUBSET Hosts, NEW block,
         block \in BOOLEAN, TypeOK, calls[t] < CallLimit(t), StartCall(t, cast, targets, block)
  PROVE  /\ calls' \in [Threads -> Nat] /\ \A u \in Threads : calls'[u] <= CallLimit(u)
         /\ msg' \in [Threads -> Messages]
         /\ todo' \in [Threads -> SUBSET Hosts]
<1>1. CallLimit(t) \in 0 .. MaxCalls + MaxServerCasts + 2
  BY BoundsAssumption DEF CallLimit
<1>2. calls[t] \in Nat /\ calls[t] + 1 \in 0 .. MaxCalls + MaxServerCasts + 2
  BY <1>1, BoundsAssumption DEF TypeOK
<1>3. [cast |-> cast, from |-> t, n |-> calls[t] + 1, block |-> block] \in Messages
  BY <1>2 DEF Messages
<1>4. msg' \in [Threads -> Messages] /\ todo' \in [Threads -> SUBSET Hosts]
  BY <1>3 DEF StartCall, TypeOK
<1>5. calls' \in [Threads -> Nat]
  BY <1>2 DEF StartCall, TypeOK
<1>6. \A u \in Threads : calls'[u] <= CallLimit(u)
  <2> SUFFICES ASSUME NEW u \in Threads PROVE calls'[u] <= CallLimit(u)
    OBVIOUS
  <2>1. CASE u = t
    BY <2>1, <1>1, <1>2 DEF StartCall, TypeOK
  <2>2. CASE u # t
    BY <2>2 DEF StartCall, TypeOK
  <2> QED
    BY <2>1, <2>2
<1> QED
  BY <1>4, <1>5, <1>6

(* ... and the calls of the hosts and of the server are not the owner's.   *)
LEMMA OtherCalls ==
  ASSUME NEW t \in Threads, t # Owner, TypeOK, OwnerCalls,
         calls' = [calls EXCEPT ![t] = @ + 1], UNCHANGED owner
  PROVE  OwnerCalls'
BY ThreadKinds DEF OwnerCalls, TypeOK

(* What the types say of one queue. *)
LEMMA QueueTyped ==
  ASSUME TypeOK, NEW h \in Hosts
  PROVE  /\ arrived[h] \in Seq(Messages) /\ Len(arrived[h]) \in Nat /\ dropped[h] \in Nat
         /\ dropped[h] <= Len(arrived[h]) /\ Len(arrived[h]) <= dropped[h] + Capacity
         /\ held[h] \in BOOLEAN
         /\ Occupied(h) \in 0 .. Capacity
         /\ Occupied(h) > 0 <=> Len(arrived[h]) > dropped[h]
<1>1. arrived[h] \in Seq(Messages) /\ Len(arrived[h]) \in Nat /\ dropped[h] \in Nat
  BY DEF TypeOK
<1>2. Len(arrived[h]) - dropped[h] \in 0 .. Capacity /\ held[h] \in BOOLEAN
  BY DEF TypeOK
<1> QED
  BY <1>1, <1>2, CapacityAssumption DEF Occupied

LEMMA Sends == ASSUME Basic, NEW t \in Threads, NEW h \in Hosts, Send(t, h) PROVE Basic'
<1> USE DEF Basic
<1>1. TypeOK
  OBVIOUS
<1>2. /\ arrived[h] \in Seq(Messages) /\ dropped[h] \in Nat /\ Len(arrived[h]) \in Nat
      /\ dropped[h] <= Len(arrived[h]) /\ msg[t] \in Messages
  BY <1>1, QueueTyped DEF TypeOK
<1>3. Occupied(h) \in 0 .. Capacity /\ Capacity - Occupied(h) \in Nat
  BY <1>1, QueueTyped, CapacityAssumption
<1>4. Len(arrived[h]) < dropped[h] + Capacity
  <2>1. Capacity - Occupied(h) > 0
    BY <1>3, LockTakes DEF Send, WaitTimes
  <2> QED
    BY <1>2, <1>3, <2>1, CapacityAssumption DEF Occupied
<1>5. arrived' \in [Hosts -> Seq(Messages)]
  BY <1>1, <1>2 DEF Send, TypeOK
<1>6. /\ Len(arrived'[h]) = Len(arrived[h]) + 1
      /\ \A g \in Hosts : g # h => arrived'[g] = arrived[g]
  BY <1>1, <1>2 DEF Send, TypeOK
<1>7. \A g \in Hosts : Len(arrived'[g]) - dropped[g] \in 0 .. Capacity
  <2> SUFFICES ASSUME NEW g \in Hosts PROVE Len(arrived'[g]) - dropped[g] \in 0 .. Capacity
    OBVIOUS
  <2>1. CASE g = h
    BY <1>2, <1>4, <1>6, <2>1, CapacityAssumption
  <2>2. CASE g # h
    BY <1>1, <1>6, <2>2 DEF TypeOK
  <2> QED
    BY <2>1, <2>2
<1>8. awaits' \in [Threads -> (Hosts \X Slots) \cup {<< >>}]
  <2>1. Len(arrived[h]) % Capacity \in Slots
    BY <1>2, SlotOfNext
  <2>2. <<h, Len(arrived[h]) % Capacity>> \in Hosts \X Slots
    BY <2>1
  <2> QED
    BY <1>1, <2>2 DEF Send, TypeOK
<1>9. TypeOK'
  BY <1>1, <1>5, <1>7, <1>8 DEF TypeOK, Send, routes
<1>10. OwnerCalls'
  BY DEF OwnerCalls, Send
<1>11. HeldIsQueued'
  <2> SUFFICES ASSUME NEW g \in Hosts
               PROVE  /\ held[g] => Occupied(g)' > 0
                      /\ loc[g] = "wait" => ~held[g]
    BY DEF HeldIsQueued, Send
  <2>1. held[g] => Len(arrived[g]) > dropped[g]
    BY <1>1, QueueTyped DEF HeldIsQueued
  <2>2. Occupied(g)' = Len(arrived'[g]) - dropped[g]
    BY DEF Occupied, Send
  <2>3. Len(arrived'[g]) \in {Len(arrived[g]), Len(arrived[g]) + 1}
    BY <1>6
  <2>4. Len(arrived[g]) \in Nat /\ dropped[g] \in Nat
    BY <1>1, QueueTyped
  <2>5. loc[g] = "wait" => ~held[g]
    BY DEF HeldIsQueued
  <2> QED
    BY <2>1, <2>2, <2>3, <2>4, <2>5
<1> QED
  BY <1>9, <1>10, <1>11

LEMMA Releases == ASSUME Basic, NEW h \in Hosts, Release(h) PROVE Basic'
<1> USE DEF Basic
<1>1. TypeOK
  OBVIOUS
<1>2. /\ dropped[h] \in Nat /\ Len(arrived[h]) \in Nat
      /\ dropped[h] <= Len(arrived[h]) /\ Len(arrived[h]) <= dropped[h] + Capacity
      /\ held[h] => Len(arrived[h]) > dropped[h]
  BY <1>1, QueueTyped DEF HeldIsQueued
<1>3. acks' \in [Hosts -> [Slots -> Nat]]
  <2>1. CASE ~held[h]
    BY <1>1, <2>1 DEF Release, TypeOK
  <2>2. CASE held[h]
    <3>1. dropped[h] % Capacity \in Slots
      BY <1>2, SlotOfNext
    <3>2. acks[h] \in [Slots -> Nat]
      BY <1>1 DEF TypeOK
    <3> DEFINE slot == dropped[h] % Capacity
               posted == IF arrived[h][dropped[h] + 1].block
                         THEN acks[h][slot] + 1 ELSE acks[h][slot]
    <3>3. acks' = [acks EXCEPT ![h] = [acks[h] EXCEPT ![slot] = posted]]
      BY <1>1, <2>2, <3>1 DEF Release, TypeOK
    <3>4. acks[h][slot] \in Nat
      BY <3>1, <3>2
    <3>5. posted \in Nat
      BY <3>4
    <3>6. [acks[h] EXCEPT ![slot] = posted] \in [Slots -> Nat]
      BY <3>2, <3>5
    <3> HIDE DEF slot, posted
    <3> QED
      BY <1>1, <3>3, <3>6 DEF TypeOK
  <2> QED
    BY <2>1, <2>2
<1>4. /\ dropped' \in [Hosts -> Nat] /\ held' \in [Hosts -> BOOLEAN]
      /\ loc' \in [Hosts -> Locations]
  BY <1>1, <1>2 DEF Release, Goto, TypeOK, Locations
<1>5. /\ dropped'[h] = IF held[h] THEN dropped[h] + 1 ELSE dropped[h]
      /\ \A g \in Hosts : g # h => dropped'[g] = dropped[g]
  BY <1>1 DEF Release, TypeOK
<1>6. \A g \in Hosts : Len(arrived[g]) - dropped'[g] \in 0 .. Capacity
  <2> SUFFICES ASSUME NEW g \in Hosts PROVE Len(arrived[g]) - dropped'[g] \in 0 .. Capacity
    OBVIOUS
  <2>1. CASE g = h
    BY SMTT(30), <1>2, <1>5, <2>1, CapacityAssumption
  <2>2. CASE g # h
    BY <1>1, <1>5, <2>2 DEF TypeOK
  <2> QED
    BY <2>1, <2>2
<1>7. TypeOK'
  BY <1>1, <1>3, <1>4, <1>6 DEF TypeOK, Release, routes, senders
<1>8. OwnerCalls'
  BY DEF OwnerCalls, Release, senders
<1>9. HeldIsQueued'
  <2>1. ~held'[h] /\ \A g \in Hosts : g # h => held'[g] = held[g] /\ loc'[g] = loc[g]
    BY <1>1 DEF Release, Goto, TypeOK
  <2> QED
    BY <2>1, <1>5 DEF HeldIsQueued, Occupied, Release
<1> QED
  BY <1>7, <1>8, <1>9

LEMMA Receives == ASSUME Basic, NEW h \in Hosts, Receive(h) PROVE Basic'
<1> USE DEF Basic
<1>1. TypeOK
  OBVIOUS
<1>2. \A cast \in Casts : Routing(cast) \in Locations
  BY DEF Routing, Locations, Callbacks, Casts
<1>3. arrived[h][dropped[h] + 1].cast \in Casts
  <2>1. arrived[h] \in Seq(Messages) /\ dropped[h] + 1 \in 1 .. Len(arrived[h])
    BY <1>1, QueueTyped DEF Receive
  <2>2. arrived[h][dropped[h] + 1] \in Messages
    BY <2>1
  <2> QED
    BY <2>2 DEF Messages
<1>4. loc' \in [Hosts -> Locations] /\ held' \in [Hosts -> BOOLEAN]
  BY <1>1, <1>2, <1>3 DEF Receive, Goto, TypeOK
<1>5. TypeOK'
  BY <1>1, <1>4 DEF TypeOK, Receive, routes, senders
<1>6. loc'[h] # "wait"
  BY <1>1, <1>3 DEF Receive, Goto, Routing, TypeOK, Casts
<1>7. HeldIsQueued'
  BY <1>1, <1>6 DEF HeldIsQueued, Occupied, Receive, Goto, TypeOK
<1>8. OwnerCalls'
  BY DEF OwnerCalls, Receive, senders
<1> QED
  BY <1>5, <1>7, <1>8

(* The rest of what the threads do leaves the queues alone. *)
LEMMA SmallHostSteps ==
  ASSUME Basic, NEW h \in Hosts, Return(h) \/ Schedule(h) \/ ReceiveNothing(h)
  PROVE  Basic'
<1> USE DEF Basic
<1>1. \A l \in Callbacks : After[l] \in Locations /\ After[l] # "wait"
  BY DEF Callbacks, After, Locations
<1>2. /\ loc' \in [Hosts -> Locations]
      /\ \A g \in Hosts : loc'[g] = "wait" => loc[g] = "wait"
  <2>1. CASE Return(h)
    <3>1. loc' = [loc EXCEPT ![h] = After[loc[h]]] /\ loc[h] \in Callbacks
      BY <2>1 DEF Return, Goto
    <3> QED
      BY <1>1, <3>1 DEF TypeOK
  <2>2. CASE Schedule(h)
    BY <2>2 DEF Schedule, Goto, TypeOK, Locations, Callbacks
  <2>3. CASE ReceiveNothing(h)
    BY <2>3 DEF ReceiveNothing, Goto, TypeOK, Locations, Callbacks
  <2> QED
    BY <2>1, <2>2, <2>3
<1>3. UNCHANGED <<listed, queues, senders, routes, server, owner>>
  BY DEF Return, Schedule, ReceiveNothing
<1>4. TypeOK'
  BY <1>2, <1>3 DEF TypeOK, queues, senders, routes
<1>5. OwnerCalls' /\ HeldIsQueued'
  BY <1>2, <1>3 DEF OwnerCalls, HeldIsQueued, Occupied, queues, senders
<1> QED
  BY <1>4, <1>5

LEMMA OtherSends ==
  ASSUME Basic, NEW t \in Threads, SendAck(t) \/ \E h \in Hosts : SendFails(t, h)
  PROVE  Basic'
<1> USE DEF Basic
<1>1. CASE SendAck(t)
  <2> DEFINE h == awaits[t][1]
             i == awaits[t][2]
             row == acks[h]
  <2>1. h \in Hosts /\ i \in Slots /\ row \in [Slots -> Nat] /\ row[i] \in Nat
    BY SMTT(30), <1>1 DEF SendAck, TypeOK
  <2>2. PICK r \in LockOutcomes(row[i], "INFINITE") :
          acks' = [acks EXCEPT ![h][i] = IF r = "WQ_SIGNALED" THEN @ - 1 ELSE @]
    BY <1>1 DEF SendAck
  <2>3. r = "WQ_SIGNALED" => row[i] > 0
    BY <2>1, LockTakes DEF WaitTimes
  <2> DEFINE left == IF r = "WQ_SIGNALED" THEN row[i] - 1 ELSE row[i]
  <2>4. left \in Nat
    BY <2>1, <2>3
  <2>5. acks' = [acks EXCEPT ![h] = [row EXCEPT ![i] = left]]
    BY <2>1, <2>2 DEF TypeOK
  <2>6. [row EXCEPT ![i] = left] \in [Slots -> Nat]
    BY <2>1, <2>4
  <2> HIDE DEF h, i, row, left
  <2>7. acks' \in [Hosts -> [Slots -> Nat]]
    BY <2>5, <2>6 DEF TypeOK
  <2>8. TypeOK'
    BY <1>1, <2>7 DEF SendAck, TypeOK, routes
  <2> QED
    BY <1>1, <2>8 DEF SendAck, OwnerCalls, HeldIsQueued, Occupied
<1>2. CASE \E h \in Hosts : SendFails(t, h)
  <2>1. PICK h \in Hosts : SendFails(t, h)
    BY <1>2
  <2>2. TypeOK'
    BY <2>1 DEF SendFails, TypeOK, queues, routes
  <2> QED
    BY <2>1, <2>2 DEF SendFails, OwnerCalls, HeldIsQueued, Occupied, queues
<1> QED
  BY <1>1, <1>2

(* A thread but the owner's begins a call. *)
LEMMA OtherStarts ==
  ASSUME Basic, NEW t \in Threads, t # Owner, NEW cast \in Casts,
         NEW targets \in SUBSET Hosts, NEW block, block \in BOOLEAN,
         calls[t] < CallLimit(t), StartCall(t, cast, targets, block),
         UNCHANGED <<listed, queues, loc, awaits, routes, server, owner>>
  PROVE  Basic'
<1> USE DEF Basic
<1>1. TypeOK'
  <2>1. /\ calls' \in [Threads -> Nat] /\ \A u \in Threads : calls'[u] <= CallLimit(u)
        /\ msg' \in [Threads -> Messages] /\ todo' \in [Threads -> SUBSET Hosts]
    BY StartTyped
  <2> QED
    BY <2>1 DEF TypeOK, queues, routes
<1>2. OwnerCalls'
  BY OtherCalls DEF StartCall
<1> QED
  BY <1>1, <1>2 DEF HeldIsQueued, Occupied, queues

LEMMA ServerSteps ==
  ASSUME Basic, ServerEnd \/ \E marked \in SUBSET Hosts : ServerCast(marked)
  PROVE  Basic'
<1>1. CASE ServerEnd
  BY <1>1 DEF ServerEnd, Basic, TypeOK, OwnerCalls, HeldIsQueued, Occupied, queues, senders, routes
<1>2. CASE \E marked \in SUBSET Hosts : ServerCast(marked)
  <2>1. PICK marked \in SUBSET Hosts : ServerCast(marked)
    BY <1>2
  <2>2. calls[Server] < CallLimit(Server)
    BY <2>1, ThreadKinds DEF ServerCast, CallLimit
  <2> QED
    BY <2>1, <2>2, OtherStarts, ThreadKinds DEF ServerCast, Casts
<1> QED
  BY <1>1, <1>2

LEMMA HostCallSteps == ASSUME Basic, NEW h \in Hosts, HostCalls(h) PROVE Basic'
<1>1. h # Owner /\ h \in Threads
  BY ThreadKinds
<1>2. calls[h] < CallLimit(h)
  BY ThreadKinds DEF HostCalls, Unicast, Broadcast, Multicast, Join, Drop, MayCall, CallLimit
<1>3. ASSUME NEW target \in Hosts, NEW block, block \in BOOLEAN, Unicast(h, target, block)
      PROVE  Basic'
  BY <1>1, <1>2, <1>3, OtherStarts DEF Unicast, Casts
<1>4. CASE Broadcast(h)
  <2>1. (1 .. listed) \ {h} \in SUBSET Hosts
    BY HostLenAssumption DEF Basic, TypeOK, Hosts
  <2> QED
    BY <1>1, <1>2, <1>4, <2>1, OtherStarts DEF Broadcast, Casts
<1>5. ASSUME NEW r \in Routes, Multicast(h, r) PROVE Basic'
  <2>1. {routetable[r][i] : i \in Columns} \ {NULL, h} \in SUBSET Hosts
    BY DEF Basic, TypeOK
  <2> QED
    BY <1>1, <1>2, <1>5, <2>1, OtherStarts DEF Multicast, Casts
<1>6. ASSUME NEW r \in Routes, Join(h, r) \/ Drop(h, r),
             routetable' \in [Routes -> [Columns -> Hosts \cup {NULL}]]
      PROVE  Basic'
  <2>1. calls' = [calls EXCEPT ![h] = @ + 1]
    BY <1>6 DEF Join, Drop
  <2>2. calls' \in [Threads -> Nat] /\ \A u \in Threads : calls'[u] <= CallLimit(u)
    <3>1. calls[h] \in Nat /\ CallLimit(h) \in Nat
      BY <1>1, BoundsAssumption DEF Basic, TypeOK, CallLimit
    <3>2. calls'[h] <= CallLimit(h)
      BY <1>1, <1>2, <2>1, <3>1 DEF Basic, TypeOK
    <3> QED
      BY <1>1, <2>1, <3>1, <3>2 DEF Basic, TypeOK
  <2>3. members' \subseteq Routes \X Hosts
    BY <1>6 DEF Join, Drop, Basic, TypeOK
  <2>4. TypeOK'
    BY <1>6, <2>2, <2>3 DEF Join, Drop, Basic, TypeOK, queues
  <2>5. OwnerCalls'
    BY <1>1, <1>6, <2>1, OtherCalls DEF Join, Drop, Basic
  <2> QED
    BY <1>6, <2>4, <2>5 DEF Join, Drop, Basic, HeldIsQueued, Occupied, queues
<1>7. ASSUME NEW r \in Routes, Join(h, r) \/ Drop(h, r)
      PROVE  routetable' \in [Routes -> [Columns -> Hosts \cup {NULL}]]
  <2>1. \A c, g : g \in Hosts \cup {NULL} =>
          [routetable EXCEPT ![r][c] = g] \in [Routes -> [Columns -> Hosts \cup {NULL}]]
    <3>1. routetable \in [Routes -> [Columns -> Hosts \cup {NULL}]]
      BY DEF Basic, TypeOK
    <3>2. \A c, g : g \in Hosts \cup {NULL} =>
            [routetable[r] EXCEPT ![c] = g] \in [Columns -> Hosts \cup {NULL}]
      BY <3>1
    <3> QED
      BY <3>1, <3>2
  <2>2. routetable \in [Routes -> [Columns -> Hosts \cup {NULL}]]
    BY DEF Basic, TypeOK
  <2>3. CASE Join(h, r)
    BY <2>1, <2>2, <2>3 DEF Join
  <2>4. CASE Drop(h, r)
    BY <2>1, <2>2, <2>4 DEF Drop
  <2> QED
    BY <1>7, <2>3, <2>4
<1>8. ASSUME NEW r \in Routes, Join(h, r) \/ Drop(h, r) PROVE Basic'
  BY <1>6, <1>7, <1>8
<1> QED
  BY <1>3, <1>4, <1>5, <1>8 DEF HostCalls

LEMMA OwnerSteps == ASSUME Basic, OwnerStep \/ CreateFails \/ Delete PROVE Basic'
<1> USE DEF Basic
<1>1. ASSUME NEW h \in Hosts, StartHost(h) PROVE Basic'
  <2>1. loc' = [loc EXCEPT ![h] = "init"]
    BY <1>1 DEF StartHost, Goto
  <2>2. TypeOK'
    BY <1>1, <2>1 DEF StartHost, TypeOK, Locations, Callbacks, queues, senders, routes
  <2> QED
    BY <1>1, <2>1, <2>2 DEF StartHost, OwnerCalls, HeldIsQueued, Occupied, TypeOK, queues, senders
<1>2. CASE Created \/ Delete \/ Free
  <2>1. TypeOK'
    BY <1>2 DEF Created, Delete, Free, TypeOK, Phases, queues, senders, routes
  <2> QED
    BY <1>2, <2>1 DEF Created, Delete, Free, OwnerCalls, HeldIsQueued, Occupied, queues, senders
<1>3. ASSUME NEW cast \in Casts, NEW k \in 0 .. HostLen,
             StartCall(Owner, cast, 1 .. k, FALSE), calls[Owner] < 2,
             owner' = IF calls[Owner] = 0 THEN "disconnect" ELSE "closing",
             listed' \in 0 .. HostLen, UNCHANGED <<queues, loc, awaits, routes, server>>
      PROVE  Basic'
  <2>1. 1 .. k \in SUBSET Hosts /\ Owner \in Threads /\ CallLimit(Owner) = 2
    BY HostLenAssumption, ThreadKinds DEF Hosts, CallLimit
  <2>2. /\ calls' \in [Threads -> Nat] /\ \A u \in Threads : calls'[u] <= CallLimit(u)
        /\ msg' \in [Threads -> Messages] /\ todo' \in [Threads -> SUBSET Hosts]
    BY <1>3, <2>1, StartTyped
  <2>3. TypeOK'
    BY <1>3, <2>2 DEF TypeOK, Phases, queues, routes
  <2>4. OwnerCalls'
    <3>1. calls[Owner] \in Nat /\ calls'[Owner] = calls[Owner] + 1
      BY <1>3, <2>1 DEF StartCall, TypeOK
    <3> QED
      BY <1>3, <3>1 DEF OwnerCalls
  <2> QED
    BY <1>3, <2>3, <2>4 DEF HeldIsQueued, Occupied, queues
<1>4. listed \in 0 .. HostLen /\ "disconnect" \in Casts /\ "closing" \in Casts
  BY DEF TypeOK, Casts
<1>5. CASE CreateFails
  <2>1. PICK k \in 0 .. HostLen : listed' = k /\ StartCall(Owner, "disconnect", 1 .. k, FALSE)
    BY <1>5 DEF CreateFails
  <2>2. calls[Owner] = 0
    BY <1>5 DEF CreateFails, OwnerCalls
  <2>3. calls[Owner] < 2 /\ owner' = IF calls[Owner] = 0 THEN "disconnect" ELSE "closing"
    BY <1>5, <2>2 DEF CreateFails
  <2>4. listed' \in 0 .. HostLen /\ UNCHANGED <<queues, loc, awaits, routes, server>>
    BY <1>5, <2>1 DEF CreateFails
  <2> QED
    BY <1>3, <1>4, <2>1, <2>3, <2>4
<1>6. CASE Disconnect
  <2>1. calls[Owner] = 0
    BY <1>6 DEF Disconnect, OwnerCalls
  <2>2. calls[Owner] < 2 /\ owner' = IF calls[Owner] = 0 THEN "disconnect" ELSE "closing"
    BY <1>6, <2>1 DEF Disconnect
  <2>3. listed' \in 0 .. HostLen /\ UNCHANGED <<queues, loc, awaits, routes, server>>
    BY <1>4, <1>6 DEF Disconnect
  <2>4. StartCall(Owner, "disconnect", 1 .. listed, FALSE)
    BY <1>6 DEF Disconnect
  <2> QED
    BY <1>3, <1>4, <2>2, <2>3, <2>4
<1>7. CASE Closing
  <2>1. calls[Owner] = 1
    BY <1>7 DEF Closing, OwnerCalls
  <2>2. calls[Owner] < 2 /\ owner' = IF calls[Owner] = 0 THEN "disconnect" ELSE "closing"
    BY <1>7, <2>1 DEF Closing
  <2>3. listed' \in 0 .. HostLen /\ UNCHANGED <<queues, loc, awaits, routes, server>>
    BY <1>4, <1>7 DEF Closing
  <2>4. StartCall(Owner, "closing", 1 .. listed, FALSE)
    BY <1>7 DEF Closing
  <2> QED
    BY <1>3, <1>4, <2>2, <2>3, <2>4
<1> QED
  BY <1>1, <1>2, <1>5, <1>6, <1>7 DEF OwnerStep

(* Every state is well typed: no queue holds more than its length, no ack  *)
(* semaphore is taken below zero and every thread sends to hosts only.     *)
LEMMA BasicInvariant == Spec => []Basic
<1>1. Init => Basic
  BY InitTyped DEF Basic
<1>2. Basic /\ [Next]_vars => Basic'
  <2> SUFFICES ASSUME Basic, [Next]_vars PROVE Basic'
    OBVIOUS
  <2>1. ASSUME NEW t \in Threads, SendAck(t) \/ \E h \in Hosts : SendFails(t, h) PROVE Basic'
    BY <2>1, OtherSends
  <2>2. ASSUME NEW t \in Threads, NEW h \in Hosts, Send(t, h) PROVE Basic'
    BY <2>2, Sends
  <2>3. ASSUME NEW h \in Hosts, HostCalls(h) PROVE Basic'
    BY <2>3, HostCallSteps
  <2>4. ASSUME NEW h \in Hosts, HostStep(h) PROVE Basic'
    BY <2>4, Releases, Receives, SmallHostSteps DEF HostStep
  <2>5. CASE ServerEnd \/ \E marked \in SUBSET Hosts : ServerCast(marked)
    BY <2>5, ServerSteps
  <2>6. CASE OwnerStep \/ CreateFails \/ Delete
    BY <2>6, OwnerSteps
  <2>7. CASE UNCHANGED vars
    BY <2>7 DEF Basic, TypeOK, OwnerCalls, HeldIsQueued, Occupied, vars, queues, senders, routes
  <2> QED
    BY <2>1, <2>2, <2>3, <2>4, <2>5, <2>6, <2>7 DEF Next
<1> QED
  BY <1>1, <1>2, PTL DEF Spec

(* TypeOK alone: calls, queues, semaphores and the routes stay in range.   *)
THEOREM Typing == Spec => []TypeOK
<1>1. Basic => TypeOK
  BY DEF Basic
<1> QED
  BY <1>1, BasicInvariant, PTL

-----------------------------------------------------------------------------
(* Without interrupted waits a host ends only after the owner of the       *)
(* router has told it to disconnect and to close.                          *)

(* An uninterrupted send is not given up. *)
LEMMA NoSendFails ==
  ASSUME Basic, ~Interrupts, NEW t \in Threads, NEW h \in Hosts
  PROVE  ~SendFails(t, h)
<1>1. Capacity - Occupied(h) \in Nat
  BY QueueTyped, CapacityAssumption DEF Basic
<1> QED
  BY <1>1, LockTakes DEF SendFails, WaitTimes

(* No route ever gets a member. *)
LEMMA TableStays ==
  ASSUME Basic, Told, NEW h \in Hosts, NEW r \in Routes, Join(h, r) \/ Drop(h, r)
  PROVE  routetable' = routetable
<1>1. Holding(r, h) = {}
  BY ThreadKinds DEF Told, Holding
<1>2. CASE Join(h, r)
  BY <1>1, <1>2 DEF Join
<1>3. CASE Drop(h, r)
  BY <1>1, <1>3 DEF Drop
<1> QED
  BY <1>2, <1>3

(* What a send adds to the queues. *)
LEMMA SendAdds ==
  ASSUME Basic, NEW t \in Threads, NEW h \in Hosts, Send(t, h)
  PROVE  /\ arrived'[h] = Append(arrived[h], msg[t]) /\ arrived[h] \in Seq(Messages)
         /\ msg[t] \in Messages /\ Len(arrived'[h]) = Len(arrived[h]) + 1
         /\ DOMAIN arrived'[h] = 1 .. Len(arrived[h]) + 1
         /\ DOMAIN arrived[h] = 1 .. Len(arrived[h])
         /\ Len(arrived[h]) \in Nat
         /\ \A k \in 1 .. Len(arrived[h]) : arrived'[h][k] = arrived[h][k]
         /\ arrived'[h][Len(arrived[h]) + 1] = msg[t]
         /\ \A g \in Hosts : g # h => arrived'[g] = arrived[g]
<1>1. arrived \in [Hosts -> Seq(Messages)] /\ msg[t] \in Messages
  BY DEF Basic, TypeOK
<1>2. arrived' = [arrived EXCEPT ![h] = Append(@, msg[t])]
  BY DEF Send
<1> QED
  BY <1>1, <1>2

LEMMA HasAfterSend ==
  ASSUME Basic, NEW t \in Threads, NEW h \in Hosts, Send(t, h), NEW g \in Hosts, NEW cast
  PROVE  Has(g, cast)' <=> Has(g, cast) \/ (g = h /\ msg[t].cast = cast)
<1>1. CASE g # h
  BY <1>1, SendAdds DEF Has
<1>2. CASE g = h
  <2>1. Has(h, cast)' <=> \E k \in 1 .. Len(arrived[h]) + 1 : arrived'[h][k].cast = cast
    BY SendAdds DEF Has
  <2>2. Has(h, cast) <=> \E k \in 1 .. Len(arrived[h]) : arrived'[h][k].cast = cast
    BY SMTT(30), SendAdds DEF Has
  <2>3. \A k \in 1 .. Len(arrived[h]) + 1 : k \in 1 .. Len(arrived[h]) \/ k = Len(arrived[h]) + 1
    BY SendAdds
  <2>4. Len(arrived[h]) + 1 \in 1 .. Len(arrived[h]) + 1
        /\ 1 .. Len(arrived[h]) \subseteq 1 .. Len(arrived[h]) + 1
    BY SendAdds
  <2> QED
    BY <1>2, <2>1, <2>2, <2>3, <2>4, SendAdds
<1> QED
  BY <1>1, <1>2

(* A send keeps what the owner has told. *)
LEMMA ToldSend ==
  ASSUME Basic, Told, NEW t \in Threads, NEW h \in Hosts, Send(t, h)
  PROVE  Told'
<1>1. /\ h \in todo[t] /\ todo' = [todo EXCEPT ![t] = @ \ {h}]
      /\ UNCHANGED <<listed, msg, routetable, owner>>
  BY DEF Send, Turn, routes
<1>2. todo \in [Threads -> SUBSET Hosts]
  BY DEF Basic, TypeOK
<1>3. \A u \in Threads : todo'[u] \subseteq todo[u]
  BY <1>1, <1>2
<1>4. t \in Hosts \cup {Server} => msg[t].cast \in {"unicast", "broadcast"}
  BY <1>1 DEF Told
<1>5. t = Owner => owner = msg[t].cast /\ owner \in {"disconnect", "closing"}
  BY <1>1 DEF Told
<1>6. t \in Hosts \cup {Server} \/ t = Owner
  BY DEF Threads
<1>7. h \notin todo'[t]
  BY <1>1, <1>2
<1>8. \A g \in Hosts : ~Has(g, "multicast")'
  BY <1>4, <1>5, <1>6, HasAfterSend DEF Told
<1>9. \A g \in Hosts : Has(g, "closing")' =>
        owner \in {"closing", "freed"} /\ g \notin todo'[Owner]
  <2> SUFFICES ASSUME NEW g \in Hosts, Has(g, "closing")'
               PROVE  owner \in {"closing", "freed"} /\ g \notin todo'[Owner]
    OBVIOUS
  <2>1. CASE Has(g, "closing")
    BY <1>3, <2>1, ThreadKinds DEF Told
  <2>2. CASE g = h /\ msg[t].cast = "closing"
    BY <1>4, <1>5, <1>6, <1>7, <2>2
  <2> QED
    BY <2>1, <2>2, HasAfterSend
<1>10. \A g \in 1 .. listed :
         \/ owner = "disconnect" /\ g \notin todo'[Owner]
         \/ owner \in {"closing", "freed"}
         => Has(g, "disconnect")'
  <2> SUFFICES ASSUME NEW g \in 1 .. listed,
                      \/ owner = "disconnect" /\ g \notin todo'[Owner]
                      \/ owner \in {"closing", "freed"}
               PROVE  Has(g, "disconnect")'
    OBVIOUS
  <2>1. g \in Hosts
    BY HostLenAssumption DEF Basic, TypeOK, Hosts
  <2>2. CASE Has(g, "disconnect")
    BY <2>1, <2>2, HasAfterSend
  <2>3. CASE ~Has(g, "disconnect")
    <3>1. owner = "disconnect" /\ g \in todo[Owner] /\ g \notin todo'[Owner]
      BY <2>3 DEF Told
    <3>2. t = Owner /\ g = h
      BY <1>1, <1>2, <3>1, ThreadKinds
    <3> QED
      BY <1>5, <2>1, <3>1, <3>2, HasAfterSend
  <2> QED
    BY <2>2, <2>3
<1>11. /\ \A u \in Hosts \cup {Server} :
            todo'[u] # {} => msg[u].cast \in {"unicast", "broadcast"}
       /\ todo'[Owner] # {} => owner = msg[Owner].cast /\ owner \in {"disconnect", "closing"}
       /\ todo'[Owner] \subseteq 1 .. listed
       /\ \A r \in Routes, i \in Columns : routetable[r][i] = NULL
  BY <1>3, ThreadKinds DEF Told
<1> QED
  BY <1>1, <1>8, <1>9, <1>10, <1>11 DEF Told

(* So do the other threads' calls, and the steps that send nothing. *)
LEMMA ToldOthers ==
  ASSUME Basic, Told, UNCHANGED <<arrived, listed, routetable, owner>>,
         NEW t \in Threads, t # Owner,
         todo' = [todo EXCEPT ![t] = todo'[t]], msg' = [msg EXCEPT ![t] = msg'[t]],
         todo'[t] # {} => msg'[t].cast \in {"unicast", "broadcast"}
  PROVE  Told'
<1>1. todo'[Owner] = todo[Owner] /\ msg'[Owner] = msg[Owner]
  BY ThreadKinds DEF Basic, TypeOK
<1>2. \A u \in Hosts \cup {Server} : todo'[u] # {} => msg'[u].cast \in {"unicast", "broadcast"}
  <2> SUFFICES ASSUME NEW u \in Hosts \cup {Server}, todo'[u] # {}
               PROVE  msg'[u].cast \in {"unicast", "broadcast"}
    OBVIOUS
  <2>1. CASE u = t
    BY <2>1
  <2>2. CASE u # t
    <3>1. todo'[u] = todo[u] /\ msg'[u] = msg[u]
      BY <2>2, ThreadKinds DEF Basic, TypeOK
    <3> QED
      BY <3>1 DEF Told
  <2> QED
    BY <2>1, <2>2
<1>3. \A g \in Hosts, cast \in Casts : Has(g, cast)' <=> Has(g, cast)
  BY DEF Has
<1>4. {"multicast", "closing", "disconnect"} \subseteq Casts
  BY DEF Casts
<1>5. 1 .. listed \subseteq Hosts
  BY HostLenAssumption DEF Basic, TypeOK, Hosts
<1> QED
  BY <1>1, <1>2, <1>3, <1>4, <1>5 DEF Told

LEMMA ToldSameSends ==
  ASSUME Basic, Told, UNCHANGED <<arrived, listed, routetable, owner, todo, msg>>
  PROVE  Told'
BY DEF Told, Has

LEMMA ToldHostCalls ==
  ASSUME Basic, Told, NEW h \in Hosts, HostCalls(h)
  PROVE  Told'
<1>1. h \in Threads /\ h # Owner
  BY ThreadKinds
<1>2. ASSUME NEW cast, NEW targets, NEW block, StartCall(h, cast, targets, block)
      PROVE  /\ todo' = [todo EXCEPT ![h] = todo'[h]] /\ msg' = [msg EXCEPT ![h] = msg'[h]]
             /\ todo'[h] = targets /\ msg'[h].cast = cast
  BY <1>1, <1>2 DEF StartCall, Basic, TypeOK
<1>3. ASSUME NEW target \in Hosts, NEW block \in BOOLEAN, Unicast(h, target, block) PROVE Told'
  BY <1>1, <1>2, <1>3, ToldOthers DEF Unicast, queues, routes
<1>4. CASE Broadcast(h)
  BY <1>1, <1>2, <1>4, ToldOthers DEF Broadcast, queues, routes
<1>5. ASSUME NEW r \in Routes, Multicast(h, r) PROVE Told'
  <2>1. {routetable[r][i] : i \in Columns} \ {NULL, h} = {}
    BY DEF Told
  <2>2. StartCall(h, "multicast", {}, FALSE)
    BY <1>5, <2>1 DEF Multicast
  <2> QED
    BY <1>1, <1>2, <1>5, <2>2, ToldOthers DEF Multicast, queues, routes
<1>6. ASSUME NEW r \in Routes, Join(h, r) \/ Drop(h, r) PROVE Told'
  <2>1. routetable' = routetable
    BY <1>6, TableStays
  <2>2. UNCHANGED <<arrived, listed, owner, todo, msg>>
    BY <1>6 DEF Join, Drop, queues
  <2> QED
    BY <2>1, <2>2, ToldSameSends
<1> QED
  BY <1>3, <1>4, <1>5, <1>6 DEF HostCalls

LEMMA ToldServer ==
  ASSUME Basic, Told, ServerEnd \/ \E marked \in SUBSET Hosts : ServerCast(marked)
  PROVE  Told'
<1>1. CASE ServerEnd
  BY <1>1, ToldSameSends DEF ServerEnd, queues, senders, routes
<1>2. ASSUME NEW marked \in SUBSET Hosts, ServerCast(marked) PROVE Told'
  <2>1. /\ todo' = [todo EXCEPT ![Server] = todo'[Server]]
        /\ msg' = [msg EXCEPT ![Server] = msg'[Server]] /\ msg'[Server].cast = "unicast"
    BY <1>2, ThreadKinds DEF ServerCast, StartCall, Basic, TypeOK
  <2> QED
    BY <1>2, <2>1, ThreadKinds, ToldOthers DEF ServerCast, queues, routes
<1> QED
  BY <1>1, <1>2

(* The owner's phases: nobody is told to close before everybody in the     *)
(* list has been told to disconnect.                                       *)
LEMMA ToldOwner ==
  ASSUME Basic, Told, OwnerStep \/ CreateFails \/ Delete
  PROVE  Told'
<1>1. CASE \E h \in Hosts : StartHost(h)
  BY <1>1, ToldSameSends DEF StartHost, queues, senders, routes
<1>2. 1 .. listed \subseteq Hosts /\ \A k \in 0 .. HostLen : 1 .. k \subseteq Hosts
  BY HostLenAssumption DEF Basic, TypeOK, Hosts
<1>3. CASE Created \/ Delete \/ Free
  <2>1. /\ UNCHANGED <<arrived, listed, todo, msg, routetable>> /\ todo[Owner] = {}
        /\ \/ owner' \in {"run", "joining"} /\ owner \in {"create", "run"}
           \/ owner' = "freed" /\ owner = "closing"
    BY <1>3 DEF Created, Delete, Free, Sending, queues, senders, routes, Told
  <2>2. \A g \in Hosts, cast \in Casts : Has(g, cast)' <=> Has(g, cast)
    BY <2>1 DEF Has
  <2>3. {"multicast", "closing", "disconnect"} \subseteq Casts
    BY DEF Casts
  <2> QED
    BY <1>2, <2>1, <2>2, <2>3 DEF Told
<1>4. ASSUME NEW k \in 0 .. HostLen, NEW cast, StartCall(Owner, cast, 1 .. k, FALSE),
             owner' = cast, listed' = k, UNCHANGED <<arrived, routetable>>,
             \/ cast = "disconnect" /\ owner \in {"create", "joining"}
             \/ cast = "closing" /\ owner = "disconnect" /\ todo[Owner] = {} /\ listed = k
      PROVE  Told'
  <2>1. /\ todo'[Owner] = 1 .. k /\ msg'[Owner].cast = cast
        /\ \A u \in Hosts \cup {Server} : todo'[u] = todo[u] /\ msg'[u] = msg[u]
    BY <1>4, ThreadKinds DEF StartCall, Basic, TypeOK
  <2>2. \A g \in Hosts, c \in Casts : Has(g, c)' <=> Has(g, c)
    BY <1>4 DEF Has
  <2>3. {"multicast", "closing", "disconnect"} \subseteq Casts
    BY DEF Casts
  <2>4. \A g \in Hosts : ~Has(g, "closing")
    BY <1>4 DEF Told
  <2>5. cast = "closing" => \A g \in 1 .. listed : Has(g, "disconnect")
    BY <1>4 DEF Told
  <2> QED
    BY <1>2, <1>4, <2>1, <2>2, <2>3, <2>4, <2>5 DEF Told
<1>5. listed \in 0 .. HostLen
  BY DEF Basic, TypeOK
<1>6. CASE CreateFails
  <2>1. PICK k \in 0 .. HostLen : listed' = k /\ StartCall(Owner, "disconnect", 1 .. k, FALSE)
    BY <1>6 DEF CreateFails
  <2>2. owner = "create" /\ owner' = "disconnect" /\ UNCHANGED <<arrived, routetable>>
    BY <1>6 DEF CreateFails, queues, routes
  <2> QED
    BY <1>4, <2>1, <2>2
<1>7. CASE Disconnect
  <2>1. /\ owner = "joining" /\ owner' = "disconnect"
        /\ UNCHANGED <<listed, arrived, routetable>>
        /\ StartCall(Owner, "disconnect", 1 .. listed, FALSE)
    BY <1>7 DEF Disconnect, queues, routes
  <2> QED
    BY <1>4, <1>5, <2>1
<1>8. CASE Closing
  <2>1. /\ owner = "disconnect" /\ owner' = "closing" /\ todo[Owner] = {}
        /\ UNCHANGED <<listed, arrived, routetable>>
        /\ StartCall(Owner, "closing", 1 .. listed, FALSE)
    BY <1>8 DEF Closing, Sending, queues, routes
  <2> QED
    BY <1>4, <1>5, <2>1
<1> QED
  BY <1>1, <1>3, <1>6, <1>7, <1>8 DEF OwnerStep

(* Nothing has been sent when the router is created. *)
LEMMA ToldInit == Init => Told /\ ClosingLast /\ EndsAtClosing
<1> SUFFICES ASSUME Init PROVE Told /\ ClosingLast /\ EndsAtClosing
  OBVIOUS
<1>1. \A h \in Hosts : arrived[h] = << >> /\ DOMAIN arrived[h] = {} /\ loc[h] = "unborn"
  BY DEF Init
<1>2. todo = [t \in Threads |-> {}] /\ owner = "create"
  BY DEF Init
<1>3. \A r \in Routes, i \in Columns : routetable[r][i] = NULL
  BY DEF Init
<1>4. Told
  BY <1>1, <1>2, <1>3, ThreadKinds DEF Told, Has
<1> QED
  BY <1>1, <1>4 DEF ClosingLast, EndsAtClosing

(* No host is told to close twice, or before it is told to disconnect.     *)
LEMMA ClosingLastSend ==
  ASSUME Basic, Told, ClosingLast, NEW t \in Threads, NEW h \in Hosts, Send(t, h)
  PROVE  ClosingLast'
<1> DEFINE n == Len(arrived[h])
<1> SUFFICES ASSUME NEW g \in Hosts, NEW k \in DOMAIN arrived'[g], arrived'[g][k].cast = "closing"
             PROVE  /\ \E j \in 1 .. k - 1 : arrived'[g][j].cast = "disconnect"
                    /\ \A j \in 1 .. k - 1 : arrived'[g][j].cast # "closing"
  BY DEF ClosingLast
<1>1. CASE g # h
  <2>1. arrived'[g] = arrived[g]
    BY <1>1, SendAdds
  <2> QED
    BY <2>1 DEF ClosingLast
<1>2. CASE g = h /\ k # n + 1
  <2>1. k \in 1 .. n /\ n \in Nat /\ 1 .. k - 1 \subseteq 1 .. n
    BY <1>2, SendAdds
  <2>2. \A i \in 1 .. n : arrived'[h][i] = arrived[h][i]
    BY SendAdds
  <2>3. k \in DOMAIN arrived[h] /\ arrived[h][k].cast = "closing"
    BY <1>2, <2>1, <2>2, SendAdds
  <2>4. /\ \E j \in 1 .. k - 1 : arrived[h][j].cast = "disconnect"
        /\ \A j \in 1 .. k - 1 : arrived[h][j].cast # "closing"
    BY <2>3 DEF ClosingLast
  <2> QED
    BY <1>2, <2>1, <2>2, <2>4
<1>3. CASE g = h /\ k = n + 1
  <2>1. msg[t].cast = "closing" /\ h \in todo[t]
    BY <1>3, SendAdds DEF Send, Turn
  <2>2. t = Owner
    BY <2>1 DEF Told, Threads
  <2>3. owner = "closing" /\ h \in 1 .. listed
    BY <2>1, <2>2 DEF Told
  <2>4. ~Has(h, "closing") /\ Has(h, "disconnect")
    BY <2>1, <2>2, <2>3 DEF Told
  <2>5. n \in Nat /\ k - 1 = n /\ DOMAIN arrived[h] = 1 .. n
    BY <1>3, SendAdds
  <2>6. \A i \in 1 .. n : arrived'[h][i] = arrived[h][i]
    BY SendAdds
  <2> QED
    BY <1>3, <2>4, <2>5, <2>6 DEF Has
<1> QED
  BY <1>1, <1>2, <1>3

(* A send does not touch the oldest message. *)
LEMMA EndsAtClosingSend ==
  ASSUME Basic, EndsAtClosing, NEW t \in Threads, NEW h \in Hosts, Send(t, h)
  PROVE  EndsAtClosing'
<1>1. UNCHANGED <<dropped, loc>>
  BY DEF Send
<1> SUFFICES ASSUME NEW g \in Hosts, loc[g] \in {"deinit", "ended"}
             PROVE  Occupied(g)' > 0 /\ arrived'[g][dropped[g] + 1].cast = "closing"
  BY <1>1 DEF EndsAtClosing
<1>2. Occupied(g) > 0 /\ arrived[g][dropped[g] + 1].cast = "closing"
  BY DEF EndsAtClosing
<1>3. CASE g # h
  BY <1>1, <1>2, <1>3, SendAdds DEF Occupied
<1>4. CASE g = h
  <2>1. /\ dropped[h] \in Nat /\ Len(arrived[h]) \in Nat /\ Len(arrived[h]) > dropped[h]
    BY <1>2, <1>4, QueueTyped DEF Basic
  <2>2. Len(arrived'[h]) = Len(arrived[h]) + 1 /\ dropped[h] + 1 \in 1 .. Len(arrived[h])
    BY <2>1, SendAdds
  <2>3. arrived'[h][dropped[h] + 1] = arrived[h][dropped[h] + 1]
    BY <2>2, SendAdds
  <2>4. Occupied(h)' = Len(arrived'[h]) - dropped[h]
    BY <1>1 DEF Occupied
  <2> QED
    BY <1>2, <1>4, <2>1, <2>2, <2>3, <2>4
<1> QED
  BY <1>3, <1>4

(* Of a host's own steps only the receipt of closing leads to deinit.      *)
LEMMA EndsAtClosingHost ==
  ASSUME Basic, ~Interrupts, Told, EndsAtClosing, NEW h \in Hosts, HostStep(h)
  PROVE  EndsAtClosing'
<1>1. ASSUME NEW l, loc' = [loc EXCEPT ![h] = l], arrived' = arrived,
             \A g \in Hosts : g # h => dropped'[g] = dropped[g],
             l \in {"deinit", "ended"} =>
               Occupied(h) > 0 /\ arrived[h][dropped[h] + 1].cast = "closing"
               /\ dropped'[h] = dropped[h]
      PROVE  EndsAtClosing'
  <2> SUFFICES ASSUME NEW g \in Hosts, loc'[g] \in {"deinit", "ended"}
               PROVE  Occupied(g)' > 0 /\ arrived'[g][dropped'[g] + 1].cast = "closing"
    BY DEF EndsAtClosing
  <2>1. CASE g = h
    <3>1. l \in {"deinit", "ended"}
      BY <1>1, <2>1 DEF Basic, TypeOK
    <3> QED
      BY <1>1, <2>1, <3>1 DEF Occupied
  <2>2. CASE g # h
    <3>1. loc'[g] = loc[g] /\ dropped'[g] = dropped[g]
      BY <1>1, <2>2 DEF Basic, TypeOK
    <3> QED
      BY <1>1, <3>1 DEF EndsAtClosing, Occupied
  <2> QED
    BY <2>1, <2>2
<1>2. CASE Return(h)
  <2>1. /\ loc' = [loc EXCEPT ![h] = After[loc[h]]] /\ loc[h] \in Callbacks
        /\ arrived' = arrived /\ dropped' = dropped
    BY <1>2 DEF Return, Goto, queues
  <2>2. After[loc[h]] \in {"deinit", "ended"} => loc[h] = "deinit"
    BY <2>1 DEF After, Callbacks
  <2> QED
    BY <1>1, <2>1, <2>2 DEF EndsAtClosing
<1>3. CASE Schedule(h)
  <2>1. PICK due \in BOOLEAN : loc' = [loc EXCEPT ![h] = IF due THEN "alarm" ELSE "receive"]
    BY <1>3 DEF Schedule, Goto
  <2>2. arrived' = arrived /\ dropped' = dropped
    BY <1>3 DEF Schedule, queues
  <2> QED
    BY <1>1, <2>1, <2>2
<1>4. CASE Release(h)
  <2>1. /\ loc' = [loc EXCEPT ![h] = "wait"] /\ arrived' = arrived
        /\ \A g \in Hosts : g # h => dropped'[g] = dropped[g]
    BY <1>4 DEF Release, Goto, Basic, TypeOK
  <2> QED
    BY <1>1, <2>1
<1>5. CASE Receive(h)
  <2> DEFINE cast == arrived[h][dropped[h] + 1].cast
  <2>1. /\ loc' = [loc EXCEPT ![h] = Routing(cast)] /\ Occupied(h) > 0
        /\ arrived' = arrived /\ dropped' = dropped
    BY <1>5 DEF Receive, Goto
  <2>2. arrived[h] \in Seq(Messages) /\ dropped[h] + 1 \in DOMAIN arrived[h]
    BY <2>1, QueueTyped DEF Basic
  <2>3. arrived[h][dropped[h] + 1] \in Messages
    BY <2>2
  <2>4. cast \in Casts
    BY <2>3 DEF Messages
  <2>5. cast # "multicast"
    BY <2>2 DEF Told, Has
  <2>6. Routing(cast) \in {"deinit", "ended"} => cast = "closing"
    BY <2>4, <2>5 DEF Routing, Casts
  <2> QED
    BY <1>1, <2>1, <2>6
<1>6. CASE ReceiveNothing(h)
  <2>1. Occupied(h) \in Nat
    BY QueueTyped, CapacityAssumption DEF Basic
  <2>2. \A time \in WaitTimes : "WQ_FAIL" \notin LockOutcomes(Occupied(h), time)
    BY DEF LockOutcomes, WaitTimes
  <2>3. PICK r \in {"WQ_SIGNALED", "WQ_TIMED_OUT", "WQ_FAIL"} :
          /\ r \notin {"WQ_SIGNALED", "WQ_FAIL"}
          /\ loc' = [loc EXCEPT ![h] = IF r = "WQ_TIMED_OUT" THEN "schedule" ELSE "deinit"]
    BY <1>6, <2>2 DEF ReceiveNothing, Goto, LockOutcomes, Results, WaitTimes
  <2>4. arrived' = arrived /\ dropped' = dropped
    BY <1>6 DEF ReceiveNothing, queues
  <2> QED
    BY <1>1, <2>3, <2>4
<1> QED
  BY <1>2, <1>3, <1>4, <1>5, <1>6 DEF HostStep

(* Every thread that starts begins with its init callback.                 *)
LEMMA EndsAtClosingOwner ==
  ASSUME Basic, EndsAtClosing, OwnerStep \/ CreateFails \/ Delete
  PROVE  EndsAtClosing'
<1>1. arrived' = arrived /\ dropped' = dropped
  BY DEF OwnerStep, StartHost, Created, CreateFails, Delete, Disconnect, Closing, Free, queues
<1>2. \A g \in Hosts : loc'[g] \in {"deinit", "ended"} => loc[g] \in {"deinit", "ended"}
  <2>1. ASSUME NEW h \in Hosts, StartHost(h)
        PROVE  \A g \in Hosts : loc'[g] \in {"deinit", "ended"} => loc[g] \in {"deinit", "ended"}
    BY <2>1 DEF StartHost, Goto, Basic, TypeOK
  <2>2. CASE Created \/ CreateFails \/ Delete \/ Disconnect \/ Closing \/ Free
    BY <2>2 DEF Created, CreateFails, Delete, Disconnect, Closing, Free
  <2> QED
    BY <2>1, <2>2 DEF OwnerStep
<1> QED
  BY <1>1, <1>2 DEF EndsAtClosing, Occupied

(* Whatever does not change what it speaks of keeps the invariant. *)
LEMMA ToldQuiet ==
  ASSUME UNCHANGED <<arrived, dropped, loc>>
  PROVE  (ClosingLast' <=> ClosingLast) /\ (EndsAtClosing' <=> EndsAtClosing)
BY DEF ClosingLast, EndsAtClosing, Occupied

(* The part that needs uninterrupted waits. *)
TellsAll == ~Interrupts => Told /\ ClosingLast /\ EndsAtClosing

(* The whole invariant: without interrupted waits the owner tells every    *)
(* host to disconnect before any to close, the callbacks tell nobody to,   *)
(* and only a host that was told to close has left its loop.               *)
THEOREM Invariance == Spec => []IInv
<1>1. Init => TellsAll
  BY ToldInit DEF TellsAll
<1>2. Basic /\ TellsAll /\ [Next]_vars => TellsAll'
  <2> SUFFICES ASSUME Basic, ~Interrupts, Told, ClosingLast, EndsAtClosing, [Next]_vars
               PROVE  Told' /\ ClosingLast' /\ EndsAtClosing'
    BY DEF TellsAll
  <2>1. ASSUME NEW t \in Threads, SendAck(t) PROVE Told' /\ ClosingLast' /\ EndsAtClosing'
    <3>1. UNCHANGED <<arrived, dropped, loc, listed, routetable, owner, todo, msg>>
      BY <2>1 DEF SendAck, routes
    <3> QED
      BY <3>1, ToldQuiet, ToldSameSends
  <2>2. ASSUME NEW t \in Threads, NEW h \in Hosts, SendFails(t, h) PROVE FALSE
    BY <2>2, NoSendFails
  <2>3. ASSUME NEW t \in Threads, NEW h \in Hosts, Send(t, h)
        PROVE  Told' /\ ClosingLast' /\ EndsAtClosing'
    BY <2>3, ToldSend, ClosingLastSend, EndsAtClosingSend
  <2>4. ASSUME NEW h \in Hosts, HostCalls(h) PROVE Told' /\ ClosingLast' /\ EndsAtClosing'
    <3>1. UNCHANGED <<arrived, dropped, loc>>
      BY <2>4 DEF HostCalls, Unicast, Broadcast, Multicast, Join, Drop, queues
    <3> QED
      BY <2>4, <3>1, ToldQuiet, ToldHostCalls
  <2>5. ASSUME NEW h \in Hosts, HostStep(h) PROVE Told' /\ ClosingLast' /\ EndsAtClosing'
    <3>1. UNCHANGED <<arrived, listed, routetable, owner, todo, msg>>
      BY <2>5 DEF HostStep, Return, Schedule, Release, Receive, ReceiveNothing,
                  queues, senders, routes
    <3>2. ClosingLast'
      BY <3>1 DEF ClosingLast
    <3> QED
      BY <2>5, <3>1, <3>2, ToldSameSends, EndsAtClosingHost
  <2>6. CASE ServerEnd \/ \E marked \in SUBSET Hosts : ServerCast(marked)
    <3>1. UNCHANGED <<arrived, dropped, loc>>
      BY <2>6 DEF ServerEnd, ServerCast, queues
    <3> QED
      BY <2>6, <3>1, ToldQuiet, ToldServer
  <2>7. CASE OwnerStep \/ CreateFails \/ Delete
    <3>1. arrived' = arrived
      BY <2>7 DEF OwnerStep, StartHost, Created, CreateFails, Delete, Disconnect, Closing,
                  Free, queues
    <3>2. ClosingLast'
      BY <3>1 DEF ClosingLast
    <3> QED
      BY <2>7, <3>2, ToldOwner, EndsAtClosingOwner
  <2>8. CASE UNCHANGED vars
    <3>1. UNCHANGED <<arrived, dropped, loc, listed, routetable, owner, todo, msg>>
      BY <2>8 DEF vars, queues, senders, routes
    <3> QED
      BY <3>1, ToldQuiet, ToldSameSends
  <2> QED
    BY <2>1, <2>2, <2>3, <2>4, <2>5, <2>6, <2>7, <2>8 DEF Next
<1>3. Basic /\ TellsAll => IInv
  BY DEF Basic, TellsAll, IInv
<1> QED
  BY <1>1, <1>2, <1>3, BasicInvariant, PTL DEF Spec

(* No host's thread stops before it has handled all that reached its queue *)
(* up to the owner's closing, with the owner's disconnect among it.        *)
THEOREM EndsAsTold == Spec => []EndsWhenTold
<1>1. IInv => EndsWhenTold
  <2> SUFFICES ASSUME IInv, ~Interrupts, NEW h \in Hosts, loc[h] \in {"deinit", "ended"}
               PROVE  \E j, k \in DOMAIN arrived[h] :
                        /\ j < k /\ k = dropped[h] + 1
                        /\ arrived[h][j].cast = "disconnect" /\ arrived[h][k].cast = "closing"
                        /\ \A i \in 1 .. k - 1 : arrived[h][i].cast # "closing"
    BY DEF EndsWhenTold
  <2> DEFINE k == dropped[h] + 1
  <2>1. Occupied(h) > 0 /\ arrived[h][k].cast = "closing"
    BY DEF IInv, EndsAtClosing
  <2>2. DOMAIN arrived[h] = 1 .. Len(arrived[h]) /\ Len(arrived[h]) \in Nat /\ k \in 1 .. Len(arrived[h])
    BY <2>1, QueueTyped DEF IInv
  <2>3. PICK j \in 1 .. k - 1 : arrived[h][j].cast = "disconnect"
    BY <2>1, <2>2 DEF IInv, ClosingLast
  <2>4. \A i \in 1 .. k - 1 : arrived[h][i].cast # "closing"
    BY <2>1, <2>2 DEF IInv, ClosingLast
  <2>5. j \in DOMAIN arrived[h] /\ j < k
    BY <2>2, <2>3
  <2> QED
    BY <2>1, <2>2, <2>3, <2>4, <2>5
<1> QED
  BY <1>1, Invariance, PTL
-----------------------------------------------------------------------------
(* What is sent to the hosts comes to them: every host's queue is used as  *)
(* a bounded FIFO, no acknowledgement is missing, and no host misses a     *)
(* broadcast.                                                              *)

(* Queues are FIFOs. *)

(* Facts on the part of a sequence that begins at d + 1 and ends with it.  *)
LEMMA PrefixOfAppend ==
  ASSUME NEW S, NEW a \in Seq(S), NEW m \in S, NEW i \in Nat \ {0}, NEW n \in 0 .. Len(a)
  PROVE  SubSeq(Append(a, m), i, n) = SubSeq(a, i, n)
<1>1. /\ Append(a, m) \in Seq(S) /\ Len(Append(a, m)) = Len(a) + 1
      /\ \A j \in 1 .. Len(a) : Append(a, m)[j] = a[j] /\ a[j] \in S
  BY AppendProperties, ElementOfSeq
<1>2. \A j \in i .. n : Append(a, m)[j] \in S /\ a[j] \in S /\ Append(a, m)[j] = a[j]
  BY <1>1
<1>3. /\ SubSeq(a, i, n) \in Seq(S) /\ SubSeq(Append(a, m), i, n) \in Seq(S)
      /\ Len(SubSeq(a, i, n)) = Len(SubSeq(Append(a, m), i, n))
      /\ \A k \in 1 .. Len(SubSeq(a, i, n)) : SubSeq(Append(a, m), i, n)[k] = SubSeq(a, i, n)[k]
  <2>1. i \in Int /\ n \in Int
    OBVIOUS
  <2>2. /\ SubSeq(a, i, n) \in Seq(S)
        /\ Len(SubSeq(a, i, n)) = IF i <= n THEN n-i+1 ELSE 0
        /\ \A k \in 1 .. n-i+1 : SubSeq(a, i, n)[k] = a[i+k-1]
    BY <1>2, <2>1, SubSeqProperties
  <2>3. /\ SubSeq(Append(a, m), i, n) \in Seq(S)
        /\ Len(SubSeq(Append(a, m), i, n)) = IF i <= n THEN n-i+1 ELSE 0
        /\ \A k \in 1 .. n-i+1 : SubSeq(Append(a, m), i, n)[k] = Append(a, m)[i+k-1]
    BY <1>2, <2>1, SubSeqProperties
  <2> QED
    BY <1>2, <2>1, <2>2, <2>3
<1> QED
  BY <1>3, SeqEqual

LEMMA SuffixOfAppend ==
  ASSUME NEW S, NEW a \in Seq(S), NEW m \in S, NEW d \in 0 .. Len(a)
  PROVE  SubSeq(Append(a, m), d + 1, Len(a) + 1) = Append(SubSeq(a, d + 1, Len(a)), m)
<1>1. /\ Append(a, m) \in Seq(S) /\ Len(Append(a, m)) = Len(a) + 1
      /\ Append(a, m)[Len(a) + 1] = m
  BY AppendProperties
<1>2. SubSeq(Append(a, m), d + 1, Len(a) + 1)
        = SubSeq(Append(a, m), d + 1, Len(a)) \o <<m>>
  <2>1. /\ d + 1 \in 1 .. Len(Append(a, m))
        /\ Len(a) + 1 \in d + 1 .. Len(Append(a, m)) /\ (Len(a) + 1) - 1 = Len(a)
    BY <1>1
  <2>2. SubSeq(Append(a, m), d + 1, Len(a) + 1)
          = SubSeq(Append(a, m), d + 1, (Len(a) + 1) - 1) \o <<Append(a, m)[Len(a) + 1]>>
    BY <1>1, <2>1, SubSeqRecursiveSecond
  <2> QED
    BY <1>1, <2>1, <2>2
<1>3. SubSeq(Append(a, m), d + 1, Len(a)) = SubSeq(a, d + 1, Len(a))
  BY PrefixOfAppend
<1>4. SubSeq(a, d + 1, Len(a)) \in Seq(S)
  BY SubSeqProperties, ElementOfSeq
<1> QED
  BY <1>2, <1>3, <1>4, AppendIsConcat

(* A queue that is left alone stutters. *)
LEMMA QueueStutters ==
  ASSUME NEW h \in Hosts, arrived'[h] = arrived[h], dropped'[h] = dropped[h], held'[h] = held[h]
  PROVE  UNCHANGED Queue(h)!vars
BY DEF Queue!vars

(* A step of one host's queue, in terms of the abstract FIFO. *)
LEMMA SendIsPut ==
  ASSUME Basic, NEW t \in Threads, NEW h \in Hosts, Send(t, h)
  PROVE  Queue(h)!Next
<1>1. TypeOK
  BY DEF Basic
<1> DEFINE a == arrived[h]
           d == dropped[h]
           m == msg[t]
<1>2. a \in Seq(Messages) /\ Len(a) \in Nat /\ d \in 0 .. Len(a) /\ m \in Messages
  BY <1>1, QueueTyped DEF TypeOK
<1>3. /\ arrived'[h] = Append(a, m) /\ dropped' = dropped /\ held' = held
      /\ Len(Append(a, m)) = Len(a) + 1
  BY <1>1, <1>2, AppendProperties DEF Send, TypeOK
<1>4. Len(SubSeq(a, d + 1, Len(a))) < Capacity
  <2>1. Capacity - Occupied(h) > 0 /\ Occupied(h) \in 0 .. Capacity
    <3>1. Occupied(h) \in 0 .. Capacity /\ Capacity - Occupied(h) \in Nat
      BY <1>1, QueueTyped, CapacityAssumption
    <3> QED
      BY <3>1, LockTakes DEF Send, WaitTimes
  <2>2. Len(SubSeq(a, d + 1, Len(a))) = Len(a) - d
    <3>1. \A i \in d + 1 .. Len(a) : a[i] \in Messages
      BY <1>2, ElementOfSeq
    <3> QED
      BY <1>2, <3>1, SubSeqProperties
  <2> QED
    BY <1>2, <2>1, <2>2, CapacityAssumption DEF Occupied
<1>5. SubSeq(Append(a, m), d + 1, Len(a) + 1) = Append(SubSeq(a, d + 1, Len(a)), m)
  BY <1>2, SuffixOfAppend
<1>6. \A n \in 0 .. Len(a) : SubSeq(Append(a, m), 1, n) = SubSeq(a, 1, n)
  BY <1>2, PrefixOfAppend
<1>7. d + (IF held[h] THEN 1 ELSE 0) \in 0 .. Len(a)
  BY <1>1, <1>2, QueueTyped DEF Basic, HeldIsQueued
<1>8. Queue(h)!Put(m)
  BY <1>3, <1>4, <1>5, <1>6, <1>7 DEF Queue!Put
<1> QED
  BY <1>2, <1>8 DEF Queue!Next

LEMMA ReleaseIsDrop ==
  ASSUME Basic, NEW h \in Hosts, Release(h), held[h]
  PROVE  Queue(h)!Next
<1>1. TypeOK
  BY DEF Basic
<1> DEFINE a == arrived[h]
           d == dropped[h]
<1>2. a \in Seq(Messages) /\ Len(a) \in Nat /\ d \in Nat /\ d + 1 \in 1 .. Len(a)
  BY <1>1, QueueTyped DEF Basic, HeldIsQueued
<1>3. arrived' = arrived /\ dropped'[h] = d + 1 /\ held'[h] = FALSE
  BY <1>1 DEF Release, TypeOK
<1>4. Tail(SubSeq(a, d + 1, Len(a))) = SubSeq(a, d + 2, Len(a))
  <2>1. Len(a) \in d + 1 .. Len(a) /\ (d + 1) + 1 = d + 2
    BY <1>2
  <2>2. Tail(SubSeq(a, d + 1, Len(a))) = SubSeq(a, (d + 1) + 1, Len(a))
    BY <1>2, <2>1, HeadTailOfSubSeq
  <2> QED
    BY <2>1, <2>2
<1>5. (d + 1) + 1 = d + 2 /\ d + 1 + 0 = d + 1
  BY <1>2
<1>6. Queue(h)!Drop
  BY <1>3, <1>4, <1>5 DEF Queue!Drop
<1> QED
  BY <1>6 DEF Queue!Next

LEMMA ReceiveIsGet ==
  ASSUME Basic, NEW h \in Hosts, Receive(h)
  PROVE  Queue(h)!Next
<1>1. TypeOK
  BY DEF Basic
<1> DEFINE a == arrived[h]
           d == dropped[h]
<1>2. /\ a \in Seq(Messages) /\ Len(a) \in Nat /\ d \in Nat
      /\ d + 1 \in 1 .. Len(a) /\ 1 \in 1 .. Len(a) /\ d + 1 \in 1 .. Len(a)
  BY <1>1, QueueTyped DEF Receive
<1>3. arrived' = arrived /\ dropped' = dropped /\ held'[h] = TRUE /\ held[h] = FALSE
  BY <1>1 DEF Receive, TypeOK, Basic, HeldIsQueued
<1>4. Head(SubSeq(a, d + 1, Len(a))) = a[d + 1]
  BY <1>2, HeadTailOfSubSeq
<1>5. SubSeq(a, 1, d + 1) = Append(SubSeq(a, 1, d), a[d + 1])
  <2>1. SubSeq(a, 1, d + 1) = SubSeq(a, 1, (d + 1) - 1) \o <<a[d + 1]>>
    BY <1>2, SubSeqRecursiveSecond
  <2>2. SubSeq(a, 1, d) \in Seq(Messages) /\ a[d + 1] \in Messages
    <3>1. \A i \in 1 .. d : a[i] \in Messages
      BY <1>2, ElementOfSeq
    <3> QED
      BY <1>2, <3>1, SubSeqProperties, ElementOfSeq
  <2>3. (d + 1) - 1 = d
    BY <1>2
  <2> QED
    BY <2>1, <2>2, <2>3, AppendIsConcat
<1>6. SubSeq(a, d + 1, Len(a)) # << >>
  <2>1. \A i \in d + 1 .. Len(a) : a[i] \in Messages
    BY <1>2, ElementOfSeq
  <2>2. Len(SubSeq(a, d + 1, Len(a))) = IF d + 1 <= Len(a) THEN Len(a) - (d + 1) + 1 ELSE 0
    BY <1>2, <2>1, SubSeqProperties
  <2>3. Len(SubSeq(a, d + 1, Len(a))) # 0
    BY <1>2, <2>2
  <2>4. ASSUME SubSeq(a, d + 1, Len(a)) = << >> PROVE FALSE
    <3>1. Len(SubSeq(a, d + 1, Len(a))) = 0
      BY <2>4, EmptySeq
    <3> QED
      BY <2>3, <3>1
  <2> QED
    BY <2>4
<1>7. d + 0 = d
  BY <1>2
<1>8. Queue(h)!Get
  BY <1>3, <1>4, <1>5, <1>6, <1>7 DEF Queue!Get
<1> QED
  BY <1>8 DEF Queue!Next

LEMMA QueuesStep ==
  ASSUME Basic, [Next]_vars, NEW g \in Hosts
  PROVE  [Queue(g)!Next]_(Queue(g)!vars)
<1>1. TypeOK
  BY DEF Basic
<1>2. ASSUME NEW t \in Threads, NEW h \in Hosts, Send(t, h) PROVE [Queue(g)!Next]_(Queue(g)!vars)
  <2>1. CASE h = g
    BY <1>2, <2>1, SendIsPut
  <2>2. CASE h # g
    BY <1>1, <1>2, <2>2, QueueStutters DEF Send, TypeOK
  <2> QED
    BY <2>1, <2>2
<1>3. ASSUME NEW h \in Hosts, Release(h) PROVE [Queue(g)!Next]_(Queue(g)!vars)
  <2>1. CASE h = g /\ held[h]
    BY <1>3, <2>1, ReleaseIsDrop
  <2>2. CASE h # g \/ ~held[h]
    BY <1>1, <1>3, <2>2, QueueStutters DEF Release, TypeOK
  <2> QED
    BY <2>1, <2>2
<1>4. ASSUME NEW h \in Hosts, Receive(h) PROVE [Queue(g)!Next]_(Queue(g)!vars)
  <2>1. CASE h = g
    BY <1>4, <2>1, ReceiveIsGet
  <2>2. CASE h # g
    BY <1>1, <1>4, <2>2, QueueStutters DEF Receive, TypeOK
  <2> QED
    BY <2>1, <2>2
<1>5. ASSUME UNCHANGED <<arrived, dropped, held>> PROVE UNCHANGED Queue(g)!vars
  BY <1>5, QueueStutters
<1>6. ASSUME NEW t \in Threads, SendAck(t) \/ \E h \in Hosts : SendFails(t, h)
      PROVE  UNCHANGED <<arrived, dropped, held>>
  BY <1>6 DEF SendAck, SendFails, queues
<1>7. ASSUME NEW h \in Hosts, HostCalls(h) \/ Return(h) \/ Schedule(h) \/ ReceiveNothing(h)
      PROVE  UNCHANGED <<arrived, dropped, held>>
  BY <1>7 DEF HostCalls, Unicast, Broadcast, Multicast, Join, Drop, Return, Schedule,
              ReceiveNothing, queues
<1>8. ASSUME OwnerStep \/ CreateFails \/ Delete PROVE UNCHANGED <<arrived, dropped, held>>
  BY <1>8 DEF OwnerStep, StartHost, Created, Disconnect, Closing, Free, CreateFails, Delete, queues
<1>9. ASSUME ServerEnd \/ \E marked \in SUBSET Hosts : ServerCast(marked)
      PROVE  UNCHANGED <<arrived, dropped, held>>
  BY <1>9 DEF ServerEnd, ServerCast, queues
<1>10. ASSUME UNCHANGED vars PROVE UNCHANGED <<arrived, dropped, held>>
  BY <1>10 DEF vars, queues
<1> QED
  BY <1>2, <1>3, <1>4, <1>5, <1>6, <1>7, <1>8, <1>9, <1>10 DEF Next, HostStep

(* The queue of every host, as its senders and its thread use it, is the   *)
(* bounded FIFO that RefinesFifo of WorkQueueProofs shows src/WQ.c to      *)
(* implement: the two models compose.                                      *)
THEOREM QueuesRefineFifo == Spec => QueuesAreFifos
<1>1. Init => \A h \in Hosts : Queue(h)!Init
  <2> SUFFICES ASSUME Init, NEW h \in Hosts PROVE Queue(h)!Init
    OBVIOUS
  <2>1. /\ arrived[h] = << >> /\ dropped[h] = 0 /\ held[h] = FALSE
        /\ Len(arrived[h]) = 0
    BY EmptySeq DEF Init
  <2>2. SubSeq(arrived[h], 0 + 1, 0) = << >> /\ SubSeq(arrived[h], 1, 0 + 0) = << >>
    BY SubSeqEmpty
  <2> QED
    BY <2>1, <2>2 DEF Queue!Init
<1>2. Basic /\ [Next]_vars => [\A h \in Hosts : [Queue(h)!Next]_(Queue(h)!vars)]_vars
  BY QueuesStep
<1> QED
  BY <1>1, <1>2, BasicInvariant, PTL DEF Spec, QueuesAreFifos
-----------------------------------------------------------------------------
(* Acknowledgements. *)

(* The threads that await the one of a slot, and what is still to come.    *)
Waiting(h, i) == {t \in Threads : awaits[t] = <<h, i>>}
Balanced(h, i) ==
  LET waiting == Cardinality(Waiting(h, i))
      coming == acks[h][i] + Cardinality(Owed(h, i))
  IN waiting <= coming /\ (~Interrupts => waiting = coming)

LEMMA AccountedIsBalanced == AcksAccounted <=> \A h \in Hosts, i \in Slots : Balanced(h, i)
BY DEF AcksAccounted, Balanced, Waiting

LEMMA ThreadsFinite == IsFiniteSet(Threads)
<1>1. IsFiniteSet(1 .. HostLen + 2)
  BY HostLenAssumption, FS_Interval
<1>2. Threads \in SUBSET (1 .. HostLen + 2)
  BY HostLenAssumption DEF Threads, Hosts, Owner, Server
<1> QED
  BY <1>1, <1>2, FS_Subset

(* Both are finite sets. *)
LEMMA WaitingCount ==
  ASSUME NEW h, NEW i
  PROVE  IsFiniteSet(Waiting(h, i)) /\ Cardinality(Waiting(h, i)) \in Nat
<1>1. Waiting(h, i) \in SUBSET Threads
  BY DEF Waiting
<1> QED
  BY <1>1, ThreadsFinite, FS_Subset, FS_CardinalityType

LEMMA OwedCount ==
  ASSUME Basic, NEW h \in Hosts, NEW i
  PROVE  IsFiniteSet(Owed(h, i)) /\ Cardinality(Owed(h, i)) \in Nat
<1>1. dropped[h] + 1 \in Int /\ Len(arrived[h]) \in Int
  BY QueueTyped DEF Basic
<1>2. Owed(h, i) \in SUBSET (dropped[h] + 1 .. Len(arrived[h]))
  BY DEF Owed
<1> QED
  BY <1>1, <1>2, FS_Interval, FS_Subset, FS_CardinalityType

(* A blocking send owes one acknowledgement more, and one thread waits     *)
(* for it.                                                                 *)
LEMMA AcksSend ==
  ASSUME Basic, NEW t \in Threads, NEW g \in Hosts, Send(t, g),
         NEW h \in Hosts, NEW i \in Slots, Balanced(h, i)
  PROVE  Balanced(h, i)'
<1> DEFINE k == Len(arrived[g]) + 1
           slot == (k - 1) % Capacity
<1>1. /\ awaits[t] = << >> /\ UNCHANGED <<dropped, acks>>
      /\ awaits' = [awaits EXCEPT ![t] = IF msg[t].block THEN <<g, slot>> ELSE << >>]
  <2>1. k - 1 = Len(arrived[g])
    BY SendAdds
  <2> QED
    BY <2>1 DEF Send, Turn
<1>2. /\ k \in Nat /\ dropped[g] \in Nat /\ dropped[g] < k
      /\ Len(arrived'[g]) = k /\ arrived'[g][k] = msg[t]
      /\ \A j \in 1 .. k - 1 : arrived'[g][j] = arrived[g][j]
      /\ \A f \in Hosts : f # g => arrived'[f] = arrived[f]
  BY SendAdds, QueueTyped DEF Basic
<1>3. awaits \in [Threads -> (Hosts \X Slots) \cup {<< >>}] /\ t \notin Waiting(h, i)
  BY <1>1 DEF Basic, TypeOK, Waiting
<1>4. CASE g = h /\ slot = i /\ msg[t].block
  <2>1. Waiting(h, i)' = Waiting(h, i) \cup {t}
    BY <1>1, <1>3, <1>4 DEF Waiting
  <2>2. Owed(h, i)' = Owed(h, i) \cup {k} /\ k \notin Owed(h, i)
    <3>1. k \in Owed(h, i)'
      BY <1>1, <1>2, <1>4 DEF Owed
    <3>2. k \notin Owed(h, i)
      BY <1>2, <1>4 DEF Owed
    <3>3. \A j : j # k => (j \in Owed(h, i)' <=> j \in Owed(h, i))
      BY SMTT(30), <1>1, <1>2, <1>4 DEF Owed
    <3> QED
      BY <3>1, <3>2, <3>3
  <2>3. /\ Cardinality(Waiting(h, i)') = Cardinality(Waiting(h, i)) + 1
        /\ Cardinality(Owed(h, i)') = Cardinality(Owed(h, i)) + 1
    BY <1>3, <2>1, <2>2, WaitingCount, OwedCount, FS_AddElement
  <2>4. acks[h][i] \in Nat /\ acks'[h][i] = acks[h][i]
    BY <1>1 DEF Basic, TypeOK
  <2> HIDE DEF k, slot
  <2> QED
    BY <2>3, <2>4, WaitingCount, OwedCount DEF Balanced
<1>5. CASE ~(g = h /\ slot = i /\ msg[t].block)
  <2>1. Waiting(h, i)' = Waiting(h, i)
    <3>1. awaits'[t] # <<h, i>>
      BY <1>1, <1>3, <1>5
    <3>2. \A u \in Threads : u # t => awaits'[u] = awaits[u]
      BY <1>1, <1>3
    <3> QED
      BY <1>3, <3>1, <3>2 DEF Waiting
  <2>2. Owed(h, i)' = Owed(h, i)
    <3>1. CASE g # h
      BY <1>1, <1>2, <3>1 DEF Owed
    <3>2. CASE g = h
      <4>1. k \notin Owed(h, i)' /\ k \notin Owed(h, i)
        BY <1>2, <1>5, <3>2 DEF Owed
      <4>2. \A j : j # k => (j \in Owed(h, i)' <=> j \in Owed(h, i))
        BY SMTT(30), <1>1, <1>2, <3>2 DEF Owed
      <4> HIDE DEF k, slot
      <4> QED
        BY <4>1, <4>2
    <3> QED
      BY <3>1, <3>2
  <2> QED
    BY <1>1, <2>1, <2>2 DEF Balanced
<1> QED
  BY <1>4, <1>5

(* WQ_recv posts for a message that it drops what the message has owed. *)
LEMMA AcksRelease ==
  ASSUME Basic, NEW g \in Hosts, Release(g), NEW h \in Hosts, NEW i \in Slots, Balanced(h, i)
  PROVE  Balanced(h, i)'
<1> DEFINE k == dropped[g] + 1
           slot == dropped[g] % Capacity
<1>1. /\ dropped[g] \in Nat /\ Len(arrived[g]) \in Nat /\ dropped[g] = k - 1
      /\ held[g] => dropped[g] < Len(arrived[g])
      /\ slot \in Slots /\ acks \in [Hosts -> [Slots -> Nat]] /\ dropped \in [Hosts -> Nat]
  <2>1. /\ dropped[g] \in Nat /\ Len(arrived[g]) \in Nat
        /\ held[g] => dropped[g] < Len(arrived[g])
    BY QueueTyped DEF Basic, HeldIsQueued
  <2>2. dropped[g] = k - 1 /\ slot \in Slots
    BY <2>1, SlotOfNext
  <2> QED
    BY <2>1, <2>2 DEF Basic, TypeOK
<1>2. Waiting(h, i)' = Waiting(h, i)
  BY DEF Release, Waiting, senders
<1>3. UNCHANGED arrived
  BY DEF Release
<1>4. CASE ~held[g]
  <2>1. UNCHANGED acks /\ \A f \in Hosts : dropped'[f] = dropped[f]
    BY <1>1, <1>4 DEF Release
  <2>2. Owed(h, i)' = Owed(h, i)
    BY <1>3, <2>1 DEF Owed
  <2> QED
    BY <1>2, <2>1, <2>2 DEF Balanced
<1>5. CASE held[g]
  <2>1. acks' = [acks EXCEPT ![g][slot] = IF arrived[g][k].block THEN @ + 1 ELSE @]
    BY <1>5 DEF Release
  <2>2. dropped'[g] = k /\ \A f \in Hosts : f # g => dropped'[f] = dropped[f]
    BY <1>1, <1>5 DEF Release
  <2>3. CASE g = h /\ slot = i /\ arrived[g][k].block
    <3>1. acks'[h][i] = acks[h][i] + 1
      BY <1>1, <2>1, <2>3
    <3>2. Owed(h, i)' = Owed(h, i) \ {k} /\ k \in Owed(h, i)
      <4>1. k \in Owed(h, i)
        BY <1>1, <1>5, <2>3 DEF Owed
      <4>2. k \notin Owed(h, i)'
        BY <1>1, <2>2, <2>3 DEF Owed
      <4>3. \A j : j # k => (j \in Owed(h, i)' <=> j \in Owed(h, i))
        BY <1>1, <1>3, <2>2, <2>3 DEF Owed
      <4> QED
        BY <4>1, <4>2, <4>3
    <3>3. Cardinality(Owed(h, i)') = Cardinality(Owed(h, i)) - 1
      BY SMTT(30), <3>2, OwedCount, FS_RemoveElement
    <3>4. acks[h][i] \in Nat
      BY <1>1
    <3> HIDE DEF k, slot
    <3> QED
      BY <1>2, <3>1, <3>3, <3>4, WaitingCount, OwedCount DEF Balanced
  <2>4. CASE ~(g = h /\ slot = i /\ arrived[g][k].block)
    <3>1. acks'[h][i] = acks[h][i]
      BY <1>1, <2>1, <2>4
    <3>2. Owed(h, i)' = Owed(h, i)
      <4>1. CASE g # h
        BY <1>3, <2>2, <4>1 DEF Owed
      <4>2. CASE g = h
        <5>1. k \notin Owed(h, i) /\ k \notin Owed(h, i)'
          BY <1>1, <1>3, <2>2, <2>4, <4>2 DEF Owed
        <5>2. \A j : j # k => (j \in Owed(h, i)' <=> j \in Owed(h, i))
          BY <1>1, <1>3, <2>2, <4>2 DEF Owed
        <5> QED
          BY <5>1, <5>2
      <4> QED
        BY <4>1, <4>2
    <3> QED
      BY <1>2, <3>1, <3>2 DEF Balanced
  <2> QED
    BY <2>3, <2>4
<1> QED
  BY <1>4, <1>5

(* A thread that has been woken takes the post it has waited for; one that *)
(* was interrupted leaves it to nobody.                                    *)
LEMMA AcksSendAck ==
  ASSUME Basic, NEW t \in Threads, SendAck(t), NEW h \in Hosts, NEW i \in Slots, Balanced(h, i)
  PROVE  Balanced(h, i)'
<1> DEFINE g == awaits[t][1]
           slot == awaits[t][2]
<1>1. /\ g \in Hosts /\ slot \in Slots /\ awaits[t] = <<g, slot>>
      /\ awaits \in [Threads -> (Hosts \X Slots) \cup {<< >>}]
      /\ acks \in [Hosts -> [Slots -> Nat]]
  BY SMTT(30) DEF SendAck, Basic, TypeOK
<1>2. Owed(h, i)' = Owed(h, i)
  BY DEF SendAck, Owed
<1>3. PICK r \in LockOutcomes(acks[g][slot], "INFINITE") :
        acks' = [acks EXCEPT ![g][slot] = IF r = "WQ_SIGNALED" THEN @ - 1 ELSE @]
  BY DEF SendAck
<1>4. acks[g][slot] \in Nat
  BY <1>1
<1>5. ~Interrupts => r = "WQ_SIGNALED"
  BY <1>3, <1>4, LockTakes DEF WaitTimes
<1>6. awaits' = [awaits EXCEPT ![t] = << >>]
  BY DEF SendAck
<1> HIDE DEF g, slot
<1>7. CASE g = h /\ slot = i
  <2>1. Waiting(h, i)' = Waiting(h, i) \ {t} /\ t \in Waiting(h, i)
    BY <1>1, <1>6, <1>7 DEF Waiting
  <2>2. Cardinality(Waiting(h, i)') = Cardinality(Waiting(h, i)) - 1
    BY <2>1, WaitingCount, FS_RemoveElement
  <2>3. acks'[h][i] = IF r = "WQ_SIGNALED" THEN acks[h][i] - 1 ELSE acks[h][i]
    BY <1>1, <1>3, <1>7
  <2>4. acks[h][i] \in Nat
    BY <1>1
  <2> QED
    BY <1>2, <1>5, <2>2, <2>3, <2>4, WaitingCount, OwedCount DEF Balanced
<1>8. CASE ~(g = h /\ slot = i)
  <2>1. acks'[h][i] = acks[h][i]
    BY <1>1, <1>3, <1>8
  <2>2. awaits[t] # <<h, i>> /\ awaits'[t] # <<h, i>>
    BY <1>1, <1>6, <1>8
  <2>3. \A u \in Threads : u # t => awaits'[u] = awaits[u]
    BY <1>1, <1>6
  <2>4. Waiting(h, i)' = Waiting(h, i)
    BY <2>2, <2>3 DEF Waiting
  <2> QED
    BY <1>2, <2>1, <2>4 DEF Balanced
<1> QED
  BY <1>7, <1>8

(* Whatever else happens does not concern acknowledgements. *)
LEMMA AcksQuiet ==
  ASSUME UNCHANGED <<arrived, dropped, acks, awaits>>, NEW h, NEW i, Balanced(h, i)
  PROVE  Balanced(h, i)'
<1>1. Waiting(h, i)' = Waiting(h, i) /\ Owed(h, i)' = Owed(h, i)
  BY DEF Waiting, Owed
<1> QED
  BY <1>1 DEF Balanced

LEMMA OtherStepsQuiet ==
  ASSUME [Next]_vars,
         \A t \in Threads : ~SendAck(t) /\ \A h \in Hosts : ~Send(t, h),
         \A h \in Hosts : ~Release(h)
  PROVE  UNCHANGED <<arrived, dropped, acks, awaits>>
<1>1. ASSUME NEW t \in Threads, NEW h \in Hosts, SendFails(t, h)
      PROVE  UNCHANGED <<arrived, dropped, acks, awaits>>
  BY <1>1 DEF SendFails, queues
<1>2. ASSUME NEW h \in Hosts, HostCalls(h)
      PROVE  UNCHANGED <<arrived, dropped, acks, awaits>>
  BY <1>2 DEF HostCalls, Unicast, Broadcast, Multicast, Join, Drop, queues
<1>3. ASSUME NEW h \in Hosts, HostStep(h)
      PROVE  UNCHANGED <<arrived, dropped, acks, awaits>>
  BY <1>3 DEF HostStep, Return, Schedule, Receive, ReceiveNothing, queues, senders
<1>4. CASE ServerEnd \/ \E marked \in SUBSET Hosts : ServerCast(marked)
  BY <1>4 DEF ServerEnd, ServerCast, queues, senders
<1>5. CASE OwnerStep \/ CreateFails \/ Delete
  BY <1>5 DEF OwnerStep, StartHost, Created, Disconnect, Closing, Free, CreateFails, Delete,
              queues, senders
<1>6. CASE UNCHANGED vars
  BY <1>6 DEF vars, queues, senders
<1> QED
  BY <1>1, <1>2, <1>3, <1>4, <1>5, <1>6 DEF Next

(* No thread in NetGroup_host_unicast is ever left waiting for a host that *)
(* has nothing to acknowledge, slot by slot.                               *)
THEOREM EveryAckIsOwed == Spec => []AcksAccounted
<1>1. Init => AcksAccounted
  <2> SUFFICES ASSUME Init, NEW h \in Hosts, NEW i \in Slots PROVE Balanced(h, i)
    BY AccountedIsBalanced
  <2>1. Waiting(h, i) = {} /\ acks[h][i] = 0
    BY DEF Init, Waiting
  <2>2. dropped[h] = 0 /\ Len(arrived[h]) = 0
    BY DEF Init
  <2>3. Owed(h, i) = {}
    BY <2>2 DEF Owed
  <2> QED
    BY <2>1, <2>3, FS_EmptySet DEF Balanced
<1>2. Basic /\ AcksAccounted /\ [Next]_vars => AcksAccounted'
  <2> SUFFICES ASSUME Basic, AcksAccounted, [Next]_vars, NEW h \in Hosts, NEW i \in Slots
               PROVE  Balanced(h, i)'
    BY DEF AcksAccounted, Balanced, Waiting
  <2>1. Balanced(h, i)
    BY AccountedIsBalanced
  <2>2. CASE \E t \in Threads : SendAck(t) \/ \E g \in Hosts : Send(t, g)
    BY <2>1, <2>2, AcksSend, AcksSendAck
  <2>3. CASE \E g \in Hosts : Release(g)
    BY <2>1, <2>3, AcksRelease
  <2>4. CASE /\ \A t \in Threads : ~SendAck(t) /\ \A g \in Hosts : ~Send(t, g)
             /\ \A g \in Hosts : ~Release(g)
    BY <2>1, <2>4, OtherStepsQuiet, AcksQuiet
  <2> QED
    BY <2>2, <2>3, <2>4
<1> QED
  BY <1>1, <1>2, BasicInvariant, PTL DEF Spec
-----------------------------------------------------------------------------
(* Broadcasts.  Every call of a thread gives its message a number of its   *)
(* own, so that the copies of one broadcast can be told from another's.    *)
Numbered ==
  /\ \A t \in Threads : msg[t].from = t /\ msg[t].n <= calls[t]
  /\ \A h \in Hosts : \A k \in DOMAIN arrived[h] :
       arrived[h][k].n <= calls[arrived[h][k].from]

(* Only hosts broadcast, and hosts run only in a router that was created:  *)
(* its list is not cut short by a failure.                                 *)
HostsBroadcast ==
  /\ \A t \in Threads : msg[t].cast = "broadcast" => t \in Hosts
  /\ \A h \in Hosts : \A k \in DOMAIN arrived[h] :
       arrived[h][k].cast = "broadcast" => arrived[h][k].from \in Hosts

AllListed == listed = HostLen \/ (owner # "create" /\ \A h \in Hosts : loc[h] = "unborn")

(* A host's n-th message is a broadcast. *)
IsBroadcast(t, n) ==
  \/ msg[t].n = n /\ msg[t].cast = "broadcast"
  \/ \E g \in Hosts : \E k \in DOMAIN arrived[g] :
       arrived[g][k].from = t /\ arrived[g][k].n = n /\ arrived[g][k].cast = "broadcast"

(* ... and each host has it or is still to get it, but for the sender.     *)
Complete(t, n) ==
  \A h \in Hosts : Copies(h, t, n) + Pending(h, t, n) = (IF h = t THEN 0 ELSE 1)

BroadcastInv ==
  /\ Numbered /\ HostsBroadcast /\ AllListed
  /\ \A t \in Hosts, n \in 0 .. MaxCalls + MaxServerCasts + 2 :
       IsBroadcast(t, n) => Complete(t, n)

LEMMA BroadcastInit == Init => BroadcastInv
<1> SUFFICES ASSUME Init PROVE BroadcastInv
  OBVIOUS
<1>1. Numbered
  BY DEF Init, Numbered
<1>2. HostsBroadcast
  BY DEF Init, HostsBroadcast
<1>3. AllListed
  BY DEF Init, AllListed
<1>4. \A t \in Hosts, n \in 0 .. MaxCalls + MaxServerCasts + 2 : ~IsBroadcast(t, n)
  BY ThreadKinds DEF Init, IsBroadcast
<1> QED
  BY <1>1, <1>2, <1>3, <1>4 DEF BroadcastInv

LEMMA ArrivedTyped ==
  ASSUME Basic, NEW h \in Hosts, NEW k \in DOMAIN arrived[h]
  PROVE  /\ arrived[h][k] \in Messages
         /\ arrived[h][k].from \in Threads /\ arrived[h][k].n \in Nat
         /\ arrived[h][k].n \in 0 .. MaxCalls + MaxServerCasts + 2
<1>1. arrived[h] \in Seq(Messages)
  BY DEF Basic, TypeOK
<1>2. arrived[h][k] \in Messages
  BY <1>1
<1> QED
  BY <1>2, BoundsAssumption DEF Messages

(* How many copies there are after a send. *)
LEMMA CopiesSend ==
  ASSUME Basic, NEW t \in Threads, NEW g \in Hosts, Send(t, g), NEW h \in Hosts, NEW u, NEW n
  PROVE  /\ Copies(h, u, n) \in Nat
         /\ Copies(h, u, n)' = IF h = g /\ msg[t].from = u /\ msg[t].n = n
                               THEN Copies(h, u, n) + 1 ELSE Copies(h, u, n)
<1> DEFINE Which == {k \in DOMAIN arrived[h] : arrived[h][k].from = u /\ arrived[h][k].n = n}
           last == Len(arrived[g]) + 1
<1>1. Len(arrived[h]) \in Nat /\ DOMAIN arrived[h] = 1 .. Len(arrived[h])
  BY QueueTyped DEF Basic
<1>2. IsFiniteSet(Which)
  <2>1. Which \in SUBSET (1 .. Len(arrived[h]))
    BY <1>1
  <2>2. IsFiniteSet(1 .. Len(arrived[h]))
    BY <1>1, FS_Interval
  <2> QED
    BY <2>1, <2>2, FS_Subset
<1>3. Cardinality(Which) \in Nat
  BY <1>2, FS_CardinalityType
<1>4. CASE h # g
  <2>1. arrived'[h] = arrived[h]
    BY <1>4, SendAdds
  <2> QED
    BY <1>3, <1>4, <2>1 DEF Copies
<1>5. CASE h = g
  <2>1. /\ DOMAIN arrived'[h] = 1 .. last /\ DOMAIN arrived[h] = 1 .. last - 1 /\ last \in Nat
        /\ arrived'[h][last] = msg[t]
        /\ \A k \in 1 .. last - 1 : arrived'[h][k] = arrived[h][k]
    BY <1>5, SendAdds
  <2> DEFINE Now == {k \in DOMAIN arrived'[h] :
                       arrived'[h][k].from = u /\ arrived'[h][k].n = n}
  <2>2. last \notin Which /\ \A k : k # last => (k \in Now <=> k \in Which)
    BY <2>1
  <2>3. last \in Now <=> msg[t].from = u /\ msg[t].n = n
    BY <2>1
  <2>4. Copies(h, u, n)' = Cardinality(Now) /\ Copies(h, u, n) = Cardinality(Which)
    BY DEF Copies
  <2> HIDE DEF Now, Which, last
  <2>5. CASE msg[t].from = u /\ msg[t].n = n
    <3>1. Now = Which \cup {last}
      BY <2>2, <2>3, <2>5
    <3> QED
      BY <1>2, <1>3, <1>5, <2>2, <2>4, <2>5, <3>1, FS_AddElement
  <2>6. CASE ~(msg[t].from = u /\ msg[t].n = n)
    <3>1. Now = Which
      BY <2>2, <2>3, <2>6
    <3> QED
      BY <1>3, <2>4, <2>6, <3>1
  <2> QED
    BY <2>5, <2>6
<1> QED
  BY <1>4, <1>5

(* A send turns a pending copy into one that has come. *)
LEMMA BroadcastSend ==
  ASSUME Basic, BroadcastInv, NEW t \in Threads, NEW g \in Hosts, Send(t, g)
  PROVE  BroadcastInv'
<1>1. /\ g \in todo[t] /\ todo' = [todo EXCEPT ![t] = @ \ {g}]
      /\ UNCHANGED <<msg, calls, listed, owner, loc>>
  BY DEF Send, Turn
<1>2. todo \in [Threads -> SUBSET Hosts] /\ msg \in [Threads -> Messages]
  BY DEF Basic, TypeOK
<1>3. msg[t].from = t /\ msg[t].n <= calls[t]
  BY DEF BroadcastInv, Numbered
<1>4. ASSUME NEW h \in Hosts, NEW k \in DOMAIN arrived'[h]
      PROVE  \/ k \in DOMAIN arrived[h] /\ arrived'[h][k] = arrived[h][k]
             \/ arrived'[h][k] = msg[t] /\ h = g
  <2>1. CASE h = g
    BY SMTT(30), <2>1, SendAdds
  <2>2. CASE h # g
    BY <2>2, SendAdds
  <2> QED
    BY <2>1, <2>2
<1>5. Numbered'
  BY <1>1, <1>3, <1>4 DEF BroadcastInv, Numbered
<1>6. HostsBroadcast'
  BY <1>1, <1>3, <1>4 DEF BroadcastInv, HostsBroadcast
<1>7. AllListed'
  BY <1>1 DEF BroadcastInv, AllListed
<1>8. ASSUME NEW u \in Hosts, NEW n \in 0 .. MaxCalls + MaxServerCasts + 2, IsBroadcast(u, n)'
      PROVE  Complete(u, n)'
  <2>1. IsBroadcast(u, n)
    BY <1>1, <1>3, <1>4, <1>8 DEF IsBroadcast
  <2>2. Complete(u, n)
    BY <2>1 DEF BroadcastInv
  <2> SUFFICES ASSUME NEW h \in Hosts
               PROVE  (Copies(h, u, n) + Pending(h, u, n))' = Copies(h, u, n) + Pending(h, u, n)
    BY <2>2 DEF Complete
  <2>3. CASE h = g /\ t = u /\ msg[t].n = n
    <3>1. Pending(h, u, n) = 1 /\ Pending(h, u, n)' = 0
      BY <1>1, <1>2, <2>3, ThreadKinds DEF Pending
    <3> QED
      BY <1>3, <2>3, <3>1, CopiesSend
  <2>4. CASE ~(h = g /\ t = u /\ msg[t].n = n)
    <3>1. Pending(h, u, n)' = Pending(h, u, n)
      BY <1>1, <1>2, <2>4, ThreadKinds DEF Pending
    <3>2. Copies(h, u, n)' = Copies(h, u, n)
      BY <1>3, <2>4, CopiesSend
    <3> QED
      BY <3>1, <3>2
  <2> QED
    BY <2>3, <2>4
<1> QED
  BY <1>5, <1>6, <1>7, <1>8 DEF BroadcastInv

(* What a step needs to do for broadcasts if it sends nothing. *)
Sent ==
  /\ Numbered /\ HostsBroadcast
  /\ \A t \in Hosts, n \in 0 .. MaxCalls + MaxServerCasts + 2 :
       IsBroadcast(t, n) => Complete(t, n)

LEMMA SentQuiet ==
  ASSUME Basic, Sent, UNCHANGED <<arrived, todo, msg>>,
         UNCHANGED calls \/ \E t \in Threads : calls' = [calls EXCEPT ![t] = @ + 1]
  PROVE  Sent'
<1>1. \A t \in Threads : calls[t] \in Nat /\ calls'[t] \in {calls[t], calls[t] + 1}
  BY DEF Basic, TypeOK
<1>2. ASSUME NEW h \in Hosts, NEW k \in DOMAIN arrived[h]
      PROVE  arrived[h][k].from \in Threads /\ arrived[h][k].n \in Nat
  BY ArrivedTyped
<1>3. \A t \in Threads : msg[t].n \in Nat
  BY BoundsAssumption DEF Basic, TypeOK, Messages
<1>4. Numbered'
  <2>1. \A t \in Threads : msg'[t].from = t /\ msg'[t].n <= calls'[t]
    BY <1>1, <1>3 DEF Sent, Numbered
  <2>2. ASSUME NEW h \in Hosts, NEW k \in DOMAIN arrived'[h]
        PROVE  arrived'[h][k].n <= calls'[arrived'[h][k].from]
    <3> DEFINE n == arrived[h][k].n
               u == arrived[h][k].from
    <3>1. u \in Threads /\ n \in Nat
      BY <1>2
    <3>2. n <= calls[u]
      BY DEF Sent, Numbered
    <3>3. n <= calls'[u]
      <4> HIDE DEF n, u
      <4> QED
        BY <1>1, <3>1, <3>2
    <3> QED
      BY <3>3
  <2> QED
    BY <2>1, <2>2 DEF Numbered
<1>5. HostsBroadcast'
  BY DEF Sent, HostsBroadcast
<1>6. ASSUME NEW t \in Hosts, NEW n \in 0 .. MaxCalls + MaxServerCasts + 2
      PROVE  (IsBroadcast(t, n) => Complete(t, n))'
  BY DEF Sent, IsBroadcast, Complete, Copies, Pending
<1> QED
  BY <1>4, <1>5, <1>6 DEF Sent

(* A new call has a new number; a broadcast is for all the others. *)
LEMMA SentStart ==
  ASSUME Basic, Sent, UNCHANGED arrived,
         NEW t \in Threads, NEW cast \in Casts, NEW targets, NEW block,
         StartCall(t, cast, targets, block),
         t \in Hosts => todo[t] = {},
         cast = "broadcast" => t \in Hosts /\ targets = Hosts \ {t}
  PROVE  Sent'
<1>1. /\ calls \in [Threads -> Nat] /\ msg \in [Threads -> Messages]
      /\ todo \in [Threads -> SUBSET Hosts]
  BY DEF Basic, TypeOK
<1>2. /\ calls'[t] = calls[t] + 1 /\ todo'[t] = targets
      /\ msg'[t] = [cast |-> cast, from |-> t, n |-> calls[t] + 1, block |-> block]
      /\ \A u \in Threads : u # t =>
           calls'[u] = calls[u] /\ todo'[u] = todo[u] /\ msg'[u] = msg[u]
  BY <1>1 DEF StartCall
<1>3. ASSUME NEW h \in Hosts, NEW k \in DOMAIN arrived[h]
      PROVE  arrived[h][k].from \in Threads /\ arrived[h][k].n \in Nat
  BY ArrivedTyped
<1>4. \A u \in Threads : msg[u].n \in Nat /\ calls[u] \in Nat /\ calls'[u] \in {calls[u], calls[u] + 1}
  BY <1>1, <1>2, BoundsAssumption DEF Messages
<1>5. Numbered'
  <2>1. \A u \in Threads : msg'[u].from = u /\ msg'[u].n <= calls'[u]
    BY <1>2, <1>4 DEF Sent, Numbered
  <2>2. ASSUME NEW h \in Hosts, NEW k \in DOMAIN arrived'[h]
        PROVE  arrived'[h][k].n <= calls'[arrived'[h][k].from]
    <3> DEFINE n == arrived[h][k].n
               u == arrived[h][k].from
    <3>1. u \in Threads /\ n \in Nat
      BY <1>3
    <3>2. n <= calls[u]
      BY DEF Sent, Numbered
    <3>3. n <= calls'[u]
      <4> HIDE DEF n, u
      <4> QED
        BY <1>2, <1>4, <3>1, <3>2
    <3> QED
      BY <3>3
  <2> QED
    BY <2>1, <2>2 DEF Numbered
<1>6. HostsBroadcast'
  BY <1>2 DEF Sent, HostsBroadcast
<1>7. ASSUME NEW u \in Hosts, NEW n \in 0 .. MaxCalls + MaxServerCasts + 2, IsBroadcast(u, n)'
      PROVE  Complete(u, n)'
  <2>1. CASE u # t
    <3>1. todo'[u] = todo[u] /\ msg'[u] = msg[u]
      BY <1>2, <2>1, ThreadKinds
    <3>2. IsBroadcast(u, n)
      BY <1>7, <3>1 DEF IsBroadcast
    <3> QED
      BY <3>1, <3>2 DEF Sent, Complete, Copies, Pending
  <2>2. CASE u = t /\ n # calls[t] + 1
    <3>1. IsBroadcast(u, n)
      BY <1>2, <1>7, <2>2 DEF IsBroadcast
    <3>2. ASSUME NEW h \in Hosts PROVE Pending(h, u, n)' = 0 /\ Pending(h, u, n) = 0
      BY <1>2, <2>2 DEF Pending
    <3>3. ASSUME NEW h \in Hosts PROVE Copies(h, u, n)' = Copies(h, u, n)
      BY DEF Copies
    <3> QED
      BY <3>1, <3>2, <3>3 DEF Sent, Complete
  <2>3. CASE u = t /\ n = calls[t] + 1
    <3>1. ASSUME NEW h \in Hosts, NEW k \in DOMAIN arrived[h], arrived[h][k].from = u
          PROVE  arrived[h][k].n # n
      <4>1. arrived[h][k].n <= calls[t] /\ arrived[h][k].n \in Nat
        BY <1>3, <2>3, <3>1 DEF Sent, Numbered
      <4> QED
        BY <1>4, <2>3, <4>1
    <3>2. cast = "broadcast"
      BY <1>2, <1>7, <2>3, <3>1 DEF IsBroadcast
    <3>3. ASSUME NEW h \in Hosts PROVE Copies(h, u, n)' = 0
      <4>1. {k \in DOMAIN arrived[h] : arrived[h][k].from = u /\ arrived[h][k].n = n} = {}
        BY <3>1
      <4> QED
        BY <4>1, FS_EmptySet DEF Copies
    <3>4. ASSUME NEW h \in Hosts PROVE Pending(h, u, n)' = (IF h = u THEN 0 ELSE 1)
      BY <1>2, <2>3, <3>2 DEF Pending
    <3> QED
      BY <3>3, <3>4 DEF Complete
  <2> QED
    BY <2>1, <2>2, <2>3
<1> QED
  BY <1>5, <1>6, <1>7 DEF Sent

(* The list of the hosts stays what it was when the first of them ran. *)
LEMMA ListKept == ASSUME Basic, AllListed, [Next]_vars PROVE AllListed'
<1>1. CASE CreateFails
  BY <1>1 DEF CreateFails, AllListed
<1>2. ASSUME NEW h \in Hosts, StartHost(h) PROVE AllListed'
  BY <1>2 DEF StartHost, AllListed
<1>3. CASE Created \/ Disconnect \/ Closing \/ Free \/ Delete
  BY <1>3 DEF Created, Disconnect, Closing, Free, Delete, AllListed
<1>4. ASSUME NEW h \in Hosts, HostStep(h) PROVE AllListed'
  <2>1. loc[h] # "unborn" /\ UNCHANGED <<listed, owner>>
    BY <1>4 DEF HostStep, Return, Schedule, Release, Receive, ReceiveNothing, Callbacks
  <2> QED
    BY <2>1 DEF AllListed
<1>5. ASSUME NEW h \in Hosts, HostCalls(h) PROVE AllListed'
  BY <1>5 DEF HostCalls, Unicast, Broadcast, Multicast, Join, Drop, AllListed
<1>6. CASE \E t \in Threads : SendAck(t) \/ \E h \in Hosts : Send(t, h) \/ SendFails(t, h)
  BY <1>6 DEF SendAck, Send, SendFails, AllListed
<1>7. CASE ServerEnd \/ \E marked \in SUBSET Hosts : ServerCast(marked)
  BY <1>7 DEF ServerEnd, ServerCast, AllListed
<1>8. CASE UNCHANGED vars
  BY <1>8 DEF vars, AllListed
<1> QED
  BY <1>1, <1>2, <1>3, <1>4, <1>5, <1>6, <1>7, <1>8 DEF Next, OwnerStep

LEMMA SentHostCalls ==
  ASSUME Basic, Sent, AllListed, NEW h \in Hosts, HostCalls(h) PROVE Sent'
<1>1. h \in Threads
  BY ThreadKinds
<1>2. ASSUME NEW target \in Hosts, NEW block \in BOOLEAN, Unicast(h, target, block) PROVE Sent'
  BY <1>1, <1>2, SentStart DEF Unicast, MayCall, Sending, Casts, queues
<1>3. CASE Broadcast(h)
  <2>1. listed = HostLen
    BY <1>3 DEF Broadcast, MayCall, Callbacks, AllListed
  <2>2. StartCall(h, "broadcast", Hosts \ {h}, FALSE) /\ todo[h] = {} /\ UNCHANGED arrived
    BY <1>3, <2>1 DEF Broadcast, MayCall, Sending, Hosts, queues
  <2> QED
    BY <1>1, <2>2, SentStart DEF Casts
<1>4. ASSUME NEW r \in Routes, Multicast(h, r) PROVE Sent'
  BY <1>1, <1>4, SentStart DEF Multicast, MayCall, Sending, Casts, queues
<1>5. ASSUME NEW r \in Routes, Join(h, r) \/ Drop(h, r) PROVE Sent'
  BY <1>1, <1>5, SentQuiet DEF Join, Drop, queues
<1> QED
  BY <1>2, <1>3, <1>4, <1>5 DEF HostCalls

LEMMA SentOwner ==
  ASSUME Basic, Sent, OwnerStep \/ CreateFails \/ Delete PROVE Sent'
<1>1. Owner \in Threads /\ Owner \notin Hosts
  BY ThreadKinds
<1>2. ASSUME NEW cast \in {"disconnect", "closing"}, NEW targets,
             StartCall(Owner, cast, targets, FALSE), UNCHANGED queues
      PROVE  Sent'
  BY <1>1, <1>2, SentStart DEF Casts, queues
<1>3. CASE CreateFails \/ Disconnect \/ Closing
  BY <1>2, <1>3 DEF CreateFails, Disconnect, Closing
<1>4. CASE (\E h \in Hosts : StartHost(h)) \/ Created \/ Free \/ Delete
  BY <1>4, SentQuiet DEF StartHost, Created, Free, Delete, queues, senders
<1> QED
  BY <1>3, <1>4 DEF OwnerStep

LEMMA SentServer ==
  ASSUME Basic, Sent, ServerEnd \/ \E marked \in SUBSET Hosts : ServerCast(marked) PROVE Sent'
<1>1. CASE ServerEnd
  BY <1>1, SentQuiet DEF ServerEnd, queues, senders
<1>2. ASSUME NEW marked \in SUBSET Hosts, ServerCast(marked) PROVE Sent'
  BY <1>2, ThreadKinds, SentStart DEF ServerCast, Casts, queues
<1> QED
  BY <1>1, <1>2

LEMMA BroadcastNext == ASSUME Basic, ~Interrupts, BroadcastInv, [Next]_vars PROVE BroadcastInv'
<1>1. Sent /\ AllListed
  BY DEF BroadcastInv, Sent
<1>2. Sent' => BroadcastInv'
  BY <1>1, ListKept DEF BroadcastInv, Sent
<1>3. ASSUME NEW t \in Threads, NEW h \in Hosts, Send(t, h) PROVE BroadcastInv'
  BY <1>3, BroadcastSend
<1>4. \A t \in Threads, h \in Hosts : ~SendFails(t, h)
  BY NoSendFails
<1>5. CASE \E t \in Threads : SendAck(t)
  BY <1>1, <1>2, <1>5, SentQuiet DEF SendAck
<1>6. ASSUME NEW h \in Hosts, HostCalls(h) PROVE BroadcastInv'
  BY <1>1, <1>2, <1>6, SentHostCalls
<1>7. ASSUME NEW h \in Hosts, HostStep(h) PROVE BroadcastInv'
  BY <1>1, <1>2, <1>7, SentQuiet
  DEF HostStep, Return, Schedule, Release, Receive, ReceiveNothing, queues, senders
<1>8. CASE ServerEnd \/ \E marked \in SUBSET Hosts : ServerCast(marked)
  BY <1>1, <1>2, <1>8, SentServer
<1>9. CASE OwnerStep \/ CreateFails \/ Delete
  BY <1>1, <1>2, <1>9, SentOwner
<1>10. CASE UNCHANGED vars
  BY <1>1, <1>2, <1>10, SentQuiet DEF vars, queues, senders
<1> QED
  BY <1>3, <1>4, <1>5, <1>6, <1>7, <1>8, <1>9, <1>10 DEF Next

(* A broadcast reaches every host but its sender exactly once, whoever     *)
(* else sends while NetGroup_host_broadcast walks the list.                *)
THEOREM BroadcastsReachAll == Spec => []BroadcastReachesOthers
<1>1. BroadcastInv /\ Basic => BroadcastReachesOthers
  <2> SUFFICES ASSUME BroadcastInv, Basic, NEW g \in Hosts, NEW k \in DOMAIN arrived[g],
                      arrived[g][k].cast = "broadcast"
               PROVE  Complete(arrived[g][k].from, arrived[g][k].n)
    BY DEF BroadcastReachesOthers, Complete
  <2>1. /\ arrived[g][k].from \in Hosts
        /\ arrived[g][k].n \in 0 .. MaxCalls + MaxServerCasts + 2
    BY ArrivedTyped DEF BroadcastInv, HostsBroadcast
  <2>2. IsBroadcast(arrived[g][k].from, arrived[g][k].n)
    BY DEF IsBroadcast
  <2> QED
    BY <2>1, <2>2 DEF BroadcastInv
<1>2. CASE Interrupts
  <2>1. BroadcastReachesOthers
    BY <1>2 DEF BroadcastReachesOthers
  <2> QED
    BY <2>1, PTL
<1>3. CASE ~Interrupts
  <2>1. Basic /\ BroadcastInv /\ [Next]_vars => BroadcastInv'
    BY <1>3, BroadcastNext
  <2> QED
    BY <1>1, <2>1, BroadcastInit, BasicInvariant, PTL DEF Spec
<1> QED
  BY <1>2, <1>3
=============================================================================
