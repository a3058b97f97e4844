---------------------------- MODULE IpcQueueProofs ----------------------------
(***************************************************************************)
(* What holds of src/WQIpc.c for any number of owners and clients, that    *)
(* open, close and die in any order, while waits are interrupted or not.   *)
(***************************************************************************)
EXTENDS IpcQueue, FiniteSetTheorems, TLAPS

(* A process between the opening and the closing of its queue, and one     *)
(* that has also found its segment.                                        *)
Live(p) == pc[p] \notin {"closed", "dead"}
Past(p) == Live(p) /\ pc[p] \notin {"open_lock", "segment"}

(* When a semaphore is made or looked up, and when its name is removed.    *)
MadeAt == [mutex |-> 0, reader |-> 1, writer |-> 2, ack |-> 3]
UnlinkedAt == [writer |-> 1, reader |-> 2, mutex |-> 3, ack |-> 4]

Has(p, k) == /\ Live(p) /\ (k # "mutex" => Past(p))
             /\ pc[p] = "names" => pos[p] > MadeAt[k]
Keeps(o, k) == Has(o, k) /\ (pc[o] = "unlink" => pos[o] <= UnlinkedAt[k])

OwnerPoints == Points \ {"send_writer", "send_lock", "send_copy", "send_ack"}
ClientPoints == {"closed", "open_lock", "segment", "names", "open", "send_writer",
                 "send_lock", "send_copy", "send_ack", "dead"}
Closing == {"recv_lock", "recv_release", "recv_wait", "recv_again", "recv_take", "unlink", "dead"}

(* Handles and names lead to what was made. *)
Handles ==
  /\ bound["shm"] <= made /\ \A k \in Semas : bound[k] <= opens
  /\ \A p \in Procs : handle[p]["shm"] <= made /\ \A k \in Semas : handle[p][k] <= opens
  /\ \A p \in Procs : Past(p) => handle[p]["shm"] # NULL
  /\ \A p \in Procs, k \in Semas : Has(p, k) => handle[p][k] # NULL
  /\ \A s \in SegIds : segment[s].ring <= opens
  /\ \A s \in SegIds : s > made => segment[s] = Zeroed
  /\ \A i \in Ids : i > opens =>
       /\ leaks[i] = 0 /\ skipped[i] = 0 /\ \A k \in Semas : count[k][i] = 0

(* What a process does is what its kind does. *)
Roles ==
  /\ \A o \in Owners : pc[o] \in OwnerPoints
  /\ \A c \in Clients : pc[c] \in ClientPoints /\ ~arg[c].closing
  /\ \A o \in Owners : /\ arg[o].closing => pc[o] \in Closing
                       /\ pc[o] = "unlink" => arg[o].closing
  /\ \A o \in Owners, k \in Semas : Has(o, k) => Obj(o, k) = Obj(o, "mutex")
  /\ \A p \in Procs : pc[p] \in {"open_lock", "segment"} => pos[p] = 1

(* No two owners have the same opening; an owner's names are its own. *)
OwnNames ==
  /\ \A o, q \in Owners : o # q /\ Live(o) /\ Live(q) => Obj(o, "mutex") # Obj(q, "mutex")
  /\ \A o \in Owners, k \in Semas : Keeps(o, k) => bound[k] = Obj(o, "mutex")

(* A segment that was not found is its owner's only. *)
OwnRing ==
  /\ \A o \in Owners : Past(o) => Seg(o).ring = Obj(o, "mutex") \/ Seg(o).adopted
  /\ \A o \in Owners, s \in SegIds :
       Live(o) /\ segment[s].ring = Obj(o, "mutex") => Past(o) /\ Obj(o, "shm") = s
  /\ \A o \in Owners : Past(o) /\ ~Seg(o).adopted => bound["shm"] = Obj(o, "shm")

(* It is open between Made and CloseState, while its names are bound.      *)
OpenRing ==
  /\ \A s \in SegIds : segment[s].ready \/ segment[s].state = 1 \/ segment[s].adopted
                         => segment[s].ring # NULL
  /\ \A s \in SegIds, k \in Semas :
       segment[s].state = 1 /\ ~segment[s].adopted => bound[k] = segment[s].ring
  /\ \A o \in Owners : Past(o) /\ arg[o].closing /\ ~Seg(o).adopted => Seg(o).state = 0
  /\ \A o \in Owners : pc[o] = "names" /\ ~Seg(o).adopted =>
       /\ ~Seg(o).ready /\ Seg(o).state = 0 /\ Seg(o).used = 0
       /\ \A j \in Slots : ~Seg(o).reading[j]

(* What a client has found belongs to the ring, as long as that is open. *)
OwnFinds ==
  \A c \in Clients : Past(c) =>
    /\ Seg(c).ready \/ Seg(c).adopted
    /\ Seg(c).state = 1 /\ ~Seg(c).adopted =>
         \A k \in Semas \ {"mutex"} : Has(c, k) => Obj(c, k) = Seg(c).ring

(* Nobody can have a slot of a ring whose writer semaphore is not made.    *)
Unmade(o) == Live(o) /\ ~Has(o, "writer")
NoSlotYet ==
  \A o \in Owners : Unmade(o) =>
    /\ count["writer"][Obj(o, "mutex")] = 0 /\ bound["writer"] # Obj(o, "mutex")
    /\ \A c \in Clients : Obj(c, "writer") # Obj(o, "mutex")

NothingRead ==
  \A s \in SegIds :
    segment[s].ring # NULL /\ ~segment[s].adopted /\ skipped[segment[s].ring] = 0
      => \A j \in Slots : ~segment[s].reading[j]

IpcInv == MutexAccounted /\ Handles /\ Roles /\ OwnNames /\ OwnRing /\ OpenRing /\ OwnFinds
            /\ NoSlotYet /\ NothingRead /\ NoSlotTwice
-----------------------------------------------------------------------------
USE LengthAssumption, BoundAssumption, ProcsAssumption, InterruptsAssumption

LEMMA LockTakes == \A n \in Nat, time \in WaitTimes :
                     /\ "WQ_SIGNALED" \in LockOutcomes(n, time) => n > 0
                     /\ LockOutcomes(n, time) \subseteq Results
BY DEF LockOutcomes, Results, WaitTimes

LEMMA NextCursor == \A cursor \in Slots : q_iNext(cursor) \in Slots
BY DEF Slots, q_iNext

(* A wait that is signaled takes one post ... *)
LEMMA Takes ==
  ASSUME TypeOK, NEW k \in Semas, NEW i \in Ids, count[k][i] > 0,
         count' = [count EXCEPT ![k][i] = @ - 1]
  PROVE  /\ count' \in [Semas -> [Ids -> Nat]] /\ count'[k][i] = count[k][i] - 1
         /\ \A l \in Semas, j \in Ids : l # k \/ j # i => count'[l][j] = count[l][j]
<1>1. count \in [Semas -> [Ids -> Nat]]
  BY DEF TypeOK
<1> DEFINE row == [count[k] EXCEPT ![i] = count[k][i] - 1]
<1>2. count[k] \in [Ids -> Nat] /\ count[k][i] \in Nat /\ count[k][i] - 1 \in Nat
  BY <1>1
<1>3. row \in [Ids -> Nat] /\ row[i] = count[k][i] - 1 /\ \A j \in Ids : j # i => row[j] = count[k][j]
  BY <1>2
<1>4. count' = [count EXCEPT ![k] = row]
  BY <1>1
<1> HIDE DEF row
<1> QED
  BY <1>1, <1>3, <1>4

(* ... and posts add one to the semaphores that the process has found.     *)
LEMMA Posts ==
  ASSUME TypeOK, NEW p \in Procs, NEW kinds \in SUBSET Semas, count' = Posted(p, kinds)
  PROVE  /\ count' \in [Semas -> [Ids -> Nat]]
         /\ \A k \in Semas, i \in Ids :
              count'[k][i] = IF k \in kinds /\ i = Obj(p, k) THEN count[k][i] + 1 ELSE count[k][i]
<1>1. count \in [Semas -> [Ids -> Nat]]
  BY DEF TypeOK
<1>2. ASSUME NEW k \in Semas
      PROVE  /\ count'[k] \in [Ids -> Nat]
             /\ \A i \in Ids : count'[k][i] =
                  IF k \in kinds /\ i = Obj(p, k) THEN count[k][i] + 1 ELSE count[k][i]
  <2>1. count[k] \in [Ids -> Nat]
    BY <1>1
  <2>2. CASE k \in kinds
    <3>1. count'[k] = [count[k] EXCEPT ![Obj(p, k)] = count[k][Obj(p, k)] + 1]
      BY <2>2 DEF Posted
    <3>2. \A i \in Ids : count[k][i] \in Nat /\ count[k][i] + 1 \in Nat
      BY <2>1
    <3> DEFINE x == Obj(p, k)
    <3> HIDE DEF x
    <3>3. count'[k] = [count[k] EXCEPT ![x] = count[k][x] + 1]
      BY <3>1 DEF x
    <3>4. /\ count'[k] \in [Ids -> Nat]
          /\ \A i \in Ids : count'[k][i] = IF i = x THEN count[k][i] + 1 ELSE count[k][i]
      <4>1. CASE x \in Ids
        <5> DEFINE one == count[k][x] + 1
        <5>1. one \in Nat
          BY <3>2, <4>1
        <5>2. count'[k] = [count[k] EXCEPT ![x] = one]
          BY <3>3
        <5> HIDE DEF one
        <5>3. /\ count'[k] \in [Ids -> Nat]
              /\ \A i \in Ids : count'[k][i] = IF i = x THEN one ELSE count[k][i]
          BY <2>1, <5>1, <5>2
        <5> QED
          BY <5>3 DEF one
      <4>2. CASE x \notin Ids
        BY <2>1, <3>3, <4>2
      <4> QED
        BY <4>1, <4>2
    <3> QED
      BY <2>2, <3>4 DEF x
  <2>3. CASE k \notin kinds
    BY <2>1, <2>3 DEF Posted
  <2> QED
    BY <2>2, <2>3
<1>3. count' \in [Semas -> [Ids -> Nat]]
  BY <1>2 DEF Posted
<1> QED
  BY <1>2, <1>3

(* A change of one segment. *)
LEMMA Rewrites ==
  ASSUME TypeOK, NEW s \in SegIds, NEW new \in Segments,
         segment' = [segment EXCEPT ![s] = new]
  PROVE  /\ segment' \in [SegIds -> Segments] /\ segment'[s] = new
         /\ \A r \in SegIds : r # s => segment'[r] = segment[r]
BY DEF TypeOK

LEMMA SegmentFields ==
  ASSUME TypeOK, NEW s \in SegIds
  PROVE  /\ segment[s] \in Segments
         /\ segment[s].ready \in BOOLEAN /\ segment[s].state \in 0 .. 1
         /\ segment[s].head \in Slots /\ segment[s].tail \in Slots
         /\ segment[s].reading \in [Slots -> BOOLEAN]
         /\ segment[s].sem_flag \in [Slots -> BOOLEAN]
         /\ segment[s].ring \in Ids \cup {NULL} /\ segment[s].adopted \in BOOLEAN
         /\ segment[s].used \in Int
BY DEF TypeOK, Segments

LEMMA ZeroedTyped == Zeroed \in Segments
BY DEF Zeroed, Segments, Slots
-----------------------------------------------------------------------------
(* What the steps that work in a segment do to it. *)

(* A segment as it was, as far as rings are concerned. *)
Kept(s) == /\ segment'[s].ring = segment[s].ring /\ segment'[s].adopted = segment[s].adopted
           /\ segment'[s].ready = segment[s].ready

LEMMA CopyEffect ==
  ASSUME TypeOK, NEW c \in Procs, Obj(c, "shm") \in SegIds, SendCopy(c)
  PROVE  /\ segment' \in [SegIds -> Segments]
         /\ \A s \in SegIds :
              /\ Kept(s) /\ segment'[s].state = segment[s].state
              /\ segment'[s].reading = segment[s].reading
              /\ segment'[s].used = segment[s].used + (IF s = Obj(c, "shm") THEN 1 ELSE 0)
<1> DEFINE s == Obj(c, "shm")
           old == segment[s]
           flags == [old.sem_flag EXCEPT ![old.tail] = arg[c].block \/ @]
           next == q_iNext(old.tail)
           used1 == old.used + 1
           new == [old EXCEPT !.sem_flag = flags, !.tail = next, !.used = used1]
<1>1. /\ old \in Segments /\ old.tail \in Slots /\ used1 \in Int
      /\ old.sem_flag \in [Slots -> BOOLEAN] /\ next \in Slots
  BY SegmentFields, NextCursor
<1>2. flags \in [Slots -> BOOLEAN]
  <2>1. (arg[c].block \/ old.sem_flag[old.tail]) \in BOOLEAN
    OBVIOUS
  <2> QED
    BY <1>1, <2>1
<1>3. segment'[s] = new /\ \A r \in SegIds : r # s => segment'[r] = segment[r]
  <2>1. segment'[s] = [old EXCEPT !.sem_flag[old.tail] = arg[c].block \/ @,
                                  !.tail = q_iNext(@), !.used = @ + 1]
        /\ \A r \in SegIds : r # s => segment'[r] = segment[r]
    BY DEF SendCopy, Seg, TypeOK
  <2> QED
    BY <1>1, <2>1 DEF Segments
<1>4. DOMAIN segment' = SegIds /\ segment' = [r \in SegIds |-> segment'[r]]
  BY DEF SendCopy, TypeOK
<1> HIDE DEF flags, next, used1, old
<1>5. /\ new \in Segments /\ new.ring = old.ring /\ new.adopted = old.adopted
      /\ new.ready = old.ready /\ new.state = old.state
      /\ new.reading = old.reading /\ new.used = used1
  BY <1>1, <1>2 DEF Segments
<1> HIDE DEF new, s
<1>6. segment' \in [SegIds -> Segments]
  BY <1>3, <1>4, <1>5 DEF TypeOK
<1>7. \A r \in SegIds : segment[r].used \in Int
  BY SegmentFields
<1> QED
  BY <1>3, <1>5, <1>6, <1>7 DEF Kept, s, old, used1

LEMMA ReleaseEffect ==
  ASSUME TypeOK, NEW o \in Procs, Obj(o, "shm") \in SegIds, RecvRelease(o)
  PROVE  /\ segment' \in [SegIds -> Segments]
         /\ \A s \in SegIds :
              /\ Kept(s) /\ segment'[s].state = segment[s].state
              /\ \A j \in Slots : segment'[s].reading[j] => segment[s].reading[j]
              /\ s # Obj(o, "shm") => segment'[s] = segment[s]
         /\ ~Seg(o).reading[Seg(o).head] =>
              UNCHANGED segment /\ count' = Posted(o, {"mutex"})
         /\ \E kinds \in SUBSET Semas :
              {"mutex"} \subseteq kinds /\ "reader" \notin kinds /\ count' = Posted(o, kinds)
<1>1. \E kinds \in SUBSET Semas :
        {"mutex"} \subseteq kinds /\ "reader" \notin kinds /\ count' = Posted(o, kinds)
  <2>1. CASE Seg(o).reading[Seg(o).head] /\ Seg(o).sem_flag[Seg(o).head]
    <3>1. count' = Posted(o, {"mutex", "writer"} \cup {"ack"})
      BY <2>1 DEF RecvRelease
    <3>2. {"mutex", "writer"} \cup {"ack"} \in SUBSET Semas
      BY DEF Semas
    <3> QED
      BY <3>1, <3>2
  <2>2. CASE Seg(o).reading[Seg(o).head] /\ ~Seg(o).sem_flag[Seg(o).head]
    <3>1. count' = Posted(o, {"mutex", "writer"} \cup {})
      BY <2>2 DEF RecvRelease
    <3>2. {"mutex", "writer"} \cup {} \in SUBSET Semas
      BY DEF Semas
    <3> QED
      BY <3>1, <3>2
  <2>3. CASE ~Seg(o).reading[Seg(o).head]
    <3>1. count' = Posted(o, {"mutex"}) /\ {"mutex"} \in SUBSET Semas
      BY <2>3 DEF RecvRelease, Semas
    <3> QED
      BY <3>1
  <2> QED
    BY <2>1, <2>2, <2>3
<1>2. CASE ~Seg(o).reading[Seg(o).head]
  <2>1. UNCHANGED segment /\ count' = Posted(o, {"mutex"})
    BY <1>2 DEF RecvRelease
  <2> QED
    BY <1>1, <1>2, <2>1 DEF Kept, TypeOK
<1>3. CASE Seg(o).reading[Seg(o).head]
  <2> DEFINE s == Obj(o, "shm")
             old == segment[s]
             flags == [old.sem_flag EXCEPT ![old.head] = FALSE]
             readings == [old.reading EXCEPT ![old.head] = FALSE]
             new == [old EXCEPT !.sem_flag = flags, !.reading = readings,
                                !.head = q_iNext(old.head), !.tail = old.tail, !.used = old.used - 1]
  <2>1. /\ old \in Segments /\ old.tail \in Slots /\ old.head \in Slots /\ old.used - 1 \in Int
        /\ old.sem_flag \in [Slots -> BOOLEAN] /\ old.reading \in [Slots -> BOOLEAN]
        /\ q_iNext(old.head) \in Slots
    BY SegmentFields, NextCursor
  <2>2. flags \in [Slots -> BOOLEAN] /\ readings \in [Slots -> BOOLEAN]
        /\ \A j \in Slots : readings[j] => old.reading[j]
    BY <2>1
  <2>3. segment'[s] = new /\ \A r \in SegIds : r # s => segment'[r] = segment[r]
    <3>1. segment'[s] = [old EXCEPT !.sem_flag[old.head] = FALSE, !.reading[old.head] = FALSE,
                                    !.head = q_iNext(@), !.used = @ - 1]
          /\ \A r \in SegIds : r # s => segment'[r] = segment[r]
      BY <1>3 DEF RecvRelease, Seg, TypeOK
    <3> QED
      BY ZenonT(40), <2>1, <3>1 DEF Segments
  <2>4. DOMAIN segment' = SegIds /\ segment' = [r \in SegIds |-> segment'[r]]
    BY <1>3 DEF RecvRelease, TypeOK
  <2>7. new = [old EXCEPT !.sem_flag = flags, !.reading = readings, !.head = q_iNext(old.head),
                          !.tail = old.tail, !.used = old.used - 1]
    OBVIOUS
  <2> HIDE DEF flags, readings, new, old
  <2>5. /\ new \in Segments /\ new.ring = old.ring /\ new.adopted = old.adopted
        /\ new.ready = old.ready /\ new.state = old.state /\ new.reading = readings
    BY <2>1, <2>2, <2>7 DEF Segments
  <2> HIDE DEF s
  <2>6. segment' \in [SegIds -> Segments]
    BY <2>3, <2>4, <2>5 DEF TypeOK
  <2> QED
    BY <1>1, <1>3, <2>2, <2>3, <2>5, <2>6 DEF Kept, s, old, Seg
<1> QED
  BY <1>2, <1>3
-----------------------------------------------------------------------------
(* Where processes are. *)

LEMMA PointSets ==
  /\ LockPoints = {"open_lock", "send_lock", "close_lock", "recv_lock", "recv_again"}
  /\ Points = LockPoints \cup {"segment", "send_copy", "close_state", "recv_release", "recv_take",
                "closed", "names", "open", "send_writer", "send_ack", "recv_wait", "unlink", "dead"}
  /\ \A l \in LockPoints : AfterLock[l] \in Points
<1>1. LockPoints = {"open_lock", "send_lock", "close_lock", "recv_lock", "recv_again"}
  BY DEF LockPoints, AfterLock
<1>2. {AfterLock[l] : l \in LockPoints} =
        {"segment", "send_copy", "close_state", "recv_release", "recv_take"}
  BY <1>1 DEF AfterLock
<1> QED
  BY <1>1, <1>2 DEF Points

LEMMA Goes ==
  ASSUME TypeOK, NEW p \in Procs, NEW l \in Points, Goto(p, l)
  PROVE  /\ pc' \in [Procs -> Points] /\ pc'[p] = l
         /\ \A q \in Procs : q # p => pc'[q] = pc[q]
BY DEF TypeOK, Goto

(* What a process has found is there. *)
LEMMA Objects ==
  ASSUME TypeOK, Handles, NEW p \in Procs
  PROVE  /\ Past(p) => Obj(p, "shm") \in SegIds
         /\ \A k \in Semas : Has(p, k) => Obj(p, k) \in Ids
         /\ Live(p) => Obj(p, "mutex") \in Ids
<1>1. \A k \in Semas : handle[p][k] \in Nat /\ handle[p]["shm"] \in Nat
  BY DEF TypeOK, Kinds
<1>2. \A k \in Semas : Has(p, k) => Obj(p, k) \in Ids
  BY <1>1 DEF Handles, TypeOK, Obj, Ids, NULL
<1>3. Live(p) => Has(p, "mutex") /\ "mutex" \in Semas
  <2>1. pos[p] \in 1 .. 5 /\ MadeAt["mutex"] = 0
    BY DEF TypeOK, MadeAt
  <2> QED
    BY <2>1 DEF Has, Semas
<1>4. handle[p]["shm"] \in Nat /\ MaxSegments \in Nat /\ made \in 0 .. MaxSegments
  BY BoundAssumption DEF TypeOK, Kinds
<1>5. Past(p) => handle[p]["shm"] # 0 /\ handle[p]["shm"] <= made
  BY DEF Handles, NULL
<1>6. Past(p) => Obj(p, "shm") \in SegIds
  BY <1>4, <1>5 DEF Obj, SegIds
<1> QED
  BY <1>2, <1>3, <1>6

LEMMA PastPoints ==
  \A p \in Procs :
    /\ pc[p] \in {"names", "send_lock", "send_copy", "send_ack", "send_writer", "close_lock",
                  "close_state", "recv_lock", "recv_release", "recv_wait", "recv_again",
                  "recv_take", "unlink", "open"} => Past(p)
    /\ pc[p] \notin {"closed", "dead", "open_lock", "segment", "names"} =>
         \A k \in Semas : Has(p, k)
BY DEF Past, Has, Live
-----------------------------------------------------------------------------
(* What the other steps that work in a segment do to it. *)

LEMMA TakeEffect ==
  ASSUME TypeOK, NEW o \in Procs, Obj(o, "shm") \in SegIds, RecvTake(o)
  PROVE  /\ segment' \in [SegIds -> Segments]
         /\ \A s \in SegIds :
              /\ Kept(s) /\ segment'[s].state = segment[s].state
              /\ segment'[s].used = segment[s].used
              /\ s # Obj(o, "shm") => segment'[s] = segment[s]
<1> DEFINE s == Obj(o, "shm")
           old == segment[s]
           readings == [old.reading EXCEPT ![old.head] = TRUE]
           new == [old EXCEPT !.reading = readings]
<1>1. old \in Segments /\ readings \in [Slots -> BOOLEAN]
  BY SegmentFields
<1>2. segment' = [segment EXCEPT ![s] = new]
  BY DEF RecvTake, Seg
<1> HIDE DEF readings, old
<1>3. /\ new \in Segments /\ new.ring = old.ring /\ new.adopted = old.adopted
      /\ new.ready = old.ready /\ new.state = old.state /\ new.used = old.used
  BY <1>1 DEF Segments
<1> HIDE DEF new, s
<1> QED
  BY <1>2, <1>3, Rewrites DEF Kept, s, old

LEMMA StateEffect ==
  ASSUME TypeOK, NEW o \in Procs, Obj(o, "shm") \in SegIds, Made(o) \/ CloseState(o)
  PROVE  /\ segment' \in [SegIds -> Segments]
         /\ \A s \in SegIds :
              /\ segment'[s].ring = segment[s].ring /\ segment'[s].adopted = segment[s].adopted
              /\ segment'[s].reading = segment[s].reading /\ segment'[s].used = segment[s].used
              /\ s # Obj(o, "shm") => segment'[s] = segment[s]
         /\ Made(o) => segment'[Obj(o, "shm")].ready /\ segment'[Obj(o, "shm")].state = 1
         /\ CloseState(o) => /\ segment'[Obj(o, "shm")].ready = Seg(o).ready
                             /\ segment'[Obj(o, "shm")].state = 0
<1> DEFINE s == Obj(o, "shm")
           old == segment[s]
<1>1. old \in Segments
  BY SegmentFields
<1>2. CASE Made(o)
  <2> DEFINE yes == TRUE
             one == 1
             new == [old EXCEPT !.ready = yes, !.state = one]
  <2>1. segment' = [segment EXCEPT ![s] = new] /\ yes \in BOOLEAN
    BY <1>2 DEF Made
  <2>5. one \in 0 .. 1
    OBVIOUS
  <2> HIDE DEF old, yes, one
  <2>2. /\ new \in Segments /\ new.ring = old.ring /\ new.adopted = old.adopted
        /\ new.ready = yes /\ new.state = one /\ new.reading = old.reading /\ new.used = old.used
    BY <1>1, <2>1, <2>5 DEF Segments
  <2>4. new.ready /\ new.state = 1
    BY <2>2 DEF yes, one
  <2>3. ~CloseState(o)
    BY <1>2 DEF Made, CloseState
  <2> HIDE DEF new, s
  <2> QED
    BY <1>2, <2>1, <2>2, <2>3, <2>4, Rewrites DEF s, old
<1>3. CASE CloseState(o)
  <2> DEFINE new == [old EXCEPT !.state = 0]
  <2>1. segment' = [segment EXCEPT ![s] = new]
    BY <1>3 DEF CloseState
  <2> HIDE DEF old
  <2>2. /\ new \in Segments /\ new.ring = old.ring /\ new.adopted = old.adopted
        /\ new.ready = old.ready /\ new.state = 0 /\ new.reading = old.reading
        /\ new.used = old.used
    BY <1>1 DEF Segments
  <2>3. ~Made(o)
    BY <1>3 DEF Made, CloseState
  <2> HIDE DEF new, s
  <2> QED
    BY <1>3, <2>1, <2>2, <2>3, Rewrites DEF s, old, Seg
<1> QED
  BY <1>2, <1>3

(* The segment that an opening attaches is the one that has the name, or a *)
(* new one; an owner's is then zeroed.                                     *)
LEMMA AttachEffect ==
  ASSUME TypeOK, NEW p \in Procs, Attach(p), bound["shm"] <= made
  PROVE  \E s \in SegIds :
           /\ s = IF bound["shm"] = NULL THEN made + 1 ELSE bound["shm"]
           /\ made' = IF bound["shm"] = NULL THEN made + 1 ELSE made
           /\ s <= made' /\ s # NULL /\ made' \in 0 .. MaxSegments
           /\ bound' \in [Kinds -> Nat] /\ bound'["shm"] = s
           /\ \A k \in Semas : bound'[k] = bound[k]
           /\ handle' \in [Procs -> [Kinds -> Nat]] /\ handle'[p]["shm"] = s
           /\ \A k \in Semas : handle'[p][k] = handle[p][k]
           /\ \A q \in Procs : q # p => handle'[q] = handle[q]
<1> DEFINE s == IF bound["shm"] = NULL THEN made + 1 ELSE bound["shm"]
<1>1. bound["shm"] \in Nat /\ "shm" \in Kinds /\ made \in Nat /\ MaxSegments \in Nat
      /\ made <= MaxSegments /\ Semas \subseteq Kinds /\ "shm" \notin Semas
  BY DEF TypeOK, Kinds, Semas
<1>2. /\ s <= MaxSegments /\ bound' = [bound EXCEPT !["shm"] = s]
      /\ made' = IF bound["shm"] = NULL THEN made + 1 ELSE made
      /\ handle' = [handle EXCEPT ![p]["shm"] = s]
  BY DEF Attach
<1>3. s \in SegIds /\ s \in Nat /\ s <= made' /\ s # NULL /\ made' \in 0 .. MaxSegments
  BY <1>1, <1>2 DEF SegIds, NULL
<1> HIDE DEF s
<1>4. /\ bound' \in [Kinds -> Nat] /\ bound'["shm"] = s /\ \A k \in Semas : bound'[k] = bound[k]
  BY <1>1, <1>2, <1>3 DEF TypeOK
<1>5. /\ handle' \in [Procs -> [Kinds -> Nat]] /\ handle'[p]["shm"] = s
      /\ \A k \in Semas : handle'[p][k] = handle[p][k]
      /\ \A q \in Procs : q # p => handle'[q] = handle[q]
  BY <1>1, <1>2, <1>3 DEF TypeOK
<1> QED
  BY <1>2, <1>3, <1>4, <1>5 DEF s

LEMMA OwnerSegmentEffect ==
  ASSUME TypeOK, NEW o \in Procs, OwnerSegment(o), bound["shm"] <= made, Obj(o, "mutex") \in Ids
  PROVE  \E s \in SegIds :
           /\ s = IF bound["shm"] = NULL THEN made + 1 ELSE bound["shm"]
           /\ segment' \in [SegIds -> Segments]
           /\ \A r \in SegIds : r # s => segment'[r] = segment[r]
           /\ segment'[s].ring = Obj(o, "mutex")
           /\ segment'[s].adopted <=> bound["shm"] # NULL
           /\ ~segment'[s].ready /\ segment'[s].state = 0 /\ segment'[s].used = 0
           /\ \A j \in Slots : ~segment'[s].reading[j]
<1>1. PICK s \in SegIds :
           /\ s = IF bound["shm"] = NULL THEN made + 1 ELSE bound["shm"]
           /\ bound'["shm"] = s
  BY AttachEffect DEF OwnerSegment
<1> DEFINE found == bound["shm"] # NULL
           ring == Obj(o, "mutex")
           new == [Zeroed EXCEPT !.ring = ring, !.adopted = found]
<1>2. segment' = [segment EXCEPT ![s] = new]
  BY <1>1 DEF OwnerSegment
<1>3. found \in BOOLEAN /\ ring \in Ids
  OBVIOUS
<1> HIDE DEF found, ring
<1>4. /\ new \in Segments /\ new.ring = ring /\ new.adopted = found /\ ~new.ready
      /\ new.state = 0 /\ new.used = 0 /\ \A j \in Slots : ~new.reading[j]
  BY <1>3, ZeroedTyped DEF Segments, Zeroed
<1> HIDE DEF new
<1> QED
  BY <1>1, <1>2, <1>4, Rewrites DEF found, ring
-----------------------------------------------------------------------------
(* Types. *)

Args == [time : WaitTimes, block : BOOLEAN, closing : BOOLEAN]

LEMMA MovesTyped ==
  ASSUME TypeOK, NEW p \in Procs, NEW l \in Points, Goto(p, l),
         count' \in [Semas -> [Ids -> Nat]], segment' \in [SegIds -> Segments],
         bound' \in [Kinds -> Nat], opens' \in 0 .. MaxOpens, made' \in 0 .. MaxSegments,
         handle' \in [Procs -> [Kinds -> Nat]], calls' \in [Procs -> 0 .. MaxCalls],
         leaks' \in [Ids -> Nat], skipped' \in [Ids -> Nat],
         pos' \in [Procs -> 1 .. 5], arg' \in [Procs -> Args]
  PROVE  TypeOK'
BY Goes DEF TypeOK, Args

LEMMA CallTyped ==
  ASSUME TypeOK, NEW p \in Procs, Call(p) PROVE calls' \in [Procs -> 0 .. MaxCalls]
<1>1. calls[p] \in 0 .. MaxCalls /\ calls[p] < MaxCalls /\ MaxCalls \in Nat
  BY DEF TypeOK, Call
<1>2. calls[p] + 1 \in 0 .. MaxCalls
  BY <1>1
<1> QED
  BY <1>2 DEF TypeOK, Call

LEMMA FailTyped ==
  ASSUME TypeOK, NEW p \in Procs, Obj(p, "mutex") \in Ids, Fail(p)
  PROVE  /\ leaks' \in [Ids -> Nat] /\ leaks'[Obj(p, "mutex")] = leaks[Obj(p, "mutex")] + 1
         /\ \A i \in Ids : i # Obj(p, "mutex") => leaks'[i] = leaks[i]
<1>1. leaks[Obj(p, "mutex")] + 1 \in Nat
  BY DEF TypeOK
<1> QED
  BY <1>1 DEF TypeOK, Fail

(* The steps of a process that change nothing but where it is, counts and  *)
(* what is in a segment.                                                   *)
Works(p) == \/ Lock(p) \/ Found(p) \/ SendRefused(p) \/ SendLockWriter(p)
            \/ SendClosed(p) \/ SendAck(p) \/ Made(p) \/ SendCopy(p) \/ RecvRelease(p)

LEMMA WorksCount ==
  ASSUME TypeOK, Handles, NEW p \in Procs, Works(p)
  PROVE  count' \in [Semas -> [Ids -> Nat]]
<1>1. Live(p) /\ Obj(p, "mutex") \in Ids /\ Semas = {"mutex", "reader", "writer", "ack"}
  <2>1. Live(p)
    BY PointSets DEF Works, Lock, Found, SendRefused, SendLockWriter, SendClosed, SendAck, Made,
                     SendCopy, RecvRelease, Live
  <2> QED
    BY <2>1, Objects DEF Semas
<1>2. CASE Lock(p)
  <2>1. count["mutex"][Obj(p, "mutex")] > 0
    BY <1>1, <1>2, LockTakes DEF Lock, TypeOK, WaitTimes
  <2> QED
    BY <1>1, <1>2, <2>1, Takes DEF Lock
<1>3. CASE SendLockWriter(p)
  <2>1. Obj(p, "writer") \in Ids
    BY <1>1, <1>3, Objects, PastPoints DEF SendLockWriter
  <2>2. count["writer"][Obj(p, "writer")] > 0
    BY <1>1, <1>3, <2>1, LockTakes DEF SendLockWriter, TypeOK
  <2> QED
    BY <1>1, <1>3, <2>1, <2>2, Takes DEF SendLockWriter
<1>4. CASE SendAck(p)
  <2>1. Obj(p, "ack") \in Ids
    BY <1>1, <1>4, Objects, PastPoints DEF SendAck
  <2>2. CASE count' = count
    BY <2>2 DEF TypeOK
  <2>3. CASE count' # count
    <3>1. /\ "WQ_SIGNALED" \in LockOutcomes(count["ack"][Obj(p, "ack")], "INFINITE")
          /\ count' = [count EXCEPT !["ack"][Obj(p, "ack")] = @ - 1]
      BY <1>4, <2>3 DEF SendAck
    <3>2. count["ack"][Obj(p, "ack")] > 0
      BY <1>1, <2>1, <3>1, LockTakes DEF TypeOK, WaitTimes
    <3> QED
      BY <1>1, <2>1, <3>1, <3>2, Takes
  <2> QED
    BY <2>2, <2>3
<1>5. CASE SendClosed(p) \/ SendCopy(p) \/ RecvRelease(p) \/ Found(p) \/ Made(p)
  <2>1. \E kinds \in SUBSET Semas : count' = Posted(p, kinds)
    <3>1. CASE RecvRelease(p)
      <4>1. Obj(p, "shm") \in SegIds
        BY <3>1, Objects, PastPoints DEF RecvRelease
      <4> QED
        BY <3>1, <4>1, ReleaseEffect
    <3>2. CASE SendClosed(p) \/ SendCopy(p) \/ Found(p) \/ Made(p)
      <4>1. \/ count' = Posted(p, {"mutex"}) \/ count' = Posted(p, {"mutex", "writer"})
            \/ count' = Posted(p, {"mutex", "reader"})
        BY <3>2 DEF SendClosed, SendCopy, Found, Made
      <4>2. {"mutex"} \in SUBSET Semas /\ {"mutex", "writer"} \in SUBSET Semas
            /\ {"mutex", "reader"} \in SUBSET Semas
        BY <1>1
      <4> QED
        BY <4>1, <4>2
    <3> QED
      BY <1>5, <3>1, <3>2
  <2> QED
    BY <2>1, Posts
<1>6. CASE SendRefused(p)
  BY <1>6 DEF SendRefused, objects, TypeOK
<1> QED
  BY <1>2, <1>3, <1>4, <1>5, <1>6 DEF Works

LEMMA WorksTyped ==
  ASSUME TypeOK, Handles, NEW p \in Procs, Works(p)
  PROVE  TypeOK' /\ \E l \in Points : Goto(p, l)
<1>1. \E l \in Points : Goto(p, l)
  <2>1. CASE Lock(p)
    BY <2>1, PointSets DEF Lock
  <2>2. CASE ~Lock(p)
    <3>1. Goto(p, "open") \/ Goto(p, "send_lock") \/ Goto(p, "send_ack") \/ Goto(p, "recv_wait")
      BY <2>2 DEF Works, Found, SendRefused, SendLockWriter, SendClosed, SendAck, Made, SendCopy,
                  RecvRelease
    <3> QED
      BY <3>1, PointSets
  <2> QED
    BY <2>1, <2>2
<1>2. segment' \in [SegIds -> Segments]
  <2>1. CASE SendCopy(p) \/ RecvRelease(p) \/ Made(p)
    <3>1. Obj(p, "shm") \in SegIds
      BY <2>1, Objects, PastPoints DEF SendCopy, RecvRelease, Made
    <3> QED
      BY <2>1, <3>1, CopyEffect, ReleaseEffect, StateEffect
  <2>2. CASE UNCHANGED segment
    BY <2>2 DEF TypeOK
  <2> QED
    BY <2>1, <2>2 DEF Works, Lock, Found, SendRefused, SendLockWriter, SendClosed, SendAck, objects
<1>3. UNCHANGED <<bound, opens, made, handle, calls, leaks, skipped, pos, arg>>
  BY DEF Works, Lock, Found, SendRefused, SendLockWriter, SendClosed, SendAck, Made, SendCopy,
         RecvRelease, objects, history
<1> QED
  BY <1>1, <1>2, <1>3, WorksCount, MovesTyped DEF TypeOK, Args

(* The names a semaphore is made under. *)
LEMMA Orders ==
  /\ Len(MakeOrder) = 3 /\ Len(UnlinkOrder) = 5
  /\ MakeOrder[1] = "reader" /\ MakeOrder[2] = "writer" /\ MakeOrder[3] = "ack"
  /\ UnlinkOrder[1] = "writer" /\ UnlinkOrder[2] = "reader" /\ UnlinkOrder[3] = "mutex"
  /\ UnlinkOrder[4] = "ack" /\ UnlinkOrder[5] = "shm"
BY DEF MakeOrder, UnlinkOrder

LEMMA MakeOrders ==
  \A n \in 1 .. 5 : n <= Len(MakeOrder) =>
    /\ MakeOrder[n] \in Semas \ {"mutex"} /\ MadeAt[MakeOrder[n]] = n /\ n + 1 \in 1 .. 5
    /\ \A k \in Semas : MadeAt[k] = n => k = MakeOrder[n]
<1> SUFFICES ASSUME NEW n \in 1 .. 5, n <= Len(MakeOrder)
             PROVE  /\ MakeOrder[n] \in Semas \ {"mutex"} /\ MadeAt[MakeOrder[n]] = n
                    /\ n + 1 \in 1 .. 5 /\ \A k \in Semas : MadeAt[k] = n => k = MakeOrder[n]
  OBVIOUS
<1>1. n = 1 \/ n = 2 \/ n = 3
  BY Orders
<1>2. MadeAt["mutex"] = 0 /\ MadeAt["reader"] = 1 /\ MadeAt["writer"] = 2 /\ MadeAt["ack"] = 3
  BY DEF MadeAt
<1> QED
  BY <1>1, <1>2, Orders DEF Semas

(* A call's arguments, and its place in the drain. *)
LEMMA ArgFields ==
  ASSUME NEW a \in [Procs -> Args], NEW p \in Procs
  PROVE  /\ \A t \in WaitTimes : [a EXCEPT ![p].time = t] \in [Procs -> Args]
         /\ \A b \in BOOLEAN : /\ [a EXCEPT ![p].block = b] \in [Procs -> Args]
                               /\ [a EXCEPT ![p].closing = b] \in [Procs -> Args]
<1>1. \A q \in Procs : a[q] \in Args
  OBVIOUS
<1>2. \A t \in WaitTimes : [a[p] EXCEPT !.time = t] \in Args
  BY <1>1 DEF Args
<1>3. \A b \in BOOLEAN : [a[p] EXCEPT !.block = b] \in Args /\ [a[p] EXCEPT !.closing = b] \in Args
  BY <1>1 DEF Args
<1> QED
  BY <1>2, <1>3

LEMMA SendAndReceiveTyped ==
  ASSUME TypeOK, Handles, NEW p \in Procs,
         \/ \E time \in Times : Recv(p, time) \/ \E block \in BOOLEAN : Send(p, time, block)
         \/ RecvWait(p) \/ RecvTake(p) \/ CloseState(p)
  PROVE  TypeOK' /\ \E l \in Points : Goto(p, l)
<1>0. arg \in [Procs -> Args]
  BY DEF TypeOK, Args
<1>1. /\ arg[p] \in Args /\ arg[p].time \in WaitTimes
      /\ arg[p].block \in BOOLEAN /\ arg[p].closing \in BOOLEAN
  BY DEF TypeOK, Args
<1>2. CASE \E time \in Times : Recv(p, time) \/ \E block \in BOOLEAN : Send(p, time, block)
  <2>1. PICK time \in Times : Recv(p, time) \/ \E block \in BOOLEAN : Send(p, time, block)
    BY <1>2
  <2>2. time \in WaitTimes
    BY DEF Times, WaitTimes
  <2>3. arg' \in [Procs -> Args]
    <3>1. CASE Recv(p, time)
      BY <1>0, <2>2, <3>1, ArgFields DEF Recv
    <3>2. ASSUME NEW block \in BOOLEAN, Send(p, time, block) PROVE arg' \in [Procs -> Args]
      <4> DEFINE timed == [arg EXCEPT ![p].time = time]
      <4>1. timed \in [Procs -> Args]
        BY <1>0, <2>2, ArgFields
      <4>2. arg' = [timed EXCEPT ![p].block = block]
        BY <3>2 DEF Send
      <4> HIDE DEF timed
      <4> QED
        BY <4>1, <4>2, ArgFields
    <3> QED
      BY <2>1, <3>1, <3>2
  <2>4. Goto(p, "recv_lock") \/ Goto(p, "send_writer")
    BY <2>1 DEF Recv, Send
  <2>5. calls' \in [Procs -> 0 .. MaxCalls]
    BY <2>1, CallTyped DEF Recv, Send
  <2>6. UNCHANGED <<bound, opens, made, handle, count, segment, pos, leaks, skipped>>
    BY <2>1 DEF Recv, Send, objects, history
  <2> QED
    BY <2>3, <2>4, <2>5, <2>6, MovesTyped, PointSets DEF TypeOK, Args
<1>3. CASE RecvWait(p)
  <2>1. Obj(p, "mutex") \in Ids /\ "mutex" \in Semas
    BY <1>3, Objects DEF RecvWait, Live, Semas
  <2>2. count' \in [Semas -> [Ids -> Nat]]
    <3>1. CASE count' = count
      BY <3>1 DEF TypeOK
    <3>2. CASE count' # count
      <4>1. /\ "WQ_SIGNALED" \in LockOutcomes(count["mutex"][Obj(p, "mutex")], arg[p].time)
            /\ count' = [count EXCEPT !["mutex"][Obj(p, "mutex")] = @ - 1]
        BY <1>3, <3>2 DEF RecvWait
      <4>2. count["mutex"][Obj(p, "mutex")] > 0
        BY <1>1, <2>1, <4>1, LockTakes DEF TypeOK
      <4> QED
        BY <2>1, <4>1, <4>2, Takes
    <3> QED
      BY <3>1, <3>2
  <2>3. pos' \in [Procs -> 1 .. 5]
    BY <1>3 DEF RecvWait, TypeOK
  <2>4. Goto(p, "recv_again") \/ Goto(p, "unlink") \/ Goto(p, "open")
    BY <1>3 DEF RecvWait
  <2>5. UNCHANGED <<bound, opens, made, handle, segment, arg, calls, leaks, skipped>>
    BY <1>3 DEF RecvWait, history
  <2> QED
    BY <2>2, <2>3, <2>4, <2>5, MovesTyped, PointSets DEF TypeOK, Args
<1>4. CASE RecvTake(p) \/ CloseState(p)
  <2>1. Obj(p, "mutex") \in Ids /\ Obj(p, "shm") \in SegIds /\ {"mutex"} \in SUBSET Semas
    BY <1>4, Objects, PastPoints DEF RecvTake, CloseState, Live, Semas
  <2>2. count' \in [Semas -> [Ids -> Nat]]
    BY <1>4, <2>1, Posts DEF RecvTake, CloseState
  <2>3. segment' \in [SegIds -> Segments]
    BY <1>4, <2>1, TakeEffect, StateEffect
  <2>4. leaks' \in [Ids -> Nat] /\ skipped' \in [Ids -> Nat]
    <3>1. leaks[Obj(p, "mutex")] + 1 \in Nat
      BY <2>1 DEF TypeOK
    <3> QED
      BY <1>4, <2>1, <3>1 DEF RecvTake, CloseState, TypeOK, history
  <2>5. arg' \in [Procs -> Args]
    <3>1. CASE RecvTake(p)
      BY <1>0, <3>1 DEF RecvTake
    <3>2. CASE CloseState(p)
      <4> DEFINE timed == [arg EXCEPT ![p].time = "finite"]
      <4>1. timed \in [Procs -> Args]
        BY <1>0, ArgFields DEF WaitTimes
      <4>2. arg' = [timed EXCEPT ![p].closing = TRUE]
        BY <3>2 DEF CloseState
      <4> HIDE DEF timed
      <4> QED
        BY <4>1, <4>2, ArgFields
    <3> QED
      BY <1>4, <3>1, <3>2
  <2>6. Goto(p, "recv_lock") \/ Goto(p, "open")
    BY <1>4 DEF RecvTake, CloseState
  <2>7. UNCHANGED <<bound, opens, made, handle, pos, calls>>
    BY <1>4 DEF RecvTake, CloseState
  <2> QED
    BY <2>2, <2>3, <2>4, <2>5, <2>6, <2>7, MovesTyped, PointSets DEF TypeOK
<1> QED
  BY <1>2, <1>3, <1>4

LEMMA EndsTyped ==
  ASSUME TypeOK, Handles, NEW p \in Procs, LockFails(p) \/ Close(p) \/ Unlink(p) \/ Crash(p)
  PROVE  TypeOK' /\ \E l \in Points : Goto(p, l) \/ UNCHANGED pc
<1>1. CASE LockFails(p)
  <2>1. Obj(p, "mutex") \in Ids
    BY <1>1, Objects, PointSets DEF LockFails, Live
  <2>2. skipped' \in [Ids -> Nat]
    BY <1>1, <2>1 DEF LockFails, TypeOK
  <2>3. \E l \in Points : Goto(p, l)
    BY <1>1, PointSets DEF LockFails
  <2> QED
    BY <1>1, <2>2, <2>3, MovesTyped DEF LockFails, TypeOK, Args, objects
<1>2. CASE Close(p)
  <2>1. handle' \in [Procs -> [Kinds -> Nat]]
    <3>1. Nothing \in [Kinds -> Nat]
      BY DEF Nothing, NULL
    <3>2. handle' = handle \/ handle' = [handle EXCEPT ![p] = Nothing]
      BY <1>2 DEF Close
    <3> QED
      BY <3>1, <3>2 DEF TypeOK
  <2>2. Goto(p, "close_lock") \/ Goto(p, "closed")
    BY <1>2 DEF Close
  <2> QED
    BY <1>2, <2>1, <2>2, MovesTyped, PointSets DEF Close, TypeOK, Args, objects, history
<1>3. CASE Unlink(p)
  <2>1. pos[p] \in 1 .. 5 /\ Nothing \in [Kinds -> Nat]
    BY DEF TypeOK, Nothing, NULL
  <2>2. bound' \in [Kinds -> Nat]
    BY <1>3 DEF Unlink, TypeOK, NULL
  <2>3. pos' \in [Procs -> 1 .. 5]
    <3>1. CASE pos[p] < 5
      <4>1. pos[p] + 1 \in 1 .. 5
        BY <2>1, <3>1
      <4>2. pos' = [pos EXCEPT ![p] = @ + 1]
        BY <1>3, <3>1, Orders DEF Unlink
      <4> QED
        BY <4>1, <4>2 DEF TypeOK
    <3>2. CASE ~(pos[p] < 5)
      BY <1>3, <3>2, Orders DEF Unlink, TypeOK
    <3> QED
      BY <3>1, <3>2
  <2>4. arg' \in [Procs -> Args]
    <3>1. arg \in [Procs -> Args]
      BY DEF TypeOK, Args
    <3>2. arg' = arg \/ arg' = [arg EXCEPT ![p].closing = FALSE]
      BY <1>3 DEF Unlink
    <3>3. [arg EXCEPT ![p].closing = FALSE] \in [Procs -> Args]
      BY <3>1, ArgFields
    <3> QED
      BY <3>1, <3>2, <3>3
  <2>5. handle' \in [Procs -> [Kinds -> Nat]]
    BY <1>3, <2>1 DEF Unlink, TypeOK
  <2>6. Goto(p, "closed") \/ UNCHANGED pc
    BY <1>3 DEF Unlink
  <2>7. UNCHANGED <<opens, made, count, segment, calls, leaks, skipped>>
    BY <1>3 DEF Unlink, history
  <2>8. pc' \in [Procs -> Points]
    BY <2>6, Goes, PointSets DEF TypeOK
  <2> QED
    BY <2>2, <2>3, <2>4, <2>5, <2>6, <2>7, <2>8, PointSets DEF TypeOK, Args
<1>4. CASE Crash(p)
  <2>1. Obj(p, "mutex") \in Ids /\ HeldBy(p) \in Nat
    BY <1>4, Objects DEF Crash, Live, HeldBy
  <2>2. leaks' \in [Ids -> Nat]
    BY <1>4, <2>1 DEF Crash, TypeOK
  <2> QED
    BY <1>4, <2>2, MovesTyped, PointSets DEF Crash, TypeOK, Args, objects
<1> QED
  BY <1>1, <1>2, <1>3, <1>4

LEMMA OpensTyped ==
  ASSUME TypeOK, Handles, NEW p \in Procs,
         OpenOwner(p) \/ Open(p) \/ OwnerSegment(p) \/ ClientSegment(p) \/ Make(p) \/ Find(p)
  PROVE  TypeOK'
<1>1. bound["mutex"] \in Nat /\ Nothing \in [Kinds -> Nat] /\ Semas \subseteq Kinds
      /\ MaxOpens \in Nat /\ opens \in 0 .. MaxOpens /\ pos[p] \in 1 .. 5
      /\ "mutex" \in Semas /\ "writer" \in Semas
  BY DEF TypeOK, Nothing, NULL, Kinds, Semas
<1>2. CASE OpenOwner(p)
  <2> DEFINE i == opens + 1
  <2>1. i \in Ids /\ i \in Nat /\ opens' \in 0 .. MaxOpens
    BY <1>1, <1>2 DEF OpenOwner, Ids
  <2> HIDE DEF i
  <2>2. /\ bound' = [bound EXCEPT !["mutex"] = i]
        /\ handle' = [handle EXCEPT ![p] = [Nothing EXCEPT !["mutex"] = i]]
        /\ count' = [count EXCEPT !["mutex"][i] = 1]
    BY <1>2 DEF OpenOwner, i
  <2>3. bound' \in [Kinds -> Nat] /\ handle' \in [Procs -> [Kinds -> Nat]]
    BY <1>1, <2>1, <2>2 DEF TypeOK
  <2>4. count' \in [Semas -> [Ids -> Nat]]
    BY <1>1, <2>1, <2>2 DEF TypeOK
  <2>5. pos' \in [Procs -> 1 .. 5] /\ calls' \in [Procs -> 0 .. MaxCalls]
    BY <1>2, CallTyped DEF OpenOwner, TypeOK
  <2> QED
    BY <1>2, <2>1, <2>3, <2>4, <2>5, MovesTyped, PointSets DEF OpenOwner, TypeOK, Args, history
<1>3. CASE Open(p)
  <2>1. handle' \in [Procs -> [Kinds -> Nat]]
    BY <1>1, <1>3 DEF Open, TypeOK
  <2>2. pos' \in [Procs -> 1 .. 5] /\ calls' \in [Procs -> 0 .. MaxCalls]
    BY <1>3, CallTyped DEF Open, TypeOK
  <2> QED
    BY <1>3, <2>1, <2>2, MovesTyped, PointSets DEF Open, TypeOK, Args, objects, history
<1>4. ASSUME Live(p) PROVE Obj(p, "mutex") \in Ids
  BY <1>4, Objects
<1>5. CASE OwnerSegment(p)
  <2>1. Obj(p, "mutex") \in Ids /\ Attach(p) /\ bound["shm"] <= made
    BY <1>4, <1>5 DEF OwnerSegment, Live, Handles
  <2>2. segment' \in [SegIds -> Segments]
    BY <1>5, <2>1, OwnerSegmentEffect
  <2>3. /\ bound' \in [Kinds -> Nat] /\ handle' \in [Procs -> [Kinds -> Nat]]
        /\ made' \in 0 .. MaxSegments
    BY <2>1, AttachEffect
  <2> QED
    BY <1>5, <2>2, <2>3, MovesTyped, PointSets DEF OwnerSegment, TypeOK, Args, history
<1>6. CASE ClientSegment(p)
  <2>1. Obj(p, "mutex") \in Ids /\ Attach(p) /\ bound["shm"] <= made
    BY <1>4, <1>6 DEF ClientSegment, Live, Handles
  <2>2. leaks' \in [Ids -> Nat]
    BY <1>6, <2>1, FailTyped DEF ClientSegment, TypeOK
  <2>3. /\ bound' \in [Kinds -> Nat] /\ handle' \in [Procs -> [Kinds -> Nat]]
        /\ made' \in 0 .. MaxSegments
    BY <2>1, AttachEffect
  <2>4. Goto(p, "names") \/ Goto(p, "closed")
    BY <1>6 DEF ClientSegment, Fail
  <2> QED
    BY <1>6, <2>2, <2>3, <2>4, MovesTyped, PointSets DEF ClientSegment, TypeOK, Args
<1>7. CASE Make(p)
  <2> DEFINE k == MakeOrder[pos[p]]
             i == Obj(p, "mutex")
  <2>1. i \in Ids /\ i \in Nat /\ k \in Semas /\ k \in Kinds /\ pos[p] + 1 \in 1 .. 5
    <3>1. pos[p] \in 1 .. 5 /\ pos[p] <= Len(MakeOrder) /\ Live(p)
      BY <1>1, <1>7 DEF Make, Live
    <3>2. k \in Semas /\ pos[p] + 1 \in 1 .. 5
      BY <3>1, MakeOrders
    <3>3. i \in Ids /\ i \in Nat
      BY <1>4, <3>1 DEF Ids
    <3> QED
      BY <1>1, <3>2, <3>3
  <2>2. leaks' \in [Ids -> Nat]
    BY <1>7, <2>1, FailTyped DEF Make, TypeOK
  <2>3. \/ UNCHANGED <<bound, count, handle>>
        \/ /\ bound' = [bound EXCEPT ![k] = i] /\ handle' = [handle EXCEPT ![p][k] = i]
           /\ count' = IF k = "writer" THEN [count EXCEPT !["writer"][i] = Length] ELSE count
    BY <1>7 DEF Make
  <2>4. pos' = pos \/ pos' = [pos EXCEPT ![p] = @ + 1]
    BY <1>7 DEF Make
  <2> HIDE DEF k, i
  <2>5. bound' \in [Kinds -> Nat] /\ handle' \in [Procs -> [Kinds -> Nat]]
    <3>1. [handle[p] EXCEPT ![k] = i] \in [Kinds -> Nat]
      BY <2>1 DEF TypeOK
    <3> QED
      BY ZenonT(40), <2>1, <2>3, <3>1 DEF TypeOK
  <2>6. count' \in [Semas -> [Ids -> Nat]]
    <3>1. CASE UNCHANGED count
      BY <3>1 DEF TypeOK
    <3>2. CASE count' = [count EXCEPT !["writer"][i] = Length]
      BY <1>1, <2>1, <3>2 DEF TypeOK
    <3> QED
      BY <2>3, <3>1, <3>2
  <2>7. pos' \in [Procs -> 1 .. 5]
    BY <2>1, <2>4 DEF TypeOK
  <2>8. Goto(p, "closed") \/ UNCHANGED pc
    BY <1>7 DEF Make, Fail
  <2>9. pc' \in [Procs -> Points]
    BY <2>8, Goes, PointSets DEF TypeOK
  <2> QED
    BY <1>7, <2>2, <2>5, <2>6, <2>7, <2>9 DEF Make, TypeOK
<1>8. CASE Find(p)
  <2> DEFINE k == MakeOrder[pos[p]]
  <2>1. Obj(p, "mutex") \in Ids /\ k \in Kinds /\ pos[p] + 1 \in 1 .. 5 /\ bound[k] \in Nat
    <3>1. pos[p] \in 1 .. 5 /\ pos[p] <= Len(MakeOrder) /\ Live(p)
      BY <1>1, <1>8 DEF Find, Live
    <3>2. k \in Kinds /\ pos[p] + 1 \in 1 .. 5
      BY <1>1, <3>1, MakeOrders
    <3> QED
      BY <1>4, <3>1, <3>2 DEF TypeOK
  <2>2. leaks' \in [Ids -> Nat]
    BY <1>8, <2>1, FailTyped DEF Find, TypeOK
  <2>3. handle' = handle \/ handle' = [handle EXCEPT ![p][k] = bound[k]]
    BY <1>8 DEF Find
  <2>4. pos' = pos \/ pos' = [pos EXCEPT ![p] = @ + 1]
    BY <1>8 DEF Find
  <2> HIDE DEF k
  <2>5. handle' \in [Procs -> [Kinds -> Nat]]
    <3>1. [handle[p] EXCEPT ![k] = bound[k]] \in [Kinds -> Nat]
      BY <2>1 DEF TypeOK
    <3> QED
      BY <2>1, <2>3, <3>1 DEF TypeOK
  <2>7. pos' \in [Procs -> 1 .. 5]
    BY <2>1, <2>4 DEF TypeOK
  <2>8. Goto(p, "closed") \/ UNCHANGED pc
    BY <1>8 DEF Find, Fail
  <2>9. pc' \in [Procs -> Points]
    BY <2>8, Goes, PointSets DEF TypeOK
  <2> QED
    BY <1>8, <2>2, <2>5, <2>7, <2>9 DEF Find, TypeOK, objects
<1> QED
  BY <1>2, <1>3, <1>5, <1>6, <1>7, <1>8
-----------------------------------------------------------------------------
(* Steps that make, find and remove no names: all but those of opening and *)
(* of closing.  Nobody comes to life in them or moves among the names.     *)

Stays(q) ==
  /\ pc'[q] \in {"open_lock", "segment"} => pc[q] \in {"open_lock", "segment"} /\ pos'[q] = pos[q]
  /\ pc'[q] = "names" => pc[q] = "names"
  /\ pc'[q] = "open" => Past(q)
  /\ pc'[q] = "unlink" => pc[q] = "unlink" \/ arg[q].closing
  /\ Live(q)' => /\ Live(q) /\ handle'[q] = handle[q] /\ (Past(q)' <=> Past(q))
                 /\ \A k \in Semas : (Has(q, k)' <=> Has(q, k)) /\ (Keeps(q, k)' => Keeps(q, k))

(* The process keeps all that it has. *)
Same(q) ==
  /\ pc'[q] = pc[q] /\ pos'[q] = pos[q] /\ arg'[q] = arg[q] /\ handle'[q] = handle[q]
  /\ (Live(q)' <=> Live(q)) /\ (Past(q)' <=> Past(q))
  /\ \A k \in Semas : (Has(q, k)' <=> Has(q, k)) /\ (Keeps(q, k)' <=> Keeps(q, k))

LEMMA OthersSame ==
  ASSUME NEW q \in Procs, pc'[q] = pc[q], pos'[q] = pos[q], arg'[q] = arg[q],
         handle'[q] = handle[q]
  PROVE  Same(q)
BY DEF Same, Live, Past, Has, Keeps

LEMMA SameStays ==
  ASSUME NEW q \in Procs, Same(q), pc[q] = "unlink" => arg[q].closing
  PROVE  Stays(q)
BY DEF Same, Stays, Live, Past

(* Such a step moves a process within its calls. *)
Calling == {"open", "send_writer", "send_lock", "send_copy", "send_ack", "recv_lock", "recv_release",
            "recv_wait", "recv_again", "recv_take", "close_lock", "close_state"}

LEMMA MovesStay ==
  ASSUME TypeOK, NEW p \in Procs, NEW l \in Points, Goto(p, l), handle'[p] = handle[p],
         \/ l = "dead"
         \/ pc[p] = "open_lock" /\ l = "segment" /\ pos'[p] = pos[p]
         \/ pc[p] = "names" /\ pos[p] > 3 /\ l \in Calling
         \/ pc[p] \in Calling /\ l \in Calling
         \/ pc[p] \in Calling /\ l = "unlink" /\ arg[p].closing /\ pos'[p] = 1
  PROVE  Stays(p)
<1>1. pc'[p] = l
  BY Goes
<1>2. \A k \in Semas : MadeAt[k] \in 0 .. 3
  BY DEF Semas, MadeAt
<1>3. \A k \in Semas : UnlinkedAt[k] \in 1 .. 4
  BY DEF Semas, UnlinkedAt
<1>4. CASE l = "dead"
  BY <1>1, <1>4 DEF Stays, Live, Past, Has, Keeps
<1>5. CASE pc[p] = "open_lock" /\ l = "segment" /\ pos'[p] = pos[p]
  BY <1>1, <1>5 DEF Stays, Live, Past, Has, Keeps
<1>6. CASE pc[p] = "names" /\ pos[p] > 3 /\ l \in Calling
  <2>1. pos[p] \in 1 .. 5
    BY DEF TypeOK
  <2>2. \A k \in Semas : pos[p] > MadeAt[k]
    BY <1>2, <1>6, <2>1
  <2>3. Live(p)' /\ Past(p)' /\ Live(p) /\ Past(p) /\ pc'[p] # "names" /\ pc'[p] # "unlink"
    BY <1>1, <1>6 DEF Calling, Live, Past
  <2>4. \A k \in Semas : Has(p, k) /\ Has(p, k)' /\ Keeps(p, k)
    BY <1>6, <2>2, <2>3 DEF Has, Keeps
  <2>5. pc'[p] \notin {"open_lock", "segment"}
    BY <1>1, <1>6 DEF Calling
  <2> QED
    BY <2>3, <2>4, <2>5 DEF Stays
<1>7. CASE pc[p] \in Calling /\ l \in Calling
  <2>1. Live(p)' /\ Past(p)' /\ Live(p) /\ Past(p) /\ pc'[p] # "names" /\ pc'[p] # "unlink"
        /\ pc[p] # "names" /\ pc[p] # "unlink" /\ pc'[p] \notin {"open_lock", "segment"}
    BY <1>1, <1>7 DEF Calling, Live, Past
  <2> QED
    BY <2>1 DEF Stays, Has, Keeps
<1>8. CASE pc[p] \in Calling /\ l = "unlink" /\ arg[p].closing
  <2>1. Live(p)' /\ Past(p)' /\ Live(p) /\ Past(p) /\ pc'[p] = "unlink"
        /\ pc[p] # "names" /\ pc[p] # "unlink"
    BY <1>1, <1>8 DEF Calling, Live, Past
  <2> QED
    BY <1>8, <2>1 DEF Stays, Has, Keeps
<1> QED
  BY <1>4, <1>5, <1>6, <1>7, <1>8

(* What such a step leaves as it was: names, and what they lead to ... *)
Still ==
  /\ UNCHANGED <<bound, opens, made>>
  /\ \A q \in Procs : Stays(q)
  /\ \A s \in SegIds : segment'[s].ring = segment[s].ring /\ segment'[s].adopted = segment[s].adopted

(* ... and one that opens and closes no ring leaves more. *)
Quiet ==
  /\ Still
  /\ \A q \in Procs : arg'[q].closing <=> arg[q].closing
  /\ \A s \in SegIds : segment'[s].ready = segment[s].ready /\ segment'[s].state = segment[s].state

LEMMA StillNames ==
  ASSUME OwnNames, OwnRing, TypeOK, Handles, Still
  PROVE  OwnNames' /\ OwnRing'
<1>1. Owners \subseteq Procs /\ Clients \subseteq Procs
  BY DEF Procs
<1>2. \A q \in Procs : Live(q)' => Live(q) /\ (Past(q)' <=> Past(q)) /\ \A k \in Kinds : Obj(q, k)' = Obj(q, k)
  BY DEF Still, Stays, Obj
<1>3. \A q \in Procs, k \in Semas : (Live(q)' => (Has(q, k)' => Has(q, k))) /\ (Keeps(q, k)' => Keeps(q, k))
  BY DEF Still, Stays, Keeps, Has
<1>4. "mutex" \in Kinds /\ "shm" \in Kinds /\ Semas \subseteq Kinds
  BY DEF Kinds, Semas
<1>5. \A q \in Procs, k \in Semas : Keeps(q, k) => Live(q)
  BY DEF Keeps, Has
<1>6. \A q \in Procs : /\ Past(q)' => Live(q)' /\ Past(q)
                       /\ \A k \in Semas : (Keeps(q, k)' => Live(q)') /\ (Has(q, k)' => Live(q)')
  BY <1>2 DEF Past, Keeps, Has
<1>7. OwnNames'
  <2>1. ASSUME NEW o \in Owners, NEW q \in Owners, o # q, Live(o)', Live(q)'
        PROVE  Obj(o, "mutex")' # Obj(q, "mutex")'
    BY <1>1, <1>2, <1>4, <2>1 DEF OwnNames
  <2>2. ASSUME NEW o \in Owners, NEW k \in Semas, Keeps(o, k)'
        PROVE  bound'[k] = Obj(o, "mutex")'
    BY <1>1, <1>2, <1>3, <1>4, <1>6, <2>2 DEF OwnNames, Still
  <2> QED
    BY <2>1, <2>2 DEF OwnNames
<1>8. \A q \in Procs : Past(q)' =>
        /\ Obj(q, "shm") \in SegIds /\ Obj(q, "shm")' = Obj(q, "shm")
        /\ Seg(q)'.ring = Seg(q).ring /\ Seg(q)'.adopted = Seg(q).adopted
  BY <1>2, <1>4, <1>6, Objects DEF Still, Seg, Obj
<1>9. OwnRing'
  <2>1. ASSUME NEW o \in Owners, Past(o)'
        PROVE  Seg(o)'.ring = Obj(o, "mutex")' \/ Seg(o)'.adopted
    BY <1>1, <1>2, <1>4, <1>6, <1>8, <2>1 DEF OwnRing
  <2>2. ASSUME NEW o \in Owners, NEW s \in SegIds, Live(o)', segment'[s].ring = Obj(o, "mutex")'
        PROVE  Past(o)' /\ Obj(o, "shm")' = s
    BY <1>1, <1>2, <1>4, <2>2 DEF OwnRing, Still
  <2>3. ASSUME NEW o \in Owners, Past(o)', ~Seg(o)'.adopted
        PROVE  bound'["shm"] = Obj(o, "shm")'
    BY <1>1, <1>6, <1>8, <2>3 DEF OwnRing, Still
  <2> QED
    BY <2>1, <2>2, <2>3 DEF OwnRing
<1> QED
  BY <1>7, <1>9

LEMMA QuietRings ==
  ASSUME OpenRing, OwnFinds, TypeOK, Handles, Quiet,
         \A o \in Owners : pc'[o] = "names" /\ ~Seg(o).adopted =>
           /\ segment'[Obj(o, "shm")].used = 0
           /\ \A j \in Slots : ~segment'[Obj(o, "shm")].reading[j]
  PROVE  OpenRing' /\ OwnFinds'
<1>1. Owners \subseteq Procs /\ Clients \subseteq Procs
  BY DEF Procs
<1>2. \A q \in Procs : Live(q)' => Live(q) /\ (Past(q)' <=> Past(q)) /\ \A k \in Kinds : Obj(q, k)' = Obj(q, k)
  BY DEF Quiet, Still, Stays, Obj
<1>3. \A q \in Procs, k \in Semas : Live(q)' => (Has(q, k)' => Has(q, k))
  BY DEF Quiet, Still, Stays, Has
<1>4. "mutex" \in Kinds /\ "shm" \in Kinds /\ Semas \subseteq Kinds
  BY DEF Kinds, Semas
<1>6. \A q \in Procs : /\ Past(q)' => Live(q)' /\ Past(q)
                       /\ \A k \in Semas : Has(q, k)' => Live(q)'
  BY <1>2 DEF Past, Has
<1>8. \A q \in Procs : Past(q)' =>
        /\ Obj(q, "shm") \in SegIds /\ Seg(q)' = segment'[Obj(q, "shm")]
        /\ Seg(q)'.ring = Seg(q).ring /\ Seg(q)'.adopted = Seg(q).adopted
        /\ Seg(q)'.ready = Seg(q).ready /\ Seg(q)'.state = Seg(q).state
  BY <1>2, <1>4, <1>6, Objects DEF Quiet, Still, Seg, Obj
<1>10. OpenRing'
  <2>1. ASSUME NEW s \in SegIds, segment'[s].ready \/ segment'[s].state = 1 \/ segment'[s].adopted
        PROVE  segment'[s].ring # NULL
    BY <2>1 DEF OpenRing, Quiet, Still
  <2>2. ASSUME NEW s \in SegIds, NEW k \in Semas, segment'[s].state = 1, ~segment'[s].adopted
        PROVE  bound'[k] = segment'[s].ring
    BY <2>2 DEF OpenRing, Quiet, Still
  <2>3. ASSUME NEW o \in Owners, Past(o)', arg'[o].closing, ~Seg(o)'.adopted
        PROVE  Seg(o)'.state = 0
    BY <1>1, <1>6, <1>8, <2>3 DEF OpenRing, Quiet
  <2>4. ASSUME NEW o \in Owners, pc'[o] = "names", ~Seg(o)'.adopted
        PROVE  /\ ~Seg(o)'.ready /\ Seg(o)'.state = 0 /\ Seg(o)'.used = 0
               /\ \A j \in Slots : ~Seg(o)'.reading[j]
    <3>1. pc[o] = "names" /\ Past(o)'
      BY <1>1, <2>4 DEF Quiet, Still, Stays, Past, Live
    <3> QED
      BY <1>1, <1>8, <2>4, <3>1 DEF OpenRing
  <2> QED
    BY <2>1, <2>2, <2>3, <2>4 DEF OpenRing
<1>11. OwnFinds'
  <2> SUFFICES ASSUME NEW c \in Clients, Past(c)'
               PROVE  /\ Seg(c)'.ready \/ Seg(c)'.adopted
                      /\ Seg(c)'.state = 1 /\ ~Seg(c)'.adopted =>
                           \A k \in Semas \ {"mutex"} : Has(c, k)' => Obj(c, k)' = Seg(c)'.ring
    BY DEF OwnFinds
  <2>1. /\ Seg(c)'.ready = Seg(c).ready /\ Seg(c)'.adopted = Seg(c).adopted
        /\ Seg(c)'.ring = Seg(c).ring /\ Seg(c)'.state = Seg(c).state
    BY <1>1, <1>8
  <2> QED
    BY <1>1, <1>2, <1>3, <1>4, <1>6, <2>1 DEF OwnFinds
<1> QED
  BY <1>10, <1>11

LEMMA StillHandles ==
  ASSUME Handles, Still, TypeOK',
         \A q \in Procs : handle'[q] = handle[q] \/ handle'[q] = Nothing,
         \A s \in SegIds : s > made => segment'[s] = segment[s],
         \A i \in Ids : i > opens =>
           /\ leaks'[i] = leaks[i] /\ skipped'[i] = skipped[i]
           /\ \A k \in Semas : count'[k][i] = count[k][i]
  PROVE  Handles'
<1>0. /\ opens' \in Nat /\ made' \in Nat /\ Semas \subseteq Kinds /\ "shm" \in Kinds
      /\ Nothing \in [Kinds -> Nat] /\ \A k \in Kinds : Nothing[k] = 0
  BY DEF TypeOK, Kinds, Semas, Nothing, NULL
<1>1. bound'["shm"] <= made' /\ \A k \in Semas : bound'[k] <= opens'
  BY DEF Handles, Still
<1>2. ASSUME NEW p \in Procs
      PROVE  handle'[p]["shm"] <= made' /\ \A k \in Semas : handle'[p][k] <= opens'
  <2>1. CASE handle'[p] = handle[p]
    BY <2>1 DEF Handles, Still
  <2>2. CASE handle'[p] = Nothing
    BY <1>0, <2>2
  <2> QED
    BY <2>1, <2>2
<1>3. \A p \in Procs : Past(p)' => handle'[p]["shm"] # NULL
  BY DEF Handles, Still, Stays, Past
<1>4. \A p \in Procs, k \in Semas : Has(p, k)' => handle'[p][k] # NULL
  <2>1. \A p \in Procs, k \in Semas : Has(p, k)' => Live(p)'
    BY DEF Has
  <2> QED
    BY <2>1 DEF Handles, Still, Stays
<1>5. /\ \A s \in SegIds : segment'[s].ring <= opens'
      /\ \A s \in SegIds : s > made' => segment'[s] = Zeroed
      /\ \A i \in Ids : i > opens' =>
           /\ leaks'[i] = 0 /\ skipped'[i] = 0 /\ \A k \in Semas : count'[k][i] = 0
  BY DEF Handles, Still
<1> QED
  BY <1>1, <1>2, <1>3, <1>4, <1>5 DEF Handles

LEMMA QuietRoles ==
  ASSUME Roles, Quiet,
         \A o \in Owners : pc'[o] \in OwnerPoints /\ (arg[o].closing => pc'[o] \in Closing),
         \A c \in Clients : pc'[c] \in ClientPoints
  PROVE  Roles'
<1>1. Owners \subseteq Procs /\ Clients \subseteq Procs
  BY DEF Procs
<1>2. \A o \in Owners : pc'[o] = "unlink" => arg'[o].closing
  BY <1>1 DEF Roles, Quiet, Still, Stays
<1>3. ASSUME NEW o \in Owners, NEW k \in Semas, Has(o, k)'
      PROVE  Obj(o, k)' = Obj(o, "mutex")'
  <2>1. Live(o)'
    BY <1>3 DEF Has
  <2> QED
    BY <1>1, <1>3, <2>1 DEF Roles, Quiet, Still, Stays, Obj
<1>4. \A q \in Procs : pc'[q] \in {"open_lock", "segment"} => pos'[q] = 1
  BY DEF Roles, Quiet, Still, Stays
<1> QED
  BY <1>1, <1>2, <1>3, <1>4 DEF Roles, Quiet

LEMMA StillUnread ==
  ASSUME NothingRead, Still,
         \A i \in Ids : skipped'[i] = 0 => skipped[i] = 0,
         \A s \in SegIds, j \in Slots :
           segment'[s].reading[j] /\ segment[s].ring # NULL /\ ~segment[s].adopted
             => segment[s].reading[j] \/ skipped[segment[s].ring] # 0
  PROVE  TypeOK => NothingRead'
<1> SUFFICES ASSUME TypeOK, NEW s \in SegIds, segment'[s].ring # NULL, ~segment'[s].adopted,
                    skipped'[segment'[s].ring] = 0, NEW j \in Slots
             PROVE  ~segment'[s].reading[j]
  BY DEF NothingRead
<1>1. segment'[s].ring = segment[s].ring /\ segment'[s].adopted = segment[s].adopted
  BY DEF Still
<1>2. segment[s].ring \in Ids
  BY <1>1, SegmentFields
<1> QED
  BY <1>1, <1>2 DEF NothingRead

LEMMA StillUnmade ==
  ASSUME NoSlotYet, TypeOK, Handles, Still,
         \A q \in Procs : handle'[q] = handle[q] \/ handle'[q] = Nothing,
         \A o \in Owners : Unmade(o) => count'["writer"][Obj(o, "mutex")] = 0
  PROVE  NoSlotYet'
<1>1. Owners \subseteq Procs /\ Clients \subseteq Procs /\ "writer" \in Semas /\ "writer" \in Kinds
  BY DEF Procs, Semas, Kinds
<1> SUFFICES ASSUME NEW o \in Owners, Unmade(o)'
             PROVE  /\ count'["writer"][Obj(o, "mutex")'] = 0 /\ bound'["writer"] # Obj(o, "mutex")'
                    /\ \A c \in Clients : Obj(c, "writer")' # Obj(o, "mutex")'
  BY DEF NoSlotYet
<1>2. Unmade(o) /\ Obj(o, "mutex")' = Obj(o, "mutex") /\ Live(o)
  BY <1>1 DEF Unmade, Still, Stays, Obj
<1>3. Obj(o, "mutex") # NULL
  BY <1>1, <1>2, Objects DEF Ids, NULL
<1>4. \A c \in Clients : Obj(c, "writer")' = Obj(c, "writer") \/ Obj(c, "writer")' = NULL
  BY <1>1 DEF Obj, Nothing
<1> QED
  BY <1>2, <1>3, <1>4 DEF NoSlotYet, Still
-----------------------------------------------------------------------------
(* Who holds a mutex, and who has reserved a slot. *)

In(p, S) == IF p \in S THEN 1 ELSE 0

LEMMA OneMoves ==
  ASSUME NEW A, NEW B, IsFiniteSet(A), NEW p, \A q : q # p => (q \in A <=> q \in B)
  PROVE  /\ IsFiniteSet(B) /\ Cardinality(A) \in Nat /\ Cardinality(B) \in Nat
         /\ Cardinality(B) = Cardinality(A) + In(p, B) - In(p, A)
<1>1. Cardinality(A) \in Nat
  BY FS_CardinalityType
<1>2. CASE p \in A /\ p \notin B
  <2>1. B = A \ {p}
    BY <1>2
  <2>2. IsFiniteSet(B) /\ Cardinality(B) = Cardinality(A) - 1
    BY <1>2, <2>1, FS_RemoveElement
  <2>3. Cardinality(B) \in Nat
    BY <2>2, FS_CardinalityType
  <2> QED
    BY <1>1, <1>2, <2>2, <2>3 DEF In
<1>3. CASE p \notin A /\ p \in B
  <2>1. B = A \cup {p}
    BY <1>3
  <2> QED
    BY <1>1, <1>3, <2>1, FS_AddElement, FS_CardinalityType DEF In
<1>4. CASE p \in A <=> p \in B
  <2>1. B = A
    BY <1>4
  <2> QED
    BY <1>1, <1>4, <2>1 DEF In
<1> QED
  BY <1>2, <1>3, <1>4

Holders(i, n) == {p \in Procs : Obj(p, "mutex") = i /\ HeldBy(p) = n}
Held(p, i) == IF Obj(p, "mutex") = i THEN HeldBy(p) ELSE 0

LEMMA HeldAmounts == \A p : HeldBy(p) \in 0 .. 2
BY DEF HeldBy

LEMMA HoldersMove ==
  ASSUME NEW p \in Procs, NEW i,
         \A q \in Procs : q # p => pc'[q] = pc[q] /\ handle'[q] = handle[q]
  PROVE  /\ Cardinality(Holders(i, 1)) \in Nat /\ Cardinality(Holders(i, 2)) \in Nat
         /\ Cardinality(Holders(i, 1)') \in Nat /\ Cardinality(Holders(i, 2)') \in Nat
         /\ Cardinality(Holders(i, 1)') + 2 * Cardinality(Holders(i, 2)') + Held(p, i)
              = Cardinality(Holders(i, 1)) + 2 * Cardinality(Holders(i, 2)) + Held(p, i)'
<1> DEFINE A == Holders(i, 1)
           B == Holders(i, 2)
           newA == Holders(i, 1)'
           newB == Holders(i, 2)'
<1>1. IsFiniteSet(A) /\ IsFiniteSet(B)
  <2>1. A \subseteq Procs /\ B \subseteq Procs
    BY DEF Holders
  <2> QED
    BY <2>1, FS_Subset
<1>2. \A q : q # p => (q \in A <=> q \in newA) /\ (q \in B <=> q \in newB)
  BY DEF Holders, HeldBy, Obj
<1>3. /\ HeldBy(p) = 0 \/ HeldBy(p) = 1 \/ HeldBy(p) = 2
      /\ HeldBy(p)' = 0 \/ HeldBy(p)' = 1 \/ HeldBy(p)' = 2
  BY DEF HeldBy
<1>4. /\ p \in A <=> (Obj(p, "mutex") = i /\ HeldBy(p) = 1)
      /\ p \in B <=> (Obj(p, "mutex") = i /\ HeldBy(p) = 2)
      /\ p \in newA <=> (Obj(p, "mutex")' = i /\ HeldBy(p)' = 1)
      /\ p \in newB <=> (Obj(p, "mutex")' = i /\ HeldBy(p)' = 2)
  BY DEF Holders
<1> HIDE DEF A, B, newA, newB
<1>5. /\ IsFiniteSet(newA) /\ Cardinality(A) \in Nat /\ Cardinality(newA) \in Nat
      /\ Cardinality(newA) = Cardinality(A) + In(p, newA) - In(p, A)
  BY <1>1, <1>2, OneMoves, Zenon
<1>6. /\ IsFiniteSet(newB) /\ Cardinality(B) \in Nat /\ Cardinality(newB) \in Nat
      /\ Cardinality(newB) = Cardinality(B) + In(p, newB) - In(p, B)
  BY <1>1, <1>2, OneMoves, Zenon
<1>7. Cardinality(newA) + 2 * Cardinality(newB) + Held(p, i)
        = Cardinality(A) + 2 * Cardinality(B) + Held(p, i)'
  BY <1>3, <1>4, <1>5, <1>6 DEF Held, In
<1> QED
  BY <1>5, <1>6, <1>7 DEF A, B, newA, newB

(* A step of one process keeps the account if what it takes from the count *)
(* is what it holds more, or loses.                                        *)
LEMMA AccountMoves ==
  ASSUME MutexAccounted, TypeOK', NEW p \in Procs, opens' = opens,
         \A q \in Procs : q # p => pc'[q] = pc[q] /\ handle'[q] = handle[q],
         \A i \in 1 .. opens :
           count'["mutex"][i] + Held(p, i)' + leaks'[i] + skipped[i]
             = count["mutex"][i] + Held(p, i) + leaks[i] + skipped'[i]
  PROVE  MutexAccounted'
<1> SUFFICES ASSUME NEW i \in 1 .. opens
             PROVE  count'["mutex"][i] + Cardinality(Holders(i, 1)') + 2 * Cardinality(Holders(i, 2)')
                      + leaks'[i] = 1 + skipped'[i]
  BY DEF MutexAccounted, Holders
<1>1. count["mutex"][i] + Cardinality(Holders(i, 1)) + 2 * Cardinality(Holders(i, 2)) + leaks[i]
        = 1 + skipped[i]
  BY DEF MutexAccounted, Holders
<1>2. i \in Ids /\ "mutex" \in Semas
  BY DEF MutexAccounted, TypeOK, Ids, Semas
<1>3. /\ count["mutex"][i] \in Nat /\ leaks[i] \in Nat /\ skipped[i] \in Nat
      /\ count'["mutex"][i] \in Nat /\ leaks'[i] \in Nat /\ skipped'[i] \in Nat
  BY <1>2 DEF MutexAccounted, TypeOK
<1>4. Held(p, i) \in Nat /\ Held(p, i)' \in Nat
  BY HeldAmounts DEF Held, HeldBy
<1> DEFINE a == Cardinality(Holders(i, 1))
           b == Cardinality(Holders(i, 2))
           newa == Cardinality(Holders(i, 1)')
           newb == Cardinality(Holders(i, 2)')
<1>5. /\ a \in Nat /\ b \in Nat /\ newa \in Nat /\ newb \in Nat
      /\ newa + 2 * newb + Held(p, i) = a + 2 * b + Held(p, i)'
  BY HoldersMove
<1>6. count["mutex"][i] + a + 2 * b + leaks[i] = 1 + skipped[i]
  BY <1>1
<1> HIDE DEF a, b, newa, newb
<1>7. count'["mutex"][i] + newa + 2 * newb + leaks'[i] = 1 + skipped'[i]
  BY <1>3, <1>4, <1>5, <1>6
<1> QED
  BY <1>7 DEF newa, newb

Reserved(i) == {c \in Clients : Obj(c, "writer") = i /\ pc[c] \in {"send_lock", "send_copy"}}
Reserves(p, i) ==
  IF p \in Clients /\ Obj(p, "writer") = i /\ pc[p] \in {"send_lock", "send_copy"} THEN 1 ELSE 0

LEMMA ReservedMove ==
  ASSUME NEW p \in Procs, NEW i,
         \A q \in Procs : q # p => pc'[q] = pc[q] /\ handle'[q] = handle[q]
  PROVE  /\ Cardinality(Reserved(i)) \in Nat /\ Cardinality(Reserved(i)') \in Nat
         /\ Cardinality(Reserved(i)') = Cardinality(Reserved(i)) + Reserves(p, i)' - Reserves(p, i)
<1> DEFINE A == Reserved(i)
           newA == Reserved(i)'
<1>1. IsFiniteSet(A)
  <2>1. A \subseteq Procs
    BY DEF Reserved, Procs
  <2> QED
    BY <2>1, FS_Subset
<1>2. \A q : q # p => (q \in A <=> q \in newA)
  BY DEF Reserved, Obj, Procs
<1>3. /\ Reserves(p, i) = IF p \in A THEN 1 ELSE 0
      /\ Reserves(p, i)' = IF p \in newA THEN 1 ELSE 0
  BY DEF Reserved, Reserves
<1> HIDE DEF A, newA
<1>4. /\ IsFiniteSet(newA) /\ Cardinality(A) \in Nat /\ Cardinality(newA) \in Nat
      /\ Cardinality(newA) = Cardinality(A) + In(p, newA) - In(p, A)
  BY <1>1, <1>2, OneMoves, Zenon
<1>5. Cardinality(newA) = Cardinality(A) + Reserves(p, i)' - Reserves(p, i)
  BY <1>3, <1>4 DEF In
<1> QED
  BY <1>4, <1>5 DEF A, newA

LEMMA SlotsAdd ==
  ASSUME NoSlotTwice, NEW s \in SegIds, NEW i, segment[s].ring = i, i # NULL,
         ~segment[s].adopted, skipped[i] = 0
  PROVE  /\ segment[s].used >= 0
         /\ count["writer"][i] + Cardinality(Reserved(i)) + segment[s].used <= Length
<1>1. segment[s].ring # NULL /\ skipped[segment[s].ring] = 0
  OBVIOUS
<1>2. /\ segment[s].used >= 0
      /\ count["writer"][segment[s].ring] + Cardinality(Reserved(segment[s].ring)) + segment[s].used
           <= Length
  BY <1>1, Zenon DEF NoSlotTwice, Reserved
<1> QED
  BY <1>2

LEMMA SlotsMove ==
  ASSUME NoSlotTwice, TypeOK, TypeOK', NEW p \in Procs,
         \A q \in Procs : q # p => pc'[q] = pc[q] /\ handle'[q] = handle[q],
         \A s \in SegIds, i \in Ids :
           i = segment'[s].ring /\ ~segment'[s].adopted /\ skipped'[i] = 0 =>
             /\ i = segment[s].ring /\ ~segment[s].adopted /\ skipped[i] = 0
             /\ segment'[s].used >= segment[s].used
             /\ count'["writer"][i] + Reserves(p, i)' + segment'[s].used
                  <= count["writer"][i] + Reserves(p, i) + segment[s].used
  PROVE  NoSlotTwice'
<1> SUFFICES ASSUME NEW s \in SegIds, NEW i, i = segment'[s].ring, i # NULL,
                    ~segment'[s].adopted, skipped'[i] = 0
             PROVE  /\ segment'[s].used >= 0
                    /\ count'["writer"][i] + Cardinality(Reserved(i)') + segment'[s].used <= Length
  BY DEF NoSlotTwice, Reserved, Obj
<1>1. i \in Ids /\ "writer" \in Semas /\ segment[s].used \in Int /\ segment'[s].used \in Int
  BY DEF TypeOK, Segments, Semas
<1>2. /\ segment[s].ring = i /\ ~segment[s].adopted /\ skipped[i] = 0 /\ i # NULL
      /\ segment'[s].used >= segment[s].used
      /\ count'["writer"][i] + Reserves(p, i)' + segment'[s].used
           <= count["writer"][i] + Reserves(p, i) + segment[s].used
  BY <1>1
<1>3. count["writer"][i] \in Nat /\ count'["writer"][i] \in Nat
  BY <1>1 DEF TypeOK
<1>4. Reserves(p, i) \in Nat /\ Reserves(p, i)' \in Nat
  BY DEF Reserves
<1>5. segment[s].used >= 0 /\ count["writer"][i] + Cardinality(Reserved(i)) + segment[s].used <= Length
  BY <1>2, SlotsAdd
<1> DEFINE a == Cardinality(Reserved(i))
           newa == Cardinality(Reserved(i)')
<1>6. a \in Nat /\ newa \in Nat /\ newa = a + Reserves(p, i)' - Reserves(p, i)
  BY ReservedMove
<1>7. segment[s].used >= 0 /\ count["writer"][i] + a + segment[s].used <= Length
  BY <1>5 DEF a
<1> HIDE DEF a, newa
<1>8. segment'[s].used >= 0 /\ count'["writer"][i] + newa + segment'[s].used <= Length
  BY <1>2, <1>1, <1>3, <1>4, <1>6, <1>7
<1> QED
  BY <1>8 DEF newa
-----------------------------------------------------------------------------
(* A quiet step of process p keeps the whole invariant if it accounts for  *)
(* the mutex and for the slots.                                            *)

(* Only what p has found is posted, taken or lost. *)
Alone(p) ==
  /\ \A q \in Procs : q # p => /\ pc'[q] = pc[q] /\ pos'[q] = pos[q]
                               /\ arg'[q] = arg[q] /\ handle'[q] = handle[q]
  /\ \A k \in Semas, i \in Ids : i # Obj(p, k) => count'[k][i] = count[k][i]
  /\ \A i \in Ids : i # Obj(p, "mutex") => leaks'[i] = leaks[i] /\ skipped'[i] = skipped[i]

(* Its mutex is accounted for. *)
Balanced(p) ==
  LET m == Obj(p, "mutex") IN
    count'["mutex"][m] + HeldBy(p)' + leaks'[m] + skipped[m]
      = count["mutex"][m] + HeldBy(p) + leaks[m] + skipped'[m]

InRole(p) ==
  /\ p \in Owners => pc'[p] \in OwnerPoints /\ (arg[p].closing => pc'[p] \in Closing)
  /\ p \in Clients => pc'[p] \in ClientPoints

Frees(p, i) == count'["writer"][i] + Reserves(p, i)' > count["writer"][i] + Reserves(p, i)

LEMMA Accounted ==
  ASSUME IpcInv, TypeOK', NEW p \in Procs, Alone(p), Balanced(p), opens' = opens,
         handle'[p]["mutex"] = handle[p]["mutex"] \/ HeldBy(p)' = 0
  PROVE  MutexAccounted'
<1>1. MutexAccounted /\ TypeOK
  BY DEF IpcInv, MutexAccounted
<1>2. \A q \in Procs : q # p => pc'[q] = pc[q] /\ handle'[q] = handle[q]
  BY DEF Alone
<1>3. ASSUME NEW i \in 1 .. opens
      PROVE  count'["mutex"][i] + Held(p, i)' + leaks'[i] + skipped[i]
               = count["mutex"][i] + Held(p, i) + leaks[i] + skipped'[i]
  <2>1. i \in Ids /\ i # NULL /\ "mutex" \in Semas /\ "mutex" \in Kinds
    <3>1. MaxOpens \in Nat /\ opens \in Nat /\ opens <= MaxOpens
      BY <1>1 DEF TypeOK
    <3> QED
      BY <3>1 DEF Ids, Semas, Kinds, NULL
  <2>2. Obj(p, "mutex")' = Obj(p, "mutex") \/ HeldBy(p)' = 0
    BY DEF Obj
  <2>3. HeldBy(p) \in 0 .. 2 /\ HeldBy(p)' \in 0 .. 2
    BY DEF HeldBy
  <2>4. CASE i = Obj(p, "mutex")
    <3>1. Held(p, i) = HeldBy(p) /\ Held(p, i)' = HeldBy(p)'
      BY <2>1, <2>2, <2>4 DEF Held
    <3> QED
      BY <2>4, <3>1 DEF Balanced
  <2>5. CASE i # Obj(p, "mutex")
    <3>1. Held(p, i) = 0 /\ Held(p, i)' = 0
      BY <2>1, <2>2, <2>5 DEF Held
    <3>2. count'["mutex"][i] = count["mutex"][i] /\ leaks'[i] = leaks[i] /\ skipped'[i] = skipped[i]
      BY <2>1, <2>5 DEF Alone
    <3> QED
      BY <3>1, <3>2
  <2> QED
    BY <2>4, <2>5
<1> QED
  BY <1>1, <1>2, <1>3, AccountMoves

LEMMA StillKeeps ==
  ASSUME IpcInv, TypeOK', Still, NEW p \in Procs, Alone(p), Balanced(p),
         Roles', OpenRing', OwnFinds',
         handle'[p] = handle[p] \/ (handle'[p] = Nothing /\ pc'[p] = "closed"),
         \A i \in Ids : skipped'[i] = 0 => skipped[i] = 0,
         \A s \in SegIds : s > made => segment'[s] = segment[s],
         \A s \in SegIds, j \in Slots :
           segment'[s].reading[j] /\ segment[s].ring # NULL /\ ~segment[s].adopted
             => segment[s].reading[j] \/ skipped[segment[s].ring] # 0,
         \A o \in Owners : Unmade(o) => ~Frees(p, Obj(o, "mutex")),
         \A s \in SegIds, i \in Ids :
           i = segment[s].ring /\ ~segment[s].adopted /\ skipped[i] = 0 =>
             /\ segment'[s].used >= segment[s].used
             /\ count'["writer"][i] + Reserves(p, i)' + segment'[s].used
                  <= count["writer"][i] + Reserves(p, i) + segment[s].used
  PROVE  IpcInv'
<1>1. /\ TypeOK /\ MutexAccounted /\ Handles /\ Roles /\ OwnNames /\ OwnRing /\ OpenRing
      /\ OwnFinds /\ NoSlotYet /\ NothingRead /\ NoSlotTwice
  BY DEF IpcInv, MutexAccounted
<1>2. /\ \A q \in Procs : q # p => pc'[q] = pc[q] /\ handle'[q] = handle[q] /\ arg'[q] = arg[q]
      /\ \A q \in Procs : handle'[q] = handle[q] \/ handle'[q] = Nothing
      /\ Owners \subseteq Procs /\ Clients \subseteq Procs /\ opens' = opens
  BY DEF Alone, Procs, Still
<1>3. MutexAccounted'
  <2>1. handle'[p] = Nothing /\ pc'[p] = "closed" => HeldBy(p)' = 0
    BY DEF HeldBy
  <2> QED
    BY <1>2, <2>1, Accounted
<1>4. Handles'
  <2>1. \A i \in Ids : i > opens => /\ leaks'[i] = leaks[i] /\ skipped'[i] = skipped[i]
                                    /\ \A k \in Semas : count'[k][i] = count[k][i]
    <3>1. "mutex" \in Semas /\ \A k \in Semas : Obj(p, k) <= opens /\ Obj(p, k) \in Nat
      BY <1>1 DEF Handles, TypeOK, Semas, Kinds, Obj
    <3>2. \A i \in Ids : i \in Nat /\ opens \in Nat
      BY <1>1 DEF Ids, TypeOK
    <3>3. \A k \in Semas, i \in Ids : i > opens => i # Obj(p, k)
      BY <3>1, <3>2
    <3>4. ASSUME NEW i \in Ids, i > opens
          PROVE  leaks'[i] = leaks[i] /\ skipped'[i] = skipped[i]
      <4>1. i # Obj(p, "mutex")
        BY <3>1, <3>3, <3>4
      <4> QED
        BY <4>1 DEF Alone
    <3>5. ASSUME NEW i \in Ids, i > opens, NEW k \in Semas PROVE count'[k][i] = count[k][i]
      <4>1. i # Obj(p, k)
        BY <3>3, <3>5
      <4> QED
        BY <4>1 DEF Alone
    <3> QED
      BY <3>4, <3>5
  <2> QED
    BY <1>1, <1>2, <2>1, StillHandles
<1>6. OwnNames' /\ OwnRing'
  BY <1>1, StillNames
<1>7. NothingRead'
  BY <1>1, StillUnread
<1>8. NoSlotYet'
  <2>1. ASSUME NEW o \in Owners, Unmade(o) PROVE count'["writer"][Obj(o, "mutex")] = 0
    <3> DEFINE i == Obj(o, "mutex")
    <3>1. i \in Ids /\ "writer" \in Semas
      BY <1>1, <1>2, <2>1, Objects DEF Unmade, Semas
    <3>2. count["writer"][i] = 0 /\ count'["writer"][i] \in Nat
      BY <1>1, <2>1, <3>1 DEF NoSlotYet, TypeOK
    <3>3. Reserves(p, i) = 0 /\ Reserves(p, i)' \in Nat
      BY <1>1, <2>1 DEF NoSlotYet, Reserves
    <3> QED
      BY <2>1, <3>2, <3>3 DEF Frees
  <2> QED
    BY <1>1, <1>2, <2>1, StillUnmade
<1>9. NoSlotTwice'
  <2>1. \A s \in SegIds :
          segment'[s].ring = segment[s].ring /\ segment'[s].adopted = segment[s].adopted
          /\ segment[s].ring \in Ids \cup {NULL}
    BY <1>1, SegmentFields DEF Still
  <2>2. \A s \in SegIds, i \in Ids :
           i = segment'[s].ring /\ ~segment'[s].adopted /\ skipped'[i] = 0 =>
             /\ i = segment[s].ring /\ ~segment[s].adopted /\ skipped[i] = 0
             /\ segment'[s].used >= segment[s].used
             /\ count'["writer"][i] + Reserves(p, i)' + segment'[s].used
                  <= count["writer"][i] + Reserves(p, i) + segment[s].used
    BY <2>1
  <2> QED
    BY <1>1, <1>2, <2>2, SlotsMove
<1> QED
  BY <1>3, <1>4, <1>6, <1>7, <1>8, <1>9 DEF IpcInv

LEMMA QuietKeeps ==
  ASSUME IpcInv, TypeOK', Quiet, NEW p \in Procs, Alone(p), Balanced(p), InRole(p),
         handle'[p] = handle[p] \/ (handle'[p] = Nothing /\ pc'[p] = "closed"),
         \A i \in Ids : skipped'[i] = 0 => skipped[i] = 0,
         \A s \in SegIds : s > made => segment'[s] = segment[s],
         \A o \in Owners : pc'[o] = "names" /\ ~Seg(o).adopted =>
           /\ segment'[Obj(o, "shm")].used = 0
           /\ \A j \in Slots : ~segment'[Obj(o, "shm")].reading[j],
         \A s \in SegIds, j \in Slots :
           segment'[s].reading[j] /\ segment[s].ring # NULL /\ ~segment[s].adopted
             => segment[s].reading[j] \/ skipped[segment[s].ring] # 0,
         \A o \in Owners : Unmade(o) => ~Frees(p, Obj(o, "mutex")),
         \A s \in SegIds, i \in Ids :
           i = segment[s].ring /\ ~segment[s].adopted /\ skipped[i] = 0 =>
             /\ segment'[s].used >= segment[s].used
             /\ count'["writer"][i] + Reserves(p, i)' + segment'[s].used
                  <= count["writer"][i] + Reserves(p, i) + segment[s].used
  PROVE  IpcInv'
<1>1. /\ TypeOK /\ Handles /\ Roles /\ OpenRing /\ OwnFinds
      /\ \A q \in Procs : q # p => pc'[q] = pc[q] /\ arg'[q] = arg[q]
      /\ Owners \subseteq Procs /\ Clients \subseteq Procs
  BY DEF IpcInv, MutexAccounted, Alone, Procs
<1>2. Roles'
  <2>1. \A o \in Owners : pc'[o] \in OwnerPoints /\ (arg[o].closing => pc'[o] \in Closing)
    BY <1>1 DEF InRole, Roles
  <2>2. \A c \in Clients : pc'[c] \in ClientPoints
    BY <1>1 DEF InRole, Roles
  <2> QED
    BY <1>1, <2>1, <2>2, QuietRoles
<1>3. OpenRing' /\ OwnFinds'
  BY <1>1, QuietRings
<1> QED
  BY <1>2, <1>3, StillKeeps DEF Quiet

(* Most of them leave the segments alone. *)
LEMMA OutsideKeeps ==
  ASSUME IpcInv, TypeOK', Quiet, NEW p \in Procs, Alone(p), Balanced(p), InRole(p),
         handle'[p] = handle[p] \/ (handle'[p] = Nothing /\ pc'[p] = "closed"),
         \A i \in Ids : skipped'[i] = 0 => skipped[i] = 0,
         UNCHANGED segment, \A i \in Ids : ~Frees(p, i)
  PROVE  IpcInv'
<1>1. /\ TypeOK /\ Handles /\ OpenRing /\ Owners \subseteq Procs
  BY DEF IpcInv, MutexAccounted, Procs
<1>2. \A o \in Owners : pc'[o] = "names" /\ ~Seg(o).adopted =>
           /\ segment'[Obj(o, "shm")].used = 0
           /\ \A j \in Slots : ~segment'[Obj(o, "shm")].reading[j]
  BY <1>1 DEF OpenRing, Quiet, Still, Stays, Seg
<1>3. \A o \in Owners : Unmade(o) => ~Frees(p, Obj(o, "mutex"))
  BY <1>1, Objects DEF Unmade
<1>4. ASSUME NEW s \in SegIds, NEW i \in Ids
      PROVE  /\ segment'[s].used >= segment[s].used
             /\ count'["writer"][i] + Reserves(p, i)' + segment'[s].used
                  <= count["writer"][i] + Reserves(p, i) + segment[s].used
  <2>1. "writer" \in Semas /\ segment[s].used \in Int
    BY <1>1, <1>4, SegmentFields DEF Semas
  <2>2. count["writer"][i] \in Nat /\ count'["writer"][i] \in Nat
    BY <1>1, <2>1 DEF TypeOK
  <2>3. Reserves(p, i) \in Nat /\ Reserves(p, i)' \in Nat
    BY DEF Reserves
  <2>4. ~Frees(p, i)
    OBVIOUS
  <2> QED
    BY <2>1, <2>2, <2>3, <2>4 DEF Frees
<1> QED
  BY <1>2, <1>3, <1>4, QuietKeeps

LEMMA OutsideStep ==
  ASSUME IpcInv, TypeOK', NEW p \in Procs, NEW l \in Points, Goto(p, l),
         Stays(p), Alone(p), Balanced(p), InRole(p),
         UNCHANGED <<bound, opens, made, segment>>, arg'[p].closing <=> arg[p].closing,
         handle'[p] = handle[p] \/ (handle'[p] = Nothing /\ l = "closed"),
         \A i \in Ids : skipped'[i] = 0 => skipped[i] = 0,
         \A i \in Ids : ~Frees(p, i)
  PROVE  IpcInv'
<1>1. TypeOK /\ Roles /\ pc'[p] = l
  BY Goes DEF IpcInv, MutexAccounted
<1>2. \A q \in Procs : q # p => Stays(q) /\ arg'[q] = arg[q]
  <2> SUFFICES ASSUME NEW q \in Procs, q # p PROVE Stays(q) /\ arg'[q] = arg[q]
    OBVIOUS
  <2>1. Same(q) /\ arg'[q] = arg[q]
    BY OthersSame DEF Alone
  <2>2. pc[q] = "unlink" => arg[q].closing
    BY <1>1 DEF Roles, ClientPoints, Procs
  <2> QED
    BY <2>1, <2>2, SameStays
<1>3. Quiet
  BY <1>2 DEF Quiet, Still
<1> QED
  BY <1>1, <1>3, OutsideKeeps

(* A wait that is signaled, as the others see it, and posts. *)
LEMMA TakesAlone ==
  ASSUME TypeOK, NEW p \in Procs, NEW k \in Semas, Obj(p, k) \in Ids, count[k][Obj(p, k)] > 0,
         count' = [count EXCEPT ![k][Obj(p, k)] = @ - 1]
  PROVE  /\ count'[k][Obj(p, k)] = count[k][Obj(p, k)] - 1
         /\ \A j \in Semas, i \in Ids : i # Obj(p, j) => count'[j][i] = count[j][i]
         /\ \A j \in Semas : j # k => count'[j] = count[j]
<1> DEFINE x == Obj(p, k)
<1>3. x \in Ids /\ count[k][x] > 0 /\ count' = [count EXCEPT ![k][x] = @ - 1]
  OBVIOUS
<1> HIDE DEF x
<1>4. /\ count'[k][x] = count[k][x] - 1
      /\ \A j \in Semas, i \in Ids : j # k \/ i # x => count'[j][i] = count[j][i]
  BY ZenonT(40), <1>3, Takes
<1>1. /\ count'[k][Obj(p, k)] = count[k][Obj(p, k)] - 1
      /\ \A j \in Semas, i \in Ids : i # Obj(p, j) => count'[j][i] = count[j][i]
  BY <1>4 DEF x
<1>2. \A j \in Semas : j # k => count'[j] = count[j]
  BY DEF TypeOK
<1> QED
  BY <1>1, <1>2

LEMMA PostsAlone ==
  ASSUME TypeOK, NEW p \in Procs, NEW kinds \in SUBSET Semas, count' = Posted(p, kinds),
         "mutex" \in kinds, Obj(p, "mutex") \in Ids
  PROVE  /\ \A j \in Semas, i \in Ids : i # Obj(p, j) => count'[j][i] = count[j][i]
         /\ count'["mutex"][Obj(p, "mutex")] = count["mutex"][Obj(p, "mutex")] + 1
         /\ "writer" \notin kinds => \A i \in Ids : count'["writer"][i] = count["writer"][i]
         /\ \A i \in Ids : count'["writer"][i] = count["writer"][i]
                           \/ (i = Obj(p, "writer") /\ count'["writer"][i] = count["writer"][i] + 1)
<1>1. "mutex" \in Semas /\ "writer" \in Semas
  BY DEF Semas
<1>2. \A k \in Semas, i \in Ids :
        count'[k][i] = IF k \in kinds /\ i = Obj(p, k) THEN count[k][i] + 1 ELSE count[k][i]
  BY Posts
<1>3. \A j \in Semas, i \in Ids : i # Obj(p, j) => count'[j][i] = count[j][i]
  BY <1>2
<1>4. count'["mutex"][Obj(p, "mutex")] = count["mutex"][Obj(p, "mutex")] + 1
  BY <1>1, <1>2
<1>5. "writer" \notin kinds => \A i \in Ids : count'["writer"][i] = count["writer"][i]
  BY <1>1, <1>2
<1>6. ASSUME NEW i \in Ids
      PROVE  count'["writer"][i] = count["writer"][i]
               \/ (i = Obj(p, "writer") /\ count'["writer"][i] = count["writer"][i] + 1)
  <2>1. CASE "writer" \in kinds /\ i = Obj(p, "writer")
    BY <1>1, <1>2, <2>1
  <2>2. CASE "writer" \notin kinds
    BY <1>5, <2>2
  <2>3. CASE i # Obj(p, "writer")
    BY <1>1, <1>3, <2>3
  <2> QED
    BY <2>1, <2>2, <2>3
<1> QED
  BY <1>3, <1>4, <1>5, <1>6

LEMMA LockKeeps ==
  ASSUME IpcInv, NEW p \in Procs, Lock(p) PROVE IpcInv'
<1>1. TypeOK /\ Handles /\ Roles /\ "mutex" \in Semas /\ "writer" \in Semas
  BY DEF IpcInv, MutexAccounted, Semas
<1> DEFINE l == AfterLock[pc[p]]
           m == Obj(p, "mutex")
<1>2. \/ pc[p] = "open_lock" /\ l = "segment"
      \/ pc[p] = "send_lock" /\ l = "send_copy"
      \/ pc[p] = "close_lock" /\ l = "close_state"
      \/ pc[p] = "recv_lock" /\ l = "recv_release"
      \/ pc[p] = "recv_again" /\ l = "recv_take"
  BY PointSets DEF Lock, AfterLock
<1>3. /\ l \in Points /\ Goto(p, l) /\ m \in Ids
      /\ UNCHANGED <<bound, opens, made, segment, handle, pos, arg, calls, leaks, skipped>>
      /\ count' = [count EXCEPT !["mutex"][m] = @ - 1]
  BY <1>1, <1>2, PointSets, Objects DEF Lock, history, Live
<1>4. pc'[p] = l /\ \A q \in Procs : q # p => pc'[q] = pc[q]
  BY <1>1, <1>3, Goes
<1>5. count["mutex"][m] \in Nat /\ count["mutex"][m] > 0
  BY <1>1, <1>3, LockTakes DEF Lock, TypeOK, WaitTimes
<1>6. /\ count'["mutex"][m] = count["mutex"][m] - 1
      /\ \A j \in Semas, i \in Ids : i # Obj(p, j) => count'[j][i] = count[j][i]
      /\ count'["writer"] = count["writer"]
  BY <1>1, <1>3, <1>5, TakesAlone
<1> HIDE DEF l
<1>7. Stays(p)
  BY <1>1, <1>2, <1>3, MovesStay DEF Calling
<1>8. Alone(p)
  BY <1>3, <1>4, <1>6 DEF Alone
<1>9. HeldBy(p) \in Nat /\ HeldBy(p)' = HeldBy(p) + 1
  BY <1>2, <1>4 DEF HeldBy
<1>10. Balanced(p)
  BY <1>1, <1>3, <1>5, <1>6, <1>9 DEF Balanced, TypeOK
<1>11. InRole(p)
  BY <1>1, <1>2, <1>4 DEF InRole, Roles, OwnerPoints, ClientPoints, Closing, Points, LockPoints, AfterLock
<1>12. \A i \in Ids : ~Frees(p, i)
  <2>1. \A i : Reserves(p, i)' = Reserves(p, i) /\ Reserves(p, i) \in Nat
    BY <1>2, <1>3, <1>4 DEF Reserves, Obj
  <2>2. \A i \in Ids : count'["writer"][i] = count["writer"][i] /\ count["writer"][i] \in Nat
    BY <1>1, <1>6 DEF TypeOK
  <2> QED
    BY <2>1, <2>2 DEF Frees
<1>13. TypeOK'
  BY <1>1, WorksTyped DEF Works
<1> QED
  BY <1>3, <1>7, <1>8, <1>10, <1>11, <1>12, <1>13, OutsideStep

LEMMA LockFailsKeeps ==
  ASSUME IpcInv, NEW p \in Procs, LockFails(p) PROVE IpcInv'
<1>1. TypeOK /\ Handles /\ Roles
  BY DEF IpcInv, MutexAccounted
<1> DEFINE l == AfterLock[pc[p]]
           m == Obj(p, "mutex")
<1>2. \/ pc[p] = "open_lock" /\ l = "segment"
      \/ pc[p] = "send_lock" /\ l = "send_copy"
      \/ pc[p] = "close_lock" /\ l = "close_state"
      \/ pc[p] = "recv_lock" /\ l = "recv_release"
      \/ pc[p] = "recv_again" /\ l = "recv_take"
  BY PointSets DEF LockFails, AfterLock
<1>3. /\ l \in Points /\ Goto(p, l) /\ m \in Ids
      /\ UNCHANGED <<bound, opens, made, segment, count, handle, pos, arg, calls, leaks>>
      /\ skipped' = [skipped EXCEPT ![m] = @ + 1]
  BY <1>1, <1>2, PointSets, Objects DEF LockFails, objects, Live
<1>4. pc'[p] = l /\ \A q \in Procs : q # p => pc'[q] = pc[q]
  BY <1>1, <1>3, Goes
<1>5. skipped \in [Ids -> Nat]
  BY <1>1 DEF TypeOK
<1>6. /\ skipped'[m] = skipped[m] + 1 /\ skipped[m] \in Nat
      /\ \A i \in Ids : i # m => skipped'[i] = skipped[i]
  BY <1>3, <1>5
<1> HIDE DEF l
<1>7. Stays(p)
  BY <1>1, <1>2, <1>3, MovesStay DEF Calling
<1>8. Alone(p)
  BY <1>3, <1>4, <1>6 DEF Alone
<1>9. HeldBy(p) \in Nat /\ HeldBy(p)' = HeldBy(p) + 1
  BY <1>2, <1>4 DEF HeldBy
<1>10. Balanced(p)
  <2>1. count["mutex"][m] \in Nat /\ leaks[m] \in Nat
    BY <1>1, <1>3 DEF TypeOK, Semas
  <2> QED
    BY <1>3, <1>6, <1>9, <2>1 DEF Balanced
<1>11. InRole(p)
  BY <1>1, <1>2, <1>4 DEF InRole, Roles, OwnerPoints, ClientPoints, Closing, Points, LockPoints, AfterLock
<1>12. \A i \in Ids : ~Frees(p, i)
  <2>1. \A i : Reserves(p, i)' = Reserves(p, i) /\ Reserves(p, i) \in Nat
    BY <1>2, <1>3, <1>4 DEF Reserves, Obj
  <2>2. \A i \in Ids : count'["writer"][i] = count["writer"][i] /\ count["writer"][i] \in Nat
    BY <1>1, <1>3 DEF TypeOK, Semas
  <2> QED
    BY <2>1, <2>2 DEF Frees
<1>13. TypeOK'
  BY <1>1, EndsTyped
<1>14. \A i \in Ids : skipped'[i] = 0 => skipped[i] = 0
  BY <1>6
<1> QED
  BY <1>3, <1>7, <1>8, <1>10, <1>11, <1>12, <1>13, <1>14, OutsideStep

(* The steps of a call that change no segment and have nothing to do with  *)
(* the mutex.                                                              *)
LEMMA CallStep ==
  ASSUME IpcInv, TypeOK', NEW p \in Procs, NEW l \in {"send_writer", "send_lock", "open", "recv_lock"},
         Goto(p, l), pc[p] \in {"open", "send_writer", "send_ack"}, InRole(p),
         UNCHANGED <<bound, opens, made, segment, handle, pos, leaks, skipped>>,
         arg'[p].closing <=> arg[p].closing, \A q \in Procs : q # p => arg'[q] = arg[q],
         count'["mutex"] = count["mutex"],
         \A j \in Semas, i \in Ids : i # Obj(p, j) => count'[j][i] = count[j][i],
         \/ count'["writer"] = count["writer"] /\ l # "send_lock"
         \/ /\ Obj(p, "writer") \in Ids /\ pc[p] = "send_writer"
            /\ count'["writer"][Obj(p, "writer")] = count["writer"][Obj(p, "writer")] - 1
  PROVE  IpcInv'
<1>1. TypeOK /\ Handles /\ Roles /\ "mutex" \in Semas /\ "writer" \in Semas
  BY DEF IpcInv, MutexAccounted, Semas
<1>2. l \in Calling /\ l \in Points /\ pc[p] \in Calling
  BY PointSets DEF Calling
<1>3. pc'[p] = l /\ \A q \in Procs : q # p => pc'[q] = pc[q]
  BY <1>1, <1>2, Goes
<1>4. Stays(p)
  BY <1>1, <1>2, MovesStay
<1>5. Alone(p)
  BY <1>3 DEF Alone
<1>6. Balanced(p)
  <2>1. HeldBy(p) = 0 /\ HeldBy(p)' = 0
    BY <1>3 DEF HeldBy
  <2> QED
    BY <2>1 DEF Balanced
<1>7. \A i \in Ids : ~Frees(p, i)
  <2> SUFFICES ASSUME NEW i \in Ids PROVE ~Frees(p, i)
    OBVIOUS
  <2>1. count["writer"][i] \in Nat
    BY <1>1 DEF TypeOK
  <2>2. Obj(p, "writer")' = Obj(p, "writer") /\ Reserves(p, i) = 0
    BY DEF Obj, Reserves
  <2>3. CASE count'["writer"] = count["writer"] /\ l # "send_lock"
    <3>1. Reserves(p, i)' = 0
      BY <1>3, <2>3 DEF Reserves
    <3> QED
      BY <2>1, <2>2, <2>3, <3>1 DEF Frees
  <2>4. CASE /\ Obj(p, "writer") \in Ids
             /\ count'["writer"][Obj(p, "writer")] = count["writer"][Obj(p, "writer")] - 1
    <3>1. CASE i = Obj(p, "writer")
      <4>1. Reserves(p, i)' = 0 \/ Reserves(p, i)' = 1
        BY DEF Reserves
      <4> QED
        BY <2>1, <2>2, <2>4, <3>1, <4>1 DEF Frees
    <3>2. CASE i # Obj(p, "writer")
      <4>1. Reserves(p, i)' = 0 /\ count'["writer"][i] = count["writer"][i]
        BY <1>1, <2>2, <3>2 DEF Reserves
      <4> QED
        BY <2>1, <2>2, <4>1 DEF Frees
    <3> QED
      BY <3>1, <3>2
  <2> QED
    BY <2>3, <2>4
<1> QED
  BY <1>2, <1>4, <1>5, <1>6, <1>7, OutsideStep

LEMMA RecvKeeps ==
  ASSUME IpcInv, NEW o \in Owners, NEW time \in Times, Recv(o, time) PROVE IpcInv'
<1>1. TypeOK /\ Handles /\ Roles /\ o \in Procs /\ Owners \cap Clients = {}
  BY DEF IpcInv, MutexAccounted, Procs
<1>2. /\ pc[o] = "open" /\ Goto(o, "recv_lock") /\ "recv_lock" \in Points
      /\ arg' = [arg EXCEPT ![o].time = time]
      /\ UNCHANGED <<bound, opens, made, segment, handle, pos, leaks, skipped, count>>
  BY PointSets DEF Recv, objects, history
<1>3. arg'[o].closing = arg[o].closing /\ \A q \in Procs : q # o => arg'[q] = arg[q]
  BY <1>1, <1>2 DEF TypeOK
<1>4. pc'[o] = "recv_lock"
  BY <1>1, <1>2, Goes
<1>5. InRole(o)
  BY <1>1, <1>2, <1>4, PointSets DEF InRole, OwnerPoints, Closing
<1>6. TypeOK'
  BY <1>1, SendAndReceiveTyped
<1> QED
  BY <1>1, <1>2, <1>3, <1>5, <1>6, CallStep

LEMMA SendKeeps ==
  ASSUME IpcInv, NEW c \in Clients, NEW time \in Times, NEW block \in BOOLEAN, Send(c, time, block)
  PROVE  IpcInv'
<1>1. TypeOK /\ Handles /\ Roles /\ c \in Procs /\ Owners \cap Clients = {}
  BY DEF IpcInv, MutexAccounted, Procs
<1>2. /\ pc[c] = "open" /\ Goto(c, "send_writer") /\ "send_writer" \in Points
      /\ arg' = [arg EXCEPT ![c].time = time, ![c].block = block]
      /\ UNCHANGED <<bound, opens, made, segment, handle, pos, leaks, skipped, count>>
  BY PointSets DEF Send, objects, history
<1>3. arg'[c].closing = arg[c].closing /\ \A q \in Procs : q # c => arg'[q] = arg[q]
  <2> DEFINE timed == [arg EXCEPT ![c].time = time]
  <2>2. arg \in [Procs -> Args] /\ time \in WaitTimes
    BY <1>1 DEF TypeOK, Args, Times, WaitTimes
  <2>3. timed \in [Procs -> Args]
    BY <1>1, <2>2, ArgFields
  <2>4. timed[c].closing = arg[c].closing /\ \A q \in Procs : q # c => timed[q] = arg[q]
    BY <1>1, <2>2 DEF Args
  <2>1. /\ arg' = [timed EXCEPT ![c].block = block]
        /\ timed \in [Procs -> Args] /\ timed[c].closing = arg[c].closing
        /\ \A q \in Procs : q # c => timed[q] = arg[q]
    BY <1>2, <2>3, <2>4
  <2> HIDE DEF timed
  <2> QED
    BY <1>1, <2>1 DEF Args
<1>4. pc'[c] = "send_writer"
  BY <1>1, <1>2, Goes
<1>5. InRole(c)
  BY <1>1, <1>4 DEF InRole, ClientPoints
<1>6. TypeOK'
  BY <1>1, SendAndReceiveTyped
<1> QED
  BY <1>1, <1>2, <1>3, <1>5, <1>6, CallStep

LEMMA SendWaitsKeep ==
  ASSUME IpcInv, NEW c \in Clients, SendRefused(c) \/ SendLockWriter(c) \/ SendAck(c)
  PROVE  IpcInv'
<1>1. /\ TypeOK /\ Handles /\ Roles /\ c \in Procs /\ Owners \cap Clients = {}
      /\ "writer" \in Semas /\ "ack" \in Semas /\ "mutex" \in Semas
  BY DEF IpcInv, MutexAccounted, Procs, Semas
<1>2. /\ UNCHANGED <<bound, opens, made, segment, handle, pos, leaks, skipped, arg>>
      /\ pc[c] \in {"send_writer", "send_ack"}
  BY DEF SendRefused, SendLockWriter, SendAck, objects, history
<1>3. TypeOK'
  BY <1>1, WorksTyped DEF Works
<1>4. CASE SendLockWriter(c)
  <2>1. Obj(c, "writer") \in Ids
    BY <1>1, <1>4, Objects, PastPoints DEF SendLockWriter
  <2>2. count["writer"][Obj(c, "writer")] > 0
    BY <1>1, <1>4, <2>1, LockTakes DEF SendLockWriter, TypeOK
  <2>3. /\ count'["writer"][Obj(c, "writer")] = count["writer"][Obj(c, "writer")] - 1
        /\ \A j \in Semas, i \in Ids : i # Obj(c, j) => count'[j][i] = count[j][i]
        /\ \A j \in Semas : j # "writer" => count'[j] = count[j]
    BY <1>1, <1>4, <2>1, <2>2, TakesAlone DEF SendLockWriter
  <2>4. Goto(c, "send_lock") /\ pc[c] = "send_writer"
    BY <1>4 DEF SendLockWriter
  <2>5. InRole(c)
    <3>1. pc'[c] = "send_lock"
      BY <1>1, <2>4, Goes, PointSets
    <3> QED
      BY <1>1, <3>1 DEF InRole, ClientPoints
  <2> QED
    BY <1>1, <1>2, <1>3, <2>1, <2>3, <2>4, <2>5, CallStep
<1>5. CASE SendRefused(c) \/ SendAck(c)
  <2>1. Goto(c, "open")
    BY <1>5 DEF SendRefused, SendAck
  <2>2. InRole(c)
    <3>1. pc'[c] = "open"
      BY <1>1, <2>1, Goes, PointSets
    <3> QED
      BY <1>1, <3>1 DEF InRole, ClientPoints
  <2>3. CASE UNCHANGED count
    BY <1>1, <1>2, <1>3, <2>1, <2>2, <2>3, CallStep
  <2>4. CASE ~UNCHANGED count
    <3>1. /\ pc[c] = "send_ack"
          /\ "WQ_SIGNALED" \in LockOutcomes(count["ack"][Obj(c, "ack")], "INFINITE")
          /\ count' = [count EXCEPT !["ack"][Obj(c, "ack")] = @ - 1]
      BY <1>5, <2>4 DEF SendAck, SendRefused, objects
    <3>2. Obj(c, "ack") \in Ids
      BY <1>1, <3>1, Objects, PastPoints
    <3>3. count["ack"][Obj(c, "ack")] > 0
      BY <1>1, <3>1, <3>2, LockTakes DEF TypeOK, WaitTimes
    <3>4. /\ \A j \in Semas, i \in Ids : i # Obj(c, j) => count'[j][i] = count[j][i]
          /\ \A j \in Semas : j # "ack" => count'[j] = count[j]
      BY <1>1, <3>1, <3>2, <3>3, TakesAlone
    <3> QED
      BY <1>1, <1>2, <1>3, <2>1, <2>2, <3>4, CallStep
  <2> QED
    BY <2>3, <2>4
<1> QED
  BY <1>4, <1>5

LEMMA FoundKeeps ==
  ASSUME IpcInv, NEW c \in Clients, Found(c) PROVE IpcInv'
<1>1. /\ TypeOK /\ Handles /\ Roles /\ c \in Procs /\ Owners \cap Clients = {} /\ Live(c)
      /\ "writer" \in Semas /\ {"mutex"} \in SUBSET Semas
  BY DEF IpcInv, MutexAccounted, Procs, Semas, Found, Live
<1>2. /\ UNCHANGED <<bound, opens, made, segment, handle, pos, leaks, skipped, arg>>
      /\ pc[c] = "names" /\ pos[c] > 3 /\ Goto(c, "open") /\ "open" \in Points
      /\ count' = Posted(c, {"mutex"})
  BY Orders, PointSets DEF Found, history
<1>3. pc'[c] = "open" /\ \A q \in Procs : q # c => pc'[q] = pc[q]
  BY <1>1, <1>2, Goes
<1>4. TypeOK'
  BY <1>1, WorksTyped DEF Works
<1>5. Obj(c, "mutex") \in Ids
  BY <1>1, Objects
<1>6. /\ \A j \in Semas, i \in Ids : i # Obj(c, j) => count'[j][i] = count[j][i]
      /\ count'["mutex"][Obj(c, "mutex")] = count["mutex"][Obj(c, "mutex")] + 1
      /\ \A i \in Ids : count'["writer"][i] = count["writer"][i]
  BY <1>1, <1>2, <1>5, PostsAlone
<1>7. Stays(c)
  BY <1>1, <1>2, MovesStay DEF Calling
<1>8. Alone(c)
  BY <1>2, <1>3, <1>6 DEF Alone
<1>9. Balanced(c)
  <2>1. HeldBy(c) = 1 /\ HeldBy(c)' = 0
    BY <1>2, <1>3 DEF HeldBy
  <2>2. count["mutex"][Obj(c, "mutex")] \in Nat
    BY <1>1, <1>5 DEF TypeOK, Semas
  <2> QED
    BY <1>2, <1>6, <2>1, <2>2 DEF Balanced
<1>10. InRole(c)
  BY <1>1, <1>3 DEF InRole, ClientPoints
<1>11. \A i \in Ids : ~Frees(c, i)
  <2>1. \A i : Reserves(c, i)' = 0 /\ Reserves(c, i) = 0
    BY <1>2, <1>3 DEF Reserves
  <2>2. \A i \in Ids : count["writer"][i] \in Nat
    BY <1>1 DEF TypeOK
  <2> QED
    BY <1>6, <2>1, <2>2 DEF Frees
<1> QED
  BY <1>1, <1>2, <1>4, <1>7, <1>8, <1>9, <1>10, <1>11, OutsideStep

(* A client that finds the ring closing gives back the slot that it had. *)
LEMMA SendClosedKeeps ==
  ASSUME IpcInv, NEW c \in Clients, SendClosed(c) PROVE IpcInv'
<1>1. /\ TypeOK /\ Handles /\ Roles /\ c \in Procs /\ Owners \cap Clients = {} /\ Live(c)
      /\ "writer" \in Semas /\ {"mutex", "writer"} \in SUBSET Semas
  BY DEF IpcInv, MutexAccounted, Procs, Semas, SendClosed, Live
<1>2. /\ UNCHANGED <<bound, opens, made, segment, handle, pos, leaks, skipped, arg>>
      /\ pc[c] = "send_copy" /\ Goto(c, "open") /\ "open" \in Points
      /\ count' = Posted(c, {"mutex", "writer"})
  BY PointSets DEF SendClosed, history
<1>3. pc'[c] = "open" /\ \A q \in Procs : q # c => pc'[q] = pc[q]
  BY <1>1, <1>2, Goes
<1>4. TypeOK'
  BY <1>1, WorksTyped DEF Works
<1>5. Obj(c, "mutex") \in Ids
  BY <1>1, Objects
<1>6. /\ \A j \in Semas, i \in Ids : i # Obj(c, j) => count'[j][i] = count[j][i]
      /\ count'["mutex"][Obj(c, "mutex")] = count["mutex"][Obj(c, "mutex")] + 1
      /\ \A i \in Ids : count'["writer"][i] = count["writer"][i]
                        \/ (i = Obj(c, "writer") /\ count'["writer"][i] = count["writer"][i] + 1)
  BY <1>1, <1>2, <1>5, PostsAlone
<1>7. Stays(c)
  BY <1>1, <1>2, MovesStay DEF Calling
<1>8. Alone(c)
  BY <1>2, <1>3, <1>6 DEF Alone
<1>9. Balanced(c)
  <2>1. HeldBy(c) = 1 /\ HeldBy(c)' = 0
    BY <1>2, <1>3 DEF HeldBy
  <2>2. count["mutex"][Obj(c, "mutex")] \in Nat
    BY <1>1, <1>5 DEF TypeOK, Semas
  <2> QED
    BY <1>2, <1>6, <2>1, <2>2 DEF Balanced
<1>10. InRole(c)
  BY <1>1, <1>3 DEF InRole, ClientPoints
<1>11. \A i \in Ids : ~Frees(c, i)
  <2> SUFFICES ASSUME NEW i \in Ids PROVE ~Frees(c, i)
    OBVIOUS
  <2>1. Reserves(c, i)' = 0 /\ (Reserves(c, i) = IF i = Obj(c, "writer") THEN 1 ELSE 0)
    BY <1>2, <1>3 DEF Reserves
  <2>2. count["writer"][i] \in Nat
    BY <1>1 DEF TypeOK
  <2>3. CASE i = Obj(c, "writer")
    <3>1. Reserves(c, i) = 1
      BY <2>1, <2>3
    <3>2. count'["writer"][i] = count["writer"][i] \/ count'["writer"][i] = count["writer"][i] + 1
      BY <1>6
    <3> QED
      BY <2>1, <2>2, <3>1, <3>2 DEF Frees
  <2>4. CASE i # Obj(c, "writer")
    <3>1. Reserves(c, i) = 0
      BY <2>1, <2>4
    <3>2. count'["writer"][i] = count["writer"][i]
      BY <1>1, <1>6, <2>4
    <3> QED
      BY <2>1, <2>2, <3>1, <3>2 DEF Frees
  <2> QED
    BY <2>3, <2>4
<1> QED
  BY <1>1, <1>2, <1>4, <1>7, <1>8, <1>9, <1>10, <1>11, OutsideStep

LEMMA RecvWaitKeeps ==
  ASSUME IpcInv, NEW o \in Owners, RecvWait(o) PROVE IpcInv'
<1>1. /\ TypeOK /\ Handles /\ Roles /\ o \in Procs /\ Owners \cap Clients = {} /\ Live(o)
      /\ "writer" \in Semas /\ "mutex" \in Semas
  BY DEF IpcInv, MutexAccounted, Procs, Semas, RecvWait, Live
<1> DEFINE m == Obj(o, "mutex")
<1>2. /\ UNCHANGED <<bound, opens, made, segment, handle, leaks, skipped, arg>>
      /\ pc[o] = "recv_wait" /\ pos' = [pos EXCEPT ![o] = 1]
      /\ \/ /\ Goto(o, "recv_again") /\ count' = [count EXCEPT !["mutex"][m] = @ - 1]
            /\ "WQ_SIGNALED" \in LockOutcomes(count["mutex"][m], arg[o].time)
         \/ Goto(o, "unlink") /\ arg[o].closing /\ UNCHANGED count
         \/ Goto(o, "open") /\ ~arg[o].closing /\ UNCHANGED count
  BY DEF RecvWait, history
<1>3. pos'[o] = 1 /\ \A q \in Procs : q # o => pos'[q] = pos[q]
  BY <1>1, <1>2 DEF TypeOK
<1>4. TypeOK' /\ m \in Ids
  BY <1>1, SendAndReceiveTyped, Objects
<1>5. PICK l \in {"recv_again", "unlink", "open"} :
        /\ Goto(o, l)
        /\ l = "unlink" => arg[o].closing
        /\ l = "open" => ~arg[o].closing
        /\ l = "recv_again" => /\ count' = [count EXCEPT !["mutex"][m] = @ - 1]
                               /\ "WQ_SIGNALED" \in LockOutcomes(count["mutex"][m], arg[o].time)
        /\ l # "recv_again" => UNCHANGED count
  BY <1>2
<1>6. l \in Points /\ pc'[o] = l /\ \A q \in Procs : q # o => pc'[q] = pc[q]
  BY <1>1, <1>5, Goes, PointSets
<1>7. /\ \A j \in Semas, i \in Ids : i # Obj(o, j) => count'[j][i] = count[j][i]
      /\ count'["writer"] = count["writer"]
      /\ count'["mutex"][m] = IF l = "recv_again" THEN count["mutex"][m] - 1 ELSE count["mutex"][m]
  <2>1. CASE l = "recv_again"
    <3>1. count["mutex"][m] > 0
      BY <1>1, <1>4, <1>5, <2>1, LockTakes DEF TypeOK
    <3> QED
      BY <1>1, <1>4, <1>5, <2>1, <3>1, TakesAlone
  <2>2. CASE l # "recv_again"
    BY <1>5, <2>2
  <2> QED
    BY <2>1, <2>2
<1>8. Stays(o)
  BY <1>1, <1>2, <1>3, <1>5, <1>6, MovesStay DEF Calling
<1>9. Alone(o)
  BY <1>2, <1>3, <1>6, <1>7 DEF Alone
<1>10. Balanced(o)
  <2>1. HeldBy(o) = 0 /\ HeldBy(o)' = IF l = "recv_again" THEN 1 ELSE 0
    BY <1>2, <1>6 DEF HeldBy
  <2>2. count["mutex"][m] \in Nat
    BY <1>1, <1>4 DEF TypeOK
  <2>3. leaks'[m] = leaks[m] /\ skipped'[m] = skipped[m]
    BY <1>2
  <2>4. count'["mutex"][m] + HeldBy(o)' = count["mutex"][m] + HeldBy(o)
    BY <1>7, <2>1, <2>2
  <2> QED
    BY <2>3, <2>4 DEF Balanced
<1>11. InRole(o)
  BY <1>1, <1>5, <1>6, PointSets DEF InRole, OwnerPoints, Closing
<1>12. \A i \in Ids : ~Frees(o, i)
  <2>1. \A i : Reserves(o, i)' = 0 /\ Reserves(o, i) = 0
    BY <1>1 DEF Reserves
  <2>2. \A i \in Ids : count["writer"][i] \in Nat /\ count'["writer"][i] = count["writer"][i]
    BY <1>1, <1>7 DEF TypeOK
  <2> QED
    BY <2>1, <2>2 DEF Frees
<1> QED
  BY <1>1, <1>2, <1>4, <1>5, <1>6, <1>8, <1>9, <1>10, <1>11, <1>12, OutsideStep

LEMMA CloseKeeps ==
  ASSUME IpcInv, NEW p \in Procs, Close(p) PROVE IpcInv'
<1>1. TypeOK /\ Handles /\ Roles /\ Owners \cap Clients = {}
  BY DEF IpcInv, MutexAccounted
<1>2. /\ UNCHANGED <<bound, opens, made, segment, count, pos, leaks, skipped, arg>>
      /\ pc[p] = "open"
  BY DEF Close, objects, history
<1>3. TypeOK'
  BY <1>1, EndsTyped
<1>4. PICK l \in {"close_lock", "closed"} :
        /\ Goto(p, l) /\ l \in Points
        /\ l = "close_lock" => p \in Owners /\ handle' = handle
        /\ l = "closed" => p \notin Owners /\ handle' = [handle EXCEPT ![p] = Nothing]
  BY PointSets DEF Close
<1>5. pc'[p] = l /\ \A q \in Procs : q # p => pc'[q] = pc[q]
  BY <1>1, <1>4, Goes
<1>6. /\ \A q \in Procs : q # p => handle'[q] = handle[q]
      /\ handle'[p] = handle[p] \/ (handle'[p] = Nothing /\ l = "closed")
  BY <1>1, <1>4 DEF TypeOK
<1>7. Stays(p)
  <2>1. CASE l = "close_lock"
    BY <1>1, <1>2, <1>4, <2>1, MovesStay DEF Calling
  <2>2. CASE l = "closed"
    BY <1>5, <2>2 DEF Stays, Live, Past, Has, Keeps
  <2> QED
    BY <2>1, <2>2
<1>8. Alone(p)
  BY <1>2, <1>5, <1>6 DEF Alone
<1>9. Balanced(p)
  <2>1. HeldBy(p) = 0 /\ HeldBy(p)' = 0
    BY <1>2, <1>4, <1>5 DEF HeldBy
  <2> QED
    BY <1>2, <2>1 DEF Balanced
<1>10. InRole(p)
  BY <1>1, <1>2, <1>4, <1>5, PointSets DEF InRole, OwnerPoints, ClientPoints, Closing, Roles
<1>11. \A i \in Ids : ~Frees(p, i)
  <2>1. \A i : Reserves(p, i)' = 0 /\ Reserves(p, i) = 0
    BY <1>2, <1>4, <1>5 DEF Reserves
  <2>2. \A i \in Ids : count["writer"][i] \in Nat
    BY <1>1 DEF TypeOK, Semas
  <2> QED
    BY <1>2, <2>1, <2>2 DEF Frees
<1> QED
  BY <1>2, <1>3, <1>4, <1>6, <1>7, <1>8, <1>9, <1>10, <1>11, OutsideStep

LEMMA CrashKeeps ==
  ASSUME IpcInv, NEW p \in Procs, Crash(p) PROVE IpcInv'
<1>1. TypeOK /\ Handles /\ Roles /\ Live(p)
  BY DEF IpcInv, MutexAccounted, Crash, Live
<1> DEFINE m == Obj(p, "mutex")
<1>2. /\ UNCHANGED <<bound, opens, made, segment, count, handle, pos, skipped, arg>>
      /\ Goto(p, "dead") /\ "dead" \in Points
      /\ leaks' = [leaks EXCEPT ![m] = @ + HeldBy(p)]
  BY PointSets DEF Crash, objects
<1>3. TypeOK' /\ m \in Ids
  BY <1>1, EndsTyped, Objects
<1>4. pc'[p] = "dead" /\ \A q \in Procs : q # p => pc'[q] = pc[q]
  BY <1>1, <1>2, Goes
<1>5. leaks'[m] = leaks[m] + HeldBy(p) /\ \A i \in Ids : i # m => leaks'[i] = leaks[i]
  BY <1>1, <1>2, <1>3 DEF TypeOK
<1>6. Stays(p)
  BY <1>1, <1>2, MovesStay
<1>7. Alone(p)
  BY <1>2, <1>4, <1>5 DEF Alone
<1>8. Balanced(p)
  <2>1. HeldBy(p)' = 0 /\ HeldBy(p) \in Nat
    BY <1>4 DEF HeldBy
  <2>2. count["mutex"][m] \in Nat /\ leaks[m] \in Nat /\ skipped[m] \in Nat
    BY <1>1, <1>3 DEF TypeOK, Semas
  <2> QED
    BY <1>2, <1>5, <2>1, <2>2 DEF Balanced
<1>9. InRole(p)
  BY <1>4, PointSets DEF InRole, OwnerPoints, ClientPoints, Closing
<1>10. \A i \in Ids : ~Frees(p, i)
  <2>1. \A i : Reserves(p, i)' = 0 /\ (Reserves(p, i) = 0 \/ Reserves(p, i) = 1)
    BY <1>4 DEF Reserves
  <2>2. \A i \in Ids : count["writer"][i] \in Nat
    BY <1>1 DEF TypeOK, Semas
  <2> QED
    BY <1>2, <2>1, <2>2 DEF Frees
<1> QED
  BY <1>2, <1>3, <1>6, <1>7, <1>8, <1>9, <1>10, OutsideStep
-----------------------------------------------------------------------------
(* The steps that work in a segment. *)

LEMMA OthersStay ==
  ASSUME Roles, NEW p \in Procs, Alone(p)
  PROVE  \A q \in Procs : q # p => Stays(q) /\ Same(q)
<1> SUFFICES ASSUME NEW q \in Procs, q # p PROVE Stays(q) /\ Same(q)
  OBVIOUS
<1>1. Same(q)
  BY OthersSame DEF Alone
<1>2. pc[q] = "unlink" => arg[q].closing
  BY DEF Roles, ClientPoints, Procs
<1> QED
  BY <1>1, <1>2, SameStays

LEMMA SendCopyKeeps ==
  ASSUME IpcInv, NEW c \in Clients, SendCopy(c) PROVE IpcInv'
<1>1. /\ TypeOK /\ Handles /\ Roles /\ OpenRing /\ OwnFinds
      /\ c \in Procs /\ Owners \cap Clients = {} /\ Live(c)
      /\ "writer" \in Semas /\ {"mutex", "reader"} \in SUBSET Semas /\ Past(c) /\ Has(c, "writer")
  BY PastPoints DEF IpcInv, MutexAccounted, Procs, Semas, SendCopy, Live
<1> DEFINE l == IF arg[c].block THEN "send_ack" ELSE "open"
           x == Obj(c, "shm")
<1>2. /\ UNCHANGED <<bound, opens, made, handle, pos, leaks, skipped, arg>>
      /\ pc[c] = "send_copy" /\ Goto(c, l) /\ l \in Points /\ l \in Calling
      /\ l = "open" \/ l = "send_ack"
      /\ count' = Posted(c, {"mutex", "reader"}) /\ Seg(c).state = 1
  BY PointSets DEF SendCopy, history, Calling
<1> HIDE DEF l
<1>3. pc'[c] = l /\ \A q \in Procs : q # c => pc'[q] = pc[q]
  BY <1>1, <1>2, Goes
<1>4. TypeOK'
  BY <1>1, WorksTyped DEF Works
<1>5. Obj(c, "mutex") \in Ids /\ x \in SegIds
  BY <1>1, Objects
<1>6. /\ \A j \in Semas, i \in Ids : i # Obj(c, j) => count'[j][i] = count[j][i]
      /\ count'["mutex"][Obj(c, "mutex")] = count["mutex"][Obj(c, "mutex")] + 1
      /\ \A i \in Ids : count'["writer"][i] = count["writer"][i]
  BY <1>1, <1>2, <1>5, PostsAlone
<1>7. /\ \A s \in SegIds :
           /\ segment'[s].ring = segment[s].ring /\ segment'[s].adopted = segment[s].adopted
           /\ segment'[s].ready = segment[s].ready /\ segment'[s].state = segment[s].state
           /\ segment'[s].reading = segment[s].reading /\ segment[s].used \in Int
           /\ segment'[s].used = segment[s].used + (IF s = x THEN 1 ELSE 0)
      /\ \A s \in SegIds : s # x => segment'[s] = segment[s]
  <2>1. \A s \in SegIds : s # x => segment'[s] = segment[s]
    BY <1>1, <1>5 DEF SendCopy, TypeOK
  <2> QED
    BY <1>1, <1>5, <2>1, CopyEffect, SegmentFields DEF Kept
<1>8. Stays(c)
  BY <1>1, <1>2, MovesStay DEF Calling
<1>9. Alone(c)
  BY <1>2, <1>3, <1>6 DEF Alone
<1>10. Balanced(c)
  <2>1. HeldBy(c) = 1 /\ HeldBy(c)' = 0
    BY <1>2, <1>3 DEF HeldBy
  <2>2. count["mutex"][Obj(c, "mutex")] \in Nat
    BY <1>1, <1>5 DEF TypeOK, Semas
  <2> QED
    BY <1>2, <1>6, <2>1, <2>2 DEF Balanced
<1>11. InRole(c)
  BY <1>1, <1>2, <1>3 DEF InRole, ClientPoints
<1>12. Quiet
  BY <1>1, <1>2, <1>7, <1>8, <1>9, OthersStay DEF Quiet, Still
<1>13. ASSUME NEW o \in Owners, pc'[o] = "names", ~Seg(o).adopted
       PROVE  /\ segment'[Obj(o, "shm")].used = 0
              /\ \A j \in Slots : ~segment'[Obj(o, "shm")].reading[j]
  <2>1. o # c /\ o \in Procs
    BY <1>1 DEF Procs
  <2>2. pc[o] = "names" /\ Obj(o, "shm") \in SegIds
    BY <1>1, <1>3, <1>13, <2>1, PastPoints, Objects
  <2>3. Seg(o).state = 0 /\ Seg(o).used = 0 /\ \A j \in Slots : ~Seg(o).reading[j]
    BY <1>13, <2>2 DEF OpenRing, IpcInv
  <2>4. Obj(o, "shm") # x
    BY <1>2, <2>3 DEF Seg
  <2> QED
    BY <1>7, <2>2, <2>3, <2>4 DEF Seg
<1>14. \A i : Reserves(c, i)' = 0 /\ (Reserves(c, i) = 0 \/ Reserves(c, i) = 1)
  BY <1>2, <1>3 DEF Reserves
<1>15. \A i \in Ids : ~Frees(c, i)
  <2>1. \A i \in Ids : count["writer"][i] \in Nat
    BY <1>1 DEF TypeOK
  <2> QED
    BY <1>6, <1>14, <2>1 DEF Frees
<1>16. \A o \in Owners : Unmade(o) => ~Frees(c, Obj(o, "mutex"))
  BY <1>1, <1>15, Objects DEF Unmade, Procs
<1>17. ASSUME NEW s \in SegIds, NEW i \in Ids, i = segment[s].ring, ~segment[s].adopted
       PROVE  /\ segment'[s].used >= segment[s].used
              /\ count'["writer"][i] + Reserves(c, i)' + segment'[s].used
                   <= count["writer"][i] + Reserves(c, i) + segment[s].used
  <2>2. count["writer"][i] \in Nat /\ count'["writer"][i] = count["writer"][i]
    BY <1>1, <1>6 DEF TypeOK
  <2>3. CASE s = x
    <3>1. Obj(c, "writer") = i
      BY <1>1, <1>2, <1>17, <2>3 DEF OwnFinds, Seg
    <3>2. Reserves(c, i) = 1
      BY <1>2, <3>1 DEF Reserves
    <3>3. segment'[s].used = segment[s].used + 1 /\ segment[s].used \in Int
      BY <1>7, <2>3
    <3> QED
      BY <1>14, <2>2, <3>2, <3>3
  <2>4. CASE s # x
    <3>1. segment'[s].used = segment[s].used /\ segment[s].used \in Int
      BY <1>7, <2>4
    <3> QED
      BY <1>14, <2>2, <3>1
  <2> QED
    BY <2>3, <2>4
<1>18. \A s \in SegIds : s > made => segment'[s] = segment[s]
  <2>1. x <= made /\ x \in Nat /\ made \in Nat
    BY <1>1, <1>5 DEF Handles, Obj, SegIds, TypeOK
  <2> QED
    BY <1>7, <2>1
<1>19. \A s \in SegIds, j \in Slots :
         segment'[s].reading[j] /\ segment[s].ring # NULL /\ ~segment[s].adopted
           => segment[s].reading[j] \/ skipped[segment[s].ring] # 0
  BY <1>7
<1>21. handle'[c] = handle[c] /\ \A i \in Ids : skipped'[i] = 0 => skipped[i] = 0
  BY <1>2
<1> QED
  BY <1>1, <1>4, <1>9, <1>10, <1>11, <1>12, <1>13, <1>16, <1>18, <1>17, <1>19, <1>21, QuietKeeps

(* The mutex is locked twice only after a wait that was interrupted. *)
LEMMA TakenTwice ==
  ASSUME MutexAccounted, NEW o \in Procs, pc[o] = "recv_take", Obj(o, "mutex") \in 1 .. opens
  PROVE  skipped[Obj(o, "mutex")] > 0
<1> DEFINE i == Obj(o, "mutex")
           a == Cardinality(Holders(i, 1))
           b == Cardinality(Holders(i, 2))
<1>1. count["mutex"][i] + a + 2 * b + leaks[i] = 1 + skipped[i]
  BY DEF MutexAccounted, Holders
<1>2. /\ count["mutex"][i] \in Nat /\ leaks[i] \in Nat /\ skipped[i] \in Nat
  <2>1. MaxOpens \in Nat /\ opens \in 0 .. MaxOpens
    BY DEF MutexAccounted, TypeOK
  <2>2. i \in Ids
    BY <2>1 DEF Ids
  <2> QED
    BY <2>2 DEF MutexAccounted, TypeOK, Semas
<1>3. IsFiniteSet(Holders(i, 1)) /\ IsFiniteSet(Holders(i, 2))
  <2>1. Holders(i, 1) \subseteq Procs /\ Holders(i, 2) \subseteq Procs
    BY DEF Holders
  <2> QED
    BY <2>1, FS_Subset
<1>4. a \in Nat /\ b \in Nat
  BY <1>3, FS_CardinalityType
<1>5. o \in Holders(i, 2)
  BY DEF Holders, HeldBy
<1>6. b # 0
  BY <1>3, <1>5, FS_EmptySet
<1> HIDE DEF a, b, i
<1>7. skipped[i] > 0
  BY <1>1, <1>2, <1>4, <1>6
<1> QED
  BY <1>7 DEF i

LEMMA RecvTakeKeeps ==
  ASSUME IpcInv, NEW o \in Owners, RecvTake(o) PROVE IpcInv'
<1>1. /\ TypeOK /\ Handles /\ Roles /\ OpenRing /\ OwnRing /\ OwnNames /\ MutexAccounted
      /\ o \in Procs /\ Owners \cap Clients = {} /\ Live(o)
      /\ "writer" \in Semas /\ {"mutex"} \in SUBSET Semas /\ Past(o)
  BY PastPoints DEF IpcInv, MutexAccounted, Procs, Semas, RecvTake, Live
<1> DEFINE l == IF arg[o].closing THEN "recv_lock" ELSE "open"
           x == Obj(o, "shm")
           m == Obj(o, "mutex")
<1>2. /\ UNCHANGED <<bound, opens, made, handle, pos, skipped, arg>>
      /\ pc[o] = "recv_take" /\ Goto(o, l) /\ l \in Points /\ l \in Calling
      /\ l = "open" \/ l = "recv_lock"
      /\ arg[o].closing => l = "recv_lock"
      /\ count' = Posted(o, {"mutex"}) /\ leaks' = [leaks EXCEPT ![m] = @ + 1]
  BY PointSets DEF RecvTake, Calling
<1> HIDE DEF l
<1>3. pc'[o] = l /\ \A q \in Procs : q # o => pc'[q] = pc[q]
  BY <1>1, <1>2, Goes
<1>4. TypeOK'
  BY <1>1, SendAndReceiveTyped
<1>5. m \in Ids /\ x \in SegIds /\ m \in 1 .. opens
  <2>1. m \in Ids /\ x \in SegIds
    BY <1>1, Objects
  <2>2. m <= opens /\ opens \in Nat
    BY <1>1 DEF Handles, Semas, Obj, TypeOK
  <2> QED
    BY <2>1, <2>2 DEF Ids
<1>6. /\ \A j \in Semas, i \in Ids : i # Obj(o, j) => count'[j][i] = count[j][i]
      /\ count'["mutex"][m] = count["mutex"][m] + 1
      /\ \A i \in Ids : count'["writer"][i] = count["writer"][i]
      /\ leaks'[m] = leaks[m] + 1 /\ \A i \in Ids : i # m => leaks'[i] = leaks[i]
  <2>1. leaks'[m] = leaks[m] + 1 /\ \A i \in Ids : i # m => leaks'[i] = leaks[i]
    BY <1>1, <1>2, <1>5 DEF TypeOK
  <2> QED
    BY <1>1, <1>2, <1>5, <2>1, PostsAlone
<1>7. /\ \A s \in SegIds :
           /\ segment'[s].ring = segment[s].ring /\ segment'[s].adopted = segment[s].adopted
           /\ segment'[s].ready = segment[s].ready /\ segment'[s].state = segment[s].state
           /\ segment'[s].used = segment[s].used /\ segment[s].used \in Int
      /\ \A s \in SegIds : s # x => segment'[s] = segment[s]
  BY <1>1, <1>5, TakeEffect, SegmentFields DEF Kept
<1>8. Stays(o)
  BY <1>1, <1>2, MovesStay DEF Calling
<1>9. Alone(o)
  BY <1>2, <1>3, <1>6 DEF Alone
<1>10. Balanced(o)
  <2>1. HeldBy(o) = 2 /\ HeldBy(o)' = 0
    BY <1>2, <1>3 DEF HeldBy
  <2>2. count["mutex"][m] \in Nat /\ leaks[m] \in Nat
    BY <1>1, <1>5 DEF TypeOK, Semas
  <2> QED
    BY <1>2, <1>6, <2>1, <2>2 DEF Balanced
<1>11. InRole(o)
  BY <1>1, <1>2, <1>3, PointSets DEF InRole, OwnerPoints, Closing
<1>12. Quiet
  BY <1>1, <1>2, <1>7, <1>8, <1>9, OthersStay DEF Quiet, Still
<1>13. ASSUME NEW q \in Owners, pc'[q] = "names", ~Seg(q).adopted
       PROVE  /\ segment'[Obj(q, "shm")].used = 0
              /\ \A j \in Slots : ~segment'[Obj(q, "shm")].reading[j]
  <2>1. q # o /\ q \in Procs
    BY <1>2, <1>3, <1>13 DEF Procs
  <2>2. pc[q] = "names" /\ Past(q) /\ Live(q) /\ Obj(q, "shm") \in SegIds
    BY <1>1, <1>3, <1>13, <2>1, PastPoints, Objects DEF Past
  <2>3. Seg(q).used = 0 /\ \A j \in Slots : ~Seg(q).reading[j]
    BY <1>1, <1>13, <2>2 DEF OpenRing
  <2>4. Obj(q, "shm") # x
    BY <1>1, <1>13, <2>1, <2>2 DEF OwnRing, OwnNames, Seg
  <2> QED
    BY <1>7, <2>2, <2>3, <2>4 DEF Seg
<1>14. \A i : Reserves(o, i)' = 0 /\ Reserves(o, i) = 0
  BY <1>1 DEF Reserves
<1>15. \A q \in Owners : Unmade(q) => ~Frees(o, Obj(q, "mutex"))
  <2>1. \A i \in Ids : count["writer"][i] \in Nat
    BY <1>1 DEF TypeOK
  <2>2. \A i \in Ids : ~Frees(o, i)
    BY <1>6, <1>14, <2>1 DEF Frees
  <2> QED
    BY <1>1, <2>2, Objects DEF Unmade, Procs
<1>17. ASSUME NEW s \in SegIds, NEW i \in Ids
       PROVE  /\ segment'[s].used >= segment[s].used
              /\ count'["writer"][i] + Reserves(o, i)' + segment'[s].used
                   <= count["writer"][i] + Reserves(o, i) + segment[s].used
  <2>2. count["writer"][i] \in Nat /\ count'["writer"][i] = count["writer"][i]
    BY <1>1, <1>6 DEF TypeOK
  <2> QED
    BY <1>7, <1>14, <2>2
<1>18. \A s \in SegIds : s > made => segment'[s] = segment[s]
  <2>1. x <= made /\ x \in Nat /\ made \in Nat
    BY <1>1, <1>5 DEF Handles, Obj, SegIds, TypeOK
  <2> QED
    BY <1>7, <2>1
<1>19. ASSUME NEW s \in SegIds, NEW j \in Slots, segment'[s].reading[j], segment[s].ring # NULL,
              ~segment[s].adopted
       PROVE  segment[s].reading[j] \/ skipped[segment[s].ring] # 0
  <2>1. CASE s = x
    <3>1. segment[s].ring = m
      BY <1>1, <1>19, <2>1 DEF OwnRing, Seg
    <3>2. skipped[m] > 0 /\ skipped[m] \in Nat
      BY <1>1, <1>2, <1>5, TakenTwice DEF TypeOK
    <3> QED
      BY <3>1, <3>2
  <2>2. CASE s # x
    BY <1>7, <1>19, <2>2
  <2> QED
    BY <2>1, <2>2
<1>21. handle'[o] = handle[o] /\ \A i \in Ids : skipped'[i] = 0 => skipped[i] = 0
  BY <1>2
<1> QED
  BY <1>1, <1>4, <1>9, <1>10, <1>11, <1>12, <1>13, <1>15, <1>18, <1>17, <1>19, <1>21, QuietKeeps

LEMMA RecvReleaseKeeps ==
  ASSUME IpcInv, NEW o \in Owners, RecvRelease(o) PROVE IpcInv'
<1>1. /\ TypeOK /\ Handles /\ Roles /\ OpenRing /\ OwnRing /\ OwnNames /\ NothingRead
      /\ o \in Procs /\ Owners \cap Clients = {} /\ Live(o)
      /\ "writer" \in Semas /\ "mutex" \in Semas /\ {"mutex"} \in SUBSET Semas
      /\ Past(o) /\ Has(o, "writer")
  BY PastPoints DEF IpcInv, MutexAccounted, Procs, Semas, RecvRelease, Live
<1> DEFINE x == Obj(o, "shm")
           m == Obj(o, "mutex")
<1>2. /\ UNCHANGED <<bound, opens, made, handle, pos, leaks, skipped, arg>>
      /\ pc[o] = "recv_release" /\ Goto(o, "recv_wait") /\ "recv_wait" \in Points
  BY PointSets DEF RecvRelease, history
<1>3. pc'[o] = "recv_wait" /\ \A q \in Procs : q # o => pc'[q] = pc[q]
  BY <1>1, <1>2, Goes
<1>4. TypeOK'
  BY <1>1, WorksTyped DEF Works
<1>5. m \in Ids /\ x \in SegIds
  BY <1>1, Objects
<1>6. PICK kinds \in SUBSET Semas :
        {"mutex"} \subseteq kinds /\ "reader" \notin kinds /\ count' = Posted(o, kinds)
  BY <1>1, <1>5, ReleaseEffect
<1>7. /\ \A j \in Semas, i \in Ids : i # Obj(o, j) => count'[j][i] = count[j][i]
      /\ count'["mutex"][m] = count["mutex"][m] + 1
      /\ \A i \in Ids : i # m => count'["writer"][i] = count["writer"][i]
  <2>1. Obj(o, "writer") = m
    BY <1>1 DEF Roles
  <2> QED
    BY <1>1, <1>5, <1>6, <2>1, PostsAlone
<1>8. /\ \A s \in SegIds :
           /\ segment'[s].ring = segment[s].ring /\ segment'[s].adopted = segment[s].adopted
           /\ segment'[s].ready = segment[s].ready /\ segment'[s].state = segment[s].state
           /\ segment[s].used \in Int
           /\ \A j \in Slots : segment'[s].reading[j] => segment[s].reading[j]
      /\ \A s \in SegIds : s # x => segment'[s] = segment[s]
      /\ ~Seg(o).reading[Seg(o).head] => UNCHANGED segment /\ count' = Posted(o, {"mutex"})
  BY <1>1, <1>5, ReleaseEffect, SegmentFields DEF Kept
<1>9. Stays(o)
  BY <1>1, <1>2, MovesStay DEF Calling
<1>10. Alone(o)
  BY <1>2, <1>3, <1>7 DEF Alone
<1>11. Balanced(o)
  <2>1. HeldBy(o) = 1 /\ HeldBy(o)' = 0
    BY <1>2, <1>3 DEF HeldBy
  <2>2. count["mutex"][m] \in Nat
    BY <1>1, <1>5 DEF TypeOK
  <2> QED
    BY <1>2, <1>7, <2>1, <2>2 DEF Balanced
<1>12. InRole(o)
  BY <1>1, <1>3, PointSets DEF InRole, OwnerPoints, Closing
<1>13. Quiet
  BY <1>1, <1>2, <1>8, <1>9, <1>10, OthersStay DEF Quiet, Still
<1>14. \A i : Reserves(o, i)' = 0 /\ Reserves(o, i) = 0
  BY <1>1 DEF Reserves
<1>15. \A i \in Ids : count["writer"][i] \in Nat
  BY <1>1 DEF TypeOK
<1>16. handle'[o] = handle[o] /\ \A i \in Ids : skipped'[i] = 0 => skipped[i] = 0
  BY <1>2
<1>17. CASE ~Seg(o).reading[Seg(o).head]
  <2>1. UNCHANGED segment /\ count' = Posted(o, {"mutex"}) /\ "writer" \notin {"mutex"}
    BY <1>8, <1>17
  <2>2. \A i \in Ids : count'["writer"][i] = count["writer"][i]
    BY <1>1, <1>5, <2>1, PostsAlone
  <2>3. \A i \in Ids : ~Frees(o, i)
    BY <1>14, <1>15, <2>2 DEF Frees
  <2> QED
    BY <1>1, <1>4, <1>10, <1>11, <1>12, <1>13, <1>16, <2>1, <2>3, OutsideKeeps
<1>18. CASE Seg(o).reading[Seg(o).head]
  <2>1. Seg(o).head \in Slots
    BY <1>1, <1>5, SegmentFields DEF Seg
  <2>2. ASSUME NEW q \in Owners, pc'[q] = "names", ~Seg(q).adopted
        PROVE  /\ segment'[Obj(q, "shm")].used = 0
               /\ \A j \in Slots : ~segment'[Obj(q, "shm")].reading[j]
    <3>1. q # o /\ q \in Procs
      BY <1>3, <2>2 DEF Procs
    <3>2. pc[q] = "names" /\ Obj(q, "shm") \in SegIds
      BY <1>1, <1>3, <2>2, <3>1, PastPoints, Objects
    <3>3. Seg(q).used = 0 /\ \A j \in Slots : ~Seg(q).reading[j]
      BY <1>1, <2>2, <3>2 DEF OpenRing
    <3>4. Obj(q, "shm") # x
      BY <1>18, <2>1, <3>3 DEF Seg
    <3> QED
      BY <1>8, <3>2, <3>3, <3>4 DEF Seg
  <2>3. ASSUME NEW q \in Owners, Unmade(q) PROVE ~Frees(o, Obj(q, "mutex"))
    <3>1. q # o /\ Live(q) /\ q \in Procs
      BY <1>1, <2>3 DEF Unmade, Procs
    <3>2. Obj(q, "mutex") # m /\ Obj(q, "mutex") \in Ids
      BY <1>1, <3>1, Objects DEF OwnNames
    <3> QED
      BY <1>7, <1>14, <1>15, <3>2 DEF Frees
  <2>4. ASSUME NEW s \in SegIds, NEW i \in Ids, i = segment[s].ring, ~segment[s].adopted,
               skipped[i] = 0
        PROVE  /\ segment'[s].used >= segment[s].used
               /\ count'["writer"][i] + Reserves(o, i)' + segment'[s].used
                    <= count["writer"][i] + Reserves(o, i) + segment[s].used
    <3>1. s # x
      BY <1>18, <2>1, <2>4, <1>1 DEF NothingRead, Seg, Ids, NULL
    <3>2. i # m
      BY <1>1, <2>4, <3>1 DEF OwnRing
    <3>3. segment'[s].used = segment[s].used /\ segment[s].used \in Int
          /\ count'["writer"][i] = count["writer"][i] /\ count["writer"][i] \in Nat
      BY <1>7, <1>8, <1>15, <3>1, <3>2
    <3> QED
      BY <1>14, <3>3
  <2>5. \A s \in SegIds : s > made => segment'[s] = segment[s]
    <3>1. x <= made /\ x \in Nat /\ made \in Nat
      BY <1>1, <1>5 DEF Handles, Obj, SegIds, TypeOK
    <3> QED
      BY <1>8, <3>1
  <2>6. \A s \in SegIds, j \in Slots :
          segment'[s].reading[j] /\ segment[s].ring # NULL /\ ~segment[s].adopted
            => segment[s].reading[j] \/ skipped[segment[s].ring] # 0
    BY <1>8
  <2> QED
    BY <1>1, <1>4, <1>10, <1>11, <1>12, <1>13, <1>16, <2>2, <2>3, <2>4, <2>5, <2>6, QuietKeeps
<1> QED
  BY <1>17, <1>18

(* The owner opens the ring, whose names it has just made, and closes it,  *)
(* before it gives them up.                                                *)
LEMMA StateKeeps ==
  ASSUME IpcInv, NEW o \in Owners, Made(o) \/ CloseState(o) PROVE IpcInv'
<1>1. /\ TypeOK /\ Handles /\ Roles /\ OpenRing /\ OwnRing /\ OwnNames /\ OwnFinds /\ NoSlotTwice
      /\ o \in Procs /\ Owners \cap Clients = {} /\ Live(o)
      /\ "writer" \in Semas /\ "mutex" \in Semas /\ {"mutex"} \in SUBSET Semas /\ Past(o)
      /\ Owners \subseteq Procs /\ Clients \subseteq Procs
  BY PastPoints DEF IpcInv, MutexAccounted, Procs, Semas, Made, CloseState, Live
<1> DEFINE x == Obj(o, "shm")
           m == Obj(o, "mutex")
<1>2. /\ UNCHANGED <<bound, opens, made, handle, pos, leaks, skipped>>
      /\ count' = Posted(o, {"mutex"})
  BY DEF Made, CloseState, history
<1>3. PICK l \in {"open", "recv_lock"} :
        /\ Goto(o, l) /\ l \in Points /\ l \in Calling
        /\ l = "open" => Made(o) /\ pc[o] = "names" /\ pos[o] > 3 /\ UNCHANGED arg
        /\ l = "recv_lock" => /\ CloseState(o) /\ pc[o] = "close_state"
                              /\ arg' = [arg EXCEPT ![o].time = "finite", ![o].closing = TRUE]
  <2>1. CASE Made(o)
    BY <2>1, PointSets, Orders DEF Made, Calling, history
  <2>2. CASE CloseState(o)
    BY <2>2, PointSets DEF CloseState, Calling
  <2> QED
    BY <2>1, <2>2
<1>4. pc'[o] = l /\ \A q \in Procs : q # o => pc'[q] = pc[q]
  BY <1>1, <1>3, Goes
<1>5. TypeOK'
  BY <1>1, WorksTyped, SendAndReceiveTyped DEF Works
<1>6. m \in Ids /\ x \in SegIds
  BY <1>1, Objects
<1>7. \A q \in Procs : q # o => arg'[q] = arg[q]
  BY <1>1, <1>3 DEF TypeOK
<1>8. /\ \A j \in Semas, i \in Ids : i # Obj(o, j) => count'[j][i] = count[j][i]
      /\ count'["mutex"][m] = count["mutex"][m] + 1
      /\ \A i \in Ids : count'["writer"][i] = count["writer"][i]
  BY <1>1, <1>2, <1>6, PostsAlone
<1>9. /\ \A s \in SegIds :
           /\ segment'[s].ring = segment[s].ring /\ segment'[s].adopted = segment[s].adopted
           /\ segment'[s].reading = segment[s].reading /\ segment'[s].used = segment[s].used
           /\ segment[s].used \in Int
      /\ \A s \in SegIds : s # x => segment'[s] = segment[s]
      /\ l = "open" => segment'[x].ready /\ segment'[x].state = 1
      /\ l = "recv_lock" => segment'[x].ready = segment[x].ready /\ segment'[x].state = 0
  BY <1>1, <1>3, <1>6, StateEffect, SegmentFields DEF Seg
<1>10. Stays(o)
  BY <1>1, <1>2, <1>3, MovesStay DEF Calling
<1>11. Alone(o)
  BY <1>2, <1>4, <1>7, <1>8 DEF Alone
<1>12. \A q \in Procs : q # o => Stays(q) /\ Same(q)
  BY <1>1, <1>11, OthersStay
<1>13. Balanced(o)
  <2>1. HeldBy(o) = 1 /\ HeldBy(o)' = 0
    BY <1>3, <1>4 DEF HeldBy
  <2>2. count["mutex"][m] \in Nat
    BY <1>1, <1>6 DEF TypeOK
  <2> QED
    BY <1>2, <1>8, <2>1, <2>2 DEF Balanced
<1>14. Still
  BY <1>1, <1>2, <1>9, <1>10, <1>12 DEF Still
<1>15. \A q \in Procs : /\ Live(q)' => Live(q) /\ (Past(q)' <=> Past(q))
                        /\ \A k \in Semas : Live(q)' => (Has(q, k)' <=> Has(q, k))
                        /\ \A k \in Kinds : Obj(q, k)' = Obj(q, k)
                        /\ Past(q)' => Live(q)'
                        /\ \A k \in Semas : Has(q, k)' => Live(q)'
  BY <1>2, <1>14 DEF Still, Stays, Obj, Past, Has
<1>16. Live(o)' /\ Past(o)'
  BY <1>3, <1>4 DEF Live, Past
<1>17. Roles'
  <2>1. l = "recv_lock" => arg'[o].closing
    BY <1>1, <1>3 DEF TypeOK
  <2>2. l = "open" => ~arg'[o].closing
    BY <1>1, <1>3 DEF Roles, Closing
  <2>3. \A q \in Owners : /\ pc'[q] \in OwnerPoints
                          /\ arg'[q].closing => pc'[q] \in Closing
                          /\ pc'[q] = "unlink" => arg'[q].closing
    BY <1>1, <1>3, <1>4, <1>7, <2>2, PointSets DEF Roles, OwnerPoints, Closing
  <2>4. \A c \in Clients : pc'[c] \in ClientPoints /\ ~arg'[c].closing
    BY <1>1, <1>4, <1>7 DEF Roles
  <2>5. \A q \in Owners, k \in Semas : Has(q, k)' => Obj(q, k)' = Obj(q, "mutex")'
    BY <1>1, <1>15 DEF Roles, Kinds
  <2>6. \A q \in Procs : pc'[q] \in {"open_lock", "segment"} => pos'[q] = 1
    BY <1>1, <1>14 DEF Roles, Still, Stays
  <2> QED
    BY <2>3, <2>4, <2>5, <2>6 DEF Roles
<1>18. /\ \A q \in Procs : Past(q)' => /\ Obj(q, "shm")' = Obj(q, "shm") /\ Obj(q, "shm") \in SegIds
                                       /\ Seg(q)' = segment'[Obj(q, "shm")] /\ Past(q)
       /\ "shm" \in Kinds /\ Semas \subseteq Kinds
  BY <1>1, <1>2, <1>15, Objects DEF Seg, Obj, Kinds
<1>19. OpenRing'
  <2>1. ASSUME NEW s \in SegIds, segment'[s].ready \/ segment'[s].state = 1 \/ segment'[s].adopted
        PROVE  segment'[s].ring # NULL
    <3>1. CASE s = x
      <4>1. CASE l = "open"
        <5>1. segment[x].ring = m \/ segment[x].adopted
          BY <1>1 DEF OwnRing, Seg
        <5>2. CASE segment[x].ring = m
          BY <1>6, <1>9, <3>1, <5>2 DEF Ids, NULL
        <5>3. CASE segment[x].adopted
          BY <1>1, <1>6, <1>9, <3>1, <5>3 DEF OpenRing
        <5> QED
          BY <5>1, <5>2, <5>3
      <4>2. CASE l = "recv_lock"
        BY <1>1, <1>6, <1>9, <2>1, <3>1, <4>2 DEF OpenRing
      <4> QED
        BY <4>1, <4>2
    <3>2. CASE s # x
      BY <1>1, <1>9, <2>1, <3>2 DEF OpenRing
    <3> QED
      BY <3>1, <3>2
  <2>2. ASSUME NEW s \in SegIds, NEW k \in Semas, segment'[s].state = 1, ~segment'[s].adopted
        PROVE  bound'[k] = segment'[s].ring
    <3>1. CASE s = x
      <4>1. l = "open" /\ segment[x].ring = m
        BY <1>1, <1>6, <1>9, <2>2, <3>1 DEF OwnRing, Seg
      <4>2. Keeps(o, k)
        <5>1. MadeAt[k] \in 0 .. 3
          BY DEF Semas, MadeAt
        <5>2. pos[o] \in 1 .. 5
          BY <1>1 DEF TypeOK
        <5>3. pos[o] > MadeAt[k]
          BY <1>3, <4>1, <5>1, <5>2
        <5> QED
          BY <1>1, <1>3, <4>1, <5>3 DEF Keeps, Has
      <4> QED
        BY <1>1, <1>2, <1>9, <3>1, <4>1, <4>2 DEF OwnNames
    <3>2. CASE s # x
      BY <1>1, <1>2, <1>9, <2>2, <3>2 DEF OpenRing
    <3> QED
      BY <3>1, <3>2
  <2>3. ASSUME NEW q \in Owners, Past(q)', arg'[q].closing, ~Seg(q)'.adopted
        PROVE  Seg(q)'.state = 0
    <3>1. CASE q = o
      <4>1. l # "open"
        BY <1>1, <1>3, <2>3, <3>1 DEF Roles, Closing
      <4> QED
        BY <1>9, <1>18, <1>1, <2>3, <3>1, <4>1
    <3>2. CASE q # o
      <4>1. Past(q) /\ arg[q].closing /\ ~Seg(q).adopted /\ Live(q)
        BY <1>1, <1>7, <1>9, <1>18, <2>3, <3>2 DEF Seg, Past
      <4>2. Seg(q).state = 0 /\ Seg(q).ring = Obj(q, "mutex")
        BY <1>1, <4>1 DEF OpenRing, OwnRing
      <4>3. Obj(q, "shm") # x
        BY <1>1, <3>2, <4>1, <4>2 DEF OwnRing, OwnNames, Seg
      <4> QED
        BY <1>1, <1>9, <1>18, <2>3, <4>2, <4>3 DEF Seg
    <3> QED
      BY <3>1, <3>2
  <2>4. ASSUME NEW q \in Owners, pc'[q] = "names", ~Seg(q)'.adopted
        PROVE  /\ ~Seg(q)'.ready /\ Seg(q)'.state = 0 /\ Seg(q)'.used = 0
               /\ \A j \in Slots : ~Seg(q)'.reading[j]
    <3>1. q # o /\ pc[q] = "names" /\ Past(q)'
      BY <1>1, <1>3, <1>4, <2>4 DEF Past, Live
    <3>2. Past(q) /\ ~Seg(q).adopted /\ Live(q) /\ Obj(q, "shm") \in SegIds
          /\ Seg(q)' = segment'[Obj(q, "shm")]
      BY <1>1, <1>9, <1>18, <2>4, <3>1 DEF Seg, Past
    <3>3. Obj(q, "shm") # x
      BY <1>1, <3>1, <3>2 DEF OwnRing, OwnNames, Seg
    <3> QED
      BY <1>1, <1>9, <3>1, <3>2, <3>3 DEF OpenRing, Seg
  <2> QED
    BY <2>1, <2>2, <2>3, <2>4 DEF OpenRing
<1>20. OwnFinds'
  <2> SUFFICES ASSUME NEW c \in Clients, Past(c)'
               PROVE  /\ Seg(c)'.ready \/ Seg(c)'.adopted
                      /\ Seg(c)'.state = 1 /\ ~Seg(c)'.adopted =>
                           \A k \in Semas \ {"mutex"} : Has(c, k)' => Obj(c, k)' = Seg(c)'.ring
    BY DEF OwnFinds
  <2>1. /\ Past(c) /\ c \in Procs /\ Obj(c, "shm") \in SegIds /\ Seg(c)' = segment'[Obj(c, "shm")]
        /\ Seg(c)'.ring = Seg(c).ring /\ (Seg(c)'.adopted <=> Seg(c).adopted)
    BY <1>1, <1>9, <1>18 DEF Seg
  <2>2. Seg(c).ready \/ Seg(c).adopted
    BY <1>1, <2>1 DEF OwnFinds
  <2>3. Seg(c)'.ready \/ Seg(c)'.adopted
    BY <1>9, <2>1, <2>2 DEF Seg
  <2>4. ASSUME Seg(c)'.state = 1, ~Seg(c)'.adopted, NEW k \in Semas \ {"mutex"}, Has(c, k)'
        PROVE  Obj(c, k)' = Seg(c)'.ring
    <3>1. Seg(c).state = 1
      <4>1. CASE Obj(c, "shm") = x
        <5>1. l = "open" /\ ~Seg(o).adopted /\ Seg(c) = Seg(o)
          BY <1>9, <2>1, <2>4, <4>1 DEF Seg
        <5>2. ~Seg(o).ready
          BY <1>1, <1>3, <5>1 DEF OpenRing
        <5> QED
          BY <2>2, <5>1, <5>2
      <4>2. CASE Obj(c, "shm") # x
        BY <1>9, <2>1, <2>4, <4>2 DEF Seg
      <4> QED
        BY <4>1, <4>2
    <3> QED
      BY <1>1, <1>15, <1>18, <2>1, <2>4, <3>1 DEF OwnFinds
  <2> QED
    BY <2>3, <2>4
<1>21. \A i : Reserves(o, i)' = 0 /\ Reserves(o, i) = 0
  BY <1>1 DEF Reserves
<1>22. \A i \in Ids : count["writer"][i] \in Nat
  BY <1>1 DEF TypeOK
<1>23. \A q \in Owners : Unmade(q) => ~Frees(o, Obj(q, "mutex"))
  <2>1. \A i \in Ids : ~Frees(o, i)
    BY <1>8, <1>21, <1>22 DEF Frees
  <2> QED
    BY <1>1, <2>1, Objects DEF Unmade
<1>24. ASSUME NEW s \in SegIds, NEW i \in Ids
       PROVE  /\ segment'[s].used >= segment[s].used
              /\ count'["writer"][i] + Reserves(o, i)' + segment'[s].used
                   <= count["writer"][i] + Reserves(o, i) + segment[s].used
  BY <1>8, <1>9, <1>21, <1>22
<1>25. \A s \in SegIds : s > made => segment'[s] = segment[s]
  <2>1. x <= made /\ x \in Nat /\ made \in Nat
    BY <1>1, <1>6 DEF Handles, Obj, SegIds, TypeOK
  <2> QED
    BY <1>9, <2>1
<1>26. handle'[o] = handle[o] /\ \A i \in Ids : skipped'[i] = 0 => skipped[i] = 0
  BY <1>2
<1>27. \A s \in SegIds, j \in Slots :
         segment'[s].reading[j] /\ segment[s].ring # NULL /\ ~segment[s].adopted
           => segment[s].reading[j] \/ skipped[segment[s].ring] # 0
  BY <1>9
<1> QED
  BY <1>1, <1>5, <1>11, <1>13, <1>14, <1>17, <1>19, <1>20, <1>23, <1>24, <1>25, <1>26, <1>27, StillKeeps
-----------------------------------------------------------------------------
(* The steps of an opening, and the last ones of a closing. *)

(* A client that opens does no more than to name a segment that had none.  *)
LEMMA ClientKeeps ==
  ASSUME IpcInv, TypeOK', NEW c \in Clients, Alone(c), Balanced(c), arg'[c] = arg[c],
         UNCHANGED <<segment, opens, skipped, count>>,
         made <= made', bound'["shm"] <= made', \A k \in Semas : bound'[k] = bound[k],
         bound["shm"] # NULL => bound'["shm"] = bound["shm"],
         handle'[c]["mutex"] = handle[c]["mutex"] \/ HeldBy(c)' = 0,
         handle'[c]["shm"] <= made', \A k \in Semas : handle'[c][k] <= opens,
         handle'[c]["writer"] \in {NULL, bound["writer"], handle[c]["writer"]},
         pc'[c] \in ClientPoints \ {"send_lock", "send_copy"},
         pc'[c] \in {"open_lock", "segment"} => pos'[c] = 1,
         Past(c)' => handle'[c]["shm"] # NULL,
         \A k \in Semas : Has(c, k)' => handle'[c][k] # NULL,
         Past(c)' => Seg(c)'.ready \/ Seg(c)'.adopted,
         \A k \in Semas \ {"mutex"} :
           Past(c)' /\ Seg(c)'.state = 1 /\ ~Seg(c)'.adopted /\ Has(c, k)'
             => Obj(c, k)' = Seg(c)'.ring
  PROVE  IpcInv'
<1>1. /\ TypeOK /\ Handles /\ Roles /\ OwnNames /\ OwnRing /\ OpenRing /\ OwnFinds /\ NoSlotYet
      /\ NothingRead /\ NoSlotTwice /\ c \in Procs /\ c \notin Owners
      /\ Owners \subseteq Procs /\ Clients \subseteq Procs
      /\ Semas \subseteq Kinds /\ "shm" \in Kinds /\ "mutex" \in Semas /\ "writer" \in Semas
  BY DEF IpcInv, MutexAccounted, Procs, Semas, Kinds
<1>2. \A q \in Procs : q # c => Stays(q) /\ Same(q)
  BY <1>1, OthersStay
<1>3. \A o \in Owners : /\ Same(o) /\ Obj(o, "mutex")' = Obj(o, "mutex") /\ Obj(o, "shm")' = Obj(o, "shm")
                        /\ \A k \in Semas : Obj(o, k)' = Obj(o, k)
                        /\ Seg(o)' = Seg(o)
  BY <1>1, <1>2 DEF Same, Obj, Seg
<1>4. MutexAccounted'
  BY <1>1, Accounted
<1>5. Handles'
  <2>1. /\ made \in Nat /\ made' \in Nat /\ opens \in Nat
        /\ \A q \in Procs : handle[q]["shm"] \in Nat
    BY <1>1 DEF TypeOK
  <2>2. \A k \in Semas : bound'[k] <= opens'
    BY <1>1 DEF Handles
  <2>3. ASSUME NEW q \in Procs, q # c
        PROVE  /\ handle'[q]["shm"] <= made' /\ \A k \in Semas : handle'[q][k] <= opens'
               /\ Past(q)' => handle'[q]["shm"] # NULL
               /\ \A k \in Semas : Has(q, k)' => handle'[q][k] # NULL
    <3>1. Same(q) /\ handle'[q] = handle[q] /\ handle[q]["shm"] <= made
      BY <1>1, <1>2, <2>3 DEF Same, Handles
    <3>2. handle'[q]["shm"] <= made'
      BY <2>1, <3>1
    <3> QED
      BY <1>1, <3>1, <3>2 DEF Same, Handles
  <2>4. \A s \in SegIds : segment'[s].ring <= opens'
    BY <1>1 DEF Handles
  <2>5. \A s \in SegIds : s > made' => segment'[s] = Zeroed
    BY <1>1, <2>1 DEF Handles, SegIds
  <2>6. ASSUME NEW i \in Ids, i > opens
        PROVE  leaks'[i] = 0 /\ skipped'[i] = 0 /\ \A k \in Semas : count'[k][i] = 0
    <3>1. Obj(c, "mutex") <= opens /\ Obj(c, "mutex") \in Nat
      BY <1>1 DEF Handles, TypeOK, Obj
    <3>2. i # Obj(c, "mutex")
      BY <2>1, <2>6, <3>1 DEF Ids
    <3> QED
      BY <1>1, <2>6, <3>2 DEF Handles, Alone
  <2>7. \A q \in Procs :
          /\ handle'[q]["shm"] <= made' /\ \A k \in Semas : handle'[q][k] <= opens'
          /\ Past(q)' => handle'[q]["shm"] # NULL
          /\ \A k \in Semas : Has(q, k)' => handle'[q][k] # NULL
    BY <2>3
  <2> QED
    BY <2>2, <2>4, <2>5, <2>6, <2>7 DEF Handles
<1>6. Roles'
  <2>1. /\ \A o \in Owners : pc'[o] \in OwnerPoints
        /\ \A o \in Owners : /\ arg'[o].closing => pc'[o] \in Closing
                             /\ pc'[o] = "unlink" => arg'[o].closing
    BY <1>1, <1>3 DEF Roles, Same
  <2>2. \A d \in Clients : pc'[d] \in ClientPoints /\ ~arg'[d].closing
    BY <1>1, <1>2 DEF Roles, Same
  <2>3. \A o \in Owners, k \in Semas : Has(o, k)' => Obj(o, k)' = Obj(o, "mutex")'
    BY <1>1, <1>3 DEF Roles, Same
  <2>4. \A q \in Procs : pc'[q] \in {"open_lock", "segment"} => pos'[q] = 1
    BY <1>1, <1>2 DEF Roles, Same
  <2> QED
    BY <2>1, <2>2, <2>3, <2>4 DEF Roles
<1>7. OwnNames'
  <2>1. \A o, q \in Owners :
          o # q /\ Live(o)' /\ Live(q)' => Obj(o, "mutex")' # Obj(q, "mutex")'
    BY <1>1, <1>3 DEF OwnNames, Same
  <2>2. \A o \in Owners, k \in Semas : Keeps(o, k)' => bound'[k] = Obj(o, "mutex")'
    BY <1>1, <1>3 DEF OwnNames, Same
  <2> QED
    BY <2>1, <2>2 DEF OwnNames
<1>8. OwnRing'
  <2>1. \A o \in Owners : Past(o)' => Seg(o)'.ring = Obj(o, "mutex")' \/ Seg(o)'.adopted
    BY <1>1, <1>3 DEF OwnRing, Same
  <2>2. \A o \in Owners, s \in SegIds :
          Live(o)' /\ segment'[s].ring = Obj(o, "mutex")' => Past(o)' /\ Obj(o, "shm")' = s
    BY <1>1, <1>3 DEF OwnRing, Same
  <2>3. ASSUME NEW o \in Owners, Past(o)', ~Seg(o)'.adopted
        PROVE  bound'["shm"] = Obj(o, "shm")'
    <3>1. Past(o) /\ ~Seg(o).adopted
      BY <1>3, <2>3 DEF Same
    <3>2. bound["shm"] = Obj(o, "shm") /\ Obj(o, "shm") # NULL
      BY <1>1, <3>1 DEF OwnRing, Handles, Obj
    <3> QED
      BY <1>3, <3>2
  <2> QED
    BY <2>1, <2>2, <2>3 DEF OwnRing
<1>9. OpenRing'
  <2>1. /\ \A s \in SegIds : segment'[s].ready \/ segment'[s].state = 1 \/ segment'[s].adopted
                         => segment'[s].ring # NULL
        /\ \A s \in SegIds, k \in Semas :
             segment'[s].state = 1 /\ ~segment'[s].adopted => bound'[k] = segment'[s].ring
    BY <1>1 DEF OpenRing
  <2>2. \A o \in Owners : Past(o)' /\ arg'[o].closing /\ ~Seg(o)'.adopted => Seg(o)'.state = 0
    BY <1>1, <1>3 DEF OpenRing, Same
  <2>3. \A o \in Owners : pc'[o] = "names" /\ ~Seg(o)'.adopted =>
         /\ ~Seg(o)'.ready /\ Seg(o)'.state = 0 /\ Seg(o)'.used = 0
         /\ \A j \in Slots : ~Seg(o)'.reading[j]
    BY <1>1, <1>3 DEF OpenRing, Same
  <2> QED
    BY <2>1, <2>2, <2>3 DEF OpenRing
<1>10. OwnFinds'
  <2>1. ASSUME NEW d \in Clients, d # c, Past(d)'
        PROVE  /\ Seg(d)'.ready \/ Seg(d)'.adopted
               /\ Seg(d)'.state = 1 /\ ~Seg(d)'.adopted =>
                    \A k \in Semas \ {"mutex"} : Has(d, k)' => Obj(d, k)' = Seg(d)'.ring
    <3>1. Same(d) /\ Past(d) /\ Seg(d)' = Seg(d) /\ \A k \in Semas : Obj(d, k)' = Obj(d, k)
      BY <1>1, <1>2, <2>1 DEF Same, Seg, Obj
    <3> QED
      BY <1>1, <3>1 DEF OwnFinds, Same
  <2> QED
    BY <2>1 DEF OwnFinds
<1>11. NoSlotYet'
  <2> SUFFICES ASSUME NEW o \in Owners, Unmade(o)'
               PROVE  /\ count'["writer"][Obj(o, "mutex")'] = 0 /\ bound'["writer"] # Obj(o, "mutex")'
                      /\ \A d \in Clients : Obj(d, "writer")' # Obj(o, "mutex")'
    BY DEF NoSlotYet
  <2>1. Unmade(o) /\ Obj(o, "mutex")' = Obj(o, "mutex") /\ Obj(o, "mutex") # NULL
    <3>1. Unmade(o) /\ Live(o)
      BY <1>1, <1>3 DEF Unmade, Same
    <3> QED
      BY <1>1, <1>3, <3>1, Objects DEF Ids, NULL
  <2>2. \A d \in Clients : d # c => Obj(d, "writer")' = Obj(d, "writer")
    BY <1>1, <1>2 DEF Same, Obj
  <2>3. Obj(c, "writer")' \in {NULL, bound["writer"], Obj(c, "writer")}
    BY DEF Obj
  <2> QED
    BY <1>1, <2>1, <2>2, <2>3 DEF NoSlotYet
<1>12. NothingRead'
  BY <1>1 DEF NothingRead
<1>13. NoSlotTwice'
  <2>1. \A i : Reserves(c, i)' = 0 /\ (Reserves(c, i) = 0 \/ Reserves(c, i) = 1)
    BY DEF Reserves
  <2>2. ASSUME NEW s \in SegIds, NEW i \in Ids
        PROVE  /\ segment'[s].used >= segment[s].used
               /\ count'["writer"][i] + Reserves(c, i)' + segment'[s].used
                    <= count["writer"][i] + Reserves(c, i) + segment[s].used
    <3>1. segment[s].used \in Int /\ count["writer"][i] \in Nat
      BY <1>1, <2>2, SegmentFields DEF TypeOK
    <3> QED
      BY <2>1, <3>1
  <2>3. \A q \in Procs : q # c => pc'[q] = pc[q] /\ handle'[q] = handle[q]
    BY DEF Alone
  <2>4. \A s \in SegIds, i \in Ids :
           i = segment'[s].ring /\ ~segment'[s].adopted /\ skipped'[i] = 0 =>
             /\ i = segment[s].ring /\ ~segment[s].adopted /\ skipped[i] = 0
             /\ segment'[s].used >= segment[s].used
             /\ count'["writer"][i] + Reserves(c, i)' + segment'[s].used
                  <= count["writer"][i] + Reserves(c, i) + segment[s].used
    BY <2>2
  <2> QED
    BY <1>1, <2>3, <2>4, SlotsMove
<1> QED
  BY <1>4, <1>5, <1>6, <1>7, <1>8, <1>9, <1>10, <1>11, <1>12, <1>13 DEF IpcInv

LEMMA OpenKeeps ==
  ASSUME IpcInv, NEW c \in Clients, Open(c) PROVE IpcInv'
<1>1. /\ TypeOK /\ Handles /\ c \in Procs /\ pc[c] = "closed" /\ bound["mutex"] # NULL
      /\ Semas \subseteq Kinds /\ "shm" \in Kinds /\ "shm" \notin Semas
      /\ "mutex" \in Semas /\ "writer" \in Semas
  BY DEF IpcInv, MutexAccounted, Procs, Open, Semas, Kinds
<1>2. TypeOK'
  BY <1>1, OpensTyped
<1>3. /\ UNCHANGED <<bound, opens, made, count, segment, arg, leaks, skipped>>
      /\ handle' = [handle EXCEPT ![c] = [Nothing EXCEPT !["mutex"] = bound["mutex"]]]
      /\ pos' = [pos EXCEPT ![c] = 1] /\ Goto(c, "open_lock") /\ "open_lock" \in Points
  BY PointSets DEF Open, objects, history
<1>4. /\ pc'[c] = "open_lock" /\ \A q \in Procs : q # c => pc'[q] = pc[q]
      /\ pos'[c] = 1 /\ \A q \in Procs : q # c => pos'[q] = pos[q]
      /\ \A q \in Procs : q # c => handle'[q] = handle[q]
  BY <1>1, <1>3, Goes DEF TypeOK
<1>5. /\ handle'[c]["mutex"] = bound["mutex"] /\ \A k \in Kinds \ {"mutex"} : handle'[c][k] = NULL
  BY <1>1, <1>3 DEF TypeOK, Nothing
<1>6. Alone(c)
  BY <1>3, <1>4 DEF Alone
<1>7. HeldBy(c) = 0 /\ HeldBy(c)' = 0
  BY <1>1, <1>4 DEF HeldBy
<1>8. Balanced(c)
  BY <1>3, <1>7 DEF Balanced
<1>9. ~Past(c)' /\ \A k \in Semas : Has(c, k)' => k = "mutex"
  BY <1>4 DEF Past, Has
<1>10. /\ made <= made' /\ bound'["shm"] <= made' /\ handle'[c]["shm"] <= made'
       /\ \A k \in Semas : handle'[c][k] <= opens
  <2>1. made \in Nat /\ opens \in Nat /\ bound["shm"] <= made /\ bound["mutex"] <= opens
    BY <1>1 DEF Handles, TypeOK
  <2>2. handle'[c]["shm"] = 0 /\ \A k \in Semas : k # "mutex" => handle'[c][k] = 0
    BY <1>1, <1>5 DEF NULL
  <2>3. made' = made /\ bound'["shm"] = bound["shm"]
    BY <1>3
  <2>4. \A k \in Semas : handle'[c][k] <= opens
    BY <1>5, <2>1, <2>2
  <2> QED
    BY <2>1, <2>2, <2>3, <2>4
<1>11. handle'[c]["writer"] = NULL
  BY <1>1, <1>5
<1>12. "open_lock" \in ClientPoints \ {"send_lock", "send_copy"}
  BY DEF ClientPoints
<1> QED
  BY <1>1, <1>2, <1>3, <1>4, <1>5, <1>6, <1>7, <1>8, <1>9, <1>10, <1>11, <1>12, ClientKeeps

(* An opening that fails among the names. *)
LEMMA FailKeeps ==
  ASSUME IpcInv, NEW p \in Procs, pc[p] = "names", Fail(p), TypeOK',
         UNCHANGED <<bound, opens, made, segment, count, handle, pos, arg, skipped>>
  PROVE  IpcInv'
<1>1. TypeOK /\ Handles /\ Live(p) /\ Roles /\ "closed" \in Points /\ Goto(p, "closed")
  BY PointSets DEF IpcInv, MutexAccounted, Live, Fail
<1> DEFINE m == Obj(p, "mutex")
<1>2. m \in Ids /\ "mutex" \in Semas /\ "writer" \in Semas
  BY <1>1, Objects DEF Semas
<1>3. pc'[p] = "closed" /\ \A q \in Procs : q # p => pc'[q] = pc[q]
  BY <1>1, Goes
<1>4. leaks'[m] = leaks[m] + 1 /\ \A i \in Ids : i # m => leaks'[i] = leaks[i]
  BY <1>1, <1>2, FailTyped
<1>5. Stays(p)
  BY <1>3 DEF Stays, Live, Past
<1>6. Alone(p)
  BY <1>3, <1>4 DEF Alone
<1>7. Balanced(p)
  <2>1. HeldBy(p)' = 0 /\ HeldBy(p) = 1
    BY <1>3 DEF HeldBy
  <2>2. count["mutex"][m] \in Nat /\ leaks[m] \in Nat /\ skipped[m] \in Nat
    BY <1>1, <1>2 DEF TypeOK
  <2> QED
    BY <1>4, <2>1, <2>2 DEF Balanced
<1>8. InRole(p)
  <2>1. p \in Owners => ~arg[p].closing
    BY <1>1 DEF Roles, Closing
  <2> QED
    BY <1>3, <2>1, PointSets DEF InRole, OwnerPoints, ClientPoints
<1>9. \A i \in Ids : ~Frees(p, i)
  <2>1. \A i : Reserves(p, i)' = 0 /\ (Reserves(p, i) = 0 \/ Reserves(p, i) = 1)
    BY <1>3 DEF Reserves
  <2>2. \A i \in Ids : count["writer"][i] \in Nat
    BY <1>1, <1>2 DEF TypeOK
  <2> QED
    BY <2>1, <2>2 DEF Frees
<1> QED
  BY <1>1, <1>5, <1>6, <1>7, <1>8, <1>9, OutsideStep

LEMMA ClientSegmentKeeps ==
  ASSUME IpcInv, NEW c \in Clients, ClientSegment(c) PROVE IpcInv'
<1>1. /\ TypeOK /\ Handles /\ Roles /\ c \in Procs /\ pc[c] = "segment" /\ pos[c] = 1
      /\ Semas \subseteq Kinds /\ "shm" \in Kinds /\ "shm" \notin Semas
      /\ "mutex" \in Semas /\ "writer" \in Semas /\ Live(c)
      /\ Attach(c) /\ bound["shm"] <= made /\ bound["shm"] \in Nat /\ made \in Nat
  BY DEF IpcInv, MutexAccounted, Procs, ClientSegment, Semas, Kinds, Roles, Live, Handles, TypeOK
<1>2. TypeOK'
  BY <1>1, OpensTyped
<1>3. UNCHANGED <<opens, count, segment, pos, arg, skipped>>
  BY DEF ClientSegment
<1>4. PICK s \in SegIds :
        /\ s = IF bound["shm"] = NULL THEN made + 1 ELSE bound["shm"]
        /\ made' = IF bound["shm"] = NULL THEN made + 1 ELSE made
        /\ s <= made' /\ s # NULL /\ bound'["shm"] = s
        /\ \A k \in Semas : bound'[k] = bound[k]
        /\ handle'[c]["shm"] = s
        /\ \A k \in Semas : handle'[c][k] = handle[c][k]
        /\ \A q \in Procs : q # c => handle'[q] = handle[q]
  BY <1>1, AttachEffect
<1> DEFINE m == Obj(c, "mutex")
<1>5. m \in Ids /\ Has(c, "mutex")
  BY <1>1, Objects DEF Has
<1>6. /\ made <= made' /\ bound'["shm"] <= made' /\ handle'[c]["shm"] <= made'
      /\ \A k \in Semas : handle'[c][k] <= opens
      /\ bound["shm"] # NULL => bound'["shm"] = bound["shm"]
      /\ handle'[c]["mutex"] = handle[c]["mutex"] /\ handle'[c]["writer"] = handle[c]["writer"]
  BY <1>1, <1>4 DEF Handles
<1>7. CASE segment[bound'["shm"]].ready /\ c \notin Misfits
  <2>1. Goto(c, "names") /\ UNCHANGED leaks /\ "names" \in Points
    BY <1>7, PointSets DEF ClientSegment
  <2>2. pc'[c] = "names" /\ \A q \in Procs : q # c => pc'[q] = pc[q]
    BY <1>1, <2>1, Goes
  <2>3. Alone(c)
    BY <1>3, <1>4, <2>1, <2>2 DEF Alone
  <2>4. Balanced(c)
    <3>1. HeldBy(c) = 1 /\ HeldBy(c)' = 1
      BY <1>1, <2>2 DEF HeldBy
    <3> QED
      BY <1>3, <2>1, <3>1 DEF Balanced
  <2>5. \A k \in Semas : Has(c, k)' => k = "mutex"
    <3>1. \A k \in Semas : 1 > MadeAt[k] => k = "mutex"
      BY DEF Semas, MadeAt
    <3> QED
      BY <1>1, <1>3, <2>2, <3>1 DEF Has
  <2>6. \A k \in Semas : Has(c, k)' => handle'[c][k] # NULL
    BY <1>1, <1>4, <1>5, <2>5 DEF Handles
  <2>7. Seg(c)'.ready
    BY <1>3, <1>4, <1>7 DEF Seg, Obj
  <2>8. "names" \in ClientPoints \ {"send_lock", "send_copy"}
    BY DEF ClientPoints
  <2> QED
    BY <1>2, <1>3, <1>4, <1>6, <2>2, <2>3, <2>4, <2>5, <2>6, <2>7, <2>8, ClientKeeps
<1>8. CASE ~(segment[bound'["shm"]].ready /\ c \notin Misfits)
  <2>1. Fail(c) /\ Goto(c, "closed") /\ "closed" \in Points
    BY <1>8, PointSets DEF ClientSegment, Fail
  <2>2. pc'[c] = "closed" /\ \A q \in Procs : q # c => pc'[q] = pc[q]
    BY <1>1, <2>1, Goes
  <2>3. leaks'[m] = leaks[m] + 1 /\ \A i \in Ids : i # m => leaks'[i] = leaks[i]
    BY <1>1, <1>5, <2>1, FailTyped
  <2>4. Alone(c)
    BY <1>3, <1>4, <2>2, <2>3 DEF Alone
  <2>5. Balanced(c)
    <3>1. HeldBy(c) = 1 /\ HeldBy(c)' = 0
      BY <1>1, <2>2 DEF HeldBy
    <3>2. count["mutex"][m] \in Nat /\ leaks[m] \in Nat /\ skipped[m] \in Nat
      BY <1>1, <1>5 DEF TypeOK
    <3> QED
      BY <1>3, <2>3, <3>1, <3>2 DEF Balanced
  <2>6. ~Past(c)' /\ \A k \in Semas : ~Has(c, k)'
    BY <2>2 DEF Past, Has, Live
  <2>7. "closed" \in ClientPoints \ {"send_lock", "send_copy"}
    BY DEF ClientPoints
  <2> QED
    BY <1>2, <1>3, <1>4, <1>6, <2>2, <2>4, <2>5, <2>6, <2>7, ClientKeeps
<1> QED
  BY <1>7, <1>8

LEMMA FindKeeps ==
  ASSUME IpcInv, NEW c \in Clients, Find(c) PROVE IpcInv'
<1> DEFINE k == MakeOrder[pos[c]]
<1>1. /\ TypeOK /\ Handles /\ Roles /\ OpenRing /\ OwnFinds
      /\ c \in Procs /\ pc[c] = "names" /\ pos[c] <= Len(MakeOrder)
      /\ Semas \subseteq Kinds /\ "shm" \in Kinds /\ "shm" \notin Semas
      /\ "mutex" \in Semas /\ "writer" \in Semas /\ Past(c) /\ pos[c] \in 1 .. 5
  BY PastPoints DEF IpcInv, MutexAccounted, Procs, Find, Semas, Kinds, TypeOK
<1>2. TypeOK' /\ UNCHANGED <<bound, opens, made, count, segment, arg, skipped>>
  BY <1>1, OpensTyped DEF Find, objects
<1>3. /\ k \in Semas \ {"mutex"} /\ MadeAt[k] = pos[c] /\ pos[c] + 1 \in 1 .. 5
      /\ \A l \in Semas : MadeAt[l] = pos[c] => l = k
  BY <1>1, MakeOrders
<1>4. CASE bound[k] = NULL
  <2>1. Fail(c) /\ UNCHANGED <<handle, pos>>
    BY <1>4 DEF Find
  <2> QED
    BY <1>1, <1>2, <2>1, FailKeeps
<1>5. CASE bound[k] # NULL
  <2>1. /\ handle' = [handle EXCEPT ![c][k] = bound[k]] /\ pos' = [pos EXCEPT ![c] = @ + 1]
        /\ UNCHANGED <<pc, leaks>>
    BY <1>5 DEF Find
  <2> HIDE DEF k
  <2>2. /\ handle'[c][k] = bound[k] /\ \A l \in Kinds : l # k => handle'[c][l] = handle[c][l]
        /\ \A q \in Procs : q # c => handle'[q] = handle[q] /\ pos'[q] = pos[q]
        /\ pos'[c] = pos[c] + 1
    BY <1>1, <1>3, <2>1 DEF TypeOK
  <2>3. Alone(c)
    BY <1>2, <2>1, <2>2 DEF Alone
  <2>4. HeldBy(c)' = HeldBy(c) /\ handle'[c]["mutex"] = handle[c]["mutex"]
    BY <1>1, <1>3, <2>1, <2>2 DEF HeldBy
  <2>5. Balanced(c)
    BY <1>2, <2>1, <2>4 DEF Balanced
  <2>6. \A l \in Semas : Has(c, l)' => l = k \/ Has(c, l)
    <3>1. \A l \in Semas : MadeAt[l] \in 0 .. 3
      BY DEF Semas, MadeAt
    <3>2. \A l \in Semas : pos[c] + 1 > MadeAt[l] => l = k \/ pos[c] > MadeAt[l]
      BY <1>1, <1>3, <3>1
    <3> QED
      BY <1>1, <2>1, <2>2, <3>2 DEF Has, Live
  <2>7. Seg(c)' = Seg(c) /\ Obj(c, "shm")' = Obj(c, "shm") /\ "shm" # k
    BY <1>1, <1>2, <1>3, <2>2 DEF Seg, Obj
  <2>8. /\ made <= made' /\ bound'["shm"] <= made' /\ handle'[c]["shm"] <= made'
        /\ \A l \in Semas : handle'[c][l] <= opens
        /\ handle'[c]["shm"] # NULL /\ \A l \in Semas : Has(c, l)' => handle'[c][l] # NULL
    <3>1. made \in Nat
      BY <1>1 DEF TypeOK
    <3>2. \A l \in Semas : handle'[c][l] <= opens
      BY <1>1, <1>3, <2>2 DEF Handles
    <3>3. \A l \in Semas : Has(c, l)' => handle'[c][l] # NULL
      BY <1>1, <1>3, <1>5, <2>2, <2>6 DEF Handles
    <3> QED
      BY <1>1, <1>2, <2>2, <2>7, <3>1, <3>2, <3>3 DEF Handles
  <2>9. handle'[c]["writer"] \in {NULL, bound["writer"], handle[c]["writer"]}
    BY <1>1, <2>2
  <2>10. Seg(c)'.ready \/ Seg(c)'.adopted
    BY <1>1, <2>7 DEF OwnFinds
  <2>11. ASSUME NEW l \in Semas \ {"mutex"}, Seg(c)'.state = 1, ~Seg(c)'.adopted, Has(c, l)'
         PROVE  Obj(c, l)' = Seg(c)'.ring
    <3>1. CASE l = k
      <4>1. Obj(c, "shm") \in SegIds
        BY <1>1, Objects
      <4>2. bound[k] = Seg(c).ring
        BY <1>1, <1>3, <2>7, <2>11, <4>1 DEF OpenRing, Seg
      <4> QED
        BY <2>2, <2>7, <3>1, <4>2 DEF Obj
    <3>2. CASE l # k
      <4>1. Has(c, l) /\ Obj(c, l)' = Obj(c, l)
        BY <1>1, <2>2, <2>6, <2>11, <3>2 DEF Obj
      <4> QED
        BY <1>1, <2>7, <2>11, <4>1 DEF OwnFinds
    <3> QED
      BY <3>1, <3>2
  <2>12. pc'[c] \in ClientPoints \ {"send_lock", "send_copy"} /\ pc'[c] = "names"
    BY <1>1, <2>1 DEF ClientPoints
  <2> QED
    BY <1>2, <2>3, <2>4, <2>5, <2>8, <2>9, <2>10, <2>11, <2>12, ClientKeeps
<1> QED
  BY <1>4, <1>5

(* An owner that opens or closes leaves the segments alone, but when it    *)
(* takes its own, and the names of the others.                             *)
LEMMA OwnerKeeps ==
  ASSUME IpcInv, MutexAccounted', NoSlotTwice', NEW o \in Owners,
         \A q \in Procs : q # o => Same(q), UNCHANGED <<segment, made, skipped>>, opens <= opens',
         bound'["shm"] <= made, \A k \in Semas : bound'[k] <= opens',
         handle'[o]["shm"] <= made, \A k \in Semas : handle'[o][k] <= opens',
         \A i \in Ids : i > opens' => leaks'[i] = 0 /\ \A k \in Semas : count'[k][i] = 0,
         pc'[o] \in OwnerPoints, pc'[o] = "unlink" => arg'[o].closing,
         arg'[o].closing => arg[o].closing /\ pc'[o] \in Closing,
         pc'[o] \in {"open_lock", "segment"} => pos'[o] = 1,
         \A k \in Semas : Has(o, k)' => Obj(o, k)' = Obj(o, "mutex")' /\ Obj(o, k)' # NULL,
         Past(o)' => /\ Past(o) /\ Obj(o, "mutex")' = Obj(o, "mutex") /\ Obj(o, "shm")' = Obj(o, "shm")
                     /\ pc'[o] = "names" => pc[o] = "names"
                     /\ ~Seg(o).adopted => bound'["shm"] = Obj(o, "shm"),
         \A q \in Owners \ {o} : Live(o)' /\ Live(q) => Obj(o, "mutex")' # Obj(q, "mutex"),
         \A s \in SegIds : Live(o)' /\ segment[s].ring = Obj(o, "mutex")' =>
                             Past(o)' /\ Obj(o, "shm")' = s,
         \A k \in Semas : Keeps(o, k)' => bound'[k] = Obj(o, "mutex")',
         \A q \in Owners \ {o}, k \in Semas : Keeps(q, k) => bound'[k] = bound[k],
         \A q \in Owners \ {o} : Past(q) /\ ~Seg(q).adopted => bound'["shm"] = bound["shm"],
         \A s \in SegIds, k \in Semas :
           segment[s].state = 1 /\ ~segment[s].adopted => bound'[k] = bound[k],
         \A q \in Owners \ {o} :
           /\ Live(q) => count'["writer"][Obj(q, "mutex")] = count["writer"][Obj(q, "mutex")]
           /\ Live(q) /\ bound'["writer"] = Obj(q, "mutex") => bound["writer"] = Obj(q, "mutex"),
         Unmade(o)' =>
           /\ count'["writer"][Obj(o, "mutex")'] = 0 /\ bound'["writer"] # Obj(o, "mutex")'
           /\ \A c \in Clients : Obj(c, "writer") # Obj(o, "mutex")'
  PROVE  IpcInv'
<1>1. /\ TypeOK /\ Handles /\ Roles /\ OwnNames /\ OwnRing /\ OpenRing /\ OwnFinds /\ NoSlotYet
      /\ NothingRead /\ o \in Procs /\ o \notin Clients /\ TypeOK'
      /\ Owners \subseteq Procs /\ Clients \subseteq Procs
      /\ Semas \subseteq Kinds /\ "shm" \in Kinds /\ "mutex" \in Semas /\ "writer" \in Semas
  BY DEF IpcInv, MutexAccounted, Procs, Semas, Kinds
<1>2. \A q \in Procs : q # o =>
        /\ Same(q) /\ Obj(q, "mutex")' = Obj(q, "mutex") /\ Obj(q, "shm")' = Obj(q, "shm")
        /\ \A k \in Semas : Obj(q, k)' = Obj(q, k)
        /\ Seg(q)' = Seg(q)
  BY <1>1 DEF Same, Obj, Seg
<1>3. Handles'
  <2>1. made \in Nat /\ opens \in Nat /\ opens' \in Nat /\ made' = made
        /\ \A q \in Procs, k \in Semas : handle[q][k] \in Nat
    <3>1. \A q \in Procs, k \in Semas : handle[q][k] \in Nat
      BY <1>1 DEF TypeOK
    <3> QED
      BY <1>1, <3>1 DEF TypeOK
  <2>2. ASSUME NEW q \in Procs
        PROVE  /\ handle'[q]["shm"] <= made' /\ \A k \in Semas : handle'[q][k] <= opens'
               /\ Past(q)' => handle'[q]["shm"] # NULL
               /\ \A k \in Semas : Has(q, k)' => handle'[q][k] # NULL
    <3>1. CASE q = o
      <4>1. Past(o)' => handle'[o]["shm"] # NULL
        BY <1>1 DEF Handles, Obj
      <4> QED
        BY <2>1, <3>1, <4>1 DEF Obj
    <3>2. CASE q # o
      <4>1. Same(q) /\ handle'[q] = handle[q] /\ handle[q]["shm"] <= made
            /\ \A k \in Semas : handle[q][k] <= opens
        BY <1>1, <1>2, <3>2 DEF Same, Handles
      <4>2. \A k \in Semas : handle'[q][k] <= opens'
        BY <2>1, <4>1
      <4> QED
        BY <1>1, <2>1, <4>1, <4>2 DEF Same, Handles
    <3> QED
      BY <3>1, <3>2
  <2>3. \A s \in SegIds : segment'[s].ring <= opens'
    <3> SUFFICES ASSUME NEW s \in SegIds PROVE segment'[s].ring <= opens'
      OBVIOUS
    <3>1. segment[s].ring <= opens
      BY <1>1 DEF Handles
    <3>2. segment[s].ring \in Nat
      <4>1. segment[s].ring \in Ids \cup {NULL}
        BY <1>1, SegmentFields
      <4> QED
        BY <4>1 DEF Ids, NULL
    <3>3. opens <= opens'
      OBVIOUS
    <3>4. segment[s].ring <= opens'
      BY <2>1, <3>1, <3>2, <3>3
    <3> QED
      BY <3>4
  <2>4. \A s \in SegIds : s > made' => segment'[s] = Zeroed
    BY <1>1, <2>1 DEF Handles
  <2>5. \A i \in Ids : i > opens' =>
          leaks'[i] = 0 /\ skipped'[i] = 0 /\ \A k \in Semas : count'[k][i] = 0
    <3>1. \A i \in Ids : i > opens' => i > opens
      BY <2>1 DEF Ids
    <3> QED
      BY <1>1, <3>1 DEF Handles
  <2> QED
    BY <2>1, <2>2, <2>3, <2>4, <2>5 DEF Handles
<1>4. Roles'
  <2>1. /\ \A q \in Owners : pc'[q] \in OwnerPoints
        /\ \A q \in Owners : /\ arg'[q].closing => pc'[q] \in Closing
                             /\ pc'[q] = "unlink" => arg'[q].closing
    BY <1>1, <1>2 DEF Roles, Same
  <2>2. \A c \in Clients : pc'[c] \in ClientPoints /\ ~arg'[c].closing
    BY <1>1, <1>2 DEF Roles, Same
  <2>3. \A q \in Owners, k \in Semas : Has(q, k)' => Obj(q, k)' = Obj(q, "mutex")'
    BY <1>1, <1>2 DEF Roles, Same
  <2>4. \A q \in Procs : pc'[q] \in {"open_lock", "segment"} => pos'[q] = 1
    BY <1>1, <1>2 DEF Roles, Same
  <2> QED
    BY <2>1, <2>2, <2>3, <2>4 DEF Roles
<1>5. OwnNames'
  <2>1. \A p, q \in Owners :
          p # q /\ Live(p)' /\ Live(q)' => Obj(p, "mutex")' # Obj(q, "mutex")'
    <3> SUFFICES ASSUME NEW p \in Owners, NEW q \in Owners, p # q, Live(p)', Live(q)'
                 PROVE  Obj(p, "mutex")' # Obj(q, "mutex")'
      OBVIOUS
    <3>1. CASE p = o
      BY <1>1, <1>2, <3>1 DEF Same
    <3>2. CASE q = o
      BY <1>1, <1>2, <3>2 DEF Same
    <3>3. CASE p # o /\ q # o
      BY <1>1, <1>2, <3>3 DEF OwnNames, Same
    <3> QED
      BY <3>1, <3>2, <3>3
  <2>2. ASSUME NEW q \in Owners, NEW k \in Semas, Keeps(q, k)'
        PROVE  bound'[k] = Obj(q, "mutex")'
    <3>1. CASE q = o
      BY <2>2, <3>1
    <3>2. CASE q # o
      <4>1. Keeps(q, k) /\ Obj(q, "mutex")' = Obj(q, "mutex")
        BY <1>1, <1>2, <2>2, <3>2 DEF Same
      <4> QED
        BY <1>1, <3>2, <4>1 DEF OwnNames
    <3> QED
      BY <3>1, <3>2
  <2> QED
    BY <2>1, <2>2 DEF OwnNames
<1>6. \A s \in SegIds : segment'[s] = segment[s]
  OBVIOUS
<1>7. ASSUME NEW q \in Owners, Past(q)'
      PROVE  /\ Past(q) /\ Live(q) /\ Obj(q, "shm")' = Obj(q, "shm") /\ Seg(q)' = Seg(q)
             /\ Obj(q, "mutex")' = Obj(q, "mutex")
             /\ pc'[q] = "names" => pc[q] = "names"
             /\ arg'[q].closing => arg[q].closing
             /\ ~Seg(q).adopted => bound'["shm"] = Obj(q, "shm")
  <2>1. CASE q = o
    BY <1>7, <2>1 DEF Past, Seg
  <2>2. CASE q # o
    <3>1. Past(q) /\ Same(q)
      BY <1>1, <1>2, <1>7, <2>2 DEF Same
    <3>2. ~Seg(q).adopted => bound'["shm"] = Obj(q, "shm")
      BY <1>1, <2>2, <3>1 DEF OwnRing
    <3> QED
      BY <1>1, <1>2, <2>2, <3>1, <3>2 DEF Same, Past
  <2> QED
    BY <2>1, <2>2
<1>8. OwnRing'
  <2>1. \A q \in Owners : Past(q)' => Seg(q)'.ring = Obj(q, "mutex")' \/ Seg(q)'.adopted
    BY <1>1, <1>7 DEF OwnRing
  <2>2. ASSUME NEW q \in Owners, NEW s \in SegIds, Live(q)', segment'[s].ring = Obj(q, "mutex")'
        PROVE  Past(q)' /\ Obj(q, "shm")' = s
    <3>1. CASE q = o
      BY <1>6, <2>2, <3>1
    <3>2. CASE q # o
      BY <1>1, <1>2, <1>6, <2>2, <3>2 DEF OwnRing, Same
    <3> QED
      BY <3>1, <3>2
  <2>3. \A q \in Owners : Past(q)' /\ ~Seg(q)'.adopted => bound'["shm"] = Obj(q, "shm")'
    BY <1>7
  <2> QED
    BY <2>1, <2>2, <2>3 DEF OwnRing
<1>9. OpenRing'
  <2>1. \A s \in SegIds : segment'[s].ready \/ segment'[s].state = 1 \/ segment'[s].adopted
                         => segment'[s].ring # NULL
    BY <1>1 DEF OpenRing
  <2>2. \A s \in SegIds, k \in Semas :
          segment'[s].state = 1 /\ ~segment'[s].adopted => bound'[k] = segment'[s].ring
    BY <1>1 DEF OpenRing
  <2>3. \A q \in Owners : Past(q)' /\ arg'[q].closing /\ ~Seg(q)'.adopted => Seg(q)'.state = 0
    BY <1>1, <1>7 DEF OpenRing
  <2>4. ASSUME NEW q \in Owners, pc'[q] = "names", ~Seg(q)'.adopted
        PROVE  /\ ~Seg(q)'.ready /\ Seg(q)'.state = 0 /\ Seg(q)'.used = 0
               /\ \A j \in Slots : ~Seg(q)'.reading[j]
    <3>1. Past(q)'
      BY <2>4 DEF Past, Live
    <3> QED
      BY <1>1, <1>7, <2>4, <3>1 DEF OpenRing
  <2> QED
    BY <2>1, <2>2, <2>3, <2>4 DEF OpenRing
<1>10. OwnFinds'
  <2> SUFFICES ASSUME NEW c \in Clients, Past(c)'
               PROVE  /\ Seg(c)'.ready \/ Seg(c)'.adopted
                      /\ Seg(c)'.state = 1 /\ ~Seg(c)'.adopted =>
                           \A k \in Semas \ {"mutex"} : Has(c, k)' => Obj(c, k)' = Seg(c)'.ring
    BY DEF OwnFinds
  <2>1. Same(c) /\ Past(c) /\ Seg(c)' = Seg(c) /\ \A k \in Semas : Obj(c, k)' = Obj(c, k)
    BY <1>1, <1>2 DEF Same
  <2> QED
    BY <1>1, <2>1 DEF OwnFinds, Same
<1>11. NoSlotYet'
  <2> SUFFICES ASSUME NEW q \in Owners, Unmade(q)'
               PROVE  /\ count'["writer"][Obj(q, "mutex")'] = 0 /\ bound'["writer"] # Obj(q, "mutex")'
                      /\ \A c \in Clients : Obj(c, "writer")' # Obj(q, "mutex")'
    BY DEF NoSlotYet
  <2>1. \A c \in Clients : Obj(c, "writer")' = Obj(c, "writer")
    BY <1>1, <1>2
  <2>2. CASE q = o
    BY <2>1, <2>2
  <2>3. CASE q # o
    <3>1. Unmade(q) /\ Live(q) /\ Obj(q, "mutex")' = Obj(q, "mutex")
      BY <1>1, <1>2, <2>3 DEF Unmade, Same
    <3> QED
      BY <1>1, <2>1, <2>3, <3>1 DEF NoSlotYet
  <2> QED
    BY <2>2, <2>3
<1>12. NothingRead'
  BY <1>1 DEF NothingRead
<1> QED
  BY <1>3, <1>4, <1>5, <1>8, <1>9, <1>10, <1>11, <1>12 DEF IpcInv

(* A new opening has a mutex of its own, which is free. *)
LEMMA OpenOwnerKeeps ==
  ASSUME IpcInv, NEW o \in Owners, OpenOwner(o) PROVE IpcInv'
<1> DEFINE n == opens + 1
<1>1. /\ TypeOK /\ Handles /\ Roles /\ OwnNames /\ OwnRing /\ OpenRing /\ NoSlotTwice
      /\ MutexAccounted /\ o \in Procs /\ o \notin Clients
      /\ pc[o] = "closed" /\ bound["mutex"] = NULL
      /\ Owners \subseteq Procs /\ Clients \subseteq Procs
      /\ Semas \subseteq Kinds /\ "shm" \in Kinds /\ "shm" \notin Semas
      /\ "mutex" \in Semas /\ "writer" \in Semas
  BY DEF IpcInv, MutexAccounted, Procs, OpenOwner, Semas, Kinds
<1>2. TypeOK'
  BY <1>1, OpensTyped
<1>3. n \in Ids /\ n \in Nat /\ opens \in Nat /\ opens' = n /\ opens <= n /\ n # NULL
  BY SMTT(30), <1>1 DEF OpenOwner, TypeOK, Ids, NULL
<1>4. /\ UNCHANGED <<made, segment, arg, leaks, skipped>>
      /\ bound' = [bound EXCEPT !["mutex"] = n]
      /\ count' = [count EXCEPT !["mutex"][n] = 1]
      /\ handle' = [handle EXCEPT ![o] = [Nothing EXCEPT !["mutex"] = n]]
      /\ pos' = [pos EXCEPT ![o] = 1] /\ Goto(o, "open_lock") /\ "open_lock" \in Points
  BY PointSets DEF OpenOwner, history
<1> HIDE DEF n
<1>5. /\ pc'[o] = "open_lock" /\ \A q \in Procs : q # o => pc'[q] = pc[q]
      /\ pos'[o] = 1 /\ \A q \in Procs : q # o => pos'[q] = pos[q]
      /\ \A q \in Procs : q # o => handle'[q] = handle[q]
  BY <1>1, <1>4, Goes DEF TypeOK
<1>6. handle'[o]["mutex"] = n /\ \A k \in Kinds : k # "mutex" => handle'[o][k] = NULL
  BY <1>1, <1>4 DEF TypeOK, Nothing
<1>7. /\ bound'["mutex"] = n /\ \A k \in Kinds : k # "mutex" => bound'[k] = bound[k]
      /\ count'["mutex"][n] = 1 /\ \A i \in Ids : i # n => count'["mutex"][i] = count["mutex"][i]
      /\ \A k \in Semas : k # "mutex" => count'[k] = count[k]
  BY <1>1, <1>3, <1>4 DEF TypeOK
<1>8. \A q \in Procs : q # o => Same(q)
  BY <1>4, <1>5, OthersSame
<1>9. /\ Live(o)' /\ ~Past(o)' /\ \A k \in Semas : Has(o, k)' => k = "mutex"
      /\ ~Live(o) /\ HeldBy(o) = 0 /\ HeldBy(o)' = 0
  BY <1>1, <1>5 DEF Live, Past, Has, HeldBy
<1>10. \A q \in Procs, k \in Semas : handle[q][k] \in Nat /\ handle[q][k] # n
  <2>1. \A q \in Procs, k \in Semas : handle[q][k] \in Nat /\ handle[q][k] <= opens
    BY <1>1 DEF TypeOK, Handles
  <2>2. \A j \in Nat : j <= opens => j # n
    BY <1>3 DEF n
  <2> QED
    BY <2>1, <2>2
<1>11. \A i \in Ids : i > n => leaks'[i] = 0 /\ \A k \in Semas : count'[k][i] = 0
  <2> SUFFICES ASSUME NEW i \in Ids, i > n
               PROVE  leaks'[i] = 0 /\ \A k \in Semas : count'[k][i] = 0
    OBVIOUS
  <2>1. i > opens /\ i # n
    BY <1>3 DEF Ids, n
  <2> QED
    BY <1>1, <1>4, <1>7, <2>1 DEF Handles
<1>12. leaks[n] = 0 /\ skipped[n] = 0 /\ \A k \in Semas : count[k][n] = 0
  <2>1. n > opens
    BY <1>3 DEF n
  <2> QED
    BY <1>1, <1>3, <2>1 DEF Handles
<1>13. MutexAccounted'
  <2> SUFFICES ASSUME NEW i \in 1 .. opens'
               PROVE  count'["mutex"][i] + Cardinality(Holders(i, 1)') + 2 * Cardinality(Holders(i, 2)')
                        + leaks'[i] = 1 + skipped'[i]
    BY <1>2 DEF MutexAccounted, Holders
  <2>1. i \in Ids /\ (i = n \/ i \in 1 .. opens)
    BY <1>3 DEF Ids, n
  <2>2. /\ Cardinality(Holders(i, 1)) \in Nat /\ Cardinality(Holders(i, 2)) \in Nat
        /\ Cardinality(Holders(i, 1)') \in Nat /\ Cardinality(Holders(i, 2)') \in Nat
        /\ Cardinality(Holders(i, 1)') + 2 * Cardinality(Holders(i, 2)') + Held(o, i)
             = Cardinality(Holders(i, 1)) + 2 * Cardinality(Holders(i, 2)) + Held(o, i)'
    BY <1>1, <1>5, HoldersMove
  <2>3. Held(o, i) = 0 /\ Held(o, i)' = 0
    BY <1>9 DEF Held
  <2>4. CASE i = n
    <3>1. Holders(n, 1) = {} /\ Holders(n, 2) = {}
      BY <1>1, <1>10 DEF Holders, Obj
    <3>2. Cardinality(Holders(n, 1)) = 0 /\ Cardinality(Holders(n, 2)) = 0
      BY <3>1, FS_EmptySet
    <3> DEFINE a == Cardinality(Holders(i, 1)')
               b == Cardinality(Holders(i, 2)')
    <3>3. a \in Nat /\ b \in Nat /\ a + 2 * b + 0 = 0 + 2 * 0 + 0
      BY <2>2, <2>3, <2>4, <3>2
    <3>4. count'["mutex"][i] = 1 /\ leaks'[i] = 0 /\ skipped'[i] = 0
      BY <1>4, <1>7, <1>12, <2>4
    <3> HIDE DEF a, b
    <3>5. count'["mutex"][i] + a + 2 * b + leaks'[i] = 1 + skipped'[i]
      BY <3>3, <3>4
    <3> QED
      BY <3>5 DEF a, b
  <2>5. CASE i # n
    <3>1. count["mutex"][i] + Cardinality(Holders(i, 1)) + 2 * Cardinality(Holders(i, 2)) + leaks[i]
            = 1 + skipped[i]
      BY <1>1, <2>1, <2>5 DEF MutexAccounted, Holders
    <3>2. /\ count["mutex"][i] \in Nat /\ leaks[i] \in Nat /\ skipped[i] \in Nat
          /\ count'["mutex"][i] = count["mutex"][i] /\ leaks'[i] = leaks[i] /\ skipped'[i] = skipped[i]
      BY <1>1, <1>4, <1>7, <2>1, <2>5 DEF TypeOK
    <3> QED
      BY <2>2, <2>3, <3>1, <3>2
  <2> QED
    BY <2>4, <2>5
<1>14. NoSlotTwice'
  <2>1. \A i : Reserves(o, i) = 0 /\ Reserves(o, i)' = 0
    BY <1>1 DEF Reserves
  <2>2. \A s \in SegIds, i \in Ids :
          segment[s].used \in Int /\ count["writer"][i] \in Nat /\ count'["writer"][i] = count["writer"][i]
    BY <1>1, <1>7, SegmentFields DEF TypeOK, Semas
  <2>3. \A s \in SegIds, i \in Ids :
           i = segment'[s].ring /\ ~segment'[s].adopted /\ skipped'[i] = 0 =>
             /\ i = segment[s].ring /\ ~segment[s].adopted /\ skipped[i] = 0
             /\ segment'[s].used >= segment[s].used
             /\ count'["writer"][i] + Reserves(o, i)' + segment'[s].used
                  <= count["writer"][i] + Reserves(o, i) + segment[s].used
    BY <1>4, <2>1, <2>2
  <2>4. \A q \in Procs : q # o => pc'[q] = pc[q] /\ handle'[q] = handle[q]
    BY <1>5
  <2> QED
    BY <1>1, <1>2, <2>3, <2>4, SlotsMove
<1>15. Obj(o, "mutex")' = n /\ "open_lock" \in OwnerPoints
  BY <1>6, PointSets DEF Obj, OwnerPoints
<1>16. ~arg[o].closing /\ arg' = arg
  BY <1>1, <1>4 DEF Roles, Closing
<1>17. \A s \in SegIds : segment[s].ring # n
  <2> SUFFICES ASSUME NEW s \in SegIds PROVE segment[s].ring # n
    OBVIOUS
  <2>1. segment[s].ring <= opens /\ segment[s].ring \in Ids \cup {NULL}
    BY <1>1, SegmentFields DEF Handles
  <2> QED
    BY <1>3, <2>1 DEF n, Ids, NULL
<1>18. \A q \in Owners, k \in Semas : Keeps(q, k) => k # "mutex"
  <2> SUFFICES ASSUME NEW q \in Owners, Keeps(q, "mutex") PROVE FALSE
    OBVIOUS
  <2>1. Obj(q, "mutex") = NULL /\ Has(q, "mutex")
    BY <1>1 DEF OwnNames, Keeps
  <2> QED
    BY <1>1, <2>1, Objects DEF Ids, NULL
<1>19. \A s \in SegIds : segment[s].state = 1 => segment[s].adopted
  <2> SUFFICES ASSUME NEW s \in SegIds, segment[s].state = 1, ~segment[s].adopted PROVE FALSE
    BY <1>1, SegmentFields
  <2>1. segment[s].ring = NULL
    BY <1>1 DEF OpenRing
  <2> QED
    BY <1>1, <2>1 DEF OpenRing
<1>20. /\ bound'["shm"] <= made /\ \A k \in Semas : bound'[k] <= opens'
       /\ handle'[o]["shm"] <= made /\ \A k \in Semas : handle'[o][k] <= opens'
  <2>1. /\ bound["shm"] <= made /\ made \in Nat
        /\ \A k \in Semas : bound[k] <= opens /\ bound[k] \in Nat
    BY <1>1 DEF Handles, TypeOK
  <2>2. \A k \in Semas : bound'[k] <= n
    BY <1>1, <1>3, <1>7, <2>1
  <2>3. \A k \in Semas : handle'[o][k] <= n
    BY <1>1, <1>3, <1>6 DEF NULL
  <2>4. bound'["shm"] = bound["shm"] /\ handle'[o]["shm"] = 0
    BY <1>1, <1>6, <1>7 DEF NULL
  <2> QED
    BY <1>3, <2>1, <2>2, <2>3, <2>4
<1>21. \A k \in Semas : Has(o, k)' => Obj(o, k)' = Obj(o, "mutex")' /\ Obj(o, k)' # NULL
  BY <1>3, <1>9, <1>15
<1>22. \A q \in Owners \ {o} : Live(o)' /\ Live(q) => Obj(o, "mutex")' # Obj(q, "mutex")
  BY <1>1, <1>10, <1>15 DEF Obj
<1>23. \A k \in Semas : Keeps(o, k)' => bound'[k] = Obj(o, "mutex")'
  BY <1>7, <1>9, <1>15 DEF Keeps
<1>24. \A q \in Owners \ {o}, k \in Semas : Keeps(q, k) => bound'[k] = bound[k]
  BY <1>1, <1>7, <1>18
<1>25. bound'["shm"] = bound["shm"] /\ bound'["writer"] = bound["writer"]
       /\ count'["writer"] = count["writer"]
  BY <1>1, <1>7 DEF Semas
<1>26. /\ count'["writer"][Obj(o, "mutex")'] = 0 /\ bound'["writer"] # Obj(o, "mutex")'
       /\ \A c \in Clients : Obj(c, "writer") # Obj(o, "mutex")'
  <2>1. bound["writer"] <= opens /\ bound["writer"] \in Nat
    BY <1>1 DEF Handles, TypeOK
  <2>2. bound["writer"] # n
    BY <1>3, <2>1 DEF n
  <2> QED
    BY <1>1, <1>10, <1>12, <1>15, <1>25, <2>2 DEF Obj
<1>27. \A s \in SegIds : Live(o)' /\ segment[s].ring = Obj(o, "mutex")' => Past(o)' /\ Obj(o, "shm")' = s
  BY <1>15, <1>17
<1>28. \A s \in SegIds, k \in Semas :
         segment[s].state = 1 /\ ~segment[s].adopted => bound'[k] = bound[k]
  BY <1>19
<1>29. /\ pc'[o] \in OwnerPoints /\ (pc'[o] = "unlink" => arg'[o].closing)
       /\ (arg'[o].closing => arg[o].closing /\ pc'[o] \in Closing)
       /\ (pc'[o] \in {"open_lock", "segment"} => pos'[o] = 1)
  BY <1>5, <1>15, <1>16
<1> QED
  BY <1>3, <1>4, <1>8, <1>9, <1>11, <1>13, <1>14, <1>20, <1>21, <1>22, <1>23, <1>24, <1>25, <1>26,
     <1>27, <1>28, <1>29, OwnerKeeps

LEMMA UnlinkOrders ==
  \A n \in 1 .. 5 :
    /\ n < 5 => /\ UnlinkOrder[n] \in Semas /\ UnlinkedAt[UnlinkOrder[n]] = n
                /\ \A k \in Semas : UnlinkedAt[k] = n => k = UnlinkOrder[n]
    /\ n >= 5 => UnlinkOrder[n] = "shm"
<1> SUFFICES ASSUME NEW n \in 1 .. 5
             PROVE  /\ n < 5 => /\ UnlinkOrder[n] \in Semas /\ UnlinkedAt[UnlinkOrder[n]] = n
                                /\ \A k \in Semas : UnlinkedAt[k] = n => k = UnlinkOrder[n]
                    /\ n >= 5 => UnlinkOrder[n] = "shm"
  OBVIOUS
<1>1. n = 1 \/ n = 2 \/ n = 3 \/ n = 4 \/ n = 5
  OBVIOUS
<1>2. UnlinkedAt["mutex"] = 3 /\ UnlinkedAt["reader"] = 2 /\ UnlinkedAt["writer"] = 1 /\ UnlinkedAt["ack"] = 4
  BY DEF UnlinkedAt
<1> QED
  BY <1>1, <1>2, Orders DEF Semas

(* The names that an owner removes are its own, and nobody finds a ring    *)
(* by them: its own is closed.                                             *)
LEMMA UnlinkKeeps ==
  ASSUME IpcInv, NEW o \in Owners, Unlink(o) PROVE IpcInv'
<1> DEFINE k == UnlinkOrder[pos[o]]
           m == Obj(o, "mutex")
<1>1. /\ TypeOK /\ Handles /\ Roles /\ OwnNames /\ OwnRing /\ OpenRing /\ NoSlotTwice
      /\ o \in Procs /\ o \notin Clients /\ pc[o] = "unlink" /\ Live(o) /\ Past(o)
      /\ \A j \in Semas : Has(o, j)
      /\ Owners \subseteq Procs /\ Clients \subseteq Procs
      /\ Semas \subseteq Kinds /\ "shm" \in Kinds /\ "shm" \notin Semas
      /\ "mutex" \in Semas /\ "writer" \in Semas /\ pos[o] \in 1 .. 5
  BY PastPoints DEF IpcInv, MutexAccounted, Procs, Unlink, Semas, Kinds, TypeOK, Live
<1>2. TypeOK'
  BY <1>1, EndsTyped
<1>3. /\ UNCHANGED <<opens, made, count, segment, leaks, skipped>>
      /\ bound' = IF k = "shm" /\ bound["shm"] # Obj(o, "shm") THEN bound ELSE [bound EXCEPT ![k] = NULL]
      /\ \/ pos[o] < 5 /\ pos' = [pos EXCEPT ![o] = @ + 1] /\ UNCHANGED <<pc, arg, handle>>
         \/ /\ pos[o] >= 5 /\ Goto(o, "closed") /\ "closed" \in Points
            /\ handle' = [handle EXCEPT ![o] = Nothing]
            /\ arg' = [arg EXCEPT ![o].closing = FALSE] /\ UNCHANGED pos
  BY <1>1, PointSets, Orders DEF Unlink, history
<1>4. /\ pos[o] < 5 => /\ k \in Semas /\ UnlinkedAt[k] = pos[o]
                       /\ \A j \in Semas : UnlinkedAt[j] = pos[o] => j = k
      /\ pos[o] >= 5 => k = "shm"
  BY <1>1, UnlinkOrders
<1> HIDE DEF k
<1>5. /\ \A q \in Procs : q # o => /\ pc'[q] = pc[q] /\ pos'[q] = pos[q]
                                   /\ arg'[q] = arg[q] /\ handle'[q] = handle[q]
      /\ pos[o] < 5 => pc'[o] = "unlink" /\ pos'[o] = pos[o] + 1
      /\ pos[o] >= 5 => pc'[o] = "closed" /\ handle'[o] = Nothing /\ ~arg'[o].closing
  BY <1>1, <1>3, Goes DEF TypeOK
<1>6. /\ \A j \in Kinds : bound'[j] = bound[j] \/ (j = k /\ bound'[j] = NULL)
      /\ bound'["shm"] # bound["shm"] => bound["shm"] = Obj(o, "shm")
  BY <1>1, <1>3, <1>4 DEF TypeOK
<1>7. \A q \in Procs : q # o => Same(q)
  BY <1>5, OthersSame
<1>8. Alone(o)
  BY <1>3, <1>5 DEF Alone
<1>9. HeldBy(o) = 0 /\ HeldBy(o)' = 0
  BY <1>1, <1>3, <1>5 DEF HeldBy
<1>10. MutexAccounted'
  <2>1. Balanced(o)
    BY <1>3, <1>9 DEF Balanced
  <2> QED
    BY <1>1, <1>2, <1>3, <1>8, <1>9, <2>1, Accounted
<1>11. NoSlotTwice'
  <2>1. \A i : Reserves(o, i) = 0 /\ Reserves(o, i)' = 0
    BY <1>1 DEF Reserves
  <2>2. \A s \in SegIds, i \in Ids :
          segment[s].used \in Int /\ count["writer"][i] \in Nat /\ count'["writer"][i] = count["writer"][i]
    BY <1>1, <1>3, SegmentFields DEF TypeOK
  <2>3. \A s \in SegIds, i \in Ids :
           i = segment'[s].ring /\ ~segment'[s].adopted /\ skipped'[i] = 0 =>
             /\ i = segment[s].ring /\ ~segment[s].adopted /\ skipped[i] = 0
             /\ segment'[s].used >= segment[s].used
             /\ count'["writer"][i] + Reserves(o, i)' + segment'[s].used
                  <= count["writer"][i] + Reserves(o, i) + segment[s].used
    BY <1>3, <2>1, <2>2
  <2>4. \A q \in Procs : q # o => pc'[q] = pc[q] /\ handle'[q] = handle[q]
    BY <1>5
  <2> QED
    BY <1>1, <1>2, <2>3, <2>4, SlotsMove
<1>12. pos[o] < 5 => bound[k] = m
  BY <1>1, <1>4 DEF OwnNames, Keeps
<1>13. \A q \in Owners \ {o}, j \in Semas : Keeps(q, j) => bound'[j] = bound[j]
  <2> SUFFICES ASSUME NEW q \in Owners \ {o}, NEW j \in Semas, Keeps(q, j) PROVE j # k
    BY <1>1, <1>6
  <2>1. bound[j] = Obj(q, "mutex") /\ Live(q)
    BY <1>1 DEF OwnNames, Keeps, Has
  <2>2. Obj(q, "mutex") # m
    BY <1>1, <2>1 DEF OwnNames
  <2>3. pos[o] >= 5 => k = "shm"
    BY <1>4
  <2>4. pos[o] < 5 \/ pos[o] >= 5
    BY <1>1
  <2> QED
    BY <1>1, <1>12, <2>1, <2>2, <2>3, <2>4
<1>14. \A j \in Semas : Keeps(o, j)' => bound'[j] = Obj(o, "mutex")'
  <2> SUFFICES ASSUME NEW j \in Semas, Keeps(o, j)' PROVE bound'[j] = Obj(o, "mutex")'
    OBVIOUS
  <2>1. pos[o] < 5
    BY <1>1, <1>5 DEF Keeps, Has, Live
  <2>2. pos[o] + 1 <= UnlinkedAt[j] /\ UnlinkedAt[j] \in Nat
    BY <1>5, <2>1 DEF Keeps, UnlinkedAt, Semas
  <2>3. pos[o] <= UnlinkedAt[j] /\ UnlinkedAt[j] # pos[o]
    BY <1>1, <2>2
  <2>4. Keeps(o, j) /\ j # k
    BY <1>1, <1>4, <2>1, <2>3 DEF Keeps
  <2> QED
    BY <1>1, <1>3, <1>6, <2>1, <2>4 DEF OwnNames, Obj
<1>15. \A s \in SegIds, j \in Semas :
         segment[s].state = 1 /\ ~segment[s].adopted => bound'[j] = bound[j]
  <2> SUFFICES ASSUME NEW s \in SegIds, NEW j \in Semas, segment[s].state = 1, ~segment[s].adopted
               PROVE  bound'[j] = bound[j]
    OBVIOUS
  <2>1. CASE pos[o] < 5
    <3>1. segment[s].ring = m
      BY <1>1, <1>4, <1>12, <2>1 DEF OpenRing
    <3>2. Obj(o, "shm") = s
      BY <1>1, <3>1 DEF OwnRing
    <3> QED
      BY <1>1, <3>2 DEF OpenRing, Roles, Seg
  <2>2. CASE pos[o] >= 5
    BY <1>1, <1>4, <1>6, <2>2
  <2> QED
    BY <1>1, <2>1, <2>2
<1>16. \A q \in Owners \ {o} : Past(q) /\ ~Seg(q).adopted => bound'["shm"] = bound["shm"]
  <2> SUFFICES ASSUME NEW q \in Owners \ {o}, Past(q), ~Seg(q).adopted PROVE bound["shm"] # Obj(o, "shm")
    BY <1>6
  <2>1. Seg(q).ring = Obj(q, "mutex") /\ bound["shm"] = Obj(q, "shm") /\ Live(q)
    BY <1>1 DEF OwnRing, Past
  <2>2. Obj(q, "mutex") # m
    BY <1>1, <2>1 DEF OwnNames
  <2>3. Seg(o).ring = m \/ Seg(o).adopted
    BY <1>1 DEF OwnRing
  <2> QED
    BY <2>1, <2>2, <2>3 DEF Seg
<1>17. Past(o)' => /\ Past(o) /\ Obj(o, "mutex")' = Obj(o, "mutex") /\ Obj(o, "shm")' = Obj(o, "shm")
                   /\ pc'[o] = "names" => pc[o] = "names"
                   /\ ~Seg(o).adopted => bound'["shm"] = Obj(o, "shm")
  <2> SUFFICES ASSUME Past(o)'
               PROVE  /\ handle' = handle /\ pc' = pc
                      /\ ~Seg(o).adopted => bound'["shm"] = Obj(o, "shm")
    BY <1>1 DEF Obj
  <2>1. pos[o] < 5
    BY <1>1, <1>5 DEF Past, Live
  <2>2. k # "shm"
    BY <1>1, <1>4, <2>1
  <2> QED
    BY <1>1, <1>3, <1>6, <2>1, <2>2 DEF OwnRing
<1>18. \A j \in Semas : Has(o, j)' => Obj(o, j)' = Obj(o, "mutex")' /\ Obj(o, j)' # NULL
  <2> SUFFICES ASSUME NEW j \in Semas, Has(o, j)' PROVE Obj(o, j)' = Obj(o, "mutex")' /\ Obj(o, j)' # NULL
    OBVIOUS
  <2>1. handle' = handle
    BY <1>1, <1>3, <1>5 DEF Has, Live
  <2> QED
    BY <1>1, <2>1 DEF Roles, Obj, Handles
<1>19. \A q \in Owners \ {o} : Live(o)' /\ Live(q) => Obj(o, "mutex")' # Obj(q, "mutex")
  <2> SUFFICES ASSUME NEW q \in Owners \ {o}, Live(o)', Live(q) PROVE Obj(o, "mutex")' # Obj(q, "mutex")
    OBVIOUS
  <2>1. handle' = handle
    BY <1>1, <1>3, <1>5 DEF Live
  <2> QED
    BY <1>1, <2>1 DEF OwnNames, Obj
<1>20. \A s \in SegIds : Live(o)' /\ segment[s].ring = Obj(o, "mutex")' => Past(o)' /\ Obj(o, "shm")' = s
  <2> SUFFICES ASSUME NEW s \in SegIds, Live(o)', segment[s].ring = Obj(o, "mutex")'
               PROVE  Past(o)' /\ Obj(o, "shm")' = s
    OBVIOUS
  <2>1. handle' = handle /\ pc'[o] = "unlink"
    BY <1>1, <1>3, <1>5 DEF Live
  <2> QED
    BY <1>1, <2>1 DEF OwnRing, Obj, Past
<1>21. /\ bound'["shm"] <= made /\ \A j \in Semas : bound'[j] <= opens'
       /\ handle'[o]["shm"] <= made /\ \A j \in Semas : handle'[o][j] <= opens'
  <2>1. made \in Nat /\ opens \in Nat /\ opens' = opens
    BY <1>1, <1>3 DEF TypeOK
  <2>2. \A j \in Kinds : Nothing[j] = 0
    BY DEF Nothing, NULL
  <2>3. bound["shm"] <= made /\ \A j \in Semas : bound[j] <= opens
    BY <1>1 DEF Handles
  <2>4. bound'["shm"] <= made /\ \A j \in Semas : bound'[j] <= opens
    BY <1>1, <1>6, <2>1, <2>3 DEF NULL
  <2>5. CASE handle'[o] = handle[o]
    BY <1>1, <2>1, <2>4, <2>5 DEF Handles
  <2>6. CASE handle'[o] = Nothing
    BY <1>1, <2>1, <2>2, <2>4, <2>6
  <2> QED
    BY <1>1, <1>3, <1>5, <2>5, <2>6
<1>22. \A i \in Ids : i > opens' => leaks'[i] = 0 /\ \A j \in Semas : count'[j][i] = 0
  BY <1>1, <1>3 DEF Handles
<1>23. /\ pc'[o] \in OwnerPoints /\ (pc'[o] = "unlink" => arg'[o].closing)
       /\ (arg'[o].closing => arg[o].closing /\ pc'[o] \in Closing)
       /\ (pc'[o] \in {"open_lock", "segment"} => pos'[o] = 1)
  <2>1. arg[o].closing /\ pc'[o] \in {"closed", "unlink"} /\ {"closed", "unlink"} \subseteq OwnerPoints
    BY <1>1, <1>5, PointSets DEF Roles, OwnerPoints
  <2> QED
    BY <1>1, <1>3, <1>5, <2>1 DEF Closing
<1>24. \A q \in Owners \ {o} :
         /\ Live(q) => count'["writer"][Obj(q, "mutex")] = count["writer"][Obj(q, "mutex")]
         /\ Live(q) /\ bound'["writer"] = Obj(q, "mutex") => bound["writer"] = Obj(q, "mutex")
  <2> SUFFICES ASSUME NEW q \in Owners \ {o}, Live(q), bound'["writer"] = Obj(q, "mutex")
               PROVE  bound["writer"] = Obj(q, "mutex")
    BY <1>3
  <2>1. Obj(q, "mutex") # NULL
    BY <1>1, Objects DEF Ids, NULL
  <2> QED
    BY <1>1, <1>6, <2>1
<1>25. ~Unmade(o)'
  BY <1>1, <1>3, <1>5 DEF Unmade, Live, Has, Past
<1>26. opens <= opens'
  BY <1>1, <1>3 DEF TypeOK
<1> QED
  BY <1>3, <1>7, <1>10, <1>11, <1>13, <1>14, <1>15, <1>16, <1>17, <1>18, <1>19, <1>20, <1>21, <1>22,
     <1>23, <1>24, <1>25, <1>26, OwnerKeeps

(* A semaphore is made under a name that nobody keeps and nobody has a     *)
(* slot of.                                                                *)
LEMMA MakeKeeps ==
  ASSUME IpcInv, NEW o \in Owners, Make(o) PROVE IpcInv'
<1> DEFINE k == MakeOrder[pos[o]]
           m == Obj(o, "mutex")
           gone == k = "ack" /\ Length > 1
<1>1. /\ TypeOK /\ Handles /\ Roles /\ OwnNames /\ OwnRing /\ OpenRing /\ NoSlotYet /\ NoSlotTwice
      /\ MutexAccounted /\ o \in Procs /\ o \notin Clients
      /\ pc[o] = "names" /\ pos[o] <= Len(MakeOrder) /\ Live(o) /\ Past(o)
      /\ Owners \subseteq Procs /\ Clients \subseteq Procs
      /\ Semas \subseteq Kinds /\ "shm" \in Kinds /\ "shm" \notin Semas
      /\ "mutex" \in Semas /\ "writer" \in Semas /\ pos[o] \in 1 .. 5
  BY PastPoints DEF IpcInv, MutexAccounted, Procs, Make, Semas, Kinds, TypeOK, Live
<1>2. TypeOK' /\ UNCHANGED <<opens, made, segment, arg, skipped>>
  BY <1>1, OpensTyped DEF Make
<1>3. /\ k \in Semas \ {"mutex"} /\ MadeAt[k] = pos[o] /\ pos[o] + 1 \in 1 .. 5
      /\ \A j \in Semas : MadeAt[j] = pos[o] => j = k
  BY <1>1, MakeOrders
<1>4. m \in Ids /\ m # NULL
  BY <1>1, Objects DEF Ids, NULL
<1>5. CASE bound[k] # NULL
  <2>1. Fail(o) /\ UNCHANGED <<bound, count, handle, pos>>
    BY <1>5 DEF Make, Taken
  <2> QED
    BY <1>1, <1>2, <2>1, FailKeeps
<1>6. CASE bound[k] = NULL
  <2>1. /\ bound' = [bound EXCEPT ![k] = m]
        /\ count' = IF k = "writer" THEN [count EXCEPT !["writer"][m] = Length] ELSE count
        /\ handle' = [handle EXCEPT ![o][k] = m]
        /\ gone => Fail(o) /\ UNCHANGED pos
        /\ ~gone => pos' = [pos EXCEPT ![o] = @ + 1] /\ UNCHANGED <<pc, leaks>>
    BY <1>6 DEF Make, Taken
  <2> HIDE DEF k, m, gone
  <2>2. /\ bound'[k] = m /\ \A j \in Kinds : j # k => bound'[j] = bound[j]
        /\ handle'[o][k] = m /\ \A j \in Kinds : j # k => handle'[o][j] = handle[o][j]
        /\ \A q \in Procs : q # o => handle'[q] = handle[q]
    BY <1>1, <1>3, <1>4, <2>1 DEF TypeOK
  <2>3. \A q \in Procs : q # o => pc'[q] = pc[q] /\ pos'[q] = pos[q]
    <3>1. gone => Goto(o, "closed") /\ "closed" \in Points
      BY <2>1, PointSets DEF Fail
    <3>2. pc \in [Procs -> Points] /\ pos \in [Procs -> 1 .. 5]
      BY <1>1 DEF TypeOK
    <3>3. CASE gone
      BY <1>1, <2>1, <3>1, <3>3, Goes
    <3>4. CASE ~gone
      BY <1>1, <2>1, <3>2, <3>4
    <3> QED
      BY <3>3, <3>4
  <2>4. /\ gone => pc'[o] = "closed" /\ leaks'[m] = leaks[m] + 1
                   /\ \A i \in Ids : i # m => leaks'[i] = leaks[i]
        /\ ~gone => pc'[o] = "names" /\ pos'[o] = pos[o] + 1 /\ leaks' = leaks
    <3>1. gone => Goto(o, "closed") /\ "closed" \in Points
      BY <2>1, PointSets DEF Fail
    <3>2. CASE gone
      BY <1>1, <1>4, <2>1, <3>1, <3>2, Goes, FailTyped DEF m
    <3>3. CASE ~gone
      BY <1>1, <2>1, <3>3 DEF TypeOK
    <3> QED
      BY <3>2, <3>3
  <2>5. /\ count'["mutex"] = count["mutex"]
        /\ \A i \in Ids : count'["writer"][i] = IF k = "writer" /\ i = m THEN Length ELSE count["writer"][i]
        /\ \A j \in Semas, i \in Ids : i # m => count'[j][i] = count[j][i]
    <3>1. CASE k = "writer"
      BY <1>1, <1>4, <2>1, <3>1 DEF TypeOK
    <3>2. CASE k # "writer"
      BY <2>1, <3>2
    <3> QED
      BY <3>1, <3>2
  <2>6. \A q \in Procs : q # o => Same(q)
    BY <1>2, <2>2, <2>3, OthersSame
  <2>7. /\ Obj(o, "mutex")' = m /\ Obj(o, "mutex") = m /\ Obj(o, "shm")' = Obj(o, "shm")
        /\ bound'["shm"] = bound["shm"] /\ bound'["mutex"] = bound["mutex"]
    BY <1>1, <1>3, <2>2 DEF Obj, m
  <2>8. MutexAccounted'
    <3>1. /\ HeldBy(o) = 1
          /\ gone => HeldBy(o)' = 0
          /\ ~gone => HeldBy(o)' = 1
      BY <1>1, <2>4 DEF HeldBy
    <3>2. ASSUME NEW i \in 1 .. opens
          PROVE  count'["mutex"][i] + Held(o, i)' + leaks'[i] + skipped[i]
                   = count["mutex"][i] + Held(o, i) + leaks[i] + skipped'[i]
      <4>1. i \in Ids
        BY <1>1 DEF TypeOK, Ids
      <4>2. count["mutex"][i] \in Nat /\ leaks[i] \in Nat /\ skipped[i] \in Nat /\ skipped'[i] = skipped[i]
        BY <1>1, <1>2, <4>1 DEF TypeOK
      <4>3. CASE i = m
        <5>1. Held(o, i) = HeldBy(o) /\ Held(o, i)' = HeldBy(o)'
          BY <2>7, <4>3 DEF Held
        <5> QED
          BY <2>4, <2>5, <3>1, <4>2, <4>3, <5>1
      <4>4. CASE i # m
        <5>1. Held(o, i) = 0 /\ Held(o, i)' = 0
          BY <2>7, <4>4 DEF Held
        <5>2. leaks'[i] = leaks[i]
          BY <2>4, <4>1, <4>4
        <5> QED
          BY <2>5, <4>2, <5>1, <5>2
      <4> QED
        BY <4>3, <4>4
    <3>3. \A q \in Procs : q # o => pc'[q] = pc[q] /\ handle'[q] = handle[q]
      BY <2>2, <2>3
    <3> QED
      BY <1>1, <1>2, <3>2, <3>3, AccountMoves
  <2>9. k = "writer" => Unmade(o)
    <3>1. ~(pos[o] > MadeAt[k])
      BY <1>1, <1>3
    <3> QED
      BY <1>1, <3>1 DEF Unmade, Has
  <2>10. NoSlotTwice'
    <3> SUFFICES ASSUME NEW s \in SegIds, NEW i, i = segment[s].ring, i # NULL,
                        ~segment[s].adopted, skipped[i] = 0
                 PROVE  /\ segment[s].used >= 0
                        /\ count'["writer"][i] + Cardinality(Reserved(i)') + segment[s].used <= Length
      BY <1>2 DEF NoSlotTwice, Reserved, Obj
    <3>1. /\ segment[s].used >= 0 /\ i \in Ids
          /\ count["writer"][i] + Cardinality(Reserved(i)) + segment[s].used <= Length
      BY <1>1, SegmentFields, SlotsAdd
    <3>2. Reserved(i)' = Reserved(i)
      BY <1>1, <2>2, <2>3 DEF Reserved, Obj
    <3>3. CASE k = "writer" /\ i = m
      <4>1. Obj(o, "shm") = s
        BY <1>1, <2>7, <3>3 DEF OwnRing
      <4>2. segment[s].used = 0
        BY <1>1, <4>1 DEF OpenRing, Seg
      <4>3. Reserved(i) = {}
        BY <1>1, <2>7, <2>9, <3>3 DEF Reserved, NoSlotYet
      <4>4. Cardinality(Reserved(i)') = 0
        BY <3>2, <4>3, FS_EmptySet
      <4>5. count'["writer"][i] = Length
        BY <2>5, <3>1, <3>3
      <4> QED
        BY <4>2, <4>4, <4>5
    <3>4. CASE ~(k = "writer" /\ i = m)
      <4>1. count'["writer"][i] = count["writer"][i]
        BY <2>5, <3>1, <3>4
      <4> QED
        BY <3>1, <3>2, <4>1
    <3> QED
      BY <3>3, <3>4
  <2>11. \A j \in Semas : Has(o, j)' => j = k \/ Has(o, j)
    <3>1. \A j \in Semas : MadeAt[j] \in 0 .. 3
      BY DEF Semas, MadeAt
    <3>2. \A j \in Semas : pos[o] + 1 > MadeAt[j] => j = k \/ pos[o] > MadeAt[j]
      BY <1>1, <1>3, <3>1
    <3> SUFFICES ASSUME NEW j \in Semas, Has(o, j)' PROVE j = k \/ Has(o, j)
      OBVIOUS
    <3>3. ~gone
      BY <2>4 DEF Has, Live
    <3>4. pos[o] + 1 > MadeAt[j]
      BY <2>4, <3>3 DEF Has
    <3> QED
      BY <1>1, <3>2, <3>4 DEF Has
  <2>12. \A j \in Semas : Has(o, j)' => Obj(o, j)' = Obj(o, "mutex")' /\ Obj(o, j)' # NULL
    <3> SUFFICES ASSUME NEW j \in Semas, Has(o, j)' PROVE Obj(o, j)' = m
      BY <1>4, <2>7 DEF m
    <3>1. CASE j = k
      BY <2>2, <3>1 DEF Obj
    <3>2. CASE j # k
      BY <1>1, <2>2, <2>7, <2>11, <3>2 DEF Roles, Obj
    <3> QED
      BY <3>1, <3>2
  <2>13. \A j \in Semas : Keeps(o, j)' => bound'[j] = Obj(o, "mutex")'
    <3> SUFFICES ASSUME NEW j \in Semas, Keeps(o, j)' PROVE bound'[j] = m
      BY <2>7
    <3>1. CASE j = k
      BY <2>2, <3>1
    <3>2. CASE j # k
      <4>1. Keeps(o, j)
        BY <1>1, <2>11, <3>2 DEF Keeps
      <4> QED
        BY <1>1, <2>2, <2>7, <3>2, <4>1 DEF OwnNames
    <3> QED
      BY <3>1, <3>2
  <2>14. \A q \in Owners \ {o}, j \in Semas : Keeps(q, j) => bound'[j] = bound[j]
    <3> SUFFICES ASSUME NEW q \in Owners \ {o}, NEW j \in Semas, Keeps(q, j) PROVE j # k
      BY <1>1, <2>2
    <3>1. bound[j] = Obj(q, "mutex") /\ Live(q)
      BY <1>1 DEF OwnNames, Keeps, Has
    <3>2. Obj(q, "mutex") # NULL
      BY <1>1, <3>1, Objects DEF Ids, NULL
    <3> QED
      BY <1>6, <3>1, <3>2
  <2>15. \A s \in SegIds, j \in Semas :
           segment[s].state = 1 /\ ~segment[s].adopted => bound'[j] = bound[j]
    <3> SUFFICES ASSUME NEW s \in SegIds, NEW j \in Semas, segment[s].state = 1, ~segment[s].adopted
                 PROVE  j # k
      BY <1>1, <2>2
    <3> QED
      BY <1>1, <1>6 DEF OpenRing
  <2>16. \A q \in Owners \ {o} : Live(q) => Obj(q, "mutex") # m /\ Obj(q, "mutex") \in Ids
    BY <1>1, <2>7, Objects DEF OwnNames
  <2>17. \A q \in Owners \ {o} : Live(o)' /\ Live(q) => Obj(o, "mutex")' # Obj(q, "mutex")
    BY <2>7, <2>16
  <2>18. \A s \in SegIds : Live(o)' /\ segment[s].ring = Obj(o, "mutex")' => Past(o)' /\ Obj(o, "shm")' = s
    <3>1. Live(o)' => Past(o)'
      BY <2>4 DEF Live, Past
    <3> QED
      BY <1>1, <2>7, <3>1 DEF OwnRing
  <2>19. Past(o)' => /\ Past(o) /\ Obj(o, "mutex")' = Obj(o, "mutex") /\ Obj(o, "shm")' = Obj(o, "shm")
                     /\ pc'[o] = "names" => pc[o] = "names"
                     /\ ~Seg(o).adopted => bound'["shm"] = Obj(o, "shm")
    BY <1>1, <2>7 DEF OwnRing
  <2>20. \A q \in Owners \ {o} : Past(q) /\ ~Seg(q).adopted => bound'["shm"] = bound["shm"]
    BY <2>7
  <2>21. \A q \in Owners \ {o} :
           /\ Live(q) => count'["writer"][Obj(q, "mutex")] = count["writer"][Obj(q, "mutex")]
           /\ Live(q) /\ bound'["writer"] = Obj(q, "mutex") => bound["writer"] = Obj(q, "mutex")
    BY <1>1, <2>2, <2>5, <2>16
  <2>22. Unmade(o)' =>
           /\ count'["writer"][Obj(o, "mutex")'] = 0 /\ bound'["writer"] # Obj(o, "mutex")'
           /\ \A c \in Clients : Obj(c, "writer") # Obj(o, "mutex")'
    <3> SUFFICES ASSUME Unmade(o)'
                 PROVE  /\ count'["writer"][m] = 0 /\ bound'["writer"] # m
                        /\ \A c \in Clients : Obj(c, "writer") # m
      BY <2>7
    <3>1. ~gone /\ ~Has(o, "writer")'
      BY <2>4 DEF Unmade, Live
    <3>2. ~(pos[o] + 1 > MadeAt["writer"])
      BY <2>4, <3>1 DEF Has, Live, Past
    <3>3. k # "writer" /\ ~(pos[o] > MadeAt["writer"])
      BY <1>1, <1>3, <3>2 DEF MadeAt
    <3>4. Unmade(o)
      BY <1>1, <3>3 DEF Unmade, Has
    <3> QED
      BY <1>1, <1>4, <2>2, <2>5, <2>7, <3>3, <3>4 DEF NoSlotYet, m
  <2>23. /\ bound'["shm"] <= made /\ \A j \in Semas : bound'[j] <= opens'
         /\ handle'[o]["shm"] <= made /\ \A j \in Semas : handle'[o][j] <= opens'
         /\ opens <= opens'
    <3>1. m <= opens /\ opens' = opens /\ opens \in Nat
      BY <1>1, <1>2 DEF Handles, m, Obj, TypeOK
    <3>2. bound["shm"] <= made /\ \A j \in Semas : bound[j] <= opens /\ handle[o][j] <= opens
      BY <1>1 DEF Handles
    <3>3. handle'[o]["shm"] <= made
      BY <1>1, <2>7 DEF Handles, Obj
    <3>4. \A j \in Semas : bound'[j] <= opens
      BY <1>1, <2>2, <3>1, <3>2
    <3>5. \A j \in Semas : handle'[o][j] <= opens
      BY <1>1, <2>2, <3>1, <3>2
    <3> QED
      BY <2>7, <3>1, <3>2, <3>3, <3>4, <3>5
  <2>24. \A i \in Ids : i > opens' => leaks'[i] = 0 /\ \A j \in Semas : count'[j][i] = 0
    <3> SUFFICES ASSUME NEW i \in Ids, i > opens' PROVE leaks'[i] = 0 /\ \A j \in Semas : count'[j][i] = 0
      OBVIOUS
    <3>1. m <= opens /\ opens' = opens /\ opens \in Nat
      BY <1>1, <1>2 DEF Handles, m, Obj, TypeOK
    <3>2. i > opens /\ i # m
      BY <1>4, <3>1 DEF Ids
    <3>3. leaks'[i] = leaks[i]
      BY <2>4, <3>2
    <3> QED
      BY <1>1, <2>5, <3>2, <3>3 DEF Handles
  <2>25. /\ pc'[o] \in OwnerPoints /\ (pc'[o] = "unlink" => arg'[o].closing)
         /\ (arg'[o].closing => arg[o].closing /\ pc'[o] \in Closing)
         /\ (pc'[o] \in {"open_lock", "segment"} => pos'[o] = 1)
    <3>1. pc'[o] \in {"names", "closed"} /\ {"names", "closed"} \subseteq OwnerPoints
      BY <2>4, PointSets DEF OwnerPoints
    <3>2. ~arg[o].closing /\ arg' = arg
      BY <1>1, <1>2 DEF Roles, Closing
    <3> QED
      BY <3>1, <3>2
  <2> QED
    BY <1>2, <2>6, <2>8, <2>10, <2>12, <2>13, <2>14, <2>15, <2>17, <2>18, <2>19, <2>20, <2>21, <2>22,
       <2>23, <2>24, <2>25, OwnerKeeps
<1> QED
  BY <1>5, <1>6

(* Whoever is in a segment that an owner takes finds its ring marked as    *)
(* adopted: nothing is claimed of it then.  A new segment has nobody in it. *)
LEMMA OwnerSegmentKeeps ==
  ASSUME IpcInv, NEW o \in Owners, OwnerSegment(o) PROVE IpcInv'
<1> DEFINE m == Obj(o, "mutex")
<1>1. /\ TypeOK /\ Handles /\ Roles /\ OwnNames /\ OwnRing /\ OpenRing /\ OwnFinds /\ NoSlotYet
      /\ NothingRead /\ NoSlotTwice /\ MutexAccounted /\ o \in Procs /\ o \notin Clients
      /\ pc[o] = "segment" /\ pos[o] = 1 /\ Live(o) /\ ~Past(o)
      /\ Owners \subseteq Procs /\ Clients \subseteq Procs
      /\ Semas \subseteq Kinds /\ "shm" \in Kinds /\ "shm" \notin Semas
      /\ "mutex" \in Semas /\ "writer" \in Semas
      /\ Attach(o) /\ bound["shm"] <= made /\ made \in Nat /\ bound["shm"] \in Nat
  <2>1. TypeOK /\ Handles /\ Roles /\ o \in Procs /\ pc[o] = "segment" /\ "shm" \in Kinds
    BY DEF IpcInv, MutexAccounted, Procs, OwnerSegment, Kinds
  <2>2. pos[o] = 1 /\ Live(o) /\ ~Past(o)
    BY <2>1 DEF Roles, Live, Past
  <2>3. bound["shm"] <= made /\ made \in Nat /\ bound["shm"] \in Nat
    BY <2>1 DEF Handles, TypeOK
  <2> QED
    BY <2>1, <2>2, <2>3 DEF IpcInv, Procs, OwnerSegment, Semas, Kinds
<1>2. TypeOK' /\ UNCHANGED <<opens, count, pos, arg, leaks, skipped>>
  BY <1>1, OpensTyped DEF OwnerSegment, history
<1>3. m \in Ids /\ m # NULL /\ Has(o, "mutex") /\ Unmade(o)
  BY <1>1, Objects DEF Ids, NULL, Has, Unmade
<1>4. PICK s \in SegIds :
        /\ s = IF bound["shm"] = NULL THEN made + 1 ELSE bound["shm"]
        /\ made' = IF bound["shm"] = NULL THEN made + 1 ELSE made
        /\ s <= made' /\ s # NULL /\ bound'["shm"] = s
        /\ \A k \in Semas : bound'[k] = bound[k]
        /\ handle'[o]["shm"] = s
        /\ \A k \in Semas : handle'[o][k] = handle[o][k]
        /\ \A q \in Procs : q # o => handle'[q] = handle[q]
  BY <1>1, AttachEffect
<1>5. /\ \A r \in SegIds : r # s => segment'[r] = segment[r]
      /\ segment'[s].ring = m
      /\ segment'[s].adopted <=> bound["shm"] # NULL
      /\ ~segment'[s].ready /\ segment'[s].state = 0 /\ segment'[s].used = 0
      /\ \A j \in Slots : ~segment'[s].reading[j]
  BY <1>1, <1>3, <1>4, OwnerSegmentEffect
<1>6. pc'[o] = "names" /\ \A q \in Procs : q # o => pc'[q] = pc[q]
  BY <1>1, Goes, PointSets DEF OwnerSegment
<1>7. \A q \in Procs : q # o =>
        /\ Same(q) /\ handle'[q] = handle[q] /\ Obj(q, "shm")' = Obj(q, "shm")
        /\ \A k \in Semas : Obj(q, k)' = Obj(q, k)
  BY <1>1, <1>2, <1>4, <1>6, OthersSame DEF Obj
<1>8. /\ Obj(o, "mutex")' = m /\ Obj(o, "shm")' = s /\ Seg(o)' = segment'[s]
      /\ Live(o)' /\ Past(o)' /\ \A k \in Semas : Has(o, k)' => k = "mutex"
  <2>1. \A k \in Semas : 1 > MadeAt[k] => k = "mutex"
    BY DEF Semas, MadeAt
  <2> QED
    BY <1>1, <1>2, <1>4, <1>6, <2>1 DEF Obj, Seg, Live, Past, Has
<1>9. ASSUME NEW q \in Procs, q # o, Past(q)
      PROVE  /\ Obj(q, "shm") \in SegIds /\ Seg(q)' = segment'[Obj(q, "shm")]
             /\ Obj(q, "shm") = s => segment'[s].adopted
             /\ Obj(q, "shm") # s => Seg(q)' = Seg(q)
  <2>1. Obj(q, "shm") \in SegIds /\ Obj(q, "shm") <= made
    BY <1>1, <1>9, Objects DEF Handles, Obj
  <2>2. Obj(q, "shm") = s => bound["shm"] # NULL
    BY <1>1, <1>4, <2>1 DEF SegIds
  <2> QED
    BY <1>5, <1>7, <1>9, <2>1, <2>2 DEF Seg
<1>10. ASSUME NEW q \in Owners, q # o, Past(q)
       PROVE  Seg(q)'.adopted
  <2> SUFFICES ASSUME Obj(q, "shm") # s, ~Seg(q).adopted PROVE FALSE
    BY <1>1, <1>9, <1>10
  <2>1. bound["shm"] = Obj(q, "shm") /\ Obj(q, "shm") # NULL
    BY <1>1, <1>10 DEF OwnRing, Handles, Obj
  <2> QED
    BY <1>4, <2>1
<1>11. MutexAccounted'
  <2>1. HeldBy(o) = 1 /\ HeldBy(o)' = 1
    BY <1>1, <1>6 DEF HeldBy
  <2>2. Alone(o)
    BY <1>2, <1>4, <1>6 DEF Alone
  <2>3. Balanced(o)
    BY <1>2, <2>1 DEF Balanced
  <2> QED
    BY <1>1, <1>2, <1>4, <2>2, <2>3, Accounted
<1>12. Handles'
  <2>1. made <= made' /\ made' \in Nat /\ s \in Nat
    BY <1>1, <1>2, <1>4 DEF TypeOK
  <2>2. bound'["shm"] <= made' /\ \A k \in Semas : bound'[k] <= opens'
    BY <1>1, <1>2, <1>4 DEF Handles
  <2>3. ASSUME NEW q \in Procs
        PROVE  /\ handle'[q]["shm"] <= made' /\ \A k \in Semas : handle'[q][k] <= opens'
               /\ Past(q)' => handle'[q]["shm"] # NULL
               /\ \A k \in Semas : Has(q, k)' => handle'[q][k] # NULL
    <3>1. CASE q = o
      BY <1>1, <1>2, <1>3, <1>4, <1>8, <3>1 DEF Handles, Obj
    <3>2. CASE q # o
      <4>1. handle'[q] = handle[q] /\ Same(q) /\ handle[q]["shm"] <= made /\ handle[q]["shm"] \in Nat
        BY <1>1, <1>7, <3>2 DEF Handles, TypeOK
      <4>2. handle'[q]["shm"] <= made'
        BY <1>1, <2>1, <4>1
      <4> QED
        BY <1>1, <1>2, <4>1, <4>2 DEF Handles, Same
    <3> QED
      BY <3>1, <3>2
  <2>4. \A r \in SegIds : segment'[r].ring <= opens'
    <3>1. m <= opens
      BY <1>1 DEF Handles, Obj
    <3> QED
      BY <1>1, <1>2, <1>5, <3>1 DEF Handles
  <2>5. \A r \in SegIds : r > made' => segment'[r] = Zeroed
    <3> SUFFICES ASSUME NEW r \in SegIds, r > made' PROVE segment'[r] = Zeroed
      OBVIOUS
    <3>1. r # s /\ r > made
      BY <1>1, <1>4, <2>1 DEF SegIds
    <3> QED
      BY <1>1, <1>5, <3>1 DEF Handles
  <2>6. \A i \in Ids : i > opens' =>
          /\ leaks'[i] = 0 /\ skipped'[i] = 0 /\ \A k \in Semas : count'[k][i] = 0
    BY <1>1, <1>2 DEF Handles
  <2> QED
    BY <2>2, <2>3, <2>4, <2>5, <2>6 DEF Handles
<1>13. Roles'
  <2>1. ~arg[o].closing /\ arg' = arg /\ "names" \in OwnerPoints
    BY <1>1, <1>2, PointSets DEF Roles, Closing, OwnerPoints
  <2>2. /\ \A q \in Owners : pc'[q] \in OwnerPoints
        /\ \A q \in Owners : /\ arg'[q].closing => pc'[q] \in Closing
                             /\ pc'[q] = "unlink" => arg'[q].closing
    BY <1>1, <1>6, <2>1 DEF Roles
  <2>3. \A c \in Clients : pc'[c] \in ClientPoints /\ ~arg'[c].closing
    BY <1>1, <1>6, <2>1 DEF Roles
  <2>4. \A q \in Owners, k \in Semas : Has(q, k)' => Obj(q, k)' = Obj(q, "mutex")'
    BY <1>1, <1>7, <1>8 DEF Roles, Same
  <2>5. \A q \in Procs : pc'[q] \in {"open_lock", "segment"} => pos'[q] = 1
    BY <1>1, <1>2, <1>6 DEF Roles
  <2> QED
    BY <2>2, <2>3, <2>4, <2>5 DEF Roles
<1>14. \A q \in Owners : Live(q)' => Live(q) /\ Obj(q, "mutex")' = Obj(q, "mutex")
  BY <1>1, <1>7, <1>8 DEF Same
<1>15. OwnNames'
  <2>1. \A p, q \in Owners : p # q /\ Live(p)' /\ Live(q)' => Obj(p, "mutex")' # Obj(q, "mutex")'
    BY <1>1, <1>14 DEF OwnNames
  <2>2. ASSUME NEW q \in Owners, NEW k \in Semas, Keeps(q, k)'
        PROVE  bound'[k] = Obj(q, "mutex")'
    <3>1. CASE q = o
      <4>1. k = "mutex" /\ Keeps(o, "mutex")
        BY <1>1, <1>3, <1>8, <2>2, <3>1 DEF Keeps
      <4> QED
        BY <1>1, <1>4, <1>8, <3>1, <4>1 DEF OwnNames
    <3>2. CASE q # o
      BY <1>1, <1>4, <1>7, <2>2, <3>2 DEF OwnNames, Same
    <3> QED
      BY <3>1, <3>2
  <2> QED
    BY <2>1, <2>2 DEF OwnNames
<1>16. \A q \in Owners : q # o /\ Past(q)' => Past(q) /\ Seg(q)'.adopted
  BY <1>1, <1>7, <1>10 DEF Same
<1>17. OwnRing'
  <2>1. \A q \in Owners : Past(q)' => Seg(q)'.ring = Obj(q, "mutex")' \/ Seg(q)'.adopted
    BY <1>5, <1>8, <1>16
  <2>2. ASSUME NEW q \in Owners, NEW r \in SegIds, Live(q)', segment'[r].ring = Obj(q, "mutex")'
        PROVE  Past(q)' /\ Obj(q, "shm")' = r
    <3>1. CASE q = o
      <4>1. r = s
        BY <1>1, <1>5, <1>8, <2>2, <3>1 DEF OwnRing
      <4> QED
        BY <1>8, <3>1, <4>1
    <3>2. CASE q # o
      <4>1. Obj(q, "mutex") # m /\ Live(q) /\ Obj(q, "mutex")' = Obj(q, "mutex")
        BY <1>1, <1>14, <2>2, <3>2 DEF OwnNames
      <4>2. r # s
        BY <1>5, <2>2, <4>1
      <4> QED
        BY <1>1, <1>5, <1>7, <2>2, <3>2, <4>1, <4>2 DEF OwnRing, Same
    <3> QED
      BY <3>1, <3>2
  <2>3. \A q \in Owners : Past(q)' /\ ~Seg(q)'.adopted => bound'["shm"] = Obj(q, "shm")'
    BY <1>4, <1>8, <1>16
  <2> QED
    BY <2>1, <2>2, <2>3 DEF OwnRing
<1>18. OpenRing'
  <2>1. ASSUME NEW r \in SegIds, segment'[r].ready \/ segment'[r].state = 1 \/ segment'[r].adopted
        PROVE  segment'[r].ring # NULL
    BY <1>1, <1>3, <1>5, <2>1 DEF OpenRing
  <2>2. ASSUME NEW r \in SegIds, NEW k \in Semas, segment'[r].state = 1, ~segment'[r].adopted
        PROVE  bound'[k] = segment'[r].ring
    BY <1>1, <1>4, <1>5, <2>2 DEF OpenRing
  <2>3. \A q \in Owners : Past(q)' /\ arg'[q].closing /\ ~Seg(q)'.adopted => Seg(q)'.state = 0
    BY <1>5, <1>8, <1>16
  <2>4. ASSUME NEW q \in Owners, pc'[q] = "names", ~Seg(q)'.adopted
        PROVE  /\ ~Seg(q)'.ready /\ Seg(q)'.state = 0 /\ Seg(q)'.used = 0
               /\ \A j \in Slots : ~Seg(q)'.reading[j]
    <3>1. Past(q)'
      BY <2>4 DEF Past, Live
    <3> QED
      BY <1>5, <1>8, <1>16, <2>4, <3>1
  <2> QED
    BY <2>1, <2>2, <2>3, <2>4 DEF OpenRing
<1>19. OwnFinds'
  <2> SUFFICES ASSUME NEW c \in Clients, Past(c)'
               PROVE  /\ Seg(c)'.ready \/ Seg(c)'.adopted
                      /\ Seg(c)'.state = 1 /\ ~Seg(c)'.adopted =>
                           \A k \in Semas \ {"mutex"} : Has(c, k)' => Obj(c, k)' = Seg(c)'.ring
    BY DEF OwnFinds
  <2>1. c # o /\ c \in Procs /\ Past(c) /\ Same(c) /\ \A k \in Semas : Obj(c, k)' = Obj(c, k)
    BY <1>1, <1>7 DEF Same
  <2>2. Seg(c)'.adopted \/ Seg(c)' = Seg(c)
    BY <1>9, <2>1
  <2> QED
    BY <1>1, <2>1, <2>2 DEF OwnFinds, Same
<1>20. NoSlotYet'
  <2> SUFFICES ASSUME NEW q \in Owners, Unmade(q)'
               PROVE  /\ count'["writer"][Obj(q, "mutex")'] = 0 /\ bound'["writer"] # Obj(q, "mutex")'
                      /\ \A c \in Clients : Obj(c, "writer")' # Obj(q, "mutex")'
    BY DEF NoSlotYet
  <2>1. Unmade(q) /\ Obj(q, "mutex")' = Obj(q, "mutex")
    BY <1>1, <1>3, <1>7, <1>14 DEF Unmade, Same
  <2>2. \A c \in Clients : Obj(c, "writer")' = Obj(c, "writer")
    BY <1>1, <1>7
  <2> QED
    BY <1>1, <1>2, <1>4, <2>1, <2>2 DEF NoSlotYet
<1>21. NothingRead'
  <2> SUFFICES ASSUME NEW r \in SegIds, segment'[r].ring # NULL, ~segment'[r].adopted,
                      skipped'[segment'[r].ring] = 0, NEW j \in Slots
               PROVE  ~segment'[r].reading[j]
    BY DEF NothingRead
  <2> QED
    BY <1>1, <1>2, <1>5 DEF NothingRead
<1>22. NoSlotTwice'
  <2> SUFFICES ASSUME NEW r \in SegIds, NEW i, i = segment'[r].ring, i # NULL,
                      ~segment'[r].adopted, skipped[i] = 0
               PROVE  /\ segment'[r].used >= 0
                      /\ count["writer"][i] + Cardinality(Reserved(i)') + segment'[r].used <= Length
    BY <1>2 DEF NoSlotTwice, Reserved, Obj
  <2>1. Reserved(i)' = Reserved(i)
    BY <1>1, <1>6, <1>7 DEF Reserved, Obj
  <2>2. CASE r = s
    <3>1. i = m /\ segment'[r].used = 0 /\ count["writer"][i] = 0
      BY <1>1, <1>3, <1>5, <2>2 DEF NoSlotYet
    <3>2. Reserved(i) = {}
      BY <1>1, <1>3, <3>1 DEF Reserved, NoSlotYet
    <3>3. Cardinality(Reserved(i)') = 0
      BY <2>1, <3>2, FS_EmptySet
    <3> QED
      BY <3>1, <3>3
  <2>3. CASE r # s
    <3>1. segment'[r] = segment[r]
      BY <1>5, <2>3
    <3> QED
      BY <1>1, <2>1, <3>1, SlotsAdd
  <2> QED
    BY <2>2, <2>3
<1> QED
  BY <1>11, <1>12, <1>13, <1>15, <1>17, <1>18, <1>19, <1>20, <1>21, <1>22 DEF IpcInv
-----------------------------------------------------------------------------
(* The invariant holds at first, and every step keeps it. *)

LEMMA InitIpcInv == Init => IpcInv
<1> SUFFICES ASSUME Init PROVE IpcInv
  OBVIOUS
<1>1. /\ opens = 0 /\ made = 0 /\ bound = [k \in Kinds |-> NULL]
      /\ handle = [p \in Procs |-> Nothing]
      /\ count = [k \in Semas |-> [i \in Ids |-> 0]] /\ segment = [s \in SegIds |-> Zeroed]
      /\ pc = [p \in Procs |-> "closed"] /\ pos = [p \in Procs |-> 1]
      /\ arg = [p \in Procs |-> [time |-> "INFINITE", block |-> FALSE, closing |-> FALSE]]
      /\ leaks = [i \in Ids |-> 0] /\ skipped = [i \in Ids |-> 0]
      /\ calls = [p \in Procs |-> 0]
  BY DEF Init
<1>2. "closed" \in Points /\ "closed" \in OwnerPoints /\ "closed" \in ClientPoints
      /\ Semas \subseteq Kinds /\ "shm" \in Kinds /\ "mutex" \in Semas
      /\ \A k \in Kinds : bound[k] = 0 /\ Nothing[k] = 0
      /\ MaxOpens \in Nat /\ MaxSegments \in Nat /\ MaxCalls \in Nat
      /\ Owners \subseteq Procs /\ Clients \subseteq Procs
  BY <1>1, PointSets DEF OwnerPoints, ClientPoints, Semas, Kinds, Nothing, NULL, Procs
<1>3. \A p \in Procs : ~Live(p) /\ ~Past(p) /\ \A k \in Semas : ~Has(p, k) /\ ~Keeps(p, k)
  BY <1>1 DEF Live, Past, Has, Keeps
<1>4. \A s \in SegIds : segment[s].ring = NULL /\ ~segment[s].ready /\ segment[s].state = 0
                        /\ ~segment[s].adopted
  BY <1>1 DEF Zeroed
<1>5. TypeOK
  <2>1. Nothing \in [Kinds -> Nat] /\ bound \in [Kinds -> Nat]
    BY <1>1 DEF Nothing, NULL
  <2>2. handle \in [Procs -> [Kinds -> Nat]] /\ pc \in [Procs -> Points]
    BY <1>1, <1>2, <2>1
  <2>3. segment \in [SegIds -> Segments]
    BY <1>1, ZeroedTyped
  <2>4. arg \in [Procs -> [time : WaitTimes, block : BOOLEAN, closing : BOOLEAN]]
    BY <1>1 DEF WaitTimes
  <2>5. /\ count \in [Semas -> [Ids -> Nat]] /\ leaks \in [Ids -> Nat] /\ skipped \in [Ids -> Nat]
        /\ pos \in [Procs -> 1 .. 5] /\ calls \in [Procs -> 0 .. MaxCalls]
        /\ opens \in 0 .. MaxOpens /\ made \in 0 .. MaxSegments
    BY <1>1, <1>2
  <2> QED
    BY <2>1, <2>2, <2>3, <2>4, <2>5 DEF TypeOK
<1>6. MutexAccounted
  <2>1. 1 .. opens = {}
    BY <1>1
  <2> QED
    BY <1>5, <2>1 DEF MutexAccounted
<1>7. Handles
  <2>1. \A p \in Procs, k \in Kinds : handle[p][k] = 0
    BY <1>1, <1>2
  <2>2. \A s \in SegIds : segment[s].ring <= opens /\ segment[s] = Zeroed
    BY <1>1, <1>4 DEF NULL
  <2>3. \A i \in Ids : leaks[i] = 0 /\ skipped[i] = 0 /\ \A k \in Semas : count[k][i] = 0
    BY <1>1
  <2> QED
    BY <1>1, <1>2, <1>3, <2>1, <2>2, <2>3 DEF Handles
<1>8. Roles
  BY <1>1, <1>2, <1>3 DEF Roles
<1>9. OwnNames /\ OwnRing /\ OwnFinds
  BY <1>2, <1>3 DEF OwnNames, OwnRing, OwnFinds
<1>10. OpenRing
  <2>1. \A o \in Owners : pc[o] # "names"
    BY <1>1, <1>2
  <2> QED
    BY <1>2, <1>3, <1>4, <2>1 DEF OpenRing
<1>11. NoSlotYet
  BY <1>2, <1>3 DEF NoSlotYet, Unmade
<1>12. NothingRead /\ NoSlotTwice
  BY <1>4 DEF NothingRead, NoSlotTwice
<1> QED
  BY <1>6, <1>7, <1>8, <1>9, <1>10, <1>11, <1>12 DEF IpcInv

LEMMA NextIpcInv == IpcInv /\ [Next]_vars => IpcInv'
<1> SUFFICES ASSUME IpcInv, [Next]_vars PROVE IpcInv'
  OBVIOUS
<1>1. ASSUME NEW o \in Owners, OpenOwner(o) \/ \E time \in Times : Recv(o, time) PROVE IpcInv'
  BY <1>1, OpenOwnerKeeps, RecvKeeps
<1>2. ASSUME NEW c \in Clients,
             Open(c) \/ \E time \in Times, block \in BOOLEAN : Send(c, time, block)
      PROVE  IpcInv'
  BY <1>2, OpenKeeps, SendKeeps
<1>3. ASSUME NEW p \in Procs, Step(p) PROVE IpcInv'
  <2>1. CASE Lock(p)
    BY <2>1, LockKeeps
  <2>2. ASSUME p \in Owners, OwnerStep(p) PROVE IpcInv'
    BY <2>2, OwnerSegmentKeeps, MakeKeeps, StateKeeps, RecvReleaseKeeps, RecvTakeKeeps, UnlinkKeeps
    DEF OwnerStep
  <2>3. ASSUME p \in Clients, ClientStep(p) PROVE IpcInv'
    BY <2>3, ClientSegmentKeeps, FindKeeps, FoundKeeps, SendClosedKeeps, SendCopyKeeps DEF ClientStep
  <2> QED
    BY <1>3, <2>1, <2>2, <2>3 DEF Step
<1>4. ASSUME NEW p \in Procs, Wait(p) PROVE IpcInv'
  BY <1>4, LockFailsKeeps, RecvWaitKeeps, SendWaitsKeep DEF Wait
<1>5. ASSUME NEW p \in Procs, Close(p) \/ Crash(p) PROVE IpcInv'
  BY <1>5, CloseKeeps, CrashKeeps
<1>6. CASE UNCHANGED vars
  <2>1. /\ bound' = bound /\ opens' = opens /\ made' = made /\ count' = count /\ segment' = segment
        /\ handle' = handle /\ pc' = pc /\ pos' = pos /\ arg' = arg /\ calls' = calls
        /\ leaks' = leaks /\ skipped' = skipped
    BY <1>6 DEF vars, objects, process, history
  <2>2. MutexAccounted'
    BY <2>1 DEF IpcInv, MutexAccounted, TypeOK, HeldBy, Obj
  <2>3. Handles'
    BY <2>1 DEF IpcInv, Handles, Has, Live, Past
  <2>4. Roles' /\ OwnNames'
    BY <2>1 DEF IpcInv, Roles, OwnNames, Has, Keeps, Live, Past, Obj
  <2>5. OwnRing' /\ OpenRing'
    BY <2>1 DEF IpcInv, OwnRing, OpenRing, Live, Past, Obj, Seg
  <2>6. OwnFinds' /\ NoSlotYet'
    BY <2>1 DEF IpcInv, OwnFinds, NoSlotYet, Unmade, Has, Live, Past, Obj, Seg
  <2>7. NothingRead' /\ NoSlotTwice'
    BY <2>1 DEF IpcInv, NothingRead, NoSlotTwice, Obj
  <2> QED
    BY <2>2, <2>3, <2>4, <2>5, <2>6, <2>7 DEF IpcInv
<1> QED
  BY <1>1, <1>2, <1>3, <1>4, <1>5, <1>6 DEF Next

THEOREM IpcInvariant == Spec => []IpcInv
BY InitIpcInv, NextIpcInv, PTL DEF Spec

(* No unlock of a named mutex is forgotten or made twice, but by an opening *)
(* that returns NULL from the middle of _WQIpc_open, by the receive that    *)
(* locks the mutex twice, by a crash, and after an interrupted wait.        *)
THEOREM MutexIsAccounted == Spec => []MutexAccounted
<1>1. IpcInv => MutexAccounted
  BY DEF IpcInv
<1> QED
  BY <1>1, IpcInvariant, PTL

(* WQIpc_send copies into a ring that is open only after it has waited on   *)
(* that ring's own semaphores, whatever was opened and closed between       *)
(* Platform_open_shared_memory and sem_open.                                *)
THEOREM SendersUseOwnSemaphores == Spec => []OpenRingOwnSemaphores
<1>1. IpcInv => OpenRingOwnSemaphores
  <2> SUFFICES ASSUME IpcInv, NEW c \in Clients, pc[c] = "send_copy", Seg(c).state = 1, ~Seg(c).adopted,
                      NEW k \in {"reader", "writer", "ack"}
               PROVE  Obj(c, k) = Seg(c).ring
    BY DEF OpenRingOwnSemaphores
  <2>1. c \in Procs /\ k \in Semas \ {"mutex"} /\ OwnFinds
    BY DEF IpcInv, Procs, Semas
  <2>2. Past(c) /\ Has(c, k)
    BY <2>1, PastPoints
  <2> QED
    BY <2>1, <2>2 DEF OwnFinds
<1> QED
  BY <1>1, IpcInvariant, PTL

(* The count of the writer semaphore, the clients that have taken from it   *)
(* and the messages in the ring never add up to more than nq: no message is *)
(* copied over one that has not been received.                              *)
THEOREM SlotsAreNotShared == Spec => []NoSlotTwice
<1>1. IpcInv => NoSlotTwice
  BY DEF IpcInv
<1> QED
  BY <1>1, IpcInvariant, PTL

(* WQIpc_close and a failed opening never remove or take a name of a queue  *)
(* that another owner has open.                                             *)
THEOREM OpenRingsAreFound == Spec => []OpenRingIsFound
<1>1. IpcInv => OpenRingIsFound
  <2> SUFFICES ASSUME IpcInv, NEW o \in Owners, pc[o] = "open", NEW k \in Kinds
               PROVE  bound[k] = Obj(o, k) \/ (k = "shm" /\ Seg(o).adopted)
    BY DEF OpenRingIsFound
  <2>1. o \in Procs /\ OwnNames /\ OwnRing /\ Roles
    BY DEF IpcInv, Procs
  <2>2. Past(o) /\ \A j \in Semas : Has(o, j)
    BY <2>1, PastPoints
  <2>3. CASE k \in Semas
    <3>1. Keeps(o, k)
      BY <2>2, <2>3 DEF Keeps
    <3> QED
      BY <2>1, <2>2, <2>3, <3>1 DEF OwnNames, Roles
  <2>4. CASE k = "shm"
    BY <2>1, <2>2, <2>4 DEF OwnRing
  <2> QED
    BY <2>3, <2>4 DEF Kinds
<1> QED
  BY <1>1, IpcInvariant, PTL

(* WQIpc_owner_recv waits for the mutex that it holds and hands a message   *)
(* out only when one of its waits has failed.                               *)
THEOREM NothingIsReceived == Spec => []NothingReceived
<1>1. IpcInv => NothingReceived
  <2> SUFFICES ASSUME IpcInv, NEW o \in Owners, pc[o] = "recv_take"
               PROVE  skipped[Obj(o, "mutex")] > 0
    BY DEF NothingReceived
  <2>1. o \in Procs /\ TypeOK /\ Handles /\ MutexAccounted /\ "mutex" \in Semas
    BY DEF IpcInv, MutexAccounted, Procs, Semas
  <2>2. Obj(o, "mutex") \in Ids
    BY <2>1, Objects DEF Live
  <2>3. Obj(o, "mutex") <= opens /\ opens \in Nat
    BY <2>1 DEF Handles, Obj, TypeOK
  <2>4. Obj(o, "mutex") \in 1 .. opens
    BY <2>2, <2>3 DEF Ids
  <2> QED
    BY <2>1, <2>4, TakenTwice
<1> QED
  BY <1>1, IpcInvariant, PTL
=============================================================================
