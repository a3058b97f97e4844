------------------------------ MODULE IpcQueue ------------------------------
(***************************************************************************)
(* The work queue between processes, src/WQIpc.c.  An owner makes named    *)
(* semaphores and a shared memory segment, clients find them by name;      *)
(* clients send, the owner receives.  The mutex is a named semaphore too,  *)
(* locked with INFINITE and without a look at the result.                  *)
(*                                                                         *)
(* Semaphores are numbered by the opening that made them and segments in   *)
(* their order: a name may lead to other objects later, and a process      *)
(* keeps those it has found.                                               *)
(***************************************************************************)
EXTENDS Platform, Integers, Sequences, FiniteSets

CONSTANTS
  Owners,        \* processes that call WQIpc_open_owner, WQIpc_owner_recv
  Clients,       \* processes that call WQIpc_open, WQIpc_send
  Misfits,       \* clients that open with a larger size or length
  Length,        \* nq of the owners
  MaxOpens,      \* bound: openings by owners
  MaxSegments,   \* bound: segments
  MaxCalls,      \* bound: calls of open, send and receive per process
  MaxSkips,      \* bound: interrupted waits for a mutex
  MayCrash       \* TRUE: a process may die at any point

Procs == Owners \cup Clients
Ids == 1 .. MaxOpens
SegIds == 1 .. MaxSegments
NULL == 0
Slots == 0 .. Length - 1

ASSUME ProcsAssumption ==
  IsFiniteSet(Procs) /\ Owners \cap Clients = {} /\ Misfits \subseteq Clients
ASSUME LengthAssumption == Length \in Nat \ {0}
ASSUME BoundAssumption ==
  {MaxOpens, MaxSegments, MaxCalls, MaxSkips} \subseteq Nat /\ MayCrash \in BOOLEAN

Semas == {"mutex", "reader", "writer", "ack"}
Kinds == Semas \cup {"shm"}

VARIABLES
  bound,     \* the object that a name leads to, or NULL
  opens,     \* how many owners' mutexes have been made
  made,      \* ... and how many segments
  handle,    \* per process: struct wq_ipc, the objects it has found
  count,     \* the counts of the semaphores
  segment,   \* the segments: state, cursors and flags
  pc,        \* where a process is
  pos,       \* ... and in the list of names it goes through there
  arg,       \* ... the time and block arguments of its call
  calls,     \* ... and the number of its calls
  leaks,     \* history: how often a mutex was held for good
  skipped    \* history: how often one was not waited for to the end

objects == <<bound, opens, made, count, segment>>
process == <<handle, pc, pos, arg, calls>>
history == <<leaks, skipped>>
vars == <<objects, process, history>>

(* Semaphores are made and looked up in this order after the mutex and the *)
(* segment, and WQIpc_close gives all five up in that one.                 *)
MakeOrder == <<"reader", "writer", "ack">>
UnlinkOrder == <<"writer", "reader", "mutex", "ack", "shm">>

(* Where a process has called Platform_semaphore_lock(mutex, INFINITE),    *)
(* and where it is afterwards.                                             *)
AfterLock == [open_lock |-> "segment", send_lock |-> "send_copy", close_lock |-> "close_state",
              recv_lock |-> "recv_release", recv_again |-> "recv_take"]
LockPoints == DOMAIN AfterLock
Points == LockPoints \cup {AfterLock[l] : l \in LockPoints}
            \cup {"closed", "names", "open", "send_writer", "send_ack", "recv_wait", "unlink", "dead"}

(* How often a process has locked the mutex and not yet unlocked it. *)
HeldBy(p) ==
  CASE pc[p] \in {"segment", "names", "send_copy", "close_state", "recv_release", "recv_again"} -> 1
    [] pc[p] = "recv_take" -> 2
    [] OTHER -> 0

(* ring, adopted and used are histories: the opening whose ring a segment  *)
(* holds, whether its owner found it there, and the messages in it.        *)
Segments == [ready : BOOLEAN, state : 0 .. 1, head : Slots, tail : Slots,
             reading : [Slots -> BOOLEAN], sem_flag : [Slots -> BOOLEAN],
             ring : Ids \cup {NULL}, adopted : BOOLEAN, used : Int]

TypeOK ==
  /\ bound \in [Kinds -> Nat] /\ opens \in 0 .. MaxOpens /\ made \in 0 .. MaxSegments
  /\ handle \in [Procs -> [Kinds -> Nat]]
  /\ count \in [Semas -> [Ids -> Nat]]
  /\ segment \in [SegIds -> Segments]
  /\ pc \in [Procs -> Points] /\ pos \in [Procs -> 1 .. 5]
  /\ arg \in [Procs -> [time : WaitTimes, block : BOOLEAN, closing : BOOLEAN]]
  /\ calls \in [Procs -> 0 .. MaxCalls]
  /\ leaks \in [Ids -> Nat] /\ skipped \in [Ids -> Nat]

Nothing == [k \in Kinds |-> NULL]
Zeroed == [ready |-> FALSE, state |-> 0, head |-> 0, tail |-> 0,
           reading |-> [i \in Slots |-> FALSE], sem_flag |-> [i \in Slots |-> FALSE],
           ring |-> NULL, adopted |-> FALSE, used |-> 0]

Init ==
  /\ bound = [k \in Kinds |-> NULL] /\ opens = 0 /\ made = 0
  /\ handle = [p \in Procs |-> Nothing]
  /\ count = [k \in Semas |-> [i \in Ids |-> 0]]
  /\ segment = [i \in SegIds |-> Zeroed]
  /\ pc = [p \in Procs |-> "closed"] /\ pos = [p \in Procs |-> 1]
  /\ arg = [p \in Procs |-> [time |-> "INFINITE", block |-> FALSE, closing |-> FALSE]]
  /\ calls = [p \in Procs |-> 0]
  /\ leaks = [i \in Ids |-> 0] /\ skipped = [i \in Ids |-> 0]

q_iNext(cursor) == IF cursor + 1 >= Length THEN 0 ELSE cursor + 1

Goto(p, l) == pc' = [pc EXCEPT ![p] = l]
Call(p) == calls[p] < MaxCalls /\ calls' = [calls EXCEPT ![p] = @ + 1]
Obj(p, k) == handle[p][k]
Seg(p) == segment[Obj(p, "shm")]

(* Two processes at work in one segment at the same time: what the ring    *)
(* holds then is undefined, and the model goes no further.                 *)
AtWork(p) == pc[p] \in {"send_copy", "close_state", "recv_release", "recv_take"}
               \/ (pc[p] = "names" /\ p \in Owners)
Race == \E p, q \in Procs :
          p # q /\ Obj(p, "shm") = Obj(q, "shm") /\ AtWork(p) /\ AtWork(q)
-----------------------------------------------------------------------------
(* The mutex. *)

Lock(p) ==
  /\ pc[p] \in LockPoints
  /\ "WQ_SIGNALED" \in LockOutcomes(count["mutex"][Obj(p, "mutex")], "INFINITE")
  /\ count' = [count EXCEPT !["mutex"][Obj(p, "mutex")] = @ - 1]
  /\ Goto(p, AfterLock[pc[p]])
  /\ UNCHANGED <<bound, opens, made, segment, handle, pos, arg, calls, history>>

(* The wait fails, and the process goes on. *)
LockFails(p) ==
  /\ pc[p] \in LockPoints /\ \A j \in Ids : skipped[j] < MaxSkips
  /\ "WQ_FAIL" \in LockOutcomes(count["mutex"][Obj(p, "mutex")], "INFINITE")
  /\ skipped' = [skipped EXCEPT ![Obj(p, "mutex")] = @ + 1]
  /\ Goto(p, AfterLock[pc[p]])
  /\ UNCHANGED <<objects, handle, pos, arg, calls, leaks>>

(* The counts after process p has posted the given semaphores. *)
Posted(p, kinds) ==
  [k \in Semas |-> IF k \in kinds THEN [count[k] EXCEPT ![Obj(p, k)] = @ + 1] ELSE count[k]]

(* An opening that fails returns NULL with the mutex locked. *)
Fail(p) ==
  /\ Goto(p, "closed")
  /\ leaks' = [leaks EXCEPT ![Obj(p, "mutex")] = @ + 1]
-----------------------------------------------------------------------------
(* _WQIpc_open.  While the mutex's name exists an owner's sem_open, and    *)
(* while it does not a client's, returns NULL and nothing has changed.     *)

OpenOwner(o) ==
  /\ pc[o] = "closed" /\ bound["mutex"] = NULL /\ opens < MaxOpens
  /\ Call(o)
  /\ opens' = opens + 1
  /\ bound' = [bound EXCEPT !["mutex"] = opens + 1]
  /\ count' = [count EXCEPT !["mutex"][opens + 1] = 1]
  /\ handle' = [handle EXCEPT ![o] = [Nothing EXCEPT !["mutex"] = opens + 1]]
  /\ pos' = [pos EXCEPT ![o] = 1]
  /\ Goto(o, "open_lock")
  /\ UNCHANGED <<made, segment, arg, history>>

Open(c) ==
  /\ pc[c] = "closed" /\ bound["mutex"] # NULL
  /\ Call(c)
  /\ handle' = [handle EXCEPT ![c] = [Nothing EXCEPT !["mutex"] = bound["mutex"]]]
  /\ pos' = [pos EXCEPT ![c] = 1]
  /\ Goto(c, "open_lock")
  /\ UNCHANGED <<objects, arg, history>>

(* Platform_create_shared_memory.  The flags are those of open and not     *)
(* shmget's, and the mode 666 has the bit of IPC_CREAT and not of IPC_EXCL: *)
(* an owner takes a segment that exists, a client makes one that does not. *)
Attach(p) ==
  LET s == IF bound["shm"] = NULL THEN made + 1 ELSE bound["shm"] IN
    /\ s <= MaxSegments
    /\ bound' = [bound EXCEPT !["shm"] = s]
    /\ made' = IF bound["shm"] = NULL THEN made + 1 ELSE made
    /\ handle' = [handle EXCEPT ![p]["shm"] = s]

(* The owner zeroes it ... *)
OwnerSegment(o) ==
  /\ pc[o] = "segment"
  /\ Attach(o)
  /\ segment' = [segment EXCEPT ![bound'["shm"]] =
       [Zeroed EXCEPT !.ring = Obj(o, "mutex"), !.adopted = bound["shm"] # NULL]]
  /\ Goto(o, "names")
  /\ UNCHANGED <<opens, count, pos, arg, calls, history>>

(* ... and to a client it must describe the ring it expects. *)
ClientSegment(c) ==
  /\ pc[c] = "segment"
  /\ Attach(c)
  /\ IF segment[bound'["shm"]].ready /\ c \notin Misfits
     THEN Goto(c, "names") /\ UNCHANGED leaks
     ELSE Fail(c)
  /\ UNCHANGED <<opens, count, segment, pos, arg, calls, skipped>>

(* Opens a semaphore that exists. *)
WrongTaken(k) == FALSE
(* O_EXCL: the owner's sem_open refuses a name that exists. *)
Taken(k) == bound[k] # NULL

(* The owner makes the next semaphore.  The name of the second ack is that *)
(* of the first.                                                           *)
Make(o) ==
  /\ pc[o] = "names" /\ pos[o] <= Len(MakeOrder)
  /\ LET k == MakeOrder[pos[o]]
         i == Obj(o, "mutex")
     IN \/ /\ Taken(k)
           /\ Fail(o)
           /\ UNCHANGED <<bound, count, handle, pos>>
        \/ /\ ~Taken(k)
           /\ bound' = [bound EXCEPT ![k] = i]
           /\ count' = IF k = "writer" THEN [count EXCEPT !["writer"][i] = Length] ELSE count
           /\ handle' = [handle EXCEPT ![o][k] = i]
           /\ IF k = "ack" /\ Length > 1
              THEN Fail(o) /\ UNCHANGED pos
              ELSE pos' = [pos EXCEPT ![o] = @ + 1] /\ UNCHANGED <<pc, leaks>>
  /\ UNCHANGED <<opens, made, segment, arg, calls, skipped>>

(* The owner describes the ring in the segment and unlocks the mutex. *)
Made(o) ==
  /\ pc[o] = "names" /\ pos[o] > Len(MakeOrder)
  /\ segment' = [segment EXCEPT ![Obj(o, "shm")].ready = TRUE, ![Obj(o, "shm")].state = 1]
  /\ count' = Posted(o, {"mutex"})
  /\ Goto(o, "open")
  /\ UNCHANGED <<bound, opens, made, handle, pos, arg, calls, history>>

(* A client looks the next semaphore up. *)
Find(c) ==
  /\ pc[c] = "names" /\ pos[c] <= Len(MakeOrder)
  /\ LET k == MakeOrder[pos[c]]
     IN \/ /\ bound[k] = NULL
           /\ Fail(c)
           /\ UNCHANGED <<handle, pos>>
        \/ /\ bound[k] # NULL
           /\ handle' = [handle EXCEPT ![c][k] = bound[k]]
           /\ pos' = [pos EXCEPT ![c] = @ + 1]
           /\ UNCHANGED <<pc, leaks>>
  /\ UNCHANGED <<objects, arg, calls, skipped>>

Found(c) ==
  /\ pc[c] = "names" /\ pos[c] > Len(MakeOrder)
  /\ count' = Posted(c, {"mutex"})
  /\ Goto(c, "open")
  /\ UNCHANGED <<bound, opens, made, segment, handle, pos, arg, calls, history>>
-----------------------------------------------------------------------------
(* WQIpc_send. *)

Send(c, time, block) ==
  /\ pc[c] = "open"
  /\ Call(c)
  /\ arg' = [arg EXCEPT ![c].time = time, ![c].block = block]
  /\ Goto(c, "send_writer")
  /\ UNCHANGED <<objects, handle, pos, history>>

SendRefused(c) ==
  /\ pc[c] = "send_writer"
  /\ LockOutcomes(count["writer"][Obj(c, "writer")], arg[c].time) \ {"WQ_SIGNALED"} # {}
  /\ Goto(c, "open")
  /\ UNCHANGED <<objects, handle, pos, arg, calls, history>>

SendLockWriter(c) ==
  /\ pc[c] = "send_writer"
  /\ "WQ_SIGNALED" \in LockOutcomes(count["writer"][Obj(c, "writer")], arg[c].time)
  /\ count' = [count EXCEPT !["writer"][Obj(c, "writer")] = @ - 1]
  /\ Goto(c, "send_lock")
  /\ UNCHANGED <<bound, opens, made, segment, handle, pos, arg, calls, history>>

(* Leaves with the mutex locked. *)
WrongSendClosed(c) ==
  /\ pc[c] = "send_copy" /\ Seg(c).state = 0
  /\ count' = Posted(c, {"writer"})
  /\ Goto(c, "open")
  /\ UNCHANGED <<bound, opens, made, segment, handle, pos, arg, calls, history>>

(* The owner is closing: the slot is given back. *)
SendClosed(c) ==
  /\ pc[c] = "send_copy" /\ Seg(c).state = 0
  /\ count' = Posted(c, {"mutex", "writer"})
  /\ Goto(c, "open")
  /\ UNCHANGED <<bound, opens, made, segment, handle, pos, arg, calls, history>>

(* Gives its slot back although it has filled it. *)
WrongSendCopy(c) ==
  /\ pc[c] = "send_copy" /\ Seg(c).state = 1
  /\ segment' = [segment EXCEPT ![Obj(c, "shm")] =
       [Seg(c) EXCEPT !.sem_flag[Seg(c).tail] = arg[c].block \/ @,
                      !.tail = q_iNext(@), !.used = @ + 1]]
  /\ count' = Posted(c, {"mutex", "reader", "writer"})
  /\ Goto(c, IF arg[c].block THEN "send_ack" ELSE "open")
  /\ UNCHANGED <<bound, opens, made, handle, pos, arg, calls, history>>

SendCopy(c) ==
  /\ pc[c] = "send_copy" /\ Seg(c).state = 1
  /\ segment' = [segment EXCEPT ![Obj(c, "shm")] =
       [Seg(c) EXCEPT !.sem_flag[Seg(c).tail] = arg[c].block \/ @,
                      !.tail = q_iNext(@), !.used = @ + 1]]
  /\ count' = Posted(c, {"mutex", "reader"})
  /\ Goto(c, IF arg[c].block THEN "send_ack" ELSE "open")
  /\ UNCHANGED <<bound, opens, made, handle, pos, arg, calls, history>>

(* The reply is then copied out of the slot, whoever has it by now. *)
SendAck(c) ==
  /\ pc[c] = "send_ack"
  /\ \E r \in LockOutcomes(count["ack"][Obj(c, "ack")], "INFINITE") :
       count' = IF r = "WQ_SIGNALED" THEN [count EXCEPT !["ack"][Obj(c, "ack")] = @ - 1] ELSE count
  /\ Goto(c, "open")
  /\ UNCHANGED <<bound, opens, made, segment, handle, pos, arg, calls, history>>
-----------------------------------------------------------------------------
(* WQIpc_owner_recv. *)

Recv(o, time) ==
  /\ pc[o] = "open"
  /\ Call(o)
  /\ arg' = [arg EXCEPT ![o].time = time]
  /\ Goto(o, "recv_lock")
  /\ UNCHANGED <<objects, handle, pos, history>>

(* The message that was handed out last is acknowledged and dropped. *)
RecvRelease(o) ==
  /\ pc[o] = "recv_release"
  /\ LET head == Seg(o).head IN
       IF Seg(o).reading[head]
       THEN /\ segment' = [segment EXCEPT ![Obj(o, "shm")] =
                 [Seg(o) EXCEPT !.sem_flag[head] = FALSE, !.reading[head] = FALSE,
                                !.head = q_iNext(@), !.used = @ - 1]]
            /\ count' = Posted(o, {"mutex", "writer"}
                                    \cup (IF Seg(o).sem_flag[head] THEN {"ack"} ELSE {}))
       ELSE count' = Posted(o, {"mutex"}) /\ UNCHANGED segment
  /\ Goto(o, "recv_wait")
  /\ UNCHANGED <<bound, opens, made, handle, pos, arg, calls, history>>

(* Waits for a message. *)
WrongRecvWait(o) ==
  /\ pc[o] = "recv_wait"
  /\ LET i == Obj(o, "reader") IN
       \E r \in LockOutcomes(count["reader"][i], arg[o].time) :
         /\ count' = IF r = "WQ_SIGNALED" THEN [count EXCEPT !["reader"][i] = @ - 1] ELSE count
         /\ Goto(o, IF r = "WQ_SIGNALED" THEN "recv_again"
                    ELSE IF arg[o].closing THEN "unlink" ELSE "open")
  /\ pos' = [pos EXCEPT ![o] = 1]
  /\ UNCHANGED <<bound, opens, made, segment, handle, arg, calls, history>>

(* The wait for a message, which is a wait for the mutex.  The receive     *)
(* returns when it fails, and it is the last one of a drain.               *)
RecvWait(o) ==
  /\ pc[o] = "recv_wait"
  /\ LET i == Obj(o, "mutex") IN
       \E r \in LockOutcomes(count["mutex"][i], arg[o].time) :
         /\ count' = IF r = "WQ_SIGNALED" THEN [count EXCEPT !["mutex"][i] = @ - 1] ELSE count
         /\ Goto(o, IF r = "WQ_SIGNALED" THEN "recv_again"
                    ELSE IF arg[o].closing THEN "unlink" ELSE "open")
  /\ pos' = [pos EXCEPT ![o] = 1]
  /\ UNCHANGED <<bound, opens, made, segment, handle, arg, calls, history>>

(* The message at the head is handed out, if there is one or not. *)
RecvTake(o) ==
  /\ pc[o] = "recv_take"
  /\ segment' = [segment EXCEPT ![Obj(o, "shm")].reading[Seg(o).head] = TRUE]
  /\ count' = Posted(o, {"mutex"})
  /\ leaks' = [leaks EXCEPT ![Obj(o, "mutex")] = @ + 1]
  /\ Goto(o, IF arg[o].closing THEN "recv_lock" ELSE "open")
  /\ UNCHANGED <<bound, opens, made, handle, pos, arg, calls, skipped>>
-----------------------------------------------------------------------------
(* WQIpc_close.  A client's changes nothing that others can see. *)

Close(p) ==
  /\ pc[p] = "open"
  /\ IF p \in Owners
     THEN Goto(p, "close_lock") /\ UNCHANGED handle
     ELSE Goto(p, "closed") /\ handle' = [handle EXCEPT ![p] = Nothing]
  /\ UNCHANGED <<objects, pos, arg, calls, history>>

(* Leaves the ring open. *)
WrongCloseState(o) ==
  /\ pc[o] = "close_state"
  /\ count' = Posted(o, {"mutex"})
  /\ arg' = [arg EXCEPT ![o].time = "finite", ![o].closing = TRUE]
  /\ Goto(o, "recv_lock")
  /\ UNCHANGED <<bound, opens, made, segment, handle, pos, calls, history>>

(* threshold: no more sends, then a drain. *)
CloseState(o) ==
  /\ pc[o] = "close_state"
  /\ segment' = [segment EXCEPT ![Obj(o, "shm")].state = 0]
  /\ count' = Posted(o, {"mutex"})
  /\ arg' = [arg EXCEPT ![o].time = "finite", ![o].closing = TRUE]
  /\ Goto(o, "recv_lock")
  /\ UNCHANGED <<bound, opens, made, handle, pos, calls, history>>

(* A semaphore's name is removed whatever it leads to, the segment only    *)
(* under its own number.                                                   *)
Unlink(o) ==
  /\ pc[o] = "unlink"
  /\ LET k == UnlinkOrder[pos[o]] IN
       bound' = IF k = "shm" /\ bound["shm"] # Obj(o, "shm") THEN bound
                ELSE [bound EXCEPT ![k] = NULL]
  /\ IF pos[o] < Len(UnlinkOrder)
     THEN pos' = [pos EXCEPT ![o] = @ + 1] /\ UNCHANGED <<pc, arg, handle>>
     ELSE /\ Goto(o, "closed")
          /\ handle' = [handle EXCEPT ![o] = Nothing]
          /\ arg' = [arg EXCEPT ![o].closing = FALSE] /\ UNCHANGED pos
  /\ UNCHANGED <<opens, made, count, segment, calls, history>>

(* A process dies; what it has locked stays locked, and its names remain.  *)
Crash(p) ==
  /\ MayCrash /\ pc[p] \notin {"closed", "dead"}
  /\ Goto(p, "dead")
  /\ leaks' = [leaks EXCEPT ![Obj(p, "mutex")] = @ + HeldBy(p)]
  /\ UNCHANGED <<objects, handle, pos, arg, calls, skipped>>
-----------------------------------------------------------------------------
(* A wait of time zero ends like a finite one that is not interrupted. *)
Times == {"finite", "INFINITE"}

OwnerStep(o) == \/ OwnerSegment(o) \/ Make(o) \/ Made(o) \/ RecvRelease(o) \/ RecvTake(o)
                \/ CloseState(o) \/ Unlink(o)
ClientStep(c) == ClientSegment(c) \/ Find(c) \/ Found(c) \/ SendClosed(c) \/ SendCopy(c)
Step(p) == Lock(p) \/ (p \in Owners /\ OwnerStep(p)) \/ (p \in Clients /\ ClientStep(p))
Wait(p) == \/ LockFails(p) \/ (p \in Owners /\ RecvWait(p))
           \/ (p \in Clients /\ (SendRefused(p) \/ SendLockWriter(p) \/ SendAck(p)))

Next ==
  /\ ~Race
  /\ \/ \E o \in Owners : OpenOwner(o) \/ \E time \in Times : Recv(o, time)
     \/ \E c \in Clients : Open(c) \/ \E time \in Times, block \in BOOLEAN : Send(c, time, block)
     \/ \E p \in Procs : Step(p) \/ Wait(p) \/ Close(p) \/ Crash(p)

Spec == Init /\ [][Next]_vars

(* A process inside a call keeps running, as long as it waits for nothing  *)
(* but the mutex; no wait has to fail.                                     *)
FairSpec == Spec /\ \A p \in Procs : WF_vars(~Race /\ Step(p))
-----------------------------------------------------------------------------
(* Properties *)

(* Every mutex is accounted for: it is free, locked by someone who will    *)
(* unlock it, or lost to a failed opening, a receive or a crash; every     *)
(* wait that was interrupted, and gone on from, makes one post too many.   *)
(* (And every variable has its type.)                                      *)
MutexAccounted ==
  /\ TypeOK
  /\ \A i \in 1 .. opens :
       LET holders(n) == {p \in Procs : Obj(p, "mutex") = i /\ HeldBy(p) = n}
       IN count["mutex"][i] + Cardinality(holders(1)) + 2 * Cardinality(holders(2)) + leaks[i]
            = 1 + skipped[i]

(* A client that is about to copy into a ring that is open uses that       *)
(* ring's own semaphores, even when owners close and open meanwhile, unless *)
(* its owner has taken a segment that it found.  (Its mutex, which is      *)
(* looked up before the segment, may be another's.)                        *)
OpenRingOwnSemaphores ==
  \A c \in Clients :
    pc[c] = "send_copy" /\ Seg(c).state = 1 /\ ~Seg(c).adopted
      => \A k \in {"reader", "writer", "ack"} : Obj(c, k) = Seg(c).ring

(* No slot is used twice: those that are free, reserved by a client and    *)
(* filled are at most the ring's, as long as no wait was interrupted and   *)
(* the segment is its owner's own.                                         *)
NoSlotTwice ==
  \A s \in SegIds :
    LET i == segment[s].ring
        reserved == {c \in Clients : Obj(c, "writer") = i /\ pc[c] \in {"send_lock", "send_copy"}}
    IN (i # NULL /\ ~segment[s].adopted /\ skipped[i] = 0)
         => /\ segment[s].used >= 0
            /\ count["writer"][i] + Cardinality(reserved) + segment[s].used <= Length

(* While a ring is open its names lead to it, however other owners open,   *)
(* fail or close: except for that of a segment that was found.             *)
OpenRingIsFound ==
  \A o \in Owners : pc[o] = "open"
    => \A k \in Kinds : bound[k] = Obj(o, k) \/ (k = "shm" /\ Seg(o).adopted)

(* WQIpc_owner_recv hands nothing out unless a wait for the mutex was      *)
(* interrupted: it locks the mutex twice.                                  *)
NothingReceived == \A o \in Owners : pc[o] = "recv_take" => skipped[Obj(o, "mutex")] > 0

(* A mutex that nobody will unlock. *)
Lost(i) == leaks[i] > 0 \/ \E o \in Owners : pc[o] = "recv_again" /\ Obj(o, "mutex") = i

(* A process waits for ever for the mutex only if an opening has failed, a *)
(* receive has locked it twice or a process has died holding it; or in a   *)
(* segment that two processes were in at once (Race), where nothing is     *)
(* said of what follows.                                                   *)
LockedUnlessLost ==
  \A p \in Procs : pc[p] \in LockPoints
    ~> (pc[p] \notin LockPoints \/ Lost(Obj(p, "mutex")) \/ Race)
=============================================================================
