------------------------------ MODULE WorkQueue ------------------------------
(***************************************************************************)
(* The local work queue of src/WQ.c: a ring of element_length slots, a     *)
(* mutex (q_sync), a semaphore that counts free slots (writer), one that   *)
(* counts messages to read (reader) and, in every slot, a semaphore (ack)  *)
(* on which a blocking sender waits until its message has been handled.    *)
(*                                                                         *)
(* Any number of threads call WQ_send; one thread calls WQ_recv (the       *)
(* host's thread, or WQ_close once that thread has been joined).  Between  *)
(* two semaphore operations a thread does nothing but one critical section *)
(* on q_sync, which contains no wait: every critical section is one        *)
(* action, and every semaphore operation is another.                       *)
(***************************************************************************)
EXTENDS Platform, Sequences, FiniteSets

CONSTANTS
  Senders,          \* the threads that call WQ_send
  BlockingSenders,  \* those of them that may pass WQ_SEND_FLAGS_BLOCK
  Length,           \* element_length
  MaxSends,         \* bound: calls of WQ_send per sender
  SendTimes,        \* the waiting times passed to WQ_send ...
  RecvTimes,        \* ... and to WQ_recv
  MayClose          \* FALSE: nobody calls WQ_close

ASSUME SendersAssumption == IsFiniteSet(Senders) /\ BlockingSenders \subseteq Senders
ASSUME LengthAssumption == Length \in Nat \ {0}
ASSUME MaxSendsAssumption == MaxSends \in Nat
ASSUME TimesAssumption == SendTimes \subseteq WaitTimes /\ RecvTimes \subseteq WaitTimes
ASSUME MayCloseAssumption == MayClose \in BOOLEAN

Slots == 0 .. Length - 1
NULL == Length                       \* no slot
Messages == Senders \X (1 .. MaxSends)
Zeroed == << >>                      \* a slot no message was copied into yet

VARIABLES
  head_cursor, tail_cursor,          \* struct WQ
  par, signaled, sema_ack,           \* per slot: the message, the two flags
  reader, writer, ack,               \* the semaphores; ack is one per slot
  spc,                               \* where a sender is in WQ_send
  stime, sblock, ack_sema,           \* its arguments and its local ack_sema
  calls,                             \* how often it has called WQ_send
  rpc, rtime,                        \* where the receiver is in WQ_recv
  life,                              \* open, or where WQ_close is
  sent, got, released                \* history: messages copied in, handed
                                     \* out, and the number dropped

ring == <<head_cursor, tail_cursor, par, signaled, sema_ack>>
sems == <<reader, writer, ack>>
sender == <<spc, stime, sblock, ack_sema, calls>>
receiver == <<rpc, rtime>>
history == <<sent, got, released>>
vars == <<ring, sems, sender, receiver, life, history>>

TypeOK ==
  /\ head_cursor \in Slots /\ tail_cursor \in Slots
  /\ par \in [Slots -> Messages \cup {Zeroed}]
  /\ signaled \in [Slots -> BOOLEAN] /\ sema_ack \in [Slots -> BOOLEAN]
  /\ reader \in Nat /\ writer \in Nat /\ ack \in [Slots -> Nat]
  /\ spc \in [Senders -> {"idle", "writer", "enqueue", "post", "ack"}]
  /\ stime \in [Senders -> WaitTimes] /\ sblock \in [Senders -> BOOLEAN]
  /\ ack_sema \in [Senders -> Slots \cup {NULL}]
  /\ calls \in [Senders -> 0 .. MaxSends]
  /\ rpc \in {"idle", "free", "reader", "take"} /\ rtime \in WaitTimes
  /\ life \in {"open", "closing", "drained", "freed"}
  /\ sent \in Seq(Messages) /\ got \in Seq(Messages \cup {Zeroed})
  /\ released \in Nat
  /\ \A s \in Senders : spc[s] = "ack" => ack_sema[s] \in Slots
  /\ \A s \in Senders : spc[s] # "idle" => calls[s] > 0

(* WQ_open, with memory zeroed by libwq_malloc. *)
Init ==
  /\ head_cursor = 0 /\ tail_cursor = 0
  /\ par = [i \in Slots |-> Zeroed]
  /\ signaled = [i \in Slots |-> FALSE] /\ sema_ack = [i \in Slots |-> FALSE]
  /\ reader = 0 /\ writer = Length /\ ack = [i \in Slots |-> 0]
  /\ spc = [s \in Senders |-> "idle"] /\ stime = [s \in Senders |-> "zero"]
  /\ sblock = [s \in Senders |-> FALSE] /\ ack_sema = [s \in Senders |-> NULL]
  /\ calls = [s \in Senders |-> 0]
  /\ rpc = "idle" /\ rtime = "zero"
  /\ life = "open"
  /\ sent = << >> /\ got = << >> /\ released = 0

(***************************************************************************)
(* Operators whose name begins with Wrong are faulty variants of the one   *)
(* that follows them; no action uses them.  Each is a mistake this code    *)
(* could contain that one of the properties below excludes.                *)
(***************************************************************************)

(* q_iNext: the cursor after this one. *)
q_iNext(cursor) == IF cursor + 1 >= Length THEN 0 ELSE cursor + 1

-----------------------------------------------------------------------------
(* WQ_send.  A queue that is being closed is a null pointer to new callers,*)
(* which return WQEINVAL at once; callers already inside go on.            *)

SendCall(s, time, block) ==
  /\ life = "open"
  /\ spc[s] = "idle" /\ calls[s] < MaxSends
  /\ block => s \in BlockingSenders
  /\ calls' = [calls EXCEPT ![s] = @ + 1]
  /\ stime' = [stime EXCEPT ![s] = time]
  /\ sblock' = [sblock EXCEPT ![s] = block]
  /\ ack_sema' = [ack_sema EXCEPT ![s] = NULL]
  /\ spc' = [spc EXCEPT ![s] = "writer"]
  /\ UNCHANGED <<ring, sems, receiver, life, history>>

(* Goes on after a wait that timed out. *)
WrongGoOn(s) ==
  /\ life # "freed" /\ spc[s] = "writer"
  /\ LockOutcomes(writer, stime[s]) \ {"WQ_SIGNALED"} # {}
  /\ spc' = [spc EXCEPT ![s] = "enqueue"]
  /\ UNCHANGED <<ring, sems, stime, sblock, ack_sema, calls, receiver, life, history>>

(* No free slot in time: WQ_send returns the error. *)
SendRefused(s) ==
  /\ life # "freed"
  /\ spc[s] = "writer"
  /\ LockOutcomes(writer, stime[s]) \ {"WQ_SIGNALED"} # {}
  /\ spc' = [spc EXCEPT ![s] = "idle"]
  /\ UNCHANGED <<ring, sems, stime, sblock, ack_sema, calls, receiver, life, history>>

SendLockWriter(s) ==
  /\ life # "freed"
  /\ spc[s] = "writer"
  /\ "WQ_SIGNALED" \in LockOutcomes(writer, stime[s])
  /\ writer' = writer - 1
  /\ spc' = [spc EXCEPT ![s] = "enqueue"]
  /\ UNCHANGED <<ring, reader, ack, stime, sblock, ack_sema, calls, receiver, life, history>>

(* Moves the tail first and copies into the slot it has moved to. *)
WrongOrder(s) ==
  /\ life # "freed" /\ spc[s] = "enqueue"
  /\ tail_cursor' = q_iNext(tail_cursor)
  /\ par' = [par EXCEPT ![q_iNext(tail_cursor)] = <<s, calls[s]>>]
  /\ sema_ack' = [sema_ack EXCEPT ![tail_cursor] = @ \/ sblock[s]]
  /\ ack_sema' = [ack_sema EXCEPT ![s] = IF sblock[s] THEN tail_cursor ELSE NULL]
  /\ sent' = Append(sent, <<s, calls[s]>>)
  /\ spc' = [spc EXCEPT ![s] = "post"]
  /\ UNCHANGED <<head_cursor, signaled, sems, stime, sblock, calls, receiver, life, got, released>>

(* The critical section: copy the message into the slot at the tail. *)
SendEnqueue(s) ==
  /\ life # "freed"
  /\ spc[s] = "enqueue"
  /\ par' = [par EXCEPT ![tail_cursor] = <<s, calls[s]>>]
  /\ sema_ack' = [sema_ack EXCEPT ![tail_cursor] = @ \/ sblock[s]]
  /\ ack_sema' = [ack_sema EXCEPT ![s] = IF sblock[s] THEN tail_cursor ELSE NULL]
  /\ tail_cursor' = q_iNext(tail_cursor)
  /\ sent' = Append(sent, <<s, calls[s]>>)
  /\ spc' = [spc EXCEPT ![s] = "post"]
  /\ UNCHANGED <<head_cursor, signaled, sems, stime, sblock, calls, receiver, life, got, released>>

(* A reader semaphore that counts to one, the maximum syncs_create asks for. *)
WrongBinaryPost(s) ==
  /\ life # "freed" /\ spc[s] = "post"
  /\ reader' = 1
  /\ spc' = [spc EXCEPT ![s] = IF ack_sema[s] = NULL THEN "idle" ELSE "ack"]
  /\ UNCHANGED <<ring, writer, ack, stime, sblock, ack_sema, calls, receiver, life, history>>

SendPost(s) ==
  /\ life # "freed"
  /\ spc[s] = "post"
  /\ reader' = reader + 1
  /\ spc' = [spc EXCEPT ![s] = IF ack_sema[s] = NULL THEN "idle" ELSE "ack"]
  /\ UNCHANGED <<ring, writer, ack, stime, sblock, ack_sema, calls, receiver, life, history>>

(* A blocking send waits on the ack of its slot; WQ_send ignores the       *)
(* result of this wait, so an interrupted one returns WQ_SIGNALED as well. *)
SendAck(s) ==
  /\ life # "freed"
  /\ spc[s] = "ack"
  /\ \E r \in LockOutcomes(ack[ack_sema[s]], "INFINITE") :
       ack' = [ack EXCEPT ![ack_sema[s]] = IF r = "WQ_SIGNALED" THEN @ - 1 ELSE @]
  /\ spc' = [spc EXCEPT ![s] = "idle"]
  /\ UNCHANGED <<ring, reader, writer, stime, sblock, ack_sema, calls, receiver, life, history>>

-----------------------------------------------------------------------------
(* WQ_recv.  WQ_close's drain calls it with a finite time. *)

CallTimes == IF life = "open" THEN RecvTimes ELSE {"finite"}

(* First critical section, no message is held. *)
RecvNothingHeld(time) ==
  /\ life \in {"open", "closing"} /\ rpc = "idle"
  /\ ~signaled[head_cursor]
  /\ rpc' = "reader" /\ rtime' = time
  /\ UNCHANGED <<ring, sems, sender, life, history>>

(* Does not clear ELEMENT_FLAGS_SEMA_ACK. *)
WrongKeepFlag(time) ==
  /\ life \in {"open", "closing"} /\ rpc = "idle" /\ signaled[head_cursor]
  /\ ack' = [ack EXCEPT ![head_cursor] = IF sema_ack[head_cursor] THEN @ + 1 ELSE @]
  /\ signaled' = [signaled EXCEPT ![head_cursor] = FALSE]
  /\ head_cursor' = q_iNext(head_cursor)
  /\ released' = released + 1
  /\ rpc' = "free" /\ rtime' = time
  /\ UNCHANGED <<tail_cursor, par, sema_ack, reader, writer, sender, life, sent, got>>

(* Acknowledges nobody. *)
WrongSilent(time) ==
  /\ life \in {"open", "closing"} /\ rpc = "idle" /\ signaled[head_cursor]
  /\ sema_ack' = [sema_ack EXCEPT ![head_cursor] = FALSE]
  /\ signaled' = [signaled EXCEPT ![head_cursor] = FALSE]
  /\ head_cursor' = q_iNext(head_cursor)
  /\ released' = released + 1
  /\ rpc' = "free" /\ rtime' = time
  /\ UNCHANGED <<tail_cursor, par, ack, reader, writer, sender, life, sent, got>>

(* First critical section, the held message has been handled: acknowledge  *)
(* it if its sender asked for that, and drop it.                           *)
RecvRelease(time) ==
  /\ life \in {"open", "closing"} /\ rpc = "idle"
  /\ signaled[head_cursor]
  /\ ack' = [ack EXCEPT ![head_cursor] = IF sema_ack[head_cursor] THEN @ + 1 ELSE @]
  /\ sema_ack' = [sema_ack EXCEPT ![head_cursor] = FALSE]
  /\ signaled' = [signaled EXCEPT ![head_cursor] = FALSE]
  /\ head_cursor' = q_iNext(head_cursor)
  /\ released' = released + 1
  /\ rpc' = "free" /\ rtime' = time
  /\ UNCHANGED <<tail_cursor, par, reader, writer, sender, life, sent, got>>

(* Forgets the post. *)
WrongLeak ==
  /\ life # "freed" /\ rpc = "free"
  /\ rpc' = "reader"
  /\ UNCHANGED <<ring, sems, sender, rtime, life, history>>

RecvFree ==
  /\ life # "freed"
  /\ rpc = "free"
  /\ writer' = writer + 1
  /\ rpc' = "reader"
  /\ UNCHANGED <<ring, reader, ack, sender, rtime, life, history>>

RecvLockReader ==
  /\ life # "freed"
  /\ rpc = "reader"
  /\ "WQ_SIGNALED" \in LockOutcomes(reader, rtime)
  /\ reader' = reader - 1
  /\ rpc' = "take"
  /\ UNCHANGED <<ring, writer, ack, sender, rtime, life, history>>

(* No message in time: WQ_recv returns the error, which ends WQ_close's    *)
(* drain.                                                                  *)
RecvRefused ==
  /\ life # "freed"
  /\ rpc = "reader"
  /\ LockOutcomes(reader, rtime) \ {"WQ_SIGNALED"} # {}
  /\ rpc' = "idle"
  /\ life' = IF life = "closing" THEN "drained" ELSE life
  /\ UNCHANGED <<ring, sems, sender, rtime, history>>

(* Gives the slot back as soon as it is handed out. *)
WrongFreeEarly ==
  /\ life # "freed" /\ rpc = "take"
  /\ signaled' = [signaled EXCEPT ![head_cursor] = TRUE]
  /\ got' = Append(got, par[head_cursor])
  /\ writer' = writer + 1
  /\ rpc' = "idle"
  /\ UNCHANGED <<head_cursor, tail_cursor, par, sema_ack, reader, ack, sender, rtime, life, sent, released>>

(* Acknowledges the message when it is handed out, not when it is handled. *)
WrongAckEarly ==
  /\ life # "freed" /\ rpc = "take"
  /\ signaled' = [signaled EXCEPT ![head_cursor] = TRUE]
  /\ got' = Append(got, par[head_cursor])
  /\ ack' = [ack EXCEPT ![head_cursor] = IF sema_ack[head_cursor] THEN @ + 1 ELSE @]
  /\ sema_ack' = [sema_ack EXCEPT ![head_cursor] = FALSE]
  /\ rpc' = "idle"
  /\ UNCHANGED <<head_cursor, tail_cursor, par, reader, writer, sender, rtime, life, sent, released>>

(* Drains a single message (threshold without its loop). *)
WrongDrainOne ==
  /\ life # "freed" /\ rpc = "take"
  /\ signaled' = [signaled EXCEPT ![head_cursor] = TRUE]
  /\ got' = Append(got, par[head_cursor])
  /\ rpc' = "idle"
  /\ life' = IF life = "closing" THEN "drained" ELSE life
  /\ UNCHANGED <<head_cursor, tail_cursor, par, sema_ack, sems, sender, rtime, sent, released>>

(* Second critical section: hand out the slot at the head. *)
RecvTake ==
  /\ life # "freed"
  /\ rpc = "take"
  /\ signaled' = [signaled EXCEPT ![head_cursor] = TRUE]
  /\ got' = Append(got, par[head_cursor])
  /\ rpc' = "idle"
  /\ UNCHANGED <<head_cursor, tail_cursor, par, sema_ack, sems, sender, rtime, life, sent, released>>

-----------------------------------------------------------------------------
(* WQ_close, called by host_cleanup when the receiving thread has ended. *)

Close ==
  /\ MayClose /\ life = "open" /\ rpc = "idle"
  /\ life' = "closing"
  /\ UNCHANGED <<ring, sems, sender, receiver, history>>

(* After resource_free nothing of the queue is left: a thread still inside *)
(* WQ_send then works on freed memory, and the model does not follow it.   *)
ResourceFree ==
  /\ life = "drained"
  /\ life' = "freed"
  /\ UNCHANGED <<ring, sems, sender, receiver, history>>

SendStep(s) == \/ SendRefused(s) \/ SendLockWriter(s) \/ SendEnqueue(s)
               \/ SendPost(s) \/ SendAck(s)
RecvStep == \/ \E time \in CallTimes : RecvNothingHeld(time) \/ RecvRelease(time)
            \/ RecvFree \/ RecvLockReader \/ RecvRefused \/ RecvTake

Next == \/ \E s \in Senders, time \in SendTimes, block \in BOOLEAN : SendCall(s, time, block)
        \/ \E s \in Senders : SendStep(s)
        \/ RecvStep \/ Close \/ ResourceFree

Spec == Init /\ [][Next]_vars

(* A thread inside WQ_send keeps running, and the receiver keeps calling   *)
(* WQ_recv, as host_start_routine's loop does.                             *)
FairSpec == Spec /\ (\A s \in Senders : WF_vars(SendStep(s))) /\ WF_vars(RecvStep)
-----------------------------------------------------------------------------
(* Properties *)

Enqueueing == {s \in Senders : spc[s] = "enqueue"}
Posting == {s \in Senders : spc[s] = "post"}
AwaitingAck(i) == {s \in Senders : spc[s] \in {"post", "ack"} /\ ack_sema[s] = i}
One(b) == IF b THEN 1 ELSE 0

(* The number of messages in the ring, the held one included, and the slot *)
(* of the one that is k places behind the head.                            *)
Queued == Len(sent) - released
Pos(k) == IF head_cursor + k < Length THEN head_cursor + k ELSE head_cursor + k - Length

(* Messages are handed out in the order in which the senders copied them   *)
(* in, each exactly once: WQ_recv's head_cursor never overtakes or loses a *)
(* message of WQ_send.                                                     *)
FIFODelivery == /\ Len(got) <= Len(sent)
                /\ \A k \in 1 .. Len(got) : got[k] = sent[k]

(* The pointer WQ_recv returned is used until the next WQ_recv; no sender  *)
(* writes to that slot meanwhile.                                          *)
HeldMessageIntact ==
  /\ \A i \in Slots : signaled[i] => i = head_cursor
  /\ signaled[head_cursor] => got # << >> /\ par[head_cursor] = got[Len(got)]

(* From the head to the tail the ring holds exactly the messages that were *)
(* copied in and not yet dropped, and at most element_length of them.      *)
RingHoldsQueue ==
  /\ 0 <= Queued /\ Queued <= Length
  /\ tail_cursor = Pos(Queued)
  /\ \A k \in 1 .. Queued : par[Pos(k - 1)] = sent[released + k]

(* No lost wakeup: a message not yet handed out is counted by the reader   *)
(* semaphore, unless its sender is still to post it or the receiver has    *)
(* taken its count and is about to hand it out.                            *)
EveryMessageAnnounced ==
  Len(sent) - Len(got) = reader + Cardinality(Posting) + One(rpc = "take")

(* No slot leaks: each of the element_length slots is counted by the       *)
(* writer semaphore, reserved by a sender, about to be given back by the   *)
(* receiver, or holds a message.                                           *)
EverySlotAccounted ==
  Length = writer + Cardinality(Enqueueing) + One(rpc = "free") + Queued

(* Nobody waits for an acknowledgement that cannot come: for every slot    *)
(* the posts of its ack, plus the one the message in the slot still owes,  *)
(* cover the blocking senders that wait on it; there is a surplus only if  *)
(* a wait was interrupted.                                                 *)
EveryAckComes ==
  \A i \in Slots :
    /\ Cardinality(AwaitingAck(i)) <= ack[i] + One(sema_ack[i])
    /\ ~Interrupts => Cardinality(AwaitingAck(i)) = ack[i] + One(sema_ack[i])

(* The invariant that makes the ones above inductive: only the slot at the *)
(* head can be held, what was handed out is what was dropped plus the held *)
(* message, and nothing is held while WQ_recv runs past its first part;    *)
(* only a slot whose message is still in the ring owes an acknowledgement. *)
OnlyHeadHeld ==
  /\ Len(got) = released + One(signaled[head_cursor])
  /\ \A i \in Slots : signaled[i] => i = head_cursor
  /\ rpc # "idle" => ~signaled[head_cursor]

OnlyQueuedOweAck == \A i \in Slots : sema_ack[i] => \E k \in 1 .. Queued : i = Pos(k - 1)

IInv == /\ TypeOK /\ EverySlotAccounted /\ EveryMessageAnnounced
        /\ OnlyHeadHeld /\ RingHoldsQueue /\ FIFODelivery
        /\ OnlyQueuedOweAck /\ EveryAckComes

(* WQ_close's drain gives up on the first empty wait; unless a signal      *)
(* interrupts it, it leaves behind only messages whose senders have not    *)
(* posted them yet.                                                        *)
DrainLeavesOnlyUnposted ==
  [][life = "closing" /\ life' = "drained" /\ ~Interrupts
       => Len(sent) - Len(got) = Cardinality(Posting)]_vars

Handled(s) == \E k \in 1 .. released : sent[k] = <<s, calls[s]>>

(* A blocking send returns only after the receiver has handled (dropped)   *)
(* its message.                                                            *)
SynchronousSend ==
  [][\A s \in Senders :
       spc[s] = "ack" /\ spc'[s] = "idle"
         => Handled(s)]_vars

(* The ack semaphore belongs to the slot, not to the message: a blocking   *)
(* send can return while its message is still unread, but then only on the *)
(* acknowledgement of another blocking send that still waits on the same   *)
(* slot and whose own message was handled.                                 *)
EarlyReturnsAreExchanged ==
  [][\A s \in Senders :
       spc[s] = "ack" /\ spc'[s] = "idle" /\ ~Interrupts
         => Handled(s) \/ \E u \in AwaitingAck(ack_sema[s]) \ {s} : Handled(u)]_vars

(* Every call of WQ_send returns: a full queue is emptied, and an          *)
(* acknowledgement is posted.                                              *)
EverySendReturns == \A s \in Senders : spc[s] # "idle" ~> spc[s] = "idle"

(* Every message that was copied into the ring is handed to the receiver.  *)
EveryMessageDelivered ==
  \A n \in 1 .. Cardinality(Senders) * MaxSends : Len(sent) >= n ~> Len(got) >= n

(* The ring implements the bounded FIFO: the queue is what the ring holds  *)
(* from its head on.                                                       *)
Contents == [k \in 1 .. Queued |-> par[Pos(k - 1)]]

Fifo == INSTANCE BoundedFifo WITH
          Capacity <- Length,
          queue <- Contents,
          held <- signaled[head_cursor],
          delivered <- got

FifoSpec == Fifo!Spec

(* ... and, with a receiver that keeps receiving, it hands out whatever is *)
(* put into it.                                                            *)
FifoFairSpec == Fifo!FairSpec
=============================================================================
