----------------------------- MODULE BoundedFifo -----------------------------
(***************************************************************************)
(* What a local work queue (src/WQ.c) promises its users: a FIFO of at     *)
(* most Capacity messages with one consumer.  The consumer reads a message *)
(* in place: WQ_recv hands out a pointer to the message at the head, which *)
(* stays in the queue, held, until the next WQ_recv drops it.  A held      *)
(* message therefore still occupies one of the Capacity places.            *)
(***************************************************************************)
EXTENDS Naturals, Sequences

CONSTANTS Messages,   \* what a producer may put in the queue
          Capacity    \* WQ_open's "length"

VARIABLES queue,      \* the messages in the queue, oldest first
          held,       \* TRUE while the consumer reads the oldest one in place
          delivered   \* every message handed to the consumer so far, in order

vars == <<queue, held, delivered>>

TypeOK == /\ queue \in Seq(Messages)
          /\ held \in BOOLEAN
          /\ delivered \in Seq(Messages)

Init == /\ queue = << >>
        /\ held = FALSE
        /\ delivered = << >>

(* WQ_send: the message is appended if there is a free place. *)
Put(m) == /\ Len(queue) < Capacity
          /\ queue' = Append(queue, m)
          /\ UNCHANGED <<held, delivered>>

(* The first half of WQ_recv: the message read so far leaves the queue. *)
Drop == /\ held
        /\ held' = FALSE
        /\ queue' = Tail(queue)
        /\ UNCHANGED delivered

(* The second half of WQ_recv: the oldest message is handed out in place. *)
Get == /\ ~held
       /\ queue # << >>
       /\ held' = TRUE
       /\ delivered' = Append(delivered, Head(queue))
       /\ UNCHANGED queue

Next == Drop \/ Get \/ \E m \in Messages : Put(m)

Spec == Init /\ [][Next]_vars

(* The consumer keeps calling WQ_recv (host_start_routine's loop); nobody  *)
(* has to send.                                                            *)
FairSpec == Spec /\ WF_vars(Drop) /\ WF_vars(Get)
=============================================================================
