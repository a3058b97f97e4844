--------------------------- MODULE WorkQueueProofs ---------------------------
(***************************************************************************)
(* Proofs about WorkQueue, for any set of senders, any ring length, any    *)
(* number of calls and any waiting times.                                  *)
(***************************************************************************)
EXTENDS WorkQueue, Integers, FiniteSetTheorems, SequenceTheorems, TLAPS

USE LengthAssumption, MaxSendsAssumption

(* The cursor arithmetic stays inside the ring. *)
LEMMA NextInSlots == ASSUME NEW i \in Slots PROVE q_iNext(i) \in Slots
  BY DEF Slots, q_iNext

(* Type correctness: WQ.c keeps its cursors inside the ring, never takes a *)
(* semaphore below zero, and waits for an acknowledgement only on a slot.  *)
LEMMA TypingInit == Init => TypeOK
  BY TimesAssumption DEF Init, TypeOK, Slots, WaitTimes, NULL

LEMMA TypingNext == TypeOK /\ [Next]_vars => TypeOK'
<1> SUFFICES ASSUME TypeOK, [Next]_vars PROVE TypeOK'
  OBVIOUS
<1> USE DEF TypeOK
<1>1. ASSUME NEW s \in Senders, NEW time \in SendTimes, NEW block \in BOOLEAN,
             SendCall(s, time, block)
      PROVE  TypeOK'
  <2>1. time \in WaitTimes
    BY TimesAssumption
  <2> QED
    BY <1>1, <2>1 DEF SendCall, ring, sems, receiver, history
<1>2. ASSUME NEW s \in Senders, SendRefused(s) PROVE TypeOK'
  BY <1>2 DEF SendRefused, ring, sems, receiver, history
<1>3. ASSUME NEW s \in Senders, SendLockWriter(s) PROVE TypeOK'
  BY <1>3 DEF SendLockWriter, LockOutcomes, ring, receiver, history
<1>4. ASSUME NEW s \in Senders, SendEnqueue(s) PROVE TypeOK'
  <2>1. <<s, calls[s]>> \in Messages
    <3>1. calls[s] \in 0 .. MaxSends /\ calls[s] > 0
      BY <1>4 DEF SendEnqueue
    <3>2. calls[s] \in 1 .. MaxSends
      BY <3>1
    <3> QED
      BY <3>2 DEF Messages
  <2>2. tail_cursor' \in Slots
    BY <1>4, NextInSlots DEF SendEnqueue
  <2> QED
    BY <1>4, <2>1, <2>2 DEF SendEnqueue, sems, receiver
<1>5. ASSUME NEW s \in Senders, SendPost(s) PROVE TypeOK'
  BY <1>5 DEF SendPost, ring, receiver, history
<1>6. ASSUME NEW s \in Senders, SendAck(s) PROVE TypeOK'
  <2>1. ack' \in [Slots -> Nat]
    BY <1>6 DEF SendAck, LockOutcomes
  <2> QED
    BY <1>6, <2>1 DEF SendAck, ring, receiver, history
<1>7. ASSUME NEW time \in CallTimes, RecvNothingHeld(time) PROVE TypeOK'
  <2>1. time \in WaitTimes
    BY TimesAssumption DEF CallTimes, WaitTimes
  <2> QED
    BY <1>7, <2>1 DEF RecvNothingHeld, ring, sems, sender, history
<1>8. ASSUME NEW time \in CallTimes, RecvRelease(time) PROVE TypeOK'
  <2>1. time \in WaitTimes
    BY TimesAssumption DEF CallTimes, WaitTimes
  <2>2. head_cursor' \in Slots
    BY <1>8, NextInSlots DEF RecvRelease
  <2> QED
    BY <1>8, <2>1, <2>2 DEF RecvRelease, sender
<1>9. CASE RecvFree
  BY <1>9 DEF RecvFree, ring, sender, history
<1>10. CASE RecvLockReader
  BY <1>10 DEF RecvLockReader, LockOutcomes, ring, sender, history
<1>11. CASE RecvRefused
  BY <1>11 DEF RecvRefused, ring, sems, sender, history
<1>12. CASE RecvTake
  BY <1>12 DEF RecvTake, sems, sender
<1>13. CASE Close
  BY <1>13 DEF Close, ring, sems, sender, receiver, history
<1>14. CASE ResourceFree
  BY <1>14 DEF ResourceFree, ring, sems, sender, receiver, history
<1>15. CASE UNCHANGED vars
  BY <1>15 DEF vars, ring, sems, sender, receiver, history
<1> QED
  BY <1>1, <1>2, <1>3, <1>4, <1>5, <1>6, <1>7, <1>8, <1>9, <1>10, <1>11, <1>12,
     <1>13, <1>14, <1>15 DEF Next, SendStep, RecvStep

THEOREM Typing == Spec => []TypeOK
  BY TypingInit, TypingNext, PTL DEF Spec
-----------------------------------------------------------------------------
(* Counting senders: at most finitely many are anywhere, and a sender that *)
(* moves leaves one of the counted sets and enters another.                *)

LEMMA CountedSets ==
  ASSUME TypeOK
  PROVE  /\ IsFiniteSet(Enqueueing) /\ Cardinality(Enqueueing) \in Nat
         /\ IsFiniteSet(Posting) /\ Cardinality(Posting) \in Nat
  BY SendersAssumption, FS_Subset, FS_CardinalityType DEF Enqueueing, Posting

LEMMA CountEntered ==
  ASSUME NEW S, IsFiniteSet(S), NEW x
  PROVE  Cardinality(S \cup {x}) = Cardinality(S) + 1 - One(x \in S)
  BY FS_CardinalityType, FS_AddElement DEF One

LEMMA CountLeft ==
  ASSUME NEW S, IsFiniteSet(S), NEW x
  PROVE  Cardinality(S \ {x}) = Cardinality(S) - One(x \in S)
  BY FS_CardinalityType, FS_RemoveElement DEF One

LEMMA MoveSender ==
  ASSUME TypeOK, NEW s \in Senders, spc' = [spc EXCEPT ![s] = spc'[s]]
  PROVE  /\ Cardinality(Enqueueing') =
              Cardinality(Enqueueing) + One(spc'[s] = "enqueue") - One(spc[s] = "enqueue")
         /\ Cardinality(Posting') =
              Cardinality(Posting) + One(spc'[s] = "post") - One(spc[s] = "post")
<1>1. IsFiniteSet(Enqueueing) /\ IsFiniteSet(Posting)
  BY CountedSets
<1>2. /\ s \in Enqueueing <=> spc[s] = "enqueue"
      /\ s \in Posting <=> spc[s] = "post"
  BY DEF Enqueueing, Posting
<1>3. Enqueueing' = IF spc'[s] = "enqueue" THEN Enqueueing \cup {s} ELSE Enqueueing \ {s}
  BY DEF Enqueueing, TypeOK
<1>4. Posting' = IF spc'[s] = "post" THEN Posting \cup {s} ELSE Posting \ {s}
  BY DEF Posting, TypeOK
<1>5. Cardinality(Enqueueing') =
        Cardinality(Enqueueing) + One(spc'[s] = "enqueue") - One(s \in Enqueueing)
  BY <1>1, <1>2, <1>3, CountEntered, CountLeft, CountedSets DEF One
<1>6. Cardinality(Posting') =
        Cardinality(Posting) + One(spc'[s] = "post") - One(s \in Posting)
  BY <1>1, <1>2, <1>4, CountEntered, CountLeft, CountedSets DEF One
<1> QED
  BY <1>2, <1>5, <1>6 DEF One

(* The same for each action of a sender. *)
LEMMA SenderCounts ==
  ASSUME TypeOK, NEW s \in Senders
  PROVE  LET e == Cardinality(Enqueueing)
             p == Cardinality(Posting)
         IN  /\ (\E time \in SendTimes, block \in BOOLEAN : SendCall(s, time, block))
                  => e' = e /\ p' = p
             /\ SendRefused(s) => e' = e /\ p' = p
             /\ SendLockWriter(s) => e' = e + 1 /\ p' = p
             /\ SendEnqueue(s) => e' = e - 1 /\ p' = p + 1
             /\ SendPost(s) => e' = e /\ p' = p - 1
             /\ SendAck(s) => e' = e /\ p' = p
<1> DEFINE e == Cardinality(Enqueueing)
           p == Cardinality(Posting)
<1>1. Cardinality(Enqueueing) \in Nat /\ Cardinality(Posting) \in Nat
  BY CountedSets
<1>2. ASSUME spc' = [spc EXCEPT ![s] = spc'[s]]
      PROVE  /\ e' = e + One(spc'[s] = "enqueue") - One(spc[s] = "enqueue")
             /\ p' = p + One(spc'[s] = "post") - One(spc[s] = "post")
  BY <1>1, <1>2, MoveSender DEF One
<1>3. ASSUME NEW time \in SendTimes, NEW block \in BOOLEAN, SendCall(s, time, block)
      PROVE  e' = e /\ p' = p
  <2>1. spc[s] = "idle" /\ spc'[s] = "writer" /\ spc' = [spc EXCEPT ![s] = spc'[s]]
    BY <1>3 DEF SendCall, TypeOK
  <2> QED
    BY <1>1, <1>2, <2>1 DEF One
<1>4. ASSUME SendRefused(s) PROVE e' = e /\ p' = p
  <2>1. spc[s] = "writer" /\ spc'[s] = "idle" /\ spc' = [spc EXCEPT ![s] = spc'[s]]
    BY <1>4 DEF SendRefused, TypeOK
  <2> QED
    BY <1>1, <1>2, <2>1 DEF One
<1>5. ASSUME SendLockWriter(s) PROVE e' = e + 1 /\ p' = p
  <2>1. spc[s] = "writer" /\ spc'[s] = "enqueue" /\ spc' = [spc EXCEPT ![s] = spc'[s]]
    BY <1>5 DEF SendLockWriter, TypeOK
  <2> QED
    BY <1>1, <1>2, <2>1 DEF One
<1>6. ASSUME SendEnqueue(s) PROVE e' = e - 1 /\ p' = p + 1
  <2>1. spc[s] = "enqueue" /\ spc'[s] = "post" /\ spc' = [spc EXCEPT ![s] = spc'[s]]
    BY <1>6 DEF SendEnqueue, TypeOK
  <2> QED
    BY <1>1, <1>2, <2>1 DEF One
<1>7. ASSUME SendPost(s) PROVE e' = e /\ p' = p - 1
  <2>1. /\ spc[s] = "post" /\ spc'[s] \in {"idle", "ack"}
        /\ spc' = [spc EXCEPT ![s] = spc'[s]]
    BY <1>7 DEF SendPost, TypeOK
  <2> QED
    BY <1>1, <1>2, <2>1 DEF One
<1>8. ASSUME SendAck(s) PROVE e' = e /\ p' = p
  <2>1. spc[s] = "ack" /\ spc'[s] = "idle" /\ spc' = [spc EXCEPT ![s] = spc'[s]]
    BY <1>8 DEF SendAck, TypeOK
  <2> QED
    BY <1>1, <1>2, <2>1 DEF One
<1> QED
  BY <1>3, <1>4, <1>5, <1>6, <1>7, <1>8

LEMMA NobodyMoves ==
  ASSUME UNCHANGED spc
  PROVE  /\ Cardinality(Enqueueing') = Cardinality(Enqueueing)
         /\ Cardinality(Posting') = Cardinality(Posting)
  BY DEF Enqueueing, Posting
-----------------------------------------------------------------------------
(* Every slot is accounted for: free and counted by the writer semaphore,  *)
(* reserved by a sender, being given back by the receiver, or in use.      *)

LEMMA SlotAccountedInit == Init => EverySlotAccounted
<1> SUFFICES ASSUME Init PROVE EverySlotAccounted
  OBVIOUS
<1>1. Enqueueing = {}
  BY DEF Init, Enqueueing
<1>2. Cardinality(Enqueueing) = 0
  BY <1>1, FS_EmptySet
<1> QED
  BY <1>2 DEF Init, EverySlotAccounted, Queued, One

LEMMA SlotAccountedNext == TypeOK /\ EverySlotAccounted /\ [Next]_vars => EverySlotAccounted'
<1> SUFFICES ASSUME TypeOK, EverySlotAccounted, [Next]_vars PROVE EverySlotAccounted'
  OBVIOUS
<1> DEFINE n == Cardinality(Enqueueing)
<1>0. /\ n \in Nat /\ writer \in Nat /\ released \in Nat /\ Len(sent) \in Nat
      /\ sent \in Seq(Messages)
      /\ Length = writer + n + One(rpc = "free") + (Len(sent) - released)
  BY CountedSets DEF TypeOK, EverySlotAccounted, Queued
<1>goal. ASSUME Length = writer' + n' + One(rpc' = "free") + (Len(sent') - released')
         PROVE  EverySlotAccounted'
  BY <1>goal DEF EverySlotAccounted, Queued
<1>same. ASSUME UNCHANGED <<writer, sent, released, spc>>, rpc' = "free" <=> rpc = "free"
         PROVE  EverySlotAccounted'
  BY <1>same, <1>0, <1>goal, NobodyMoves DEF One
<1>1. ASSUME NEW s \in Senders, NEW time \in SendTimes, NEW block \in BOOLEAN,
             SendCall(s, time, block)
      PROVE  EverySlotAccounted'
  <2>1. n' = n
    BY <1>1, <1>0, SenderCounts
  <2> QED
    BY <1>1, <1>0, <1>goal, <2>1 DEF SendCall, sems, receiver, history, One
<1>2. ASSUME NEW s \in Senders, SendRefused(s) PROVE EverySlotAccounted'
  <2>1. n' = n
    BY <1>2, <1>0, SenderCounts
  <2> QED
    BY <1>2, <1>0, <1>goal, <2>1 DEF SendRefused, sems, receiver, history, One
<1>3. ASSUME NEW s \in Senders, SendLockWriter(s) PROVE EverySlotAccounted'
  <2>1. n' = n + 1
    BY <1>3, <1>0, SenderCounts
  <2> QED
    BY <1>3, <1>0, <1>goal, <2>1 DEF SendLockWriter, receiver, history, One
<1>4. ASSUME NEW s \in Senders, SendEnqueue(s) PROVE EverySlotAccounted'
  <2>1. n' = n - 1
    BY <1>4, <1>0, SenderCounts
  <2>2. Len(sent') = Len(sent) + 1
    BY <1>4, <1>0 DEF SendEnqueue
  <2> QED
    BY <1>4, <1>0, <1>goal, <2>1, <2>2 DEF SendEnqueue, sems, receiver, One
<1>5. ASSUME NEW s \in Senders, SendPost(s) PROVE EverySlotAccounted'
  <2>1. n' = n
    BY <1>5, <1>0, SenderCounts
  <2> QED
    BY <1>5, <1>0, <1>goal, <2>1 DEF SendPost, receiver, history, One
<1>6. ASSUME NEW s \in Senders, SendAck(s) PROVE EverySlotAccounted'
  <2>1. n' = n
    BY <1>6, <1>0, SenderCounts
  <2> QED
    BY <1>6, <1>0, <1>goal, <2>1 DEF SendAck, receiver, history, One
<1>7. ASSUME NEW time \in CallTimes, RecvNothingHeld(time) PROVE EverySlotAccounted'
  BY <1>7, <1>same DEF RecvNothingHeld, sems, sender, history
<1>8. ASSUME NEW time \in CallTimes, RecvRelease(time) PROVE EverySlotAccounted'
  BY <1>8, <1>0, <1>goal, NobodyMoves DEF RecvRelease, sender, One
<1>9. CASE RecvFree
  BY <1>9, <1>0, <1>goal, NobodyMoves DEF RecvFree, sender, history, One
<1>10. CASE RecvLockReader
  BY <1>10, <1>same DEF RecvLockReader, sender, history
<1>11. CASE RecvRefused
  BY <1>11, <1>same DEF RecvRefused, sems, sender, history
<1>12. CASE RecvTake
  BY <1>12, <1>same DEF RecvTake, sems, sender
<1>13. CASE Close
  BY <1>13, <1>same DEF Close, sems, sender, receiver, history
<1>14. CASE ResourceFree
  BY <1>14, <1>same DEF ResourceFree, sems, sender, receiver, history
<1>15. CASE UNCHANGED vars
  BY <1>15, <1>same DEF vars, sems, sender, receiver, history
<1> QED
  BY <1>1, <1>2, <1>3, <1>4, <1>5, <1>6, <1>7, <1>8, <1>9, <1>10, <1>11, <1>12,
     <1>13, <1>14, <1>15 DEF Next, SendStep, RecvStep

THEOREM SlotAccounted == Spec => []EverySlotAccounted
  BY Typing, SlotAccountedInit, SlotAccountedNext, PTL DEF Spec
-----------------------------------------------------------------------------
(* No lost wakeup: the reader semaphore counts every message not yet handed *)
(* out, but for the posts still to come and the one being handed out.      *)

LEMMA MessageAnnouncedInit == Init => EveryMessageAnnounced
<1> SUFFICES ASSUME Init PROVE EveryMessageAnnounced
  OBVIOUS
<1>1. Posting = {}
  BY DEF Init, Posting
<1>2. Cardinality(Posting) = 0
  BY <1>1, FS_EmptySet
<1> QED
  BY <1>2 DEF Init, EveryMessageAnnounced, One

LEMMA MessageAnnouncedNext ==
  TypeOK /\ EveryMessageAnnounced /\ [Next]_vars => EveryMessageAnnounced'
<1> SUFFICES ASSUME TypeOK, EveryMessageAnnounced, [Next]_vars PROVE EveryMessageAnnounced'
  OBVIOUS
<1> DEFINE n == Cardinality(Posting)
<1>0. /\ n \in Nat /\ reader \in Nat /\ Len(sent) \in Nat /\ Len(got) \in Nat
      /\ sent \in Seq(Messages) /\ got \in Seq(Messages \cup {Zeroed})
      /\ par[head_cursor] \in Messages \cup {Zeroed}
      /\ Len(sent) - Len(got) = reader + n + One(rpc = "take")
  BY CountedSets DEF TypeOK, EveryMessageAnnounced
<1>goal. ASSUME Len(sent') - Len(got') = reader' + n' + One(rpc' = "take")
         PROVE  EveryMessageAnnounced'
  BY <1>goal DEF EveryMessageAnnounced
<1>same. ASSUME UNCHANGED <<reader, sent, got, spc>>, rpc' = "take" <=> rpc = "take"
         PROVE  EveryMessageAnnounced'
  BY <1>same, <1>0, <1>goal, NobodyMoves DEF One
<1>1. ASSUME NEW s \in Senders, NEW time \in SendTimes, NEW block \in BOOLEAN,
             SendCall(s, time, block)
      PROVE  EveryMessageAnnounced'
  <2>1. n' = n
    BY <1>1, <1>0, SenderCounts
  <2> QED
    BY <1>1, <1>0, <1>goal, <2>1 DEF SendCall, sems, receiver, history, One
<1>2. ASSUME NEW s \in Senders, SendRefused(s) PROVE EveryMessageAnnounced'
  <2>1. n' = n
    BY <1>2, <1>0, SenderCounts
  <2> QED
    BY <1>2, <1>0, <1>goal, <2>1 DEF SendRefused, sems, receiver, history, One
<1>3. ASSUME NEW s \in Senders, SendLockWriter(s) PROVE EveryMessageAnnounced'
  <2>1. n' = n
    BY <1>3, <1>0, SenderCounts
  <2> QED
    BY <1>3, <1>0, <1>goal, <2>1 DEF SendLockWriter, receiver, history, One
<1>4. ASSUME NEW s \in Senders, SendEnqueue(s) PROVE EveryMessageAnnounced'
  <2>1. n' = n + 1
    BY <1>4, <1>0, SenderCounts
  <2>2. Len(sent') = Len(sent) + 1
    BY <1>4, <1>0 DEF SendEnqueue
  <2>3. UNCHANGED <<got, reader, rpc>>
    BY <1>4 DEF SendEnqueue, sems, receiver
  <2> QED
    BY <1>0, <1>goal, <2>1, <2>2, <2>3 DEF One
<1>5. ASSUME NEW s \in Senders, SendPost(s) PROVE EveryMessageAnnounced'
  <2>1. n' = n - 1
    BY <1>5, <1>0, SenderCounts
  <2> QED
    BY <1>5, <1>0, <1>goal, <2>1 DEF SendPost, receiver, history, One
<1>6. ASSUME NEW s \in Senders, SendAck(s) PROVE EveryMessageAnnounced'
  <2>1. n' = n
    BY <1>6, <1>0, SenderCounts
  <2> QED
    BY <1>6, <1>0, <1>goal, <2>1 DEF SendAck, receiver, history, One
<1>7. ASSUME NEW time \in CallTimes, RecvNothingHeld(time) PROVE EveryMessageAnnounced'
  BY <1>7, <1>same DEF RecvNothingHeld, sems, sender, history
<1>8. ASSUME NEW time \in CallTimes, RecvRelease(time) PROVE EveryMessageAnnounced'
  BY <1>8, <1>same DEF RecvRelease, sender
<1>9. CASE RecvFree
  BY <1>9, <1>same DEF RecvFree, sender, history
<1>10. CASE RecvLockReader
  BY <1>10, <1>0, <1>goal, NobodyMoves DEF RecvLockReader, sender, history, One
<1>11. CASE RecvRefused
  BY <1>11, <1>same DEF RecvRefused, sems, sender, history
<1>12. CASE RecvTake
  <2>1. Len(got') = Len(got) + 1
    BY <1>12, <1>0 DEF RecvTake
  <2>2. UNCHANGED <<sent, reader, spc>> /\ rpc = "take" /\ rpc' = "idle"
    BY <1>12 DEF RecvTake, sems, sender
  <2> QED
    BY <1>0, <1>goal, <2>1, <2>2, NobodyMoves DEF One
<1>13. CASE Close
  BY <1>13, <1>same DEF Close, sems, sender, receiver, history
<1>14. CASE ResourceFree
  BY <1>14, <1>same DEF ResourceFree, sems, sender, receiver, history
<1>15. CASE UNCHANGED vars
  BY <1>15, <1>same DEF vars, sems, sender, receiver, history
<1> QED
  BY <1>1, <1>2, <1>3, <1>4, <1>5, <1>6, <1>7, <1>8, <1>9, <1>10, <1>11, <1>12,
     <1>13, <1>14, <1>15 DEF Next, SendStep, RecvStep

THEOREM MessageAnnounced == Spec => []EveryMessageAnnounced
  BY Typing, MessageAnnouncedInit, MessageAnnouncedNext, PTL DEF Spec
-----------------------------------------------------------------------------
(* The held message is the one at the head, and no other slot is held. *)

LEMMA HeadHeldInit == Init => OnlyHeadHeld
  BY DEF Init, OnlyHeadHeld, One, Slots

LEMMA HeadHeldNext == TypeOK /\ OnlyHeadHeld /\ [Next]_vars => OnlyHeadHeld'
<1> SUFFICES ASSUME TypeOK, OnlyHeadHeld, [Next]_vars PROVE OnlyHeadHeld'
  OBVIOUS
<1>0. /\ head_cursor \in Slots /\ released \in Nat /\ Len(got) \in Nat
      /\ signaled \in [Slots -> BOOLEAN] /\ got \in Seq(Messages \cup {Zeroed})
      /\ par[head_cursor] \in Messages \cup {Zeroed}
  BY DEF TypeOK
<1>same. ASSUME UNCHANGED <<head_cursor, signaled, got, released, rpc>> PROVE OnlyHeadHeld'
  BY <1>same DEF OnlyHeadHeld
<1>1. ASSUME NEW s \in Senders, NEW time \in SendTimes, NEW block \in BOOLEAN,
             SendCall(s, time, block)
      PROVE  OnlyHeadHeld'
  BY <1>1, <1>same DEF SendCall, ring, receiver, history
<1>2. ASSUME NEW s \in Senders, SendRefused(s) PROVE OnlyHeadHeld'
  BY <1>2, <1>same DEF SendRefused, ring, receiver, history
<1>3. ASSUME NEW s \in Senders, SendLockWriter(s) PROVE OnlyHeadHeld'
  BY <1>3, <1>same DEF SendLockWriter, ring, receiver, history
<1>4. ASSUME NEW s \in Senders, SendEnqueue(s) PROVE OnlyHeadHeld'
  BY <1>4, <1>same DEF SendEnqueue, receiver
<1>5. ASSUME NEW s \in Senders, SendPost(s) PROVE OnlyHeadHeld'
  BY <1>5, <1>same DEF SendPost, ring, receiver, history
<1>6. ASSUME NEW s \in Senders, SendAck(s) PROVE OnlyHeadHeld'
  BY <1>6, <1>same DEF SendAck, ring, receiver, history
<1>7. ASSUME NEW time \in CallTimes, RecvNothingHeld(time) PROVE OnlyHeadHeld'
  BY <1>7, <1>0 DEF OnlyHeadHeld, RecvNothingHeld, ring, history
<1>8. ASSUME NEW time \in CallTimes, RecvRelease(time) PROVE OnlyHeadHeld'
  <2>1. \A i \in Slots : signaled'[i] = FALSE
    BY <1>8, <1>0 DEF OnlyHeadHeld, RecvRelease
  <2>2. head_cursor' \in Slots
    BY <1>8, <1>0, NextInSlots DEF RecvRelease
  <2>3. Len(got') = released'
    BY <1>8, <1>0 DEF OnlyHeadHeld, RecvRelease, One
  <2> QED
    BY <1>0, <2>1, <2>2, <2>3, <1>8 DEF OnlyHeadHeld, RecvRelease, One
<1>9. CASE RecvFree
  BY <1>9 DEF OnlyHeadHeld, RecvFree, ring, history
<1>10. CASE RecvLockReader
  BY <1>10 DEF OnlyHeadHeld, RecvLockReader, ring, history
<1>11. CASE RecvRefused
  BY <1>11 DEF OnlyHeadHeld, RecvRefused, ring, history
<1>12. CASE RecvTake
  <2>1. ~signaled[head_cursor] /\ Len(got) = released
    BY <1>12, <1>0 DEF OnlyHeadHeld, RecvTake, One
  <2>2. Len(got') = released + 1
    BY <1>12, <1>0, <2>1 DEF RecvTake
  <2>3. signaled'[head_cursor] /\ \A i \in Slots : signaled'[i] => i = head_cursor
    BY <1>12, <1>0 DEF OnlyHeadHeld, RecvTake
  <2> QED
    BY <1>12, <2>2, <2>3 DEF OnlyHeadHeld, RecvTake, One
<1>13. CASE Close
  BY <1>13, <1>same DEF Close, ring, receiver, history
<1>14. CASE ResourceFree
  BY <1>14, <1>same DEF ResourceFree, ring, receiver, history
<1>15. CASE UNCHANGED vars
  BY <1>15, <1>same DEF vars, ring, receiver, history
<1> QED
  BY <1>1, <1>2, <1>3, <1>4, <1>5, <1>6, <1>7, <1>8, <1>9, <1>10, <1>11, <1>12,
     <1>13, <1>14, <1>15 DEF Next, SendStep, RecvStep

THEOREM HeadHeld == Spec => []OnlyHeadHeld
  BY Typing, HeadHeldInit, HeadHeldNext, PTL DEF Spec
-----------------------------------------------------------------------------
(* Positions in the ring: counted from the head they are distinct slots,   *)
(* q_iNext moves from one to the next, and when the head moves on each     *)
(* message is one place nearer to it.                                      *)

LEMMA Positions ==
  ASSUME head_cursor \in Slots
  PROVE  /\ \A k \in 0 .. Length : Pos(k) \in Slots
         /\ Pos(0) = head_cursor
         /\ \A k \in 0 .. Length - 1 : q_iNext(Pos(k)) = Pos(k + 1)
         /\ \A j, k \in 0 .. Length - 1 : Pos(j) = Pos(k) => j = k
  BY DEF Slots, Pos, q_iNext

LEMMA PositionsShift ==
  ASSUME head_cursor \in Slots, head_cursor' = q_iNext(head_cursor), NEW k \in 0 .. Length - 1
  PROVE  Pos(k)' = Pos(k + 1)
  BY DEF Slots, Pos, q_iNext

-----------------------------------------------------------------------------
(* The ring holds, from its head to its tail, the messages that were       *)
(* copied in and not yet dropped: no sender overwrites one of them.        *)

LEMMA RingInit == Init => RingHoldsQueue
  BY DEF Init, RingHoldsQueue, Queued, Pos

LEMMA RingNext ==
  TypeOK /\ EverySlotAccounted /\ EveryMessageAnnounced /\ OnlyHeadHeld /\ RingHoldsQueue
    /\ [Next]_vars
  => RingHoldsQueue'
<1> SUFFICES ASSUME TypeOK, EverySlotAccounted, EveryMessageAnnounced, OnlyHeadHeld,
                    RingHoldsQueue, [Next]_vars
             PROVE  RingHoldsQueue'
  OBVIOUS
<1>0. /\ head_cursor \in Slots /\ tail_cursor \in Slots /\ released \in Nat
      /\ Len(sent) \in Nat /\ sent \in Seq(Messages)
      /\ par \in [Slots -> Messages \cup {Zeroed}]
  BY DEF TypeOK
<1>ring. /\ Queued \in 0 .. Length /\ tail_cursor = Pos(Queued)
         /\ \A k \in 1 .. Queued : par[Pos(k - 1)] = sent[released + k]
  BY <1>0 DEF RingHoldsQueue, Queued
<1>same. ASSUME UNCHANGED <<head_cursor, tail_cursor, par, sent, released>>
         PROVE  RingHoldsQueue'
  BY <1>same DEF RingHoldsQueue, Queued, Pos
<1>1. ASSUME NEW s \in Senders, NEW time \in SendTimes, NEW block \in BOOLEAN,
             SendCall(s, time, block)
      PROVE  RingHoldsQueue'
  BY <1>1, <1>same DEF SendCall, ring, history
<1>2. ASSUME NEW s \in Senders, SendRefused(s) PROVE RingHoldsQueue'
  BY <1>2, <1>same DEF SendRefused, ring, history
<1>3. ASSUME NEW s \in Senders, SendLockWriter(s) PROVE RingHoldsQueue'
  BY <1>3, <1>same DEF SendLockWriter, ring, history
<1>4. ASSUME NEW s \in Senders, SendEnqueue(s) PROVE RingHoldsQueue'
  <2> DEFINE m == <<s, calls[s]>>
  <2>1. Cardinality(Enqueueing) # 0
    <3>1. s \in Enqueueing
      BY <1>4 DEF SendEnqueue, Enqueueing
    <3> QED
      BY <3>1, CountedSets, FS_EmptySet
  <2>2. Queued < Length
    <3>1. Cardinality(Enqueueing) \in Nat /\ writer \in Nat
      BY CountedSets DEF TypeOK
    <3> QED
      BY <2>1, <3>1, <1>0, <1>ring DEF EverySlotAccounted, One
  <2>3. /\ sent' = Append(sent, m) /\ released' = released /\ head_cursor' = head_cursor
        /\ par' = [par EXCEPT ![tail_cursor] = m] /\ tail_cursor' = q_iNext(tail_cursor)
    BY <1>4 DEF SendEnqueue
  <2>4. Queued' = Queued + 1
    BY <2>3, <1>0 DEF Queued
  <2>6. tail_cursor' = Pos(Queued + 1)
    BY <1>0, <1>ring, <2>2, <2>3, Positions
  <2>7. ASSUME NEW k \in 1 .. Queued + 1
        PROVE  par'[Pos(k - 1)] = sent'[released + k]
    <3>1. CASE k = Queued + 1
      <4>1. released + k = Len(sent) + 1
        BY <3>1, <1>0 DEF Queued
      <4>2. sent'[released + k] = m
        BY <4>1, <2>3, <1>0
      <4>3. par'[Pos(Queued)] = m
        BY <1>0, <1>ring, <2>3
      <4>4. k - 1 = Queued
        BY <3>1, <1>ring
      <4> QED
        BY <4>2, <4>3, <4>4
    <3>2. CASE k \in 1 .. Queued
      <4>1. released + k \in 1 .. Len(sent)
        BY <3>2, <1>0, <1>ring DEF Queued
      <4>2. sent'[released + k] = sent[released + k]
        BY <4>1, <2>3, <1>0
      <4>3. k - 1 \in 0 .. Length - 1 /\ Queued \in 0 .. Length - 1 /\ k - 1 # Queued
        BY <3>2, <1>ring, <2>2
      <4>4. Pos(k - 1) # tail_cursor /\ Pos(k - 1) \in Slots
        BY <4>3, <1>0, <1>ring, Positions
      <4>5. par'[Pos(k - 1)] = par[Pos(k - 1)]
        BY <4>4, <2>3, <1>0
      <4> QED
        BY <3>2, <4>2, <4>5, <1>ring
    <3> QED
      BY <3>1, <3>2, <1>ring
  <2> QED
    <3>1. tail_cursor' = Pos(Queued)'
      BY <2>3, <2>4, <2>6 DEF Pos
    <3>2. ASSUME NEW k \in (1 .. Queued)' PROVE par[Pos(k - 1)]' = sent[released + k]'
      <4>1. Pos(k - 1)' = Pos(k - 1) /\ k \in 1 .. Queued + 1
        BY <2>3, <2>4 DEF Pos
      <4> QED
        BY <4>1, <2>3, <2>7
    <3>3. (0 <= Queued /\ Queued <= Length)'
      BY <2>2, <2>4, <1>ring
    <3> QED
      BY <3>1, <3>2, <3>3 DEF RingHoldsQueue
<1>5. ASSUME NEW s \in Senders, SendPost(s) PROVE RingHoldsQueue'
  BY <1>5, <1>same DEF SendPost, ring, history
<1>6. ASSUME NEW s \in Senders, SendAck(s) PROVE RingHoldsQueue'
  BY <1>6, <1>same DEF SendAck, ring, history
<1>7. ASSUME NEW time \in CallTimes, RecvNothingHeld(time) PROVE RingHoldsQueue'
  BY <1>7, <1>same DEF RecvNothingHeld, ring, history
<1>8. ASSUME NEW time \in CallTimes, RecvRelease(time) PROVE RingHoldsQueue'
  <2>1. Queued >= 1
    <3>1. Cardinality(Posting) \in Nat /\ reader \in Nat /\ Len(got) \in Nat
      BY CountedSets DEF TypeOK
    <3>2. Len(got) = released + 1
      BY <1>8 DEF OnlyHeadHeld, RecvRelease, One
    <3>3. Len(got) <= Len(sent)
      BY <3>1, <1>0 DEF EveryMessageAnnounced, One
    <3> QED
      BY <3>2, <3>3, <1>0 DEF Queued
  <2>2. /\ head_cursor' = q_iNext(head_cursor) /\ released' = released + 1
        /\ UNCHANGED <<tail_cursor, par, sent>>
    BY <1>8 DEF RecvRelease
  <2>3. Queued' = Queued - 1
    BY <2>2, <1>0 DEF Queued
  <2>4. ASSUME NEW k \in 0 .. Length - 1 PROVE Pos(k)' = Pos(k + 1)
    BY <2>2, <1>0, PositionsShift
  <2>5. tail_cursor' = Pos(Queued)'
    BY <2>1, <2>2, <2>3, <1>0, <1>ring DEF Pos, q_iNext, Slots
  <2>6. ASSUME NEW k \in 1 .. Queued - 1
        PROVE  par[Pos(k - 1)]' = sent[released + k]'
    <3>1. k - 1 \in 0 .. Length - 1 /\ k + 1 \in 1 .. Queued
      BY <1>ring
    <3>2. Pos(k - 1)' = Pos(k)
      BY <3>1, <2>4
    <3>3. par[Pos(k)] = sent[released + (k + 1)]
      BY <3>1, <1>ring
    <3>4. released' + k = released + (k + 1)
      BY <2>2, <1>0
    <3> QED
      BY <2>2, <3>2, <3>3, <3>4
  <2> QED
    BY <2>1, <2>2, <2>3, <2>5, <2>6, <1>ring DEF RingHoldsQueue
<1>9. CASE RecvFree
  BY <1>9, <1>same DEF RecvFree, ring, history
<1>10. CASE RecvLockReader
  BY <1>10, <1>same DEF RecvLockReader, ring, history
<1>11. CASE RecvRefused
  BY <1>11, <1>same DEF RecvRefused, ring, history
<1>12. CASE RecvTake
  BY <1>12, <1>same DEF RecvTake
<1>13. CASE Close
  BY <1>13, <1>same DEF Close, ring, history
<1>14. CASE ResourceFree
  BY <1>14, <1>same DEF ResourceFree, ring, history
<1>15. CASE UNCHANGED vars
  BY <1>15, <1>same DEF vars, ring, history
<1> QED
  BY <1>1, <1>2, <1>3, <1>4, <1>5, <1>6, <1>7, <1>8, <1>9, <1>10, <1>11, <1>12,
     <1>13, <1>14, <1>15 DEF Next, SendStep, RecvStep

THEOREM RingIsQueue == Spec => []RingHoldsQueue
  BY Typing, SlotAccounted, MessageAnnounced, HeadHeld, RingInit, RingNext, PTL DEF Spec
-----------------------------------------------------------------------------
(* WQ_recv, about to hand out the head, finds there the next message of    *)
(* the senders.                                                            *)

LEMMA TakesTheNext ==
  ASSUME TypeOK, EveryMessageAnnounced, OnlyHeadHeld, RingHoldsQueue, rpc = "take"
  PROVE  /\ Len(got) = released
         /\ Len(got) + 1 \in 1 .. Len(sent)
         /\ par[head_cursor] = sent[Len(got) + 1]
<1>0. /\ head_cursor \in Slots /\ released \in Nat
      /\ Len(got) \in Nat /\ Len(sent) \in Nat /\ reader \in Nat
  BY DEF TypeOK
<1>1. Len(got) = released
  BY <1>0 DEF OnlyHeadHeld, One
<1>2. Len(sent) >= Len(got) + 1
  <2>1. Cardinality(Posting) \in Nat
    BY CountedSets
  <2> QED
    BY <1>0, <2>1 DEF EveryMessageAnnounced, One
<1>3. 1 \in 1 .. Queued
  BY <1>0, <1>1, <1>2 DEF Queued
<1>4. par[Pos(1 - 1)] = sent[released + 1]
  BY <1>3 DEF RingHoldsQueue
<1> QED
  BY <1>0, <1>1, <1>2, <1>4, Positions

(* Messages are handed out in the order of the copies, each exactly once. *)

LEMMA FIFOInit == Init => FIFODelivery
  BY DEF Init, FIFODelivery

LEMMA FIFONext ==
  TypeOK /\ EveryMessageAnnounced /\ OnlyHeadHeld /\ RingHoldsQueue /\ FIFODelivery
    /\ [Next]_vars
  => FIFODelivery'
<1> SUFFICES ASSUME TypeOK, EveryMessageAnnounced, OnlyHeadHeld, RingHoldsQueue,
                    FIFODelivery, [Next]_vars
             PROVE  FIFODelivery'
  OBVIOUS
<1>0. /\ Len(sent) \in Nat /\ sent \in Seq(Messages) /\ head_cursor \in Slots
      /\ Len(got) \in Nat /\ got \in Seq(Messages \cup {Zeroed})
      /\ par[head_cursor] \in Messages \cup {Zeroed}
  BY DEF TypeOK
<1>same. ASSUME UNCHANGED <<sent, got>> PROVE FIFODelivery'
  BY <1>same DEF FIFODelivery
<1>1. ASSUME NEW s \in Senders, NEW time \in SendTimes, NEW block \in BOOLEAN,
             SendCall(s, time, block)
      PROVE  FIFODelivery'
  BY <1>1, <1>same DEF SendCall, history
<1>2. ASSUME NEW s \in Senders, SendRefused(s) PROVE FIFODelivery'
  BY <1>2, <1>same DEF SendRefused, history
<1>3. ASSUME NEW s \in Senders, SendLockWriter(s) PROVE FIFODelivery'
  BY <1>3, <1>same DEF SendLockWriter, history
<1>4. ASSUME NEW s \in Senders, SendEnqueue(s) PROVE FIFODelivery'
  <2>1. sent' = Append(sent, <<s, calls[s]>>) /\ got' = got
    BY <1>4 DEF SendEnqueue
  <2>2. Len(sent') = Len(sent) + 1 /\ \A k \in 1 .. Len(sent) : sent'[k] = sent[k]
    BY <2>1, <1>0
  <2> QED
    BY <2>1, <2>2, <1>0 DEF FIFODelivery
<1>5. ASSUME NEW s \in Senders, SendPost(s) PROVE FIFODelivery'
  BY <1>5, <1>same DEF SendPost, history
<1>6. ASSUME NEW s \in Senders, SendAck(s) PROVE FIFODelivery'
  BY <1>6, <1>same DEF SendAck, history
<1>7. ASSUME NEW time \in CallTimes, RecvNothingHeld(time) PROVE FIFODelivery'
  BY <1>7, <1>same DEF RecvNothingHeld, history
<1>8. ASSUME NEW time \in CallTimes, RecvRelease(time) PROVE FIFODelivery'
  BY <1>8, <1>same DEF RecvRelease
<1>9. CASE RecvFree
  BY <1>9, <1>same DEF RecvFree, history
<1>10. CASE RecvLockReader
  BY <1>10, <1>same DEF RecvLockReader, history
<1>11. CASE RecvRefused
  BY <1>11, <1>same DEF RecvRefused, history
<1>12. CASE RecvTake
  <2>1. got' = Append(got, par[head_cursor]) /\ sent' = sent /\ rpc = "take"
    BY <1>12 DEF RecvTake
  <2>2. Len(got) + 1 \in 1 .. Len(sent) /\ par[head_cursor] = sent[Len(got) + 1]
    BY <2>1, TakesTheNext
  <2>3. Len(got') = Len(got) + 1 /\ \A k \in 1 .. Len(got) : got'[k] = got[k]
    BY <2>1, <1>0
  <2>4. got'[Len(got) + 1] = par[head_cursor]
    BY <2>1, <1>0
  <2> QED
    BY <2>1, <2>2, <2>3, <2>4, <1>0 DEF FIFODelivery
<1>13. CASE Close
  BY <1>13, <1>same DEF Close, history
<1>14. CASE ResourceFree
  BY <1>14, <1>same DEF ResourceFree, history
<1>15. CASE UNCHANGED vars
  BY <1>15, <1>same DEF vars, history
<1> QED
  BY <1>1, <1>2, <1>3, <1>4, <1>5, <1>6, <1>7, <1>8, <1>9, <1>10, <1>11, <1>12,
     <1>13, <1>14, <1>15 DEF Next, SendStep, RecvStep

THEOREM DeliveredInOrder == Spec => []FIFODelivery
  BY Typing, MessageAnnounced, HeadHeld, RingIsQueue, FIFOInit, FIFONext, PTL DEF Spec

(* The message the receiver is reading in place stays what it was handed. *)

LEMMA HeldFacts ==
  TypeOK /\ EveryMessageAnnounced /\ OnlyHeadHeld /\ RingHoldsQueue /\ FIFODelivery
  => HeldMessageIntact
<1> SUFFICES ASSUME TypeOK, EveryMessageAnnounced, OnlyHeadHeld, RingHoldsQueue,
                    FIFODelivery, signaled[head_cursor]
             PROVE  got # << >> /\ par[head_cursor] = got[Len(got)]
  BY DEF HeldMessageIntact, OnlyHeadHeld
<1>0. /\ head_cursor \in Slots /\ released \in Nat
      /\ Len(got) \in Nat /\ Len(sent) \in Nat /\ got \in Seq(Messages \cup {Zeroed})
  BY DEF TypeOK
<1>1. Len(got) = released + 1
  BY DEF OnlyHeadHeld, One
<1>2. Len(got) \in 1 .. Len(got) /\ got[Len(got)] = sent[released + 1] /\ Len(got) <= Len(sent)
  BY <1>0, <1>1 DEF FIFODelivery
<1>3. 1 \in 1 .. Queued
  BY <1>0, <1>1, <1>2 DEF Queued
<1>4. par[Pos(1 - 1)] = sent[released + 1]
  BY <1>3 DEF RingHoldsQueue
<1> QED
  BY <1>0, <1>1, <1>2, <1>4, Positions

THEOREM HeldStaysIntact == Spec => []HeldMessageIntact
  BY Typing, MessageAnnounced, HeadHeld, RingIsQueue, DeliveredInOrder, HeldFacts, PTL
-----------------------------------------------------------------------------
(* WQ_close stops draining at the first wait that times out.  At that      *)
(* moment, if no signal interrupted the wait, the messages left behind are *)
(* those their senders have not posted yet.                                *)

LEMMA DrainStep ==
  TypeOK /\ EveryMessageAnnounced /\ [Next]_vars
  => [life = "closing" /\ life' = "drained" /\ ~Interrupts
        => Len(sent) - Len(got) = Cardinality(Posting)]_vars
<1> SUFFICES ASSUME TypeOK, EveryMessageAnnounced, Next, life = "closing",
                    life' = "drained", ~Interrupts
             PROVE  Len(sent) - Len(got) = Cardinality(Posting)
  OBVIOUS
<1>1. RecvRefused
  BY DEF Next, SendStep, RecvStep, SendCall, SendRefused, SendLockWriter, SendEnqueue,
     SendPost, SendAck, RecvNothingHeld, RecvRelease, RecvFree, RecvLockReader, RecvTake,
     Close, ResourceFree
<1>2. rpc = "reader" /\ reader = 0
  BY <1>1 DEF RecvRefused, LockOutcomes, Results
<1>3. Cardinality(Posting) \in Nat
  BY CountedSets
<1> QED
  BY <1>2, <1>3 DEF EveryMessageAnnounced, One

THEOREM DrainLeaves == Spec => DrainLeavesOnlyUnposted
<1>1. EveryMessageAnnounced /\ TypeOK /\ [Next]_vars
      => [life = "closing" /\ life' = "drained" /\ ~Interrupts
            => Len(sent) - Len(got) = Cardinality(Posting)]_vars
  BY DrainStep
<1> QED
  BY <1>1, Typing, MessageAnnounced, PTL DEF Spec, DrainLeavesOnlyUnposted

-----------------------------------------------------------------------------
(* The ring buffer of src/WQ.c implements the bounded FIFO, for any number *)
(* of senders, any ring length and any waiting times.                      *)

(* What the refinement rests on, at a state and the next one. *)
Good == /\ TypeOK /\ EverySlotAccounted /\ EveryMessageAnnounced
        /\ OnlyHeadHeld /\ RingHoldsQueue

(* The ring's contents as a sequence. *)
ContentsOK == /\ Contents \in Seq(Messages) /\ Len(Contents) = Queued /\ Queued \in Nat
              /\ \A k \in 1 .. Queued : /\ Contents[k] = sent[released + k]
                                        /\ Contents[k] = par[Pos(k - 1)]

LEMMA ContentsFacts == Good => ContentsOK
<1> SUFFICES ASSUME TypeOK, RingHoldsQueue PROVE ContentsOK
  BY DEF Good
<1>0. /\ released \in Nat /\ sent \in Seq(Messages) /\ Len(sent) \in Nat
      /\ Queued \in Nat
  BY DEF TypeOK, RingHoldsQueue, Queued
<1>1. \A k \in 1 .. Queued : /\ Contents[k] = par[Pos(k - 1)]
                             /\ par[Pos(k - 1)] = sent[released + k]
  BY DEF Contents, RingHoldsQueue
<1>2. \A k \in 1 .. Queued : sent[released + k] \in Messages
  <2> SUFFICES ASSUME NEW k \in 1 .. Queued PROVE sent[released + k] \in Messages
    OBVIOUS
  <2>1. released + k \in 1 .. Len(sent)
    BY <1>0 DEF Queued
  <2> QED
    BY <1>0, <2>1, ElementOfSeq
<1>3. Contents \in [1 .. Queued -> Messages]
  BY <1>1, <1>2 DEF Contents
<1>4. Contents \in Seq(Messages)
  BY <1>0, <1>3, SeqDef
<1>5. 1 .. Len(Contents) = 1 .. Queued /\ Len(Contents) \in Nat
  BY <1>3, <1>4, LenProperties
<1>6. Len(Contents) = Queued
  BY <1>0, <1>5
<1> QED
  BY <1>0, <1>1, <1>4, <1>6 DEF ContentsOK

(* A step that leaves the ring's contents, the held message and what was   *)
(* handed out alone is a stutter of the FIFO.                              *)
LEMMA Stutter ==
  ASSUME UNCHANGED <<head_cursor, par, signaled, sent, got, released>>
  PROVE  UNCHANGED Fifo!vars
  BY DEF Fifo!vars, Contents, Queued, Pos

(* WQ_send's critical section is the FIFO's Put. *)
LEMMA EnqueueIsPut ==
  ASSUME Good, Good', NEW s \in Senders, SendEnqueue(s)
  PROVE  Fifo!Put(<<s, calls[s]>>) /\ <<s, calls[s]>> \in Messages
<1> DEFINE m == <<s, calls[s]>>
<1>0. /\ sent \in Seq(Messages) /\ released \in Nat /\ Len(sent) \in Nat
  BY DEF Good, TypeOK
<1>1. m \in Messages
  <2>1. calls[s] \in 0 .. MaxSends /\ calls[s] > 0
    BY DEF Good, TypeOK, SendEnqueue
  <2>2. calls[s] \in 1 .. MaxSends
    BY <2>1
  <2> QED
    BY <2>2 DEF Messages
<1>2. sent' = Append(sent, m) /\ UNCHANGED <<released, head_cursor, signaled, got>>
  BY DEF SendEnqueue
<1>3. Contents \in Seq(Messages) /\ Len(Contents) = Queued /\ Queued \in Nat
      /\ \A k \in 1 .. Queued : Contents[k] = sent[released + k]
  BY ContentsFacts DEF ContentsOK
<1>4. Contents' \in Seq(Messages) /\ Len(Contents') = Queued' /\ Queued' \in Nat
      /\ \A k \in 1 .. Queued' : Contents'[k] = sent'[released' + k]
  <2>1. ContentsOK'
    BY ContentsFacts, PTL
  <2> QED
    BY <2>1 DEF ContentsOK
<1>5. Queued' = Queued + 1 /\ Queued' <= Length
  BY <1>0, <1>2 DEF Queued, Good, RingHoldsQueue
<1>6. Append(Contents, m) \in Seq(Messages) /\ Len(Append(Contents, m)) = Queued + 1
  BY <1>1, <1>3
<1>7. ASSUME NEW k \in 1 .. Queued + 1 PROVE Contents'[k] = Append(Contents, m)[k]
  <2>1. Contents'[k] = sent'[released + k]
    BY <1>2, <1>4, <1>5
  <2>2. CASE k = Queued + 1
    <3>1. released + k = Len(sent) + 1
      BY <1>0, <2>2 DEF Queued
    <3>2. sent'[Len(sent) + 1] = m
      BY <1>0, <1>2
    <3>3. Append(Contents, m)[k] = m
      BY <1>3, <2>2
    <3> QED
      BY <2>1, <3>1, <3>2, <3>3
  <2>3. CASE k \in 1 .. Queued
    <3>1. released + k \in 1 .. Len(sent)
      BY <1>0, <2>3 DEF Queued
    <3>2. sent'[released + k] = sent[released + k]
      BY <1>0, <1>2, <3>1
    <3>3. Append(Contents, m)[k] = Contents[k]
      BY <1>3, <2>3
    <3> QED
      BY <1>3, <2>1, <2>3, <3>2, <3>3
  <2> QED
    BY <1>3, <2>2, <2>3
<1>8. Contents' = Append(Contents, m)
  BY <1>4, <1>5, <1>6, <1>7, SeqEqual
<1>9. Len(Contents) < Length
  BY <1>3, <1>5, LengthAssumption
<1> QED
  BY <1>1, <1>2, <1>8, <1>9 DEF Fifo!Put

(* The first critical section of WQ_recv is the FIFO's Drop. *)
LEMMA ReleaseIsDrop ==
  ASSUME Good, Good', NEW time \in CallTimes, RecvRelease(time)
  PROVE  Fifo!Drop
<1>0. /\ released \in Nat /\ Len(sent) \in Nat /\ head_cursor \in Slots
      /\ signaled \in [Slots -> BOOLEAN]
  BY DEF Good, TypeOK
<1>1. sent' = sent /\ released' = released + 1 /\ got' = got /\ signaled[head_cursor]
  BY DEF RecvRelease
<1>2. Contents \in Seq(Messages) /\ Len(Contents) = Queued /\ Queued \in Nat
      /\ \A k \in 1 .. Queued : Contents[k] = sent[released + k]
  BY ContentsFacts DEF ContentsOK
<1>3. Contents' \in Seq(Messages) /\ Len(Contents') = Queued' /\ Queued' \in Nat
      /\ \A k \in 1 .. Queued' : Contents'[k] = sent'[released' + k]
  <2>1. ContentsOK'
    BY ContentsFacts, PTL
  <2> QED
    BY <2>1 DEF ContentsOK
<1>4. Queued' = Queued - 1
  BY <1>0, <1>1 DEF Queued
<1>5. Contents # << >>
  BY <1>2, <1>3, <1>4, EmptySeq
<1>6. Tail(Contents) \in Seq(Messages) /\ Len(Tail(Contents)) = Queued - 1
      /\ \A k \in 1 .. Queued - 1 : Tail(Contents)[k] = Contents[k + 1]
  BY <1>2, <1>5, HeadTailProperties
<1>7. ASSUME NEW k \in 1 .. Queued - 1 PROVE Contents'[k] = Tail(Contents)[k]
  <2>1. Contents'[k] = sent[(released + 1) + k]
    BY <1>1, <1>3, <1>4
  <2>2. Contents[k + 1] = sent[released + (k + 1)]
    BY <1>2
  <2>3. (released + 1) + k = released + (k + 1)
    BY <1>0
  <2> QED
    BY <1>6, <2>1, <2>2, <2>3
<1>8. Contents' = Tail(Contents)
  BY <1>3, <1>4, <1>6, <1>7, SeqEqual
<1>9. signaled'[head_cursor'] = FALSE
  <2>1. ~signaled'[head_cursor']
    BY DEF Good, OnlyHeadHeld, RecvRelease
  <2>2. signaled' \in [Slots -> BOOLEAN] /\ head_cursor' \in Slots
    BY DEF Good, TypeOK
  <2> QED
    BY <2>1, <2>2
<1> QED
  BY <1>1, <1>8, <1>9 DEF Fifo!Drop

(* The second critical section of WQ_recv is the FIFO's Get. *)
LEMMA TakeIsGet ==
  ASSUME Good, RecvTake
  PROVE  Fifo!Get
<1>0. /\ head_cursor \in Slots /\ released \in Nat /\ Len(got) \in Nat /\ Len(sent) \in Nat
      /\ signaled \in [Slots -> BOOLEAN]
  BY DEF Good, TypeOK
<1>1. /\ Contents \in Seq(Messages) /\ Len(Contents) = Queued /\ Queued \in Nat
      /\ \A k \in 1 .. Queued : Contents[k] = par[Pos(k - 1)]
  BY ContentsFacts DEF ContentsOK
<1>2. Len(got) = released /\ Len(got) + 1 \in 1 .. Len(sent)
  BY TakesTheNext DEF Good, RecvTake
<1>3. 1 \in 1 .. Queued
  BY <1>0, <1>2 DEF Queued
<1>4. Contents # << >>
  BY <1>1, <1>3, EmptySeq
<1>5. Head(Contents) = par[head_cursor]
  <2>1. Contents[1] = par[Pos(1 - 1)]
    BY <1>1, <1>3
  <2>2. Pos(1 - 1) = head_cursor
    BY <1>0, Positions
  <2> QED
    BY <1>1, <1>4, <2>1, <2>2
<1>6. ~signaled[head_cursor]
  BY DEF Good, OnlyHeadHeld, RecvTake
<1>7. signaled'[head_cursor'] = TRUE
  BY <1>0 DEF RecvTake
<1>8. Contents' = Contents
  BY DEF RecvTake, Contents, Queued, Pos
<1>9. got' = Append(got, par[head_cursor])
  BY DEF RecvTake
<1> QED
  BY <1>4, <1>5, <1>6, <1>7, <1>8, <1>9 DEF Fifo!Get

LEMMA RefinesInit == Init => Fifo!Init
<1> SUFFICES ASSUME Init PROVE Fifo!Init
  OBVIOUS
<1>1. Contents = << >>
  BY DEF Init, Contents, Queued
<1>2. signaled[head_cursor] = FALSE
  BY LengthAssumption DEF Init, Slots
<1> QED
  BY <1>1, <1>2 DEF Init, Fifo!Init

LEMMA RefinesNext == Good /\ Good' /\ [Next]_vars => [Fifo!Next]_Fifo!vars
<1> SUFFICES ASSUME Good, Good', [Next]_vars PROVE [Fifo!Next]_Fifo!vars
  OBVIOUS
<1>1. ASSUME NEW s \in Senders, NEW time \in SendTimes, NEW block \in BOOLEAN,
             SendCall(s, time, block)
      PROVE  UNCHANGED Fifo!vars
  BY <1>1, Stutter DEF SendCall, ring, history
<1>2. ASSUME NEW s \in Senders, SendRefused(s) PROVE UNCHANGED Fifo!vars
  BY <1>2, Stutter DEF SendRefused, ring, history
<1>3. ASSUME NEW s \in Senders, SendLockWriter(s) PROVE UNCHANGED Fifo!vars
  BY <1>3, Stutter DEF SendLockWriter, ring, history
<1>4. ASSUME NEW s \in Senders, SendEnqueue(s) PROVE Fifo!Next
  BY <1>4, EnqueueIsPut DEF Fifo!Next
<1>5. ASSUME NEW s \in Senders, SendPost(s) PROVE UNCHANGED Fifo!vars
  BY <1>5, Stutter DEF SendPost, ring, history
<1>6. ASSUME NEW s \in Senders, SendAck(s) PROVE UNCHANGED Fifo!vars
  BY <1>6, Stutter DEF SendAck, ring, history
<1>7. ASSUME NEW time \in CallTimes, RecvNothingHeld(time) PROVE UNCHANGED Fifo!vars
  BY <1>7, Stutter DEF RecvNothingHeld, ring, history
<1>8. ASSUME NEW time \in CallTimes, RecvRelease(time) PROVE Fifo!Next
  BY <1>8, ReleaseIsDrop DEF Fifo!Next
<1>9. CASE RecvFree
  BY <1>9, Stutter DEF RecvFree, ring, history
<1>10. CASE RecvLockReader
  BY <1>10, Stutter DEF RecvLockReader, ring, history
<1>11. CASE RecvRefused
  BY <1>11, Stutter DEF RecvRefused, ring, history
<1>12. CASE RecvTake
  BY <1>12, TakeIsGet DEF Fifo!Next
<1>13. CASE Close
  BY <1>13, Stutter DEF Close, ring, history
<1>14. CASE ResourceFree
  BY <1>14, Stutter DEF ResourceFree, ring, history
<1>15. CASE UNCHANGED vars
  BY <1>15, Stutter DEF vars, ring, history
<1> QED
  BY <1>1, <1>2, <1>3, <1>4, <1>5, <1>6, <1>7, <1>8, <1>9, <1>10, <1>11, <1>12,
     <1>13, <1>14, <1>15 DEF Next, SendStep, RecvStep

(* Every behaviour of the ring buffer is one of the bounded FIFO: what     *)
(* WQ_send puts in comes out of WQ_recv once, in order, and at most        *)
(* element_length messages are inside.                                     *)
THEOREM RefinesFifo == Spec => FifoSpec
<1>1. Good <=> /\ TypeOK /\ EverySlotAccounted /\ EveryMessageAnnounced
               /\ OnlyHeadHeld /\ RingHoldsQueue
  BY DEF Good
<1>2. Spec => []Good
  BY Typing, SlotAccounted, MessageAnnounced, HeadHeld, RingIsQueue, <1>1, PTL
<1> QED
  BY <1>2, RefinesInit, RefinesNext, PTL DEF Spec, FifoSpec, Fifo!Spec

-----------------------------------------------------------------------------
(* No blocking sender of src/WQ.c waits for an acknowledgement that cannot *)
(* come, for any number of senders and any ring length.                    *)

(* Only a slot whose message is in the ring owes an acknowledgement. *)

LEMMA OweInit == Init => OnlyQueuedOweAck
  BY DEF Init, OnlyQueuedOweAck

LEMMA OweNext ==
  TypeOK /\ RingHoldsQueue /\ RingHoldsQueue' /\ OnlyHeadHeld /\ OnlyQueuedOweAck
    /\ [Next]_vars
  => OnlyQueuedOweAck'
<1> SUFFICES ASSUME TypeOK, RingHoldsQueue, RingHoldsQueue', OnlyHeadHeld,
                    OnlyQueuedOweAck, [Next]_vars
             PROVE  OnlyQueuedOweAck'
  OBVIOUS
<1>0. /\ head_cursor \in Slots /\ tail_cursor \in Slots /\ released \in Nat
      /\ sent \in Seq(Messages) /\ Len(sent) \in Nat
      /\ sema_ack \in [Slots -> BOOLEAN] /\ sblock \in [Senders -> BOOLEAN]
  BY DEF TypeOK
<1>ring. Queued \in 0 .. Length /\ tail_cursor = Pos(Queued)
  BY <1>0 DEF RingHoldsQueue, Queued
<1>same. ASSUME UNCHANGED <<head_cursor, sema_ack, sent, released>>
         PROVE  OnlyQueuedOweAck'
  BY <1>same DEF OnlyQueuedOweAck, Queued, Pos
<1>1. ASSUME NEW s \in Senders, NEW time \in SendTimes, NEW block \in BOOLEAN,
             SendCall(s, time, block)
      PROVE  OnlyQueuedOweAck'
  BY <1>1, <1>same DEF SendCall, ring, history
<1>2. ASSUME NEW s \in Senders, SendRefused(s) PROVE OnlyQueuedOweAck'
  BY <1>2, <1>same DEF SendRefused, ring, history
<1>3. ASSUME NEW s \in Senders, SendLockWriter(s) PROVE OnlyQueuedOweAck'
  BY <1>3, <1>same DEF SendLockWriter, ring, history
<1>4. ASSUME NEW s \in Senders, SendEnqueue(s) PROVE OnlyQueuedOweAck'
  <2>1. /\ UNCHANGED <<head_cursor, released>> /\ Len(sent') = Len(sent) + 1
        /\ \A i \in Slots : i # tail_cursor => sema_ack'[i] = sema_ack[i]
    BY <1>4, <1>0 DEF SendEnqueue
  <2>2. Queued' = Queued + 1
    BY <2>1, <1>0 DEF Queued
  <2> SUFFICES ASSUME NEW i \in Slots, sema_ack'[i]
               PROVE  \E k \in 1 .. Queued + 1 : i = Pos(k - 1)
    BY <2>1, <2>2 DEF OnlyQueuedOweAck, Pos
  <2>3. CASE i = tail_cursor
    <3>1. i = Pos((Queued + 1) - 1) /\ Queued + 1 \in 1 .. Queued + 1
      BY <1>ring, <2>3
    <3> QED
      BY <3>1
  <2>4. CASE i # tail_cursor
    <3>1. PICK k \in 1 .. Queued : i = Pos(k - 1)
      BY <2>1, <2>4 DEF OnlyQueuedOweAck
    <3>2. k \in 1 .. Queued + 1
      BY <1>ring
    <3> QED
      BY <3>1, <3>2
  <2> QED
    BY <2>3, <2>4
<1>5. ASSUME NEW s \in Senders, SendPost(s) PROVE OnlyQueuedOweAck'
  BY <1>5, <1>same DEF SendPost, ring, history
<1>6. ASSUME NEW s \in Senders, SendAck(s) PROVE OnlyQueuedOweAck'
  BY <1>6, <1>same DEF SendAck, ring, history
<1>7. ASSUME NEW time \in CallTimes, RecvNothingHeld(time) PROVE OnlyQueuedOweAck'
  BY <1>7, <1>same DEF RecvNothingHeld, ring, history
<1>8. ASSUME NEW time \in CallTimes, RecvRelease(time) PROVE OnlyQueuedOweAck'
  <2>1. /\ head_cursor' = q_iNext(head_cursor) /\ released' = released + 1 /\ sent' = sent
        /\ ~sema_ack'[head_cursor]
        /\ \A i \in Slots : sema_ack'[i] => sema_ack[i]
    BY <1>8, <1>0 DEF RecvRelease
  <2>2. Queued' = Queued - 1
    BY <2>1, <1>0 DEF Queued
  <2> SUFFICES ASSUME NEW i \in Slots, sema_ack'[i]
               PROVE  (\E k \in 1 .. Queued : i = Pos(k - 1))'
    BY DEF OnlyQueuedOweAck
  <2>3. PICK k \in 1 .. Queued : i = Pos(k - 1)
    BY <2>1 DEF OnlyQueuedOweAck
  <2>4. k # 1
    <3>1. k = 1 => i = head_cursor
      BY <2>3, <1>0, Positions
    <3> QED
      BY <3>1, <2>1
  <2>5. k - 1 \in 1 .. Queued - 1 /\ (k - 1) - 1 \in 0 .. Length - 1
        /\ ((k - 1) - 1) + 1 = k - 1
    BY <2>4, <1>ring
  <2>6. Pos((k - 1) - 1)' = Pos(k - 1)
    BY <2>1, <2>5, <1>0, PositionsShift
  <2> QED
    BY <2>2, <2>3, <2>5, <2>6
<1>9. CASE RecvFree
  BY <1>9, <1>same DEF RecvFree, ring, history
<1>10. CASE RecvLockReader
  BY <1>10, <1>same DEF RecvLockReader, ring, history
<1>11. CASE RecvRefused
  BY <1>11, <1>same DEF RecvRefused, ring, history
<1>12. CASE RecvTake
  BY <1>12, <1>same DEF RecvTake
<1>13. CASE Close
  BY <1>13, <1>same DEF Close, ring, history
<1>14. CASE ResourceFree
  BY <1>14, <1>same DEF ResourceFree, ring, history
<1>15. CASE UNCHANGED vars
  BY <1>15, <1>same DEF vars, ring, history
<1> QED
  BY <1>1, <1>2, <1>3, <1>4, <1>5, <1>6, <1>7, <1>8, <1>9, <1>10, <1>11, <1>12,
     <1>13, <1>14, <1>15 DEF Next, SendStep, RecvStep

THEOREM OnlyQueuedOwe == Spec => []OnlyQueuedOweAck
  BY Typing, HeadHeld, RingIsQueue, OweInit, OweNext, PTL DEF Spec
-----------------------------------------------------------------------------
(* The senders that await the ack of one slot, as a count. *)

Balanced(i) == /\ Cardinality(AwaitingAck(i)) <= ack[i] + One(sema_ack[i])
               /\ ~Interrupts => Cardinality(AwaitingAck(i)) = ack[i] + One(sema_ack[i])

LEMMA AwaitingCount ==
  ASSUME TypeOK, NEW i
  PROVE  IsFiniteSet(AwaitingAck(i)) /\ Cardinality(AwaitingAck(i)) \in Nat
  BY SendersAssumption, FS_Subset, FS_CardinalityType DEF AwaitingAck

(* How the count changes with the set. *)
LEMMA SameAwaiting ==
  ASSUME NEW i, AwaitingAck(i)' = AwaitingAck(i), UNCHANGED <<ack, sema_ack>>, Balanced(i)
  PROVE  Balanced(i)'
  BY DEF Balanced

LEMMA AwaitingLeaves ==
  ASSUME TypeOK, NEW i \in Slots, NEW s \in AwaitingAck(i),
         AwaitingAck(i)' = AwaitingAck(i) \ {s}
  PROVE  /\ Cardinality(AwaitingAck(i)') = Cardinality(AwaitingAck(i)) - 1
         /\ Cardinality(AwaitingAck(i)) > 0
<1>1. IsFiniteSet(AwaitingAck(i)) /\ Cardinality(AwaitingAck(i)) \in Nat
  BY AwaitingCount
<1>2. Cardinality(AwaitingAck(i)) # 0
  BY <1>1, FS_EmptySet
<1> QED
  BY SMTT(30), <1>1, <1>2, FS_RemoveElement

LEMMA AwaitingEnters ==
  ASSUME TypeOK, NEW i \in Slots, NEW s, s \notin AwaitingAck(i),
         AwaitingAck(i)' = AwaitingAck(i) \cup {s}
  PROVE  Cardinality(AwaitingAck(i)') = Cardinality(AwaitingAck(i)) + 1
<1>1. IsFiniteSet(AwaitingAck(i)) /\ Cardinality(AwaitingAck(i)) \in Nat
  BY AwaitingCount
<1> QED
  BY <1>1, FS_AddElement

(* The slot at the tail of a ring that is not full owes nothing. *)
LEMMA TailOwesNothing ==
  ASSUME TypeOK, RingHoldsQueue, OnlyQueuedOweAck, Queued < Length
  PROVE  ~sema_ack[tail_cursor]
<1>1. head_cursor \in Slots /\ tail_cursor \in Slots
  BY DEF TypeOK
<1>2. Queued \in 0 .. Length - 1 /\ tail_cursor = Pos(Queued)
  BY DEF RingHoldsQueue, Queued, TypeOK
<1> SUFFICES ASSUME sema_ack[tail_cursor] PROVE FALSE
  OBVIOUS
<1>3. PICK k \in 1 .. Queued : tail_cursor = Pos(k - 1)
  BY <1>1 DEF OnlyQueuedOweAck
<1>4. k - 1 \in 0 .. Length - 1 /\ k - 1 # Queued
  BY <1>2
<1> QED
  BY <1>1, <1>2, <1>3, <1>4, Positions

LEMMA AckInit == Init => EveryAckComes
<1> SUFFICES ASSUME Init, NEW i \in Slots PROVE Balanced(i)
  BY DEF EveryAckComes, Balanced
<1>1. AwaitingAck(i) = {}
  BY DEF Init, AwaitingAck
<1>2. Cardinality(AwaitingAck(i)) = 0
  BY <1>1, FS_EmptySet
<1> QED
  BY <1>2 DEF Init, Balanced, One

LEMMA AckNext ==
  TypeOK /\ RingHoldsQueue /\ RingHoldsQueue' /\ OnlyQueuedOweAck /\ EveryAckComes
    /\ [Next]_vars
  => EveryAckComes'
<1> SUFFICES ASSUME TypeOK, RingHoldsQueue, RingHoldsQueue', OnlyQueuedOweAck, EveryAckComes,
                    [Next]_vars, NEW i \in Slots
             PROVE  Balanced(i)'
  BY DEF EveryAckComes, Balanced
<1>0. /\ Balanced(i)
      /\ ack \in [Slots -> Nat] /\ sema_ack \in [Slots -> BOOLEAN]
      /\ spc \in [Senders -> {"idle", "writer", "enqueue", "post", "ack"}]
      /\ ack_sema \in [Senders -> Slots \cup {NULL}] /\ sblock \in [Senders -> BOOLEAN]
      /\ tail_cursor \in Slots /\ head_cursor \in Slots
      /\ Cardinality(AwaitingAck(i)) \in Nat
  BY AwaitingCount DEF EveryAckComes, Balanced, TypeOK
<1>null. NULL \notin Slots
  BY DEF NULL, Slots
<1>same. ASSUME UNCHANGED <<spc, ack_sema, ack, sema_ack>> PROVE Balanced(i)'
  BY <1>same, <1>0 DEF Balanced, AwaitingAck
<1>1. ASSUME NEW s \in Senders, NEW time \in SendTimes, NEW block \in BOOLEAN,
             SendCall(s, time, block)
      PROVE  Balanced(i)'
  <2>1. AwaitingAck(i)' = AwaitingAck(i)
    BY <1>1, <1>0 DEF SendCall, AwaitingAck
  <2> QED
    BY <1>1, <1>0, <2>1, SameAwaiting DEF SendCall, ring, sems
<1>2. ASSUME NEW s \in Senders, SendRefused(s) PROVE Balanced(i)'
  <2>1. AwaitingAck(i)' = AwaitingAck(i)
    BY <1>2, <1>0 DEF SendRefused, AwaitingAck
  <2> QED
    BY <1>2, <1>0, <2>1, SameAwaiting DEF SendRefused, ring, sems
<1>3. ASSUME NEW s \in Senders, SendLockWriter(s) PROVE Balanced(i)'
  <2>1. AwaitingAck(i)' = AwaitingAck(i)
    BY <1>3, <1>0 DEF SendLockWriter, AwaitingAck
  <2> QED
    BY <1>3, <1>0, <2>1, SameAwaiting DEF SendLockWriter, ring
<1>4. ASSUME NEW s \in Senders, SendEnqueue(s) PROVE Balanced(i)'
  <2>1. s \notin AwaitingAck(i) /\ ack' = ack
    BY <1>4 DEF SendEnqueue, AwaitingAck, sems
  <2>2. CASE sblock[s] /\ i = tail_cursor
    <3>1. AwaitingAck(i)' = AwaitingAck(i) \cup {s}
      BY <1>4, <1>0, <2>2 DEF SendEnqueue, AwaitingAck
    <3>2. Cardinality(AwaitingAck(i)') = Cardinality(AwaitingAck(i)) + 1
      BY <2>1, <3>1, AwaitingEnters
    <3>3. Queued < Length
      <4>1. Len(sent') = Len(sent) + 1 /\ released' = released
        BY <1>4 DEF SendEnqueue, TypeOK
      <4> QED
        BY <4>1 DEF RingHoldsQueue, Queued, TypeOK
    <3>4. ~sema_ack[i] /\ sema_ack'[i]
      BY <1>4, <1>0, <2>2, <3>3, TailOwesNothing DEF SendEnqueue
    <3> QED
      BY <1>0, <2>1, <3>2, <3>4 DEF Balanced, One
  <2>3. CASE ~(sblock[s] /\ i = tail_cursor)
    <3>1. AwaitingAck(i)' = AwaitingAck(i)
      BY <1>4, <1>0, <1>null, <2>3 DEF SendEnqueue, AwaitingAck
    <3>2. sema_ack'[i] = sema_ack[i]
      BY <1>4, <1>0, <2>3 DEF SendEnqueue
    <3> QED
      BY <1>0, <2>1, <3>1, <3>2 DEF Balanced, One
  <2> QED
    BY <2>2, <2>3
<1>5. ASSUME NEW s \in Senders, SendPost(s) PROVE Balanced(i)'
  <2>1. AwaitingAck(i)' = AwaitingAck(i)
    BY <1>5, <1>0, <1>null DEF SendPost, AwaitingAck
  <2> QED
    BY <1>5, <1>0, <2>1, SameAwaiting DEF SendPost, ring
<1>6. ASSUME NEW s \in Senders, SendAck(s) PROVE Balanced(i)'
  <2>1. sema_ack' = sema_ack /\ ack_sema' = ack_sema /\ ack_sema[s] \in Slots
    BY <1>6 DEF SendAck, ring, TypeOK
  <2>2. CASE i = ack_sema[s]
    <3>1. s \in AwaitingAck(i) /\ AwaitingAck(i)' = AwaitingAck(i) \ {s}
      BY <1>6, <1>0, <2>1, <2>2 DEF SendAck, AwaitingAck
    <3>2. /\ Cardinality(AwaitingAck(i)') = Cardinality(AwaitingAck(i)) - 1
          /\ Cardinality(AwaitingAck(i)) > 0
      BY <3>1, AwaitingLeaves
    <3>3. \/ ack[i] > 0 /\ ack'[i] = ack[i] - 1
          \/ ack'[i] = ack[i] /\ Interrupts
      BY <1>6, <1>0, <2>2 DEF SendAck, LockOutcomes, Results
    <3> QED
      BY <1>0, <2>1, <3>2, <3>3 DEF Balanced, One
  <2>3. CASE i # ack_sema[s]
    <3>1. AwaitingAck(i)' = AwaitingAck(i)
      BY <1>6, <1>0, <2>1, <2>3 DEF SendAck, AwaitingAck
    <3>2. ack'[i] = ack[i]
      BY <1>6, <1>0, <2>3 DEF SendAck
    <3> QED
      BY <1>0, <2>1, <3>1, <3>2 DEF Balanced, One
  <2> QED
    BY <2>2, <2>3
<1>7. ASSUME NEW time \in CallTimes, RecvNothingHeld(time) PROVE Balanced(i)'
  BY <1>7, <1>same DEF RecvNothingHeld, ring, sems, sender
<1>8. ASSUME NEW time \in CallTimes, RecvRelease(time) PROVE Balanced(i)'
  <2>1. AwaitingAck(i)' = AwaitingAck(i)
    BY <1>8 DEF RecvRelease, sender, AwaitingAck
  <2>2. ack'[i] + One(sema_ack'[i]) = ack[i] + One(sema_ack[i])
    <3>1. CASE i = head_cursor
      BY <1>8, <1>0, <3>1 DEF RecvRelease, One
    <3>2. CASE i # head_cursor
      BY <1>8, <1>0, <3>2 DEF RecvRelease, One
    <3> QED
      BY <3>1, <3>2
  <2> QED
    BY <1>0, <2>1, <2>2 DEF Balanced
<1>9. CASE RecvFree
  BY <1>9, <1>same DEF RecvFree, ring, sender
<1>10. CASE RecvLockReader
  BY <1>10, <1>same DEF RecvLockReader, ring, sender
<1>11. CASE RecvRefused
  BY <1>11, <1>same DEF RecvRefused, ring, sems, sender
<1>12. CASE RecvTake
  BY <1>12, <1>same DEF RecvTake, sems, sender
<1>13. CASE Close
  BY <1>13, <1>same DEF Close, ring, sems, sender
<1>14. CASE ResourceFree
  BY <1>14, <1>same DEF ResourceFree, ring, sems, sender
<1>15. CASE UNCHANGED vars
  BY <1>15, <1>same DEF vars, ring, sems, sender
<1> QED
  BY <1>1, <1>2, <1>3, <1>4, <1>5, <1>6, <1>7, <1>8, <1>9, <1>10, <1>11, <1>12,
     <1>13, <1>14, <1>15 DEF Next, SendStep, RecvStep

(* For every slot, the posts of its ack and the one its message still owes *)
(* cover the senders that wait there; without interrupted waits exactly.   *)
THEOREM AckComes == Spec => []EveryAckComes
  BY Typing, RingIsQueue, OnlyQueuedOwe, AckInit, AckNext, PTL DEF Spec

(* The conjunction of everything the proofs are built on. *)
THEOREM Invariance == Spec => []IInv
<1>1. IInv <=> /\ TypeOK /\ EverySlotAccounted /\ EveryMessageAnnounced
               /\ OnlyHeadHeld /\ RingHoldsQueue /\ FIFODelivery
               /\ OnlyQueuedOweAck /\ EveryAckComes
  BY DEF IInv
<1> QED
  BY <1>1, Typing, SlotAccounted, MessageAnnounced, HeadHeld, RingIsQueue,
     DeliveredInOrder, OnlyQueuedOwe, AckComes, PTL

-----------------------------------------------------------------------------
(* Acknowledgements that are exchanged.  Every sender that awaits one is   *)
(* known: its message was handled, or is in the ring, in the slot on whose *)
(* ack the sender waits, and that slot still owes the acknowledgement.  As *)
(* no slot has two messages, at most one sender of a slot is of the second *)
(* kind.                                                                   *)

IsOwed(s) == \E k \in 1 .. Queued : /\ ack_sema[s] = Pos(k - 1) /\ sema_ack[Pos(k - 1)]
                                    /\ sent[released + k] = <<s, calls[s]>>

WaitersAreKnown == \A i \in Slots : \A s \in AwaitingAck(i) : Handled(s) \/ IsOwed(s)

LEMMA KnownInit == Init => WaitersAreKnown
  BY DEF Init, WaitersAreKnown, AwaitingAck

LEMMA KnownNext ==
  TypeOK /\ RingHoldsQueue /\ RingHoldsQueue' /\ WaitersAreKnown /\ [Next]_vars
  => WaitersAreKnown'
<1> SUFFICES ASSUME TypeOK, RingHoldsQueue, RingHoldsQueue', WaitersAreKnown, [Next]_vars,
                    NEW i \in Slots, NEW s \in AwaitingAck(i)'
             PROVE  Handled(s)' \/ IsOwed(s)'
  BY DEF WaitersAreKnown
<1>0. /\ head_cursor \in Slots /\ tail_cursor \in Slots /\ released \in Nat
      /\ sent \in Seq(Messages) /\ Len(sent) \in Nat
      /\ sema_ack \in [Slots -> BOOLEAN] /\ sblock \in [Senders -> BOOLEAN]
      /\ spc \in [Senders -> {"idle", "writer", "enqueue", "post", "ack"}]
      /\ ack_sema \in [Senders -> Slots \cup {NULL}]
      /\ \A k \in 1 .. Len(sent) : sent[k] \in Messages
  BY ElementOfSeq DEF TypeOK
<1>ring. Queued \in 0 .. Length /\ tail_cursor = Pos(Queued) /\ Queued = Len(sent) - released
  BY <1>0 DEF RingHoldsQueue, Queued
<1>in. s \in Senders /\ spc'[s] \in {"post", "ack"} /\ ack_sema'[s] = i
  BY DEF AwaitingAck
<1>null. NULL \notin Slots
  BY DEF NULL, Slots
<1>known. ASSUME s \in AwaitingAck(i) PROVE Handled(s) \/ IsOwed(s)
  BY <1>known DEF WaitersAreKnown
(* Where neither the ring nor this sender changes ... *)
<1>same. ASSUME UNCHANGED <<head_cursor, sema_ack, sent, released>>, calls'[s] = calls[s],
                ack_sema'[s] = ack_sema[s], spc[s] \in {"post", "ack"}
         PROVE  Handled(s)' \/ IsOwed(s)'
  <2>1. Handled(s) \/ IsOwed(s)
    BY <1>same, <1>in, <1>known DEF AwaitingAck
  <2> QED
    BY <1>same, <2>1 DEF Handled, IsOwed, Queued, Pos
<1>1. ASSUME NEW t \in Senders, NEW time \in SendTimes, NEW block \in BOOLEAN,
             SendCall(t, time, block)
      PROVE  Handled(s)' \/ IsOwed(s)'
  <2>1. t # s /\ spc[s] = spc'[s]
    BY <1>1, <1>0, <1>in DEF SendCall
  <2> QED
    BY <1>1, <1>0, <1>in, <1>same, <2>1 DEF SendCall, ring, history, TypeOK
<1>2. ASSUME NEW t \in Senders, SendRefused(t) PROVE Handled(s)' \/ IsOwed(s)'
  <2>1. spc[s] = spc'[s]
    BY <1>2, <1>0, <1>in DEF SendRefused
  <2> QED
    BY <1>2, <1>in, <1>same, <2>1 DEF SendRefused, ring, history
<1>3. ASSUME NEW t \in Senders, SendLockWriter(t) PROVE Handled(s)' \/ IsOwed(s)'
  <2>1. spc[s] = spc'[s]
    BY <1>3, <1>0, <1>in DEF SendLockWriter
  <2> QED
    BY <1>3, <1>in, <1>same, <2>1 DEF SendLockWriter, ring, history
<1>4. ASSUME NEW t \in Senders, SendEnqueue(t) PROVE Handled(s)' \/ IsOwed(s)'
  <2>1. /\ head_cursor' = head_cursor /\ released' = released /\ calls' = calls
        /\ sent' = Append(sent, <<t, calls[t]>>)
        /\ sema_ack' = [sema_ack EXCEPT ![tail_cursor] = @ \/ sblock[t]]
        /\ ack_sema' = [ack_sema EXCEPT ![t] = IF sblock[t] THEN tail_cursor ELSE NULL]
        /\ spc' = [spc EXCEPT ![t] = "post"]
    BY <1>4 DEF SendEnqueue
  <2>2. /\ Len(sent') = Len(sent) + 1 /\ sent'[Len(sent) + 1] = <<t, calls[t]>>
        /\ \A k \in 1 .. Len(sent) : sent'[k] = sent[k]
    BY <2>1, <1>0
  <2>3. Queued' = Queued + 1 /\ \A k : Pos(k)' = Pos(k)
    BY <1>0, <2>1, <2>2 DEF Queued, Pos
  <2>4. CASE s = t
    <3>1. sblock[t] /\ ack_sema'[s] = tail_cursor /\ sema_ack'[tail_cursor]
      BY <1>0, <1>in, <1>null, <2>1, <2>4
    <3>2. PICK k \in 1 .. Queued + 1 : k = Queued + 1
      BY <1>ring
    <3>3. k - 1 = Queued /\ released + k = Len(sent) + 1
      BY <1>0, <1>ring, <3>2
    <3>4. ack_sema'[s] = Pos(k - 1)' /\ sema_ack'[Pos(k - 1)']
      BY <1>ring, <2>3, <3>1, <3>3
    <3>5. sent'[released' + k] = <<s, calls'[s]>>
      BY <2>1, <2>2, <2>4, <3>3
    <3> QED
      BY <2>3, <3>2, <3>4, <3>5 DEF IsOwed
  <2>5. CASE s # t
    <3>1. spc'[s] = spc[s] /\ ack_sema'[s] = ack_sema[s]
      BY <1>0, <2>1, <2>5
    <3>2. Handled(s) \/ IsOwed(s)
      BY <1>in, <1>known, <3>1 DEF AwaitingAck
    <3>3. CASE Handled(s)
      <4>1. PICK k \in 1 .. released : sent[k] = <<s, calls[s]>>
        BY <3>3 DEF Handled
      <4>2. k \in 1 .. Len(sent)
        BY <1>0, <1>ring
      <4> QED
        BY <2>1, <2>2, <4>1, <4>2 DEF Handled
    <3>4. CASE IsOwed(s)
      <4>1. PICK k \in 1 .. Queued : /\ ack_sema[s] = Pos(k - 1) /\ sema_ack[Pos(k - 1)]
                                     /\ sent[released + k] = <<s, calls[s]>>
        BY <3>4 DEF IsOwed
      <4>2. released + k \in 1 .. Len(sent) /\ k \in 1 .. Queued + 1 /\ k - 1 \in 0 .. Length
        BY <1>0, <1>ring
      <4>3. Pos(k - 1) \in Slots
        BY <1>0, <4>2, Positions
      <4>4. sema_ack'[Pos(k - 1)]
        BY <1>0, <2>1, <4>1, <4>3
      <4>5. sent'[released' + k] = <<s, calls'[s]>>
        BY <2>1, <2>2, <4>1, <4>2
      <4> QED
        BY <2>3, <3>1, <4>1, <4>2, <4>4, <4>5 DEF IsOwed
    <3> QED
      BY <3>2, <3>3, <3>4
  <2> QED
    BY <2>4, <2>5
<1>5. ASSUME NEW t \in Senders, SendPost(t) PROVE Handled(s)' \/ IsOwed(s)'
  <2>1. spc[s] \in {"post", "ack"}
    BY <1>5, <1>0, <1>in DEF SendPost
  <2> QED
    BY <1>5, <1>in, <1>same, <2>1 DEF SendPost, ring, history
<1>6. ASSUME NEW t \in Senders, SendAck(t) PROVE Handled(s)' \/ IsOwed(s)'
  <2>1. spc[s] = spc'[s]
    BY <1>6, <1>0, <1>in DEF SendAck
  <2> QED
    BY <1>6, <1>in, <1>same, <2>1 DEF SendAck, ring, history
<1>7. ASSUME NEW time \in CallTimes, RecvNothingHeld(time) PROVE Handled(s)' \/ IsOwed(s)'
  BY <1>7, <1>in, <1>same DEF RecvNothingHeld, ring, sender, history
<1>8. ASSUME NEW time \in CallTimes, RecvRelease(time) PROVE Handled(s)' \/ IsOwed(s)'
  <2>1. /\ head_cursor' = q_iNext(head_cursor) /\ released' = released + 1 /\ sent' = sent
        /\ sema_ack' = [sema_ack EXCEPT ![head_cursor] = FALSE]
        /\ calls' = calls /\ ack_sema' = ack_sema /\ spc' = spc
    BY <1>8 DEF RecvRelease, sender
  <2>2. Handled(s) \/ IsOwed(s)
    BY <1>in, <1>known, <2>1 DEF AwaitingAck
  <2>3. CASE Handled(s)
    <3>1. PICK k \in 1 .. released : sent[k] = <<s, calls[s]>>
      BY <2>3 DEF Handled
    <3>2. k \in 1 .. released'
      BY <1>0, <2>1
    <3> QED
      BY <2>1, <3>1, <3>2 DEF Handled
  <2>4. CASE IsOwed(s)
    <3>1. PICK k \in 1 .. Queued : /\ ack_sema[s] = Pos(k - 1) /\ sema_ack[Pos(k - 1)]
                                   /\ sent[released + k] = <<s, calls[s]>>
      BY <2>4 DEF IsOwed
    <3>2. CASE k = 1
      <4>1. released + k \in 1 .. released' /\ released + k = released'
        BY <1>0, <2>1, <3>2
      <4> QED
        BY <2>1, <3>1, <4>1 DEF Handled
    <3>3. CASE k # 1
      <4>1. PICK j \in 1 .. Queued - 1 : k = j + 1
        <5>1. k - 1 \in 1 .. Queued - 1 /\ k = (k - 1) + 1
          BY <1>ring, <3>3
        <5> QED
          BY <5>1
      <4>2. j - 1 \in 0 .. Length - 1 /\ (j - 1) + 1 = k - 1 /\ k - 1 \in 0 .. Length - 1
        BY <1>ring, <4>1
      <4>3. Pos(j - 1)' = Pos(k - 1)
        BY <1>0, <2>1, <4>2, PositionsShift
      <4>4. Pos(k - 1) # head_cursor /\ Pos(k - 1) \in Slots
        <5>1. k - 1 # 0 /\ 0 \in 0 .. Length - 1 /\ k - 1 \in 0 .. Length
          BY <3>3, <4>2
        <5> QED
          BY <1>0, <4>2, <5>1, Positions
      <4>5. sema_ack'[Pos(j - 1)'] /\ ack_sema'[s] = Pos(j - 1)'
        BY <1>0, <2>1, <3>1, <4>3, <4>4
      <4>6. released' + j = released + k /\ Queued' = Queued - 1
        BY <1>0, <2>1, <4>1 DEF Queued
      <4>7. sent'[released' + j] = <<s, calls'[s]>>
        BY <2>1, <3>1, <4>6
      <4> QED
        BY <4>1, <4>5, <4>6, <4>7 DEF IsOwed
    <3> QED
      BY <3>2, <3>3
  <2> QED
    BY <2>2, <2>3, <2>4
<1>9. CASE RecvFree
  BY <1>9, <1>in, <1>same DEF RecvFree, ring, sender, history
<1>10. CASE RecvLockReader
  BY <1>10, <1>in, <1>same DEF RecvLockReader, ring, sender, history
<1>11. CASE RecvRefused
  BY <1>11, <1>in, <1>same DEF RecvRefused, ring, sender, history
<1>12. CASE RecvTake
  BY <1>12, <1>in, <1>same DEF RecvTake, sender
<1>13. CASE Close
  BY <1>13, <1>in, <1>same DEF Close, ring, sender, history
<1>14. CASE ResourceFree
  BY <1>14, <1>in, <1>same DEF ResourceFree, ring, sender, history
<1>15. CASE UNCHANGED vars
  BY <1>15, <1>in, <1>same DEF vars, ring, sender, history
<1> QED
  BY <1>1, <1>2, <1>3, <1>4, <1>5, <1>6, <1>7, <1>8, <1>9, <1>10, <1>11, <1>12,
     <1>13, <1>14, <1>15 DEF Next, SendStep, RecvStep

THEOREM WaitersKnown == Spec => []WaitersAreKnown
  BY Typing, RingIsQueue, KnownInit, KnownNext, PTL DEF Spec

(* A sender whose own message is not handled takes an acknowledgement that *)
(* was posted for another one of its slot: the slot owes one more.         *)
LEMMA ExchangeStep ==
  ASSUME TypeOK, RingHoldsQueue, EveryAckComes, WaitersAreKnown, [Next]_vars, NEW s \in Senders,
         spc[s] = "ack", spc'[s] = "idle", ~Interrupts, ~Handled(s)
  PROVE  \E u \in AwaitingAck(ack_sema[s]) \ {s} : Handled(u)
<1>0. /\ head_cursor \in Slots /\ ack_sema[s] \in Slots
      /\ ack \in [Slots -> Nat] /\ sema_ack \in [Slots -> BOOLEAN]
      /\ spc \in [Senders -> {"idle", "writer", "enqueue", "post", "ack"}]
      /\ Queued \in 0 .. Length /\ released \in Nat
  BY DEF TypeOK, RingHoldsQueue, Queued
<1>1. PICK i \in Slots : i = ack_sema[s]
  BY <1>0
<1>2. s \in AwaitingAck(i)
  BY <1>1 DEF AwaitingAck
<1>3. SendAck(s)
  BY <1>0 DEF Next, SendStep, RecvStep, SendCall, SendRefused, SendLockWriter, SendEnqueue,
     SendPost, SendAck, RecvNothingHeld, RecvRelease, RecvFree, RecvLockReader, RecvRefused,
     RecvTake, Close, ResourceFree, sender, vars
<1>4. ack[i] > 0
  BY <1>0, <1>1, <1>3 DEF SendAck, LockOutcomes, Results
<1>5. IsOwed(s)
  BY <1>2 DEF WaitersAreKnown
<1>6. PICK k \in 1 .. Queued : /\ i = Pos(k - 1) /\ sema_ack[i]
                               /\ sent[released + k] = <<s, calls[s]>>
  BY <1>1, <1>5 DEF IsOwed
<1>7. IsFiniteSet(AwaitingAck(i)) /\ Cardinality(AwaitingAck(i)) \in Nat
  BY AwaitingCount
<1>8. Cardinality(AwaitingAck(i)) > 1
  BY <1>0, <1>4, <1>6, <1>7 DEF EveryAckComes, One
<1>9. PICK u \in AwaitingAck(i) : u # s
  <2>1. AwaitingAck(i) # {s}
    BY <1>8, FS_Singleton
  <2> QED
    BY <1>2, <2>1
<1>10. ~IsOwed(u)
  <2> SUFFICES ASSUME IsOwed(u) PROVE FALSE
    OBVIOUS
  <2>1. ack_sema[u] = i
    BY DEF AwaitingAck
  <2>2. PICK j \in 1 .. Queued : i = Pos(j - 1) /\ sent[released + j] = <<u, calls[u]>>
    BY <2>1 DEF IsOwed
  <2>3. j - 1 \in 0 .. Length - 1 /\ k - 1 \in 0 .. Length - 1
    BY <1>0
  <2>4. j - 1 = k - 1
    BY <1>0, <1>6, <2>2, <2>3, Positions
  <2>5. j = k
    BY <2>4
  <2> QED
    BY <1>6, <1>9, <2>2, <2>5
<1> QED
  BY <1>1, <1>9, <1>10 DEF WaitersAreKnown

(* A blocking send returns early only by exchange: on the acknowledgement  *)
(* of another send that still waits on the same slot, and was handled.     *)
THEOREM EarlyOnlyByExchange == Spec => EarlyReturnsAreExchanged
<1>1. TypeOK /\ RingHoldsQueue /\ EveryAckComes /\ WaitersAreKnown /\ [Next]_vars
      => [\A s \in Senders :
            spc[s] = "ack" /\ spc'[s] = "idle" /\ ~Interrupts
              => Handled(s) \/ \E u \in AwaitingAck(ack_sema[s]) \ {s} : Handled(u)]_vars
  BY ExchangeStep
<1> QED
  BY Typing, RingIsQueue, AckComes, WaitersKnown, <1>1, PTL DEF Spec, EarlyReturnsAreExchanged
=============================================================================
