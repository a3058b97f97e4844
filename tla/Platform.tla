------------------------------ MODULE Platform ------------------------------
(***************************************************************************)
(* The counting semaphores of src/Platform.c.  A semaphore is its count; a *)
(* post adds one (sem_post), a wait that is SIGNALED takes one.  The       *)
(* outcomes of a wait are those of Platform_semaphore_lock: time 0 is      *)
(* sem_trywait, INFINITE is sem_wait, any other time is sem_timedwait; the *)
(* errors EAGAIN and ETIMEDOUT become WQ_TIMED_OUT, every other error      *)
(* (EINTR, when a signal handler runs) becomes WQ_FAIL.                    *)
(***************************************************************************)
EXTENDS Naturals

CONSTANT Interrupts   \* TRUE: a signal may interrupt a thread that waits

ASSUME InterruptsAssumption == Interrupts \in BOOLEAN

WaitTimes == {"zero", "finite", "INFINITE"}
Results == {"WQ_SIGNALED", "WQ_TIMED_OUT", "WQ_FAIL"}

(***************************************************************************)
(* The results a wait of the given time can have on a semaphore that       *)
(* counts to the given number; no result means that the thread sleeps.  A  *)
(* wait that finds a positive count takes it at once, whatever its time    *)
(* is, so it can only fail while the count is zero.                        *)
(***************************************************************************)
LockOutcomes(count, time) ==
  {r \in Results :
     \/ r = "WQ_SIGNALED"  /\ count > 0
     \/ r = "WQ_TIMED_OUT" /\ count = 0 /\ time # "INFINITE"
     \/ r = "WQ_FAIL"      /\ count = 0 /\ time # "zero" /\ Interrupts}
=============================================================================
