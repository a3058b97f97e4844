--------------------------------- MODULE Heap ---------------------------------
(***************************************************************************)
(* The test heap of src/Heap.c: every block has a page of its own before   *)
(* it, write protected, that holds the link to the next block, and check   *)
(* sums around the user's bytes.  The list has one mutex.  A write to a    *)
(* protected page ends the process (SIGSEGV), and so does libwq_free when  *)
(* it finds something wrong (exit).                                        *)
(***************************************************************************)
EXTENDS Links

CONSTANTS
  Users,     \* threads that call libwq_malloc and libwq_free
  Pages,     \* addresses that memalign may return
  Damages    \* TRUE: users may write past their blocks

ASSUME HeapAssumption == IsFiniteSet(Pages) /\ 0 \notin Pages /\ Damages \in BOOLEAN

VARIABLES
  _head,      \* _link._head, 0 if NULL
  next_page,  \* page_ro_next_address of each page
  mode,       \* what mprotect has made of each page: "rw" or "ro"
  whole,      \* are both check sums of the block right?
  given,      \* the pages that memalign has returned and free not taken back
  mutex,      \* who holds _link._lock (a set of at most one)
  where,      \* where a thread is in libwq_malloc or libwq_free
  page,       \* ... and its page
  outcome,    \* "runs", "exit" or "fault"
  mine,       \* history: the blocks that malloc has returned, not yet given to free
  ended       \* history: how the process ended, and whose mprotect was last where

places == <<where, page>>
heapVars == <<_head, next_page, mode, whole, given, mutex, places, outcome, mine, ended>>

HeapInit ==
  /\ _head = 0 /\ next_page = [p \in Pages |-> 0] /\ mode = [p \in Pages |-> "rw"]
  /\ whole = [p \in Pages |-> TRUE] /\ given = {} /\ mutex = {}
  /\ where = [u \in Users |-> "user"] /\ page = [u \in Users |-> 0]
  /\ outcome = "runs" /\ mine = {}
  /\ ended = [misuse |-> FALSE, relocked |-> {}]

(* The list, and the page before p or the last one. *)
Listed == Reach(next_page, _head)
Before(p) == CHOOSE q \in Listed : next_page[q] = p
EndPage == EndOf(next_page, _head)

(* libwq_malloc: a page with check sums. *)
Generate(u, p) ==
  /\ outcome = "runs" /\ where[u] = "user" /\ p \notin given
  /\ given' = given \cup {p} /\ next_page' = [next_page EXCEPT ![p] = 0]
  /\ whole' = [whole EXCEPT ![p] = TRUE]
  /\ where' = [where EXCEPT ![u] = "link"] /\ page' = [page EXCEPT ![u] = p]
  /\ UNCHANGED <<_head, mode, mutex, outcome, mine, ended>>

(* page_ro_area_modecontrol *)
WrongLift(p) == mode

Lift(p) == [mode EXCEPT ![p] = "rw"]

Restore(p) == [mode EXCEPT ![p] = "ro"]

(* __link_page: the first page is the head; for another one the protection *)
(* of the last page is lifted, its link written, and put back.             *)
LinkPage(u) ==
  /\ outcome = "runs" /\ where[u] = "link" /\ mutex = {}
  /\ IF _head = 0
     THEN /\ _head' = page[u] /\ where' = [where EXCEPT ![u] = "protect"]
          /\ UNCHANGED <<mode, mutex>>
     ELSE /\ mode' = Lift(EndPage) /\ where' = [where EXCEPT ![u] = "append"]
          /\ mutex' = {u} /\ UNCHANGED _head
  /\ UNCHANGED <<next_page, whole, given, page, outcome, mine, ended>>

WrongWriteLink(p, q) == [next_page EXCEPT ![p] = 0]

WriteLink(p, q) == [next_page EXCEPT ![p] = q]

Writable(p) == mode[p] = "rw"

AppendPage(u) ==
  /\ outcome = "runs" /\ where[u] = "append"
  /\ IF Writable(EndPage)
     THEN /\ next_page' = WriteLink(EndPage, page[u]) /\ mode' = Restore(EndPage)
          /\ mutex' = {} /\ where' = [where EXCEPT ![u] = "protect"]
          /\ UNCHANGED outcome
     ELSE outcome' = "fault" /\ UNCHANGED <<next_page, mode, mutex, where>>
  /\ UNCHANGED <<_head, whole, given, page, mine, ended>>

(* Not before the mutex is released, the maker protects its new page. *)
Protect(u) ==
  /\ outcome = "runs" /\ where[u] = "protect"
  /\ mode' = Restore(page[u])
  /\ ended' = [ended EXCEPT !.relocked =
                 @ \cup {v \in mutex : where[v] \in {"append", "unlink"} /\ mode[page[u]] = "rw"}]
  /\ where' = [where EXCEPT ![u] = "user"] /\ mine' = mine \cup {page[u]}
  /\ UNCHANGED <<_head, next_page, whole, given, mutex, page, outcome>>

(* A user writes past the end, or before the beginning, of its block. *)
Damage(p) ==
  /\ outcome = "runs" /\ Damages /\ p \in mine
  /\ whole' = [whole EXCEPT ![p] = FALSE]
  /\ UNCHANGED <<_head, next_page, mode, given, mutex, places, outcome, mine, ended>>

(* libwq_free of a block, or of what is none (NULL, an address that is not *)
(* or no longer in the list).  It is searched for and taken out.           *)
Free(u, p) ==
  /\ outcome = "runs" /\ where[u] = "user" /\ (p = 0 \/ mutex = {})
  /\ p \in mine \/ p \notin Listed
  /\ ended' = [ended EXCEPT !.misuse = @ \/ p \notin mine]
  /\ mine' = mine \ {p} /\ page' = [page EXCEPT ![u] = p]
  /\ \/ /\ p \notin Listed /\ outcome' = "exit"
        /\ UNCHANGED <<_head, mode, mutex, where>>
     \/ /\ p \in Listed /\ p = _head
        /\ _head' = next_page[p] /\ where' = [where EXCEPT ![u] = "check"]
        /\ UNCHANGED <<mode, mutex, outcome>>
     \/ /\ p \in Listed /\ p # _head
        /\ mode' = Lift(Before(p)) /\ mutex' = {u}
        /\ where' = [where EXCEPT ![u] = "unlink"] /\ UNCHANGED <<_head, outcome>>
  /\ UNCHANGED <<next_page, whole, given>>

Unlink(u) ==
  /\ outcome = "runs" /\ where[u] = "unlink"
  /\ LET pre == Before(page[u]) IN
     IF Writable(pre)
     THEN /\ next_page' = WriteLink(pre, next_page[page[u]]) /\ mode' = Restore(pre)
          /\ mutex' = {} /\ where' = [where EXCEPT ![u] = "check"]
          /\ UNCHANGED outcome
     ELSE outcome' = "fault" /\ UNCHANGED <<next_page, mode, mutex, where>>
  /\ UNCHANGED <<_head, whole, given, page, mine, ended>>

(* The check sums of a block taken out, before its page goes back. *)
Check(u) ==
  /\ outcome = "runs" /\ where[u] = "check"
  /\ IF whole[page[u]]
     THEN /\ mode' = Lift(page[u]) /\ given' = given \ {page[u]}
          /\ where' = [where EXCEPT ![u] = "user"] /\ UNCHANGED outcome
     ELSE outcome' = "exit" /\ UNCHANGED <<mode, given, where>>
  /\ UNCHANGED <<_head, next_page, whole, mutex, page, mine, ended>>

(* libwq_print_heap and libwq_heap_testdeinit: the check sums of the list. *)
PrintHeap(u) ==
  /\ outcome = "runs" /\ where[u] = "user" /\ mutex = {}
  /\ \E p \in Listed : ~whole[p]
  /\ outcome' = "exit"
  /\ UNCHANGED <<_head, next_page, mode, whole, given, mutex, places, mine, ended>>

HeapNext ==
  \/ \E u \in Users : \/ \E p \in Pages : Generate(u, p)
                      \/ LinkPage(u) \/ AppendPage(u) \/ Protect(u)
                      \/ \E p \in Pages \cup {0} : Free(u, p)
                      \/ Unlink(u) \/ Check(u) \/ PrintHeap(u)
  \/ \E p \in Pages : Damage(p)

HeapSpec == HeapInit /\ [][HeapNext]_heapVars
-----------------------------------------------------------------------------
(* Properties *)

(* The list holds exactly the blocks that some malloc has linked and no    *)
(* free has taken out, whoever appends and removes at the same time: a     *)
(* block is never lost (its free would end the process) nor listed after   *)
(* it went back to memalign.                                               *)
ListIsLive ==
  outcome = "runs" =>
    LET unlinked == {page[u] : u \in {v \in Users : where[v] \in {"link", "append", "check"}}}
    IN Listed = given \ unlinked

(* The process ends only for a reason: the protection of a page kills a    *)
(* thread only if the page's maker has protected it late, between the      *)
(* thread's mprotect and its write (so never a process of one thread), and *)
(* libwq_free exits only if what it was given was not a block of the       *)
(* user's, or one was damaged.                                             *)
EndsForAReason ==
  /\ outcome = "fault" => \E u \in ended.relocked : where[u] \in {"append", "unlink"}
  /\ outcome = "exit" => ended.misuse \/ \E p \in Pages : ~whole[p]
=============================================================================
