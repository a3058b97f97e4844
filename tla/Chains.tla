-------------------------------- MODULE Chains --------------------------------
(***************************************************************************)
(* The list, the double list, the stack and the queue of src/ds.c.  Their  *)
(* elements are the user's: the links are fields of them, which the user   *)
(* clears when it makes an element (__ds_element_alloc), and the functions *)
(* only sometimes.  A run has one chain, of one of the four kinds.         *)
(***************************************************************************)
EXTENDS Links, SequencesExt

CONSTANTS Elements      \* addresses of elements

ASSUME ElementsAssumption == IsFiniteSet(Elements) /\ NULL \notin Elements

VARIABLES
  kind,             \* "list", "double", "stack" or "queue"
  head,
  next, previous,   \* the fields of each element
  course,           \* "runs", "crashed" (a write through NULL) or "hangs"
  content,          \* history: the elements that should be there, in order,
  kept,             \* ... those that a pop or a clear has left to the user,
  stale             \* ... was one of them added where the function sets no link?

chainVars == <<kind, head, next, previous, course, content, kept, stale>>

ChainInit ==
  /\ kind \in {"list", "double", "stack", "queue"} /\ head = NULL
  /\ next = [p \in Elements |-> NULL] /\ previous = [p \in Elements |-> NULL]
  /\ course = "runs" /\ content = << >>
  /\ kept = {} /\ stale = FALSE

LinkField == IF kind = "stack" THEN previous ELSE next
EndElement == EndOf(LinkField, head)
Runs(kinds) == course = "runs" /\ kind \in kinds

(* Every loop to the end of a circle goes on for ever. *)
Hang ==
  /\ course = "runs" /\ Circular(LinkField, head) /\ course' = "hangs"
  /\ UNCHANGED <<kind, head, next, previous, content, kept, stale>>

(* (Bound: nothing is added after a stale element.) *)
Added(p, longer, linkIsSet) ==
  /\ ~stale /\ stale' = (p \in kept /\ ~linkIsSet) /\ kept' = kept \ {p}
  /\ p \notin ToSet(content) /\ content' = longer
  /\ UNCHANGED <<kind, course>>

(* _list_link clears the link of the first element only, *)
ListLink(p) ==
  /\ Runs({"list"}) /\ Added(p, Append(content, p), head = NULL)
  /\ head' = IF head = NULL THEN p ELSE head
  /\ next' = IF head = NULL THEN [next EXCEPT ![p] = NULL]
             ELSE [next EXCEPT ![EndElement] = p]
  /\ UNCHANGED previous

(* _doublelist_link the link back of all others, *)
DoubleLink(p) ==
  /\ Runs({"double"}) /\ Added(p, Append(content, p), FALSE)
  /\ head' = IF head = NULL THEN p ELSE head
  /\ next' = IF head = NULL THEN next ELSE [next EXCEPT ![EndElement] = p]
  /\ previous' = IF head = NULL THEN previous ELSE [previous EXCEPT ![p] = EndElement]

(* _queue_push none, *)
QueuePush(p) ==
  /\ Runs({"queue"}) /\ Added(p, Append(content, p), FALSE)
  /\ head' = IF head = NULL THEN p ELSE head
  /\ next' = IF head = NULL THEN next ELSE [next EXCEPT ![EndElement] = p]
  /\ UNCHANGED previous

(* and _stack_push sets that of all but the first. *)
StackPush(p) ==
  /\ Runs({"stack"}) /\ Added(p, <<p>> \o content, head # NULL)
  /\ head' = p
  /\ previous' = IF head = NULL THEN previous ELSE [previous EXCEPT ![p] = head]
  /\ UNCHANGED next

Removed(p) ==
  /\ content' = RemoveFirst(content, p) /\ UNCHANGED <<kind, course, kept, stale>>

(* _list_unlink *)
WrongUnlinked(p) == Bypass(next, head, p)

Unlinked(p) == [Bypass(next, head, p) EXCEPT ![p] = NULL]

ListUnlink(p) ==
  /\ Runs({"list"}) /\ p \in Reach(next, head) /\ Removed(p)
  /\ head' = IF head = p THEN next[p] ELSE head
  /\ next' = Unlinked(p)
  /\ UNCHANGED previous

(* _doublelist_unlink; an element without a previous one is taken for the  *)
(* head, and the next one written to.                                      *)
DoubleUnlink(p) ==
  LET before == previous[p]
      after == next[p]
      joined == IF before = NULL THEN next ELSE [next EXCEPT ![before] = after]
      joinedBack == IF after = NULL THEN previous ELSE [previous EXCEPT ![after] = before]
  IN /\ Runs({"double"}) /\ p \in Reach(next, head)
     /\ ~(before = NULL /\ after = NULL)
     /\ head' = IF before = NULL THEN after ELSE head
     /\ next' = [joined EXCEPT ![p] = NULL]
     /\ previous' = [joinedBack EXCEPT ![p] = NULL]
     /\ Removed(p)

DoubleCrash(p) ==
  /\ Runs({"double"}) /\ p \in Reach(next, head) /\ previous[p] = NULL /\ next[p] = NULL
  /\ course' = "crashed" /\ head' = NULL
  /\ UNCHANGED <<kind, next, previous, content, kept, stale>>

(* _stack_pop and _queue_pop leave the link in the element. *)
Pop ==
  /\ Runs({"stack", "queue"}) /\ head # NULL /\ head' = LinkField[head]
  /\ content' = RemoveFirst(content, head) /\ kept' = kept \cup {head}
  /\ UNCHANGED <<kind, next, previous, course, stale>>

(* _list_clear, _doublelist_clear, _stack_clear and _queue_clear, whose    *)
(* function may keep the elements.                                         *)
Clear ==
  /\ course = "runs" /\ head # NULL /\ ~Circular(LinkField, head) /\ head' = NULL
  /\ content' = << >> /\ kept' = kept \cup ToSet(content)
  /\ UNCHANGED <<kind, next, previous, course, stale>>

(* The user frees an element and makes another one at its address. *)
Renew(p) ==
  /\ course = "runs" /\ p \in kept /\ kept' = kept \ {p}
  /\ next' = [next EXCEPT ![p] = NULL] /\ previous' = [previous EXCEPT ![p] = NULL]
  /\ UNCHANGED <<kind, head, course, content, stale>>

ChainNext ==
  \/ \E p \in Elements :
       \/ ListLink(p) \/ DoubleLink(p) \/ QueuePush(p) \/ StackPush(p)
       \/ ListUnlink(p) \/ DoubleUnlink(p) \/ DoubleCrash(p) \/ Renew(p)
  \/ Pop \/ Clear \/ Hang

ChainSpec == ChainInit /\ [][ChainNext]_chainVars
-----------------------------------------------------------------------------
(* Properties *)

(* The chain has the elements that were added and not removed, in order,   *)
(* both ways for a double list, and no loop over it hangs, as long as no   *)
(* element that a pop or a clear has left is added again where the         *)
(* function leaves its link alone: unlinked ones may be added again.       *)
(* Nothing crashes but the unlinking of the only element of a double list. *)
ContentUnlessStale ==
  ~stale =>
    /\ course = "runs" => IsList(LinkField, head, content)
    /\ course = "runs" /\ kind = "double" =>
         \A n \in DOMAIN content :
           previous[content[n]] = IF n = 1 THEN NULL ELSE content[n - 1]
    /\ course = "crashed" => kind = "double" /\ Len(content) = 1
    /\ course # "hangs"
=============================================================================
