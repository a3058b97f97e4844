----------------------------- MODULE SmartPointer -----------------------------
(***************************************************************************)
(* The counted blocks of src/Sp.c: a list of them under one mutex.  Users  *)
(* refer to blocks; SP_malloc gives out refer references, SP_ref one more, *)
(* SP_unref (SP_free) takes one back.  What SP_unref frees, it frees after *)
(* it has released the mutex.                                              *)
(*                                                                         *)
(* SP_using and SP_unused are called while no other call runs: they open   *)
(* and close the mutex that the others lock.                               *)
(***************************************************************************)
EXTENDS Links

CONSTANTS
  Holders,     \* threads
  Counted,     \* addresses of blocks
  Refers,      \* values of refer
  MaxRefs      \* bound: references to a block

ASSUME CountedAssumption ==
  /\ IsFiniteSet(Counted) /\ 0 \notin Counted
  /\ Refers \subseteq Nat \ {0} /\ MaxRefs \in Nat

VARIABLES
  _use, _link,   \* of _g_sp; a block or 0
  _next_sp,      \* of each block
  _ref,          \* of each block
  live,          \* the blocks that malloc has given and free not taken back
  doing,         \* what a thread does: "user", "link" or "free"
  sp_ptr,        \* ... with which block
  crashed,       \* has SP_malloc run off the list?
  refs,          \* history: how many references the users have to each block
  shared         \* ... was it shared, or forgotten by SP_unused, when it left the list?

spVars == <<_use, _link, _next_sp, _ref, live, doing, sp_ptr, crashed, refs, shared>>

SPInit ==
  /\ _use = FALSE /\ _link = 0
  /\ _next_sp = [b \in Counted |-> 0] /\ _ref = [b \in Counted |-> 0] /\ live = {}
  /\ doing = [t \in Holders |-> "user"] /\ sp_ptr = [t \in Holders |-> 0]
  /\ crashed = FALSE
  /\ refs = [b \in Counted |-> 0] /\ shared = [b \in Counted |-> FALSE]

Quiet == \A t \in Holders : doing[t] = "user"

Chained == Reach(_next_sp, _link)

SP_using ==
  /\ ~crashed /\ ~_use /\ Quiet /\ _use' = TRUE /\ _link' = 0
  /\ UNCHANGED <<_next_sp, _ref, live, doing, sp_ptr, crashed, refs, shared>>

(* A new block has its count before it is linked. *)
SP_malloc(t, b, refer) ==
  /\ ~crashed /\ _use /\ doing[t] = "user" /\ b \notin live
  /\ live' = live \cup {b} /\ _ref' = [_ref EXCEPT ![b] = refer]
  /\ _next_sp' = [_next_sp EXCEPT ![b] = 0] /\ shared' = [shared EXCEPT ![b] = FALSE]
  /\ doing' = [doing EXCEPT ![t] = "link"] /\ sp_ptr' = [sp_ptr EXCEPT ![t] = b]
  /\ UNCHANGED <<_use, _link, crashed, refs>>

(* The search for the end of the list goes on only from blocks that have   *)
(* no next: it runs off a list of one, and would stay at the head of a     *)
(* longer one.                                                             *)
LinkAfter == IF _next_sp[_link] = 0 THEN 0 ELSE _link

SP_link(t) ==
  /\ ~crashed /\ doing[t] = "link"
  /\ LET b == sp_ptr[t] IN
     /\ _link' = IF _link = 0 THEN b ELSE _link
     /\ _next_sp' = IF _link # 0 /\ LinkAfter # 0
                    THEN [_next_sp EXCEPT ![LinkAfter] = b] ELSE _next_sp
     /\ crashed' = (_link # 0 /\ LinkAfter = 0)
     /\ refs' = [refs EXCEPT ![b] = _ref[b]]
  /\ doing' = [doing EXCEPT ![t] = "user"]
  /\ UNCHANGED <<_use, _ref, live, sp_ptr, shared>>

(* A user that has a reference makes one more.  A block that has left the  *)
(* list is returned too, but not counted.                                  *)
SP_ref(t, b) ==
  /\ ~crashed /\ _use /\ doing[t] = "user" /\ refs[b] \in 1 .. MaxRefs - 1
  /\ _ref' = IF b \in Chained THEN [_ref EXCEPT ![b] = @ + 1] ELSE _ref
  /\ refs' = [refs EXCEPT ![b] = @ + 1]
  /\ UNCHANGED <<_use, _link, _next_sp, live, doing, sp_ptr, crashed, shared>>

(* The block leaves the list whatever its count is, and is not found later. *)
WrongLastRef(b) == TRUE
WrongLastOff(b) == _ref[b] = 0

LastRef(b) == _ref[b] = 1

SP_unref(t, b) ==
  /\ ~crashed /\ doing[t] = "user" /\ refs[b] > 0
  /\ refs' = [refs EXCEPT ![b] = @ - 1]
  /\ IF _use /\ b \in Chained
     THEN /\ _link' = IF _link = b THEN _next_sp[b] ELSE _link
          /\ _next_sp' = Bypass(_next_sp, _link, b)
          /\ _ref' = [_ref EXCEPT ![b] = @ - 1]
          /\ shared' = [shared EXCEPT ![b] = refs[b] > 1]
          /\ sp_ptr' = [sp_ptr EXCEPT ![t] = b]
          /\ doing' = [doing EXCEPT ![t] = IF LastRef(b) THEN "free" ELSE "user"]
     ELSE UNCHANGED <<_link, _next_sp, _ref, shared, sp_ptr, doing>>
  /\ UNCHANGED <<_use, live, crashed>>

(* libwq_free, after the mutex was released. *)
SP_freed(t) ==
  /\ ~crashed /\ doing[t] = "free"
  /\ live' = live \ {sp_ptr[t]} /\ doing' = [doing EXCEPT ![t] = "user"]
  /\ UNCHANGED <<_use, _link, _next_sp, _ref, sp_ptr, crashed, refs, shared>>

(* The blocks still in the list are forgotten. *)
SP_unused ==
  /\ ~crashed /\ _use /\ Quiet /\ _use' = FALSE /\ _link' = 0
  /\ shared' = [b \in Counted |-> shared[b] \/ b \in Chained]
  /\ UNCHANGED <<_next_sp, _ref, live, doing, sp_ptr, crashed, refs>>

SPNext ==
  \/ SP_using \/ SP_unused
  \/ \E t \in Holders, b \in Counted :
       \/ \E refer \in Refers : SP_malloc(t, b, refer)
       \/ SP_ref(t, b) \/ SP_unref(t, b)
  \/ \E t \in Holders : SP_link(t) \/ SP_freed(t)

SPSpec == SPInit /\ [][SPNext]_spVars
-----------------------------------------------------------------------------
(* Properties *)

(* No user has a reference to a block that is freed or being freed, though *)
(* references are made and given back at the same time, counts are lost    *)
(* once the block has left the list, and freeing comes after the mutex.    *)
ReferencedIsLive ==
  \A b \in Counted : refs[b] > 0 =>
    b \in live /\ \A t \in Holders : doing[t] = "free" => sp_ptr[t] # b

(* A block without references is freed, or about to be, unless it was      *)
(* shared when its first reference was given back, or SP_unused has        *)
(* forgotten it: nobody ever frees those.  The list never holds two blocks: *)
(* a second SP_malloc ends the process, and it does so only then.           *)
LeakedIfShared ==
  /\ \A b \in live : refs[b] = 0 =>
       shared[b] \/ \E t \in Holders : doing[t] \in {"link", "free"} /\ sp_ptr[t] = b
  /\ Cardinality(Chained) <= 1 /\ (crashed => Chained # {})
=============================================================================
