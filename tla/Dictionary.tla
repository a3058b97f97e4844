------------------------------ MODULE Dictionary ------------------------------
(***************************************************************************)
(* The dictionary of src/Utils.c: a list of entries in which a key is      *)
(* searched from the front.  Keys and values are strdup's copies; entries  *)
(* are blocks of libwq_malloc's.  With the test heap, libwq_free of a copy *)
(* ends the process (Heap, EndsForAReason).                               *)
(*                                                                         *)
(* Dictionary_delete has no action: it returns before it does anything.    *)
(***************************************************************************)
EXTENDS Links

CONSTANTS
  Entries,     \* addresses of struct Keyvalue
  Keys,
  Values       \* what vi or vc may be

ASSUME EntriesAssumption == IsFiniteSet(Entries) /\ NULL \notin Entries

VARIABLES
  testmode,            \* is libwq_heap_testmode in force?
  kvs,                 \* the first entry
  next_kv, kv_k, kv_v, \* next, k, and vc or vi of each entry
  used,                \* the entries that malloc has given and free not taken back
  progress             \* "runs", "exit", "wild" (a next read from freed memory)
                       \* or "corrupt" (a next written to it)

dictVars == <<testmode, kvs, next_kv, kv_k, kv_v, used, progress>>

DictInit ==
  /\ testmode \in BOOLEAN /\ kvs = NULL
  /\ next_kv = [e \in Entries |-> NULL] /\ used = {} /\ progress = "runs"
  /\ kv_k \in [Entries -> {CHOOSE key \in Keys : TRUE}]
  /\ kv_v \in [Entries -> {CHOOSE value \in Values : TRUE}]

Walk == Reach(next_kv, kvs)

(* The entries of a key, and the one that a search from the front meets.   *)
Matches(key) == {e \in Walk : kv_k[e] = key}
First(key) ==
  LET matches == Matches(key)
  IN CHOOSE e \in matches : matches \subseteq Reach(next_kv, e)

(* Dictionary_refchar, _allocchar and _copyint read the first of them, and *)
(* Dictionary_haskey asks for one.                                         *)
WrongHas(key) == kvs # NULL /\ kv_k[kvs] = key

Has(key) == Matches(key) # {}
Lookup(key) == kv_v[First(key)]

(* Dictionary_add_int and Dictionary_add_char: the entry is made before    *)
(* the key is searched for, and freed again if it is there.                *)
Dictionary_add(e, key, value) ==
  /\ progress = "runs" /\ e \notin used
  /\ IF Has(key)
     THEN /\ progress' = IF testmode THEN "exit" ELSE progress
          /\ UNCHANGED <<kvs, next_kv, kv_k, kv_v, used>>
     ELSE /\ used' = used \cup {e}
          /\ kv_k' = [kv_k EXCEPT ![e] = key] /\ kv_v' = [kv_v EXCEPT ![e] = value]
          /\ kvs' = IF kvs = NULL THEN e ELSE kvs
          /\ next_kv' = IF kvs = NULL THEN [next_kv EXCEPT ![e] = NULL]
                        ELSE [next_kv EXCEPT ![EndOf(next_kv, kvs)] = e, ![e] = NULL]
          /\ UNCHANGED progress
  /\ UNCHANGED testmode

(* Dictionary_remove frees the entry, reads its next from the freed memory *)
(* and goes on from there: it may still be what it was, or anything.  A    *)
(* second entry of the key would be unlinked by a write to the freed one.  *)
WrongBypass(e) == [next_kv EXCEPT ![e] = NULL]

Unlinking(e) == Bypass(next_kv, kvs, e)

Dictionary_remove(key) ==
  LET e == First(key) IN
  /\ progress = "runs" /\ Has(key)
  /\ IF testmode
     THEN progress' = "exit" /\ UNCHANGED <<kvs, next_kv, used>>
     ELSE /\ kvs' = IF kvs = e THEN next_kv[e] ELSE kvs
          /\ next_kv' = Unlinking(e)
          /\ used' = used \ {e}
          /\ progress' \in {"wild", IF Matches(key) # {e} THEN "corrupt" ELSE "runs"}
  /\ UNCHANGED <<testmode, kv_k, kv_v>>

DictNext ==
  \E key \in Keys : \/ \E e \in Entries, value \in Values : Dictionary_add(e, key, value)
                    \/ Dictionary_remove(key)

DictSpec == DictInit /\ [][DictNext]_dictVars
-----------------------------------------------------------------------------
(* Properties *)

(* The entries in the list are those that are allocated: none leaks, none  *)
(* is read after it was freed by a later call, and Dictionary_remove never *)
(* writes to the entry it has freed, because no key has two.               *)
EntriesAreAllocated ==
  /\ Walk = used /\ ~Circular(next_kv, kvs)
  /\ progress # "corrupt"

Contents ==
  [key \in {kv_k[e] : e \in Walk} |-> Lookup(key)]

AMap == INSTANCE KeyMap WITH map <- Contents

(* The list is used as a map: a second value for a key is refused, and a   *)
(* removal takes away its key and nothing else.                            *)
DictionaryIsMap == AMap!Spec
=============================================================================
