--------------------------- MODULE ContainerProofs ---------------------------
(***************************************************************************)
(* What holds of the dictionary of src/Utils.c and of the containers of    *)
(* src/ds.c, for all numbers of entries, elements and nodes.               *)
(***************************************************************************)
EXTENDS Dictionary, Chains, Tree, LinkProofs, SequenceTheorems, WellFoundedInduction

-----------------------------------------------------------------------------
(* The dictionary. *)

DictTypes ==
  /\ testmode \in BOOLEAN /\ kvs \in Entries \cup {NULL} /\ Pointers(next_kv, Entries)
  /\ DOMAIN kv_k = Entries /\ DOMAIN kv_v = Entries
  /\ kv_k = [e \in Entries |-> kv_k[e]] /\ kv_v = [e \in Entries |-> kv_v[e]]
  /\ used \subseteq Entries /\ progress \in {"runs", "exit", "wild"}

(* The list ends, has the entries that are allocated, and no key has two.  *)
KeysDiffer == \A e, f \in Walk : kv_k[e] = kv_k[f] => e = f

DictInv ==
  /\ DictTypes
  /\ Walk = used /\ Straight(next_kv, kvs)
  /\ KeysDiffer

LEMMA InitDict == DictInit => DictInv
<1> SUFFICES ASSUME DictInit PROVE DictInv
  OBVIOUS
<1>1. /\ kv_k \in [Entries -> {CHOOSE key \in Keys : TRUE}]
      /\ kv_v \in [Entries -> {CHOOSE value \in Values : TRUE}]
      /\ kvs = NULL /\ used = {} /\ next_kv = [e \in Entries |-> NULL]
      /\ testmode \in BOOLEAN /\ progress = "runs"
  BY DEF DictInit
<1>2. Pointers(next_kv, Entries)
  BY <1>1, EntriesAssumption DEF Pointers
<1>3. DictTypes
  BY <1>1, <1>2 DEF DictTypes
<1>4. Walk = {} /\ Straight(next_kv, kvs)
  BY <1>1, ReachNone DEF Walk
<1> QED
  BY <1>1, <1>3, <1>4 DEF DictInv, KeysDiffer

(* The entry that a search finds is the only one of its key. *)
LEMMA FirstIsOnly ==
  ASSUME DictInv, NEW key, Has(key)
  PROVE  /\ First(key) \in Walk /\ First(key) \in Entries /\ kv_k[First(key)] = key
         /\ Matches(key) = {First(key)}
<1>1. PICK e : e \in Matches(key)
  BY DEF Has
<1>2. /\ Walk \subseteq Entries /\ e \in Walk /\ e \in Entries /\ kv_k[e] = key
      /\ Matches(key) = {e} /\ e # NULL
  BY <1>1, EntriesAssumption DEF DictInv, DictTypes, KeysDiffer, Matches
<1>3. e \in Reach(next_kv, e)
  BY <1>2, ReachCloses DEF DictInv, DictTypes
<1>4. First(key) = CHOOSE f \in {e} : {e} \subseteq Reach(next_kv, f)
  BY <1>2 DEF First
<1>5. First(key) = e
  BY <1>3, <1>4
<1> QED
  BY <1>2, <1>5

(* A value for a new key goes to the end of the list. *)
LEMMA AddedEntry ==
  ASSUME DictInv, NEW e \in Entries, NEW key \in Keys, NEW value \in Values,
         Dictionary_add(e, key, value), ~Has(key)
  PROVE  /\ DictInv' /\ Walk' = Walk \cup {e} /\ e \notin Walk
         /\ kv_k' = [kv_k EXCEPT ![e] = key] /\ kv_v' = [kv_v EXCEPT ![e] = value]
<1>1. /\ DictTypes /\ Walk = used /\ Straight(next_kv, kvs) /\ e \notin Walk /\ e # NULL
      /\ KeysDiffer
  BY EntriesAssumption DEF DictInv, Dictionary_add
<1>2. /\ used' = used \cup {e} /\ testmode' = testmode /\ progress' = progress
      /\ kv_k' = [kv_k EXCEPT ![e] = key] /\ kv_v' = [kv_v EXCEPT ![e] = value]
      /\ kvs' = IF kvs = NULL THEN e ELSE kvs
      /\ next_kv' = IF kvs = NULL THEN [next_kv EXCEPT ![e] = NULL]
                    ELSE [next_kv EXCEPT ![EndOf(next_kv, kvs)] = e, ![e] = NULL]
  BY DEF Dictionary_add
<1>3. Pointers(next_kv, Entries) /\ kvs \in Entries \cup {NULL}
  BY <1>1 DEF DictTypes
<1>4. /\ Pointers(next_kv', Entries) /\ Reach(next_kv', kvs') = Walk \cup {e}
      /\ Straight(next_kv', kvs')
  <2>1. CASE kvs = NULL
    <3>1. next_kv' = [next_kv EXCEPT ![e] = NULL] /\ kvs' = e
      BY <1>2, <2>1
    <3>2. Pointers(next_kv', Entries) /\ next_kv'[e] = NULL
      BY <1>3, <3>1 DEF Pointers
    <3>3. Reach(next_kv', kvs') = {e} /\ Straight(next_kv', kvs')
      BY <3>1, <3>2, ReachOne
    <3>4. Walk = {}
      BY <2>1, ReachNone DEF Walk
    <3> QED
      BY <3>2, <3>3, <3>4
  <2>2. CASE kvs # NULL
    <3> DEFINE last == EndOf(next_kv, kvs)
    <3>1. last \in Walk /\ last # e /\ Walk \subseteq Entries
      BY <1>1, <1>3, <2>2, OneEnd, ReachCloses DEF Walk
    <3>2. next_kv' = [next_kv EXCEPT ![last] = e, ![e] = NULL] /\ kvs' = kvs
      BY <1>2, <2>2
    <3> HIDE DEF last
    <3>3. /\ Pointers(next_kv', Entries) /\ next_kv'[e] = NULL
          /\ \A q \in Walk : next_kv'[q] = IF q = last THEN e ELSE next_kv[q]
      BY <1>1, <1>3, <3>1, <3>2 DEF Pointers
    <3>4. \A q \in Reach(next_kv, kvs) :
            next_kv'[q] = IF q = EndOf(next_kv, kvs) THEN e ELSE next_kv[q]
      BY <3>3 DEF Walk, last
    <3>5. Reach(next_kv', kvs) = Reach(next_kv, kvs) \cup {e} /\ Straight(next_kv', kvs)
      BY <1>1, <1>3, <2>2, <3>3, <3>4, Appended DEF Walk
    <3> QED
      BY <3>2, <3>3, <3>5 DEF Walk
  <2> QED
    BY <2>1, <2>2
<1>5. Walk' = Walk \cup {e}
  BY <1>4 DEF Walk
<1>6. DictTypes'
  <2>1. /\ kvs' \in Entries \cup {NULL} /\ used' \subseteq Entries
        /\ testmode' \in BOOLEAN /\ progress' \in {"runs", "exit", "wild"}
    BY <1>1, <1>2 DEF DictTypes
  <2>2. /\ DOMAIN kv_k' = Entries /\ DOMAIN kv_v' = Entries
        /\ kv_k' = [f \in Entries |-> kv_k'[f]] /\ kv_v' = [f \in Entries |-> kv_v'[f]]
    BY <1>1, <1>2 DEF DictTypes
  <2> QED
    BY <1>4, <2>1, <2>2 DEF DictTypes
<1>7. KeysDiffer'
  <2>1. \A f \in Walk : kv_k[f] # key
    BY DEF Has, Matches
  <2>2. \A f \in Walk : f \in Entries /\ f # e /\ kv_k'[f] = kv_k[f]
    BY <1>1, <1>2 DEF DictTypes
  <2>3. kv_k'[e] = key
    BY <1>1, <1>2 DEF DictTypes
  <2> QED
    BY <1>1, <1>5, <2>1, <2>2, <2>3 DEF KeysDiffer
<1> QED
  BY <1>1, <1>2, <1>4, <1>5, <1>6, <1>7 DEF DictInv

(* A removal takes the only entry of its key. *)
LEMMA RemovedEntry ==
  ASSUME DictInv, NEW key \in Keys, Dictionary_remove(key), ~testmode
  PROVE  /\ DictInv' /\ Walk' = Walk \ {First(key)}
         /\ kv_k' = kv_k /\ kv_v' = kv_v
<1> DEFINE e == First(key)
<1>1. /\ DictTypes /\ Walk = used /\ Straight(next_kv, kvs) /\ Has(key)
      /\ KeysDiffer
  BY DEF DictInv, Dictionary_remove
<1>2. e \in Walk /\ e \in Entries /\ Matches(key) = {e} /\ e # NULL
  BY <1>1, FirstIsOnly, EntriesAssumption
<1>3. /\ kvs' = IF kvs = e THEN next_kv[e] ELSE kvs
      /\ next_kv' = Bypass(next_kv, kvs, e) /\ used' = used \ {e}
      /\ progress' \in {"wild", IF Matches(key) # {e} THEN "corrupt" ELSE "runs"}
      /\ testmode' = testmode /\ kv_k' = kv_k /\ kv_v' = kv_v
  BY DEF Dictionary_remove, Unlinking
<1> HIDE DEF e
<1>4. Pointers(next_kv, Entries) /\ kvs \in Entries \cup {NULL}
  BY <1>1 DEF DictTypes
<1>5. /\ Walk \subseteq Entries /\ kvs # NULL
      /\ Walk = Reach(next_kv, kvs)
  BY <1>2, <1>4, ReachCloses DEF Walk
<1>6. next_kv' = [q \in Entries |-> IF next_kv[q] = e /\ q \in Walk THEN next_kv[e] ELSE next_kv[q]]
  BY <1>3, <1>4, <1>5 DEF Bypass, Pointers
<1>7. Pointers(next_kv', Entries)
  BY <1>2, <1>4, <1>6 DEF Pointers
<1>8. /\ kvs' \in Entries \cup {NULL} /\ Reach(next_kv', kvs') = Walk \ {e}
      /\ Straight(next_kv', kvs')
  <2>1. CASE kvs = e
    <3>1. \A q \in Walk : next_kv[q] # e
      BY <1>1, <1>5, <2>1 DEF Straight
    <3>2. next_kv' = next_kv /\ kvs' = next_kv[e]
      BY <1>3, <1>4, <1>6, <2>1, <3>1 DEF Pointers
    <3> QED
      BY <1>1, <1>2, <1>4, <1>5, <2>1, <3>2, WithoutFirst
  <2>2. CASE kvs # e
    <3>1. \A q \in Reach(next_kv, kvs) \ {e} :
            next_kv'[q] = IF next_kv[q] = e THEN next_kv[e] ELSE next_kv[q]
      BY <1>5, <1>6
    <3>2. Reach(next_kv', kvs) = Reach(next_kv, kvs) \ {e} /\ Straight(next_kv', kvs)
      BY <1>1, <1>2, <1>4, <1>5, <1>7, <2>2, <3>1, WithoutOther
    <3> QED
      BY <1>3, <1>4, <1>5, <2>2, <3>2
  <2> QED
    BY <2>1, <2>2
<1>9. Walk' = Walk \ {e}
  BY <1>8 DEF Walk
<1>10. DictTypes'
  <2>1. /\ used' \subseteq Entries /\ progress' \in {"runs", "exit", "wild"}
    BY <1>1, <1>2, <1>3 DEF DictTypes
  <2> QED
    BY <1>1, <1>3, <1>7, <1>8, <2>1 DEF DictTypes
<1>11. KeysDiffer'
  BY <1>1, <1>3, <1>9 DEF KeysDiffer
<1> QED
  BY <1>1, <1>3, <1>8, <1>9, <1>10, <1>11 DEF DictInv, e

LEMMA DictInvariant == DictSpec => []DictInv
<1>1. ASSUME DictInv, [DictNext]_dictVars PROVE DictInv'
  <2>1. ASSUME NEW key \in Keys, NEW e \in Entries, NEW value \in Values,
               Dictionary_add(e, key, value)
        PROVE  DictInv'
    <3>1. CASE Has(key)
      <4>1. /\ UNCHANGED <<kvs, next_kv, kv_k, kv_v, used, testmode>>
            /\ progress' = IF testmode THEN "exit" ELSE progress
        BY <2>1, <3>1 DEF Dictionary_add
      <4> QED
        BY <1>1, <4>1 DEF DictInv, DictTypes, KeysDiffer, Walk
    <3> QED
      BY <1>1, <2>1, <3>1, AddedEntry
  <2>2. ASSUME NEW key \in Keys, Dictionary_remove(key) PROVE DictInv'
    <3>1. CASE testmode
      <4>1. UNCHANGED <<kvs, next_kv, kv_k, kv_v, used, testmode>> /\ progress' = "exit"
        BY <2>2, <3>1 DEF Dictionary_remove
      <4> QED
        BY <1>1, <4>1 DEF DictInv, DictTypes, KeysDiffer, Walk
    <3> QED
      BY <1>1, <2>2, <3>1, RemovedEntry
  <2>3. CASE UNCHANGED dictVars
    BY <1>1, <2>3 DEF dictVars, DictInv, DictTypes, KeysDiffer, Walk
  <2> QED
    BY <1>1, <2>1, <2>2, <2>3 DEF DictNext
<1> QED
  BY InitDict, <1>1, PTL DEF DictSpec

(* The entries of the list are those that are allocated, and a removal     *)
(* never writes to the entry it has freed: what is added goes to the end   *)
(* of a list that ends, and a key is added only when it has no entry.      *)
THEOREM ListIsAllocated == DictSpec => []EntriesAreAllocated
<1>1. ASSUME DictInv PROVE EntriesAreAllocated
  <2>1. ~Circular(next_kv, kvs)
    <3>1. CASE kvs = NULL
      BY <3>1 DEF Circular
    <3>2. CASE kvs # NULL
      BY <1>1, <3>2, OneEnd DEF DictInv
    <3> QED
      BY <3>1, <3>2
  <2> QED
    BY <1>1, <2>1 DEF EntriesAreAllocated, DictInv, DictTypes
<1> QED
  BY DictInvariant, <1>1, PTL

(* The map that the list stands for. *)
ContentsFit ==
  /\ Contents = [key \in {kv_k[e] : e \in Walk} |-> Contents[key]]
  /\ \A e \in Walk : Contents[kv_k[e]] = kv_v[e]

LEMMA ContentsAre == DictInv => ContentsFit
<1> SUFFICES ASSUME DictInv PROVE ContentsFit
  OBVIOUS
<1>1. ASSUME NEW e \in Walk PROVE Contents[kv_k[e]] = kv_v[e]
  <2>1. Contents[kv_k[e]] = Lookup(kv_k[e])
    BY DEF Contents
  <2>2. Has(kv_k[e]) /\ e \in Matches(kv_k[e])
    BY DEF Has, Matches
  <2>3. First(kv_k[e]) = e
    BY <2>2, FirstIsOnly
  <2> QED
    BY <2>1, <2>3 DEF Lookup
<1> QED
  BY <1>1 DEF ContentsFit, Contents

LEMMA ContentsWillBe == DictInv' => ContentsFit'
  BY ContentsAre, PTL

LEMMA AddRefines ==
  ASSUME DictInv, NEW e \in Entries, NEW key \in Keys, NEW value \in Values,
         Dictionary_add(e, key, value), ~Has(key)
  PROVE  AMap!Add(key, value)
<1>1. /\ DictInv' /\ Walk' = Walk \cup {e} /\ e \notin Walk
      /\ kv_k' = [kv_k EXCEPT ![e] = key] /\ kv_v' = [kv_v EXCEPT ![e] = value]
  BY AddedEntry
<1>2. /\ DOMAIN kv_k = Entries /\ DOMAIN kv_v = Entries
      /\ \A f \in Walk : f \in Entries /\ f # e /\ kv_k[f] # key
  BY <1>1 DEF DictInv, DictTypes, Has, Matches
<1>3. /\ kv_k'[e] = key /\ kv_v'[e] = value
      /\ \A f \in Walk : kv_k'[f] = kv_k[f] /\ kv_v'[f] = kv_v[f]
  BY <1>1, <1>2
<1> DEFINE held == {kv_k[f] : f \in Walk}
<1>4. {kv_k'[f] : f \in Walk'} = held \cup {key} /\ key \notin held
  BY <1>1, <1>2, <1>3
<1>5. /\ Contents = [j \in held |-> Contents[j]]
      /\ \A f \in Walk : Contents[kv_k[f]] = kv_v[f]
  BY ContentsAre DEF ContentsFit
<1>6. /\ Contents' = [j \in {kv_k'[f] : f \in Walk'} |-> Contents'[j]]
      /\ \A f \in Walk' : Contents'[kv_k'[f]] = kv_v'[f]
  BY <1>1, ContentsWillBe DEF ContentsFit
<1>7. \A j \in held : Contents'[j] = Contents[j]
  BY <1>1, <1>3, <1>5, <1>6
<1>8. Contents'[key] = value
  BY <1>1, <1>3, <1>6
<1>9. DOMAIN Contents = held
  BY <1>5
<1>10. Contents' = [j \in held \cup {key} |-> IF j = key THEN value ELSE Contents[j]]
  BY <1>4, <1>6, <1>7, <1>8
<1> QED
  BY <1>4, <1>9, <1>10 DEF AMap!Add

LEMMA RemoveRefines ==
  ASSUME DictInv, NEW key \in Keys, Dictionary_remove(key), ~testmode
  PROVE  AMap!Remove(key)
<1> DEFINE e == First(key)
           held == {kv_k[f] : f \in Walk}
<1>1. /\ DictInv' /\ Walk' = Walk \ {e}
      /\ kv_k' = kv_k /\ kv_v' = kv_v
  BY RemovedEntry
<1>2. e \in Walk /\ kv_k[e] = key
  BY FirstIsOnly DEF Dictionary_remove
<1> HIDE DEF e
<1>3. \A f \in Walk : kv_k[f] = key => f = e
  BY <1>2 DEF DictInv, KeysDiffer
<1>4. key \in held /\ {kv_k'[f] : f \in Walk'} = held \ {key}
  BY <1>1, <1>2, <1>3
<1>5. /\ Contents = [j \in held |-> Contents[j]]
      /\ \A f \in Walk : Contents[kv_k[f]] = kv_v[f]
  BY ContentsAre DEF ContentsFit
<1>6. /\ Contents' = [j \in {kv_k'[f] : f \in Walk'} |-> Contents'[j]]
      /\ \A f \in Walk' : Contents'[kv_k'[f]] = kv_v'[f]
  BY <1>1, ContentsWillBe DEF ContentsFit
<1>7. ASSUME NEW j \in held \ {key} PROVE Contents'[j] = Contents[j]
  <2>1. PICK f \in Walk : j = kv_k[f]
    OBVIOUS
  <2>2. f \in Walk' /\ kv_k'[f] = j /\ kv_v'[f] = kv_v[f]
    BY <1>1, <1>2, <2>1
  <2> QED
    BY <1>5, <1>6, <2>1, <2>2
<1>8. DOMAIN Contents = held
  BY <1>5
<1>9. Contents' = [j \in held \ {key} |-> Contents[j]]
  BY <1>4, <1>6, <1>7
<1> QED
  BY <1>4, <1>8, <1>9 DEF AMap!Remove

(* A dictionary is a map, for any keys, values and entries: an addition    *)
(* adds the key, a removal takes it away, and every other call changes     *)
(* nothing.                                                                *)
THEOREM ListIsMap == DictSpec => DictionaryIsMap
<1>1. DictInit => AMap!Init
  <2> SUFFICES ASSUME DictInit PROVE AMap!Init
    OBVIOUS
  <2>1. Walk = {}
    BY ReachNone DEF DictInit, Walk
  <2>2. Contents = [key \in {} |-> Lookup(key)]
    BY <2>1 DEF Contents
  <2>3. [key \in {} |-> Lookup(key)] = [k \in {} |-> {}]
    OBVIOUS
  <2> QED
    BY <2>2, <2>3 DEF AMap!Init
<1>2. ASSUME DictInv, [DictNext]_dictVars PROVE [AMap!Next]_Contents
  <2>1. ASSUME UNCHANGED <<kvs, next_kv, kv_k, kv_v>> PROVE Contents' = Contents
    BY <2>1 DEF Contents, Lookup, First, Matches, Walk
  <2>2. ASSUME NEW key \in Keys, NEW e \in Entries, NEW value \in Values,
               Dictionary_add(e, key, value)
        PROVE  AMap!Next \/ Contents' = Contents
    <3>1. CASE Has(key)
      BY <2>1, <2>2, <3>1 DEF Dictionary_add
    <3>2. CASE ~Has(key)
      BY <1>2, <2>2, <3>2, AddRefines DEF AMap!Next
    <3> QED
      BY <3>1, <3>2
  <2>3. ASSUME NEW key \in Keys, Dictionary_remove(key)
        PROVE  AMap!Next \/ Contents' = Contents
    <3>1. CASE testmode
      BY <2>1, <2>3, <3>1 DEF Dictionary_remove
    <3>2. CASE ~testmode
      BY <1>2, <2>3, <3>2, RemoveRefines DEF AMap!Next
    <3> QED
      BY <3>1, <3>2
  <2>4. CASE UNCHANGED dictVars
    BY <2>1, <2>4 DEF dictVars
  <2> QED
    BY <1>2, <2>2, <2>3, <2>4 DEF DictNext
<1> QED
  BY DictInvariant, <1>1, <1>2, PTL DEF DictSpec, DictionaryIsMap, AMap!Spec

-----------------------------------------------------------------------------
(* Sequences: what they have, and what they have after a removal. *)

LEMMA HasNodes ==
  ASSUME NEW N, NEW s \in Seq(N)
  PROVE  /\ ToSet(s) = {s[n] : n \in 1 .. Len(s)} /\ ToSet(s) \subseteq N
         /\ Len(s) = 0 <=> ToSet(s) = {}
<1>1. Len(s) \in Nat /\ DOMAIN s = 1 .. Len(s) /\ \A n \in 1 .. Len(s) : s[n] \in N
  BY NodesOf
<1>2. ToSet(s) = {s[n] : n \in 1 .. Len(s)}
  BY <1>1 DEF ToSet
<1>3. Len(s) > 0 => s[1] \in ToSet(s)
  <2>1. Len(s) > 0 => 1 \in 1 .. Len(s)
    BY <1>1
  <2> QED
    BY <1>2, <2>1
<1>4. Len(s) = 0 => ToSet(s) = {}
  BY <1>2
<1> QED
  BY <1>1, <1>2, <1>3, <1>4

LEMMA HasAppended ==
  ASSUME NEW N, NEW s \in Seq(N), NEW p \in N
  PROVE  /\ Append(s, p) \in Seq(N) /\ Len(Append(s, p)) = Len(s) + 1
         /\ Append(s, p)[Len(s) + 1] = p /\ \A n \in 1 .. Len(s) : Append(s, p)[n] = s[n]
         /\ ToSet(Append(s, p)) = ToSet(s) \cup {p}
<1> DEFINE t == Append(s, p)
<1>1. /\ t \in Seq(N) /\ Len(t) = Len(s) + 1 /\ t[Len(s) + 1] = p /\ Len(s) \in Nat
      /\ \A n \in 1 .. Len(s) : t[n] = s[n]
  BY AppendProperties, LenProperties
<1> HIDE DEF t
<1>2. ToSet(t) = {t[n] : n \in 1 .. Len(t)} /\ ToSet(s) = {s[n] : n \in 1 .. Len(s)}
  BY <1>1, HasNodes
<1>3. \A n \in 1 .. Len(t) : n \in 1 .. Len(s) \/ n = Len(s) + 1
  BY <1>1
<1>4. Len(s) + 1 \in 1 .. Len(t) /\ \A n \in 1 .. Len(s) : n \in 1 .. Len(t)
  BY <1>1
<1>5. ToSet(t) = ToSet(s) \cup {p}
  BY <1>1, <1>2, <1>3, <1>4
<1> QED
  BY <1>1, <1>5 DEF t

LEMMA HasPushed ==
  ASSUME NEW N, NEW s \in Seq(N), NEW p \in N
  PROVE  /\ <<p>> \o s \in Seq(N) /\ Len(<<p>> \o s) = Len(s) + 1
         /\ (<<p>> \o s)[1] = p /\ \A n \in 1 .. Len(s) : (<<p>> \o s)[n + 1] = s[n]
         /\ ToSet(<<p>> \o s) = ToSet(s) \cup {p}
<1> DEFINE t == <<p>> \o s
<1>1. Len(s) \in Nat /\ <<p>> \in Seq(N) /\ Len(<<p>>) = 1 /\ <<p>>[1] = p
  BY LenProperties
<1>2. t \in Seq(N) /\ Len(t) = Len(s) + 1
  BY <1>1, ConcatProperties
<1>3. t[1] = p
  BY <1>1, <1>2, ConcatProperties
<1>4. ASSUME NEW n \in 1 .. Len(s) PROVE t[n + 1] = s[n]
  <2>1. PICK k \in 1 .. Len(s) + 1 : k = n + 1
    BY <1>1
  <2>2. t[k] = s[k - 1] /\ k - 1 = n
    BY <1>1, <2>1, ConcatProperties
  <2> QED
    BY <2>1, <2>2
<1> HIDE DEF t
<1>5. ToSet(t) = {t[n] : n \in 1 .. Len(t)} /\ ToSet(s) = {s[n] : n \in 1 .. Len(s)}
  BY <1>2, HasNodes
<1>6. \A k \in 1 .. Len(t) : k = 1 \/ \E n \in 1 .. Len(s) : k = n + 1
  <2>1. ASSUME NEW k \in 1 .. Len(t), k # 1 PROVE k - 1 \in 1 .. Len(s) /\ k = (k - 1) + 1
    BY <1>1, <1>2, <2>1
  <2> QED
    BY <2>1
<1>7. 1 \in 1 .. Len(t) /\ \A n \in 1 .. Len(s) : n + 1 \in 1 .. Len(t)
  BY <1>1, <1>2
<1>8. ToSet(t) \subseteq ToSet(s) \cup {p}
  <2>1. ASSUME NEW k \in 1 .. Len(t) PROVE t[k] \in ToSet(s) \cup {p}
    <3>1. CASE k = 1
      BY <1>3, <3>1
    <3>2. CASE k # 1
      <4>1. PICK n \in 1 .. Len(s) : k = n + 1
        BY <1>6, <3>2
      <4> QED
        BY <1>4, <1>5, <4>1
    <3> QED
      BY <3>1, <3>2
  <2> QED
    BY <1>5, <2>1
<1>9. ToSet(s) \cup {p} \subseteq ToSet(t)
  BY <1>3, <1>4, <1>5, <1>7
<1> QED
  BY <1>2, <1>3, <1>4, <1>8, <1>9 DEF t

(* Removal of the only node p, and of none. *)
LEMMA HasRemoved ==
  ASSUME NEW N, NEW s \in Seq(N), NEW i \in 1 .. Len(s), NEW p, p = s[i],
         \A n \in 1 .. Len(s) : n # i => s[n] # p
  PROVE  /\ RemoveFirst(s, p) \in Seq(N) /\ IsWithout(RemoveFirst(s, p), s, i)
         /\ ToSet(RemoveFirst(s, p)) = ToSet(s) \ {p}
<1> DEFINE r == RemoveFirst(s, p)
           a == SubSeq(s, 1, i - 1)
           b == SubSeq(s, i + 1, Len(s))
<1>1. Len(s) \in Nat
  BY LenProperties
<1>2. SelectInSeq(s, LAMBDA v : v = p) = i
  <2>1. {n \in 1 .. Len(s) : s[n] = p} = {i}
    OBVIOUS
  <2>2. Min({i}) = i
    BY DEF Min
  <2> QED
    BY <2>1, <2>2 DEF SelectInSeq
<1>3. r = a \o b
  BY <1>2 DEF RemoveFirst, RemoveAt
<1>4. /\ a \in Seq(N) /\ Len(a) = i - 1 /\ \A n \in 1 .. i - 1 : a[n] = s[n]
  <2>1. i - 1 \in 1 - 1 .. Len(s) /\ 1 \in 1 .. Len(s) + 1
    BY <1>1
  <2> QED
    BY <1>1, <2>1, SubSeqProperties
<1>5. /\ b \in Seq(N) /\ Len(b) = Len(s) - i /\ \A n \in 1 .. Len(s) - i : b[n] = s[n + i]
  <2>1. i + 1 \in 1 .. Len(s) + 1 /\ Len(s) \in i .. Len(s)
    BY <1>1
  <2> QED
    BY <1>1, <2>1, SubSeqProperties
<1> HIDE DEF a, b
<1>6. r \in Seq(N) /\ Len(r) = Len(s) - 1
  <2>1. a \in Seq(N) /\ b \in Seq(N)
    BY <1>4, <1>5
  <2>3. a \o b \in Seq(N) /\ Len(a \o b) = Len(a) + Len(b)
    BY <2>1, ConcatProperties
  <2>2. Len(a) + Len(b) = Len(s) - 1
    BY <1>1, <1>4, <1>5
  <2> QED
    BY <1>3, <2>2, <2>3
<1>7. ASSUME NEW n \in 1 .. Len(s) - 1 PROVE r[n] = IF n < i THEN s[n] ELSE s[n + 1]
  <2>1. n \in 1 .. Len(a) + Len(b)
    BY <1>1, <1>4, <1>5
  <2>2. r[n] = IF n <= Len(a) THEN a[n] ELSE b[n - Len(a)]
    BY <1>3, <1>4, <1>5, <2>1, ConcatProperties
  <2>3. CASE n < i
    <3>1. n <= Len(a) /\ n \in 1 .. i - 1
      BY <1>1, <1>4, <2>3
    <3> QED
      BY <1>4, <2>2, <2>3, <3>1
  <2>4. CASE ~(n < i)
    <3>1. PICK m \in 1 .. Len(s) - i : m = n - Len(a)
      BY <1>1, <1>4, <2>4
    <3>2. ~(n <= Len(a)) /\ m + i = n + 1
      BY <1>1, <1>4, <2>4, <3>1
    <3> QED
      BY <1>5, <2>2, <2>4, <3>1, <3>2
  <2> QED
    BY <2>3, <2>4
<1> HIDE DEF r
<1>8. ToSet(r) = {r[n] : n \in 1 .. Len(r)} /\ ToSet(s) = {s[n] : n \in 1 .. Len(s)}
  BY <1>6, HasNodes
<1>9. ToSet(r) \subseteq ToSet(s) \ {p}
  <2>1. ASSUME NEW n \in 1 .. Len(r) PROVE r[n] \in ToSet(s) \ {p}
    <3>1. n \in 1 .. Len(s) - 1 /\ n \in 1 .. Len(s) /\ n + 1 \in 1 .. Len(s)
      BY <1>1, <1>6
    <3>2. CASE n < i
      BY <1>1, <1>7, <1>8, <3>1, <3>2
    <3>3. CASE ~(n < i)
      <4>1. n + 1 # i
        BY <3>1, <3>3
      <4> QED
        BY <1>7, <1>8, <3>1, <3>3, <4>1
    <3> QED
      BY <3>2, <3>3
  <2> QED
    BY <1>8, <2>1
<1>10. ToSet(s) \ {p} \subseteq ToSet(r)
  <2>1. ASSUME NEW n \in 1 .. Len(s), n # i PROVE s[n] \in ToSet(r)
    <3>1. CASE n < i
      <4>1. n \in 1 .. Len(s) - 1 /\ n \in 1 .. Len(r)
        BY <1>1, <1>6, <3>1
      <4> QED
        BY <1>7, <1>8, <3>1, <4>1
    <3>2. CASE ~(n < i)
      <4>1. PICK m \in 1 .. Len(s) - 1 : n = m + 1
        <5>1. n - 1 \in 1 .. Len(s) - 1 /\ n = (n - 1) + 1
          BY <1>1, <2>1, <3>2
        <5> QED
          BY <5>1
      <4>2. ~(m < i) /\ m \in 1 .. Len(r)
        BY <1>1, <1>6, <2>1, <3>2, <4>1
      <4> QED
        BY <1>7, <1>8, <4>1, <4>2
    <3> QED
      BY <3>1, <3>2
  <2> QED
    BY <1>8, <2>1
<1> QED
  BY <1>6, <1>7, <1>9, <1>10 DEF r, IsWithout

LEMMA RemovedNone ==
  ASSUME NEW N, NEW s \in Seq(N), NEW p, p \notin ToSet(s)
  PROVE  RemoveFirst(s, p) = s
<1>1. ~\E n \in 1 .. Len(s) : s[n] = p
  BY HasNodes
<1> QED
  BY <1>1 DEF RemoveFirst

-----------------------------------------------------------------------------
(* The chains.  While no stale element has been added and nothing crashed, *)
(* the links are those of the sequence, and an element that is neither in  *)
(* the chain nor left by a pop or a clear has none.                        *)

ChainTypes ==
  /\ kind \in {"list", "double", "stack", "queue"} /\ head \in Elements \cup {NULL}
  /\ Pointers(next, Elements) /\ Pointers(previous, Elements)
  /\ content \in Seq(Elements) /\ kept \subseteq Elements \ ToSet(content)

LeadsBack(back, s) ==
  \A n \in 1 .. Len(s) : back[s[n]] = IF n = 1 THEN NULL ELSE s[n - 1]

FreshAreClear ==
  \A p \in Elements \ (ToSet(content) \cup kept) :
    LinkField[p] = NULL /\ (kind = "double" => previous[p] = NULL)

Sound ==
  /\ ChainTypes
  /\ IsList(LinkField, head, content)
  /\ kind = "double" => LeadsBack(previous, content)
  /\ FreshAreClear

ChainInv ==
  ~stale => IF course = "runs" THEN Sound
            ELSE course = "crashed" /\ kind = "double" /\ Len(content) = 1

(* No element is twice in a list. *)
LEMMA ListApart ==
  ASSUME NEW N, NULL \notin N, NEW s \in Seq(N), NEW link, NEW start, IsList(link, start, s)
  PROVE  \A i, j \in 1 .. Len(s) : s[i] = s[j] => i = j
<1>1. Len(s) \in Nat
  BY LenProperties
<1> SUFFICES ASSUME NEW i \in 1 .. Len(s), NEW j \in 1 .. Len(s), s[i] = s[j], i # j
             PROVE  FALSE
  OBVIOUS
<1>2. i < j \/ j < i
  BY <1>1
<1> QED
  BY <1>2, ListDiffers

LEMMA ChainFacts ==
  ASSUME Sound
  PROVE  /\ NULL \notin Elements /\ Len(content) \in Nat
         /\ \A n \in 1 .. Len(content) : content[n] \in Elements
         /\ ToSet(content) = {content[n] : n \in 1 .. Len(content)}
         /\ \A i, j \in 1 .. Len(content) : content[i] = content[j] => i = j
         /\ Reach(LinkField, head) = ToSet(content) /\ ~Circular(LinkField, head)
         /\ Len(content) = 0 <=> head = NULL
         /\ Len(content) > 0 => /\ head = content[1] /\ EndElement = content[Len(content)]
                                /\ Len(content) \in 1 .. Len(content)
                                /\ LinkField[content[Len(content)]] = NULL
         /\ \A n \in 1 .. Len(content) - 1 : LinkField[content[n]] = content[n + 1]
<1>1. /\ content \in Seq(Elements) /\ NULL \notin Elements /\ Pointers(LinkField, Elements)
      /\ IsList(LinkField, head, content) /\ head \in Elements \cup {NULL}
  BY DEF Sound, ChainTypes, LinkField, Pointers
<1>2. /\ Len(content) \in Nat /\ \A n \in 1 .. Len(content) : content[n] \in Elements
      /\ ToSet(content) = {content[n] : n \in 1 .. Len(content)}
  BY <1>1, NodesOf, HasNodes
<1>3. \A i, j \in 1 .. Len(content) : content[i] = content[j] => i = j
  BY <1>1, ListApart
<1>4. Reach(LinkField, head) = ToSet(content)
  BY <1>1, <1>2, ListReach
<1>5. /\ ~Circular(LinkField, head)
      /\ Len(content) > 0 => EndElement = content[Len(content)]
  BY <1>1, ListEnds DEF EndElement
<1>6. /\ Len(content) = 0 => head = NULL
      /\ Len(content) > 0 => /\ head = content[1] /\ head \in Elements
                             /\ LinkField[content[Len(content)]] = NULL
      /\ \A n \in 1 .. Len(content) - 1 : LinkField[content[n]] = content[n + 1]
  BY <1>1, ListIs
<1>7. /\ Len(content) > 0 => Len(content) \in 1 .. Len(content)
      /\ Len(content) = 0 \/ Len(content) > 0
  BY <1>2
<1>8. Len(content) = 0 <=> head = NULL
  BY <1>1, <1>6, <1>7
<1> QED
  BY <1>1, <1>2, <1>3, <1>4, <1>5, <1>6, <1>7, <1>8

LEMMA AddedFacts ==
  ASSUME Sound, NEW p \in Elements, NEW longer, NEW linkIsSet, Added(p, longer, linkIsSet), ~stale'
  PROVE  /\ p \notin ToSet(content) /\ content' = longer /\ kept' = kept \ {p}
         /\ kind' = kind /\ course' = course
         /\ p \in kept => linkIsSet
         /\ p \notin kept => LinkField[p] = NULL /\ (kind = "double" => previous[p] = NULL)
BY DEF Added, Sound, FreshAreClear

(* An element at the end of a list. *)
LEMMA AddedAtEnd ==
  ASSUME Sound, kind # "stack", kind' = kind, NEW p \in Elements, p \notin ToSet(content),
         content' = Append(content, p), kept' = kept \ {p},
         head' = IF head = NULL THEN p ELSE head,
         head = NULL => next' \in {next, [next EXCEPT ![p] = NULL]} /\ next'[p] = NULL,
         head # NULL => next' = [next EXCEPT ![EndElement] = p] /\ next[p] = NULL,
         Pointers(previous', Elements), \A q \in Elements \ {p} : previous'[q] = previous[q],
         kind = "double" => LeadsBack(previous', content')
  PROVE  Sound'
<1>1. /\ NULL \notin Elements /\ Len(content) \in Nat
      /\ \A n \in 1 .. Len(content) : content[n] \in Elements
      /\ ToSet(content) = {content[n] : n \in 1 .. Len(content)}
      /\ \A i, j \in 1 .. Len(content) : content[i] = content[j] => i = j
      /\ Len(content) = 0 <=> head = NULL
      /\ Len(content) > 0 => /\ EndElement = content[Len(content)]
                             /\ Len(content) \in 1 .. Len(content)
  BY ChainFacts
<1>2. LinkField = next /\ LinkField' = next'
  BY DEF LinkField
<1>3. ChainTypes /\ IsList(next, head, content) /\ FreshAreClear
  BY <1>2 DEF Sound
<1>4. Pointers(next, Elements) /\ content \in Seq(Elements)
  BY <1>3 DEF ChainTypes
<1>5. /\ next'[p] = NULL /\ Pointers(next', Elements)
      /\ \A q \in Elements \ {p} : head = NULL \/ q # EndElement => next'[q] = next[q]
      /\ head # NULL => EndElement \in ToSet(content) /\ next'[EndElement] = p
  <2>1. CASE head = NULL
    BY <1>4, <2>1 DEF Pointers
  <2>2. CASE head # NULL
    <3>1. Len(content) > 0
      BY <1>1, <2>2
    <3>2. EndElement \in ToSet(content) /\ EndElement \in Elements /\ EndElement # p
      BY <1>1, <3>1
    <3> QED
      BY <1>4, <2>2, <3>2 DEF Pointers
  <2> QED
    BY <2>1, <2>2
<1>6. IsList(next', head', content')
  <2>1. \A n \in 1 .. Len(content) - 1 : next'[content[n]] = next[content[n]]
    <3>1. ASSUME NEW n \in 1 .. Len(content) - 1 PROVE next'[content[n]] = next[content[n]]
      <4>1. n \in 1 .. Len(content) /\ n # Len(content) /\ Len(content) > 0
        BY <1>1
      <4>2. content[n] \in Elements \ {p} /\ content[n] # EndElement
        BY <1>1, <4>1
      <4> QED
        BY <1>5, <4>2
    <3> QED
      BY <3>1
  <2>2. Len(content) > 0 => next'[content[Len(content)]] = p
    BY <1>1, <1>5
  <2>3. head' = IF Len(content) = 0 THEN p ELSE head
    BY <1>1
  <2> QED
    BY <1>1, <1>3, <1>4, <1>5, <2>1, <2>2, <2>3, ListAppended
<1>7. content' \in Seq(Elements) /\ ToSet(content') = ToSet(content) \cup {p}
  BY <1>4, HasAppended
<1>8. ChainTypes'
  BY <1>3, <1>5, <1>7 DEF ChainTypes
<1>9. FreshAreClear'
  <2>1. ASSUME NEW q \in Elements, q \notin ToSet(content'), q \notin kept'
        PROVE  next'[q] = NULL /\ (kind = "double" => previous'[q] = NULL)
    <3>1. q \notin ToSet(content) /\ q \notin kept /\ q # p
      BY <1>7, <2>1
    <3>2. next[q] = NULL /\ (kind = "double" => previous[q] = NULL)
      BY <1>2, <1>3, <3>1 DEF FreshAreClear
    <3> QED
      BY <1>5, <3>1, <3>2
  <2> QED
    BY <1>2, <2>1 DEF FreshAreClear
<1> QED
  BY <1>2, <1>6, <1>8, <1>9 DEF Sound

LEMMA ListLinkSound ==
  ASSUME Sound, NEW p \in Elements, ListLink(p), ~stale'
  PROVE  Sound'
<1>1. /\ kind = "list" /\ Added(p, Append(content, p), head = NULL)
      /\ head' = IF head = NULL THEN p ELSE head
      /\ next' = IF head = NULL THEN [next EXCEPT ![p] = NULL]
                 ELSE [next EXCEPT ![EndElement] = p]
      /\ previous' = previous
  BY DEF ListLink, Runs
<1>2. /\ p \notin ToSet(content) /\ content' = Append(content, p) /\ kept' = kept \ {p}
      /\ kind' = kind
      /\ p \in kept => head = NULL
      /\ p \notin kept => LinkField[p] = NULL
  BY <1>1, AddedFacts
<1>3. Pointers(next, Elements) /\ Pointers(previous, Elements) /\ LinkField = next
  BY <1>1 DEF Sound, ChainTypes, LinkField
<1>4. head = NULL => next' = [next EXCEPT ![p] = NULL] /\ next'[p] = NULL
  BY <1>1, <1>3 DEF Pointers
<1>5. head # NULL => next' = [next EXCEPT ![EndElement] = p] /\ next[p] = NULL
  BY <1>1, <1>2, <1>3
<1> QED
  BY <1>1, <1>2, <1>3, <1>4, <1>5, AddedAtEnd

LEMMA QueuePushSound ==
  ASSUME Sound, NEW p \in Elements, QueuePush(p), ~stale'
  PROVE  Sound'
<1>1. /\ kind = "queue" /\ Added(p, Append(content, p), FALSE)
      /\ head' = IF head = NULL THEN p ELSE head
      /\ next' = IF head = NULL THEN next ELSE [next EXCEPT ![EndElement] = p]
      /\ previous' = previous
  BY DEF QueuePush, Runs
<1>2. /\ p \notin ToSet(content) /\ content' = Append(content, p) /\ kept' = kept \ {p}
      /\ kind' = kind /\ LinkField[p] = NULL
  BY <1>1, AddedFacts
<1>3. Pointers(previous, Elements) /\ LinkField = next
  BY <1>1 DEF Sound, ChainTypes, LinkField
<1>4. head = NULL => next' = next /\ next'[p] = NULL
  BY <1>1, <1>2, <1>3
<1>5. head # NULL => next' = [next EXCEPT ![EndElement] = p] /\ next[p] = NULL
  BY <1>1, <1>2, <1>3
<1> QED
  BY <1>1, <1>2, <1>3, <1>4, <1>5, AddedAtEnd

LEMMA DoubleLinkSound ==
  ASSUME Sound, NEW p \in Elements, DoubleLink(p), ~stale'
  PROVE  Sound'
<1>1. /\ kind = "double" /\ Added(p, Append(content, p), FALSE)
      /\ head' = IF head = NULL THEN p ELSE head
      /\ next' = IF head = NULL THEN next ELSE [next EXCEPT ![EndElement] = p]
      /\ previous' = IF head = NULL THEN previous ELSE [previous EXCEPT ![p] = EndElement]
  BY DEF DoubleLink, Runs
<1>2. /\ p \notin ToSet(content) /\ content' = Append(content, p) /\ kept' = kept \ {p}
      /\ kind' = kind /\ LinkField[p] = NULL /\ previous[p] = NULL
  BY <1>1, AddedFacts
<1>3. /\ NULL \notin Elements /\ Len(content) \in Nat
      /\ \A n \in 1 .. Len(content) : content[n] \in Elements
      /\ ToSet(content) = {content[n] : n \in 1 .. Len(content)}
      /\ Len(content) = 0 <=> head = NULL
      /\ Len(content) > 0 => /\ EndElement = content[Len(content)]
                             /\ Len(content) \in 1 .. Len(content)
  BY ChainFacts
<1>4. /\ Pointers(previous, Elements) /\ LinkField = next /\ content \in Seq(Elements)
      /\ LeadsBack(previous, content)
  BY <1>1 DEF Sound, ChainTypes, LinkField
<1>5. head = NULL => next' = next /\ next'[p] = NULL
  BY <1>1, <1>2, <1>4
<1>6. head # NULL => next' = [next EXCEPT ![EndElement] = p] /\ next[p] = NULL
  BY <1>1, <1>2, <1>4
<1>7. /\ Pointers(previous', Elements) /\ \A q \in Elements \ {p} : previous'[q] = previous[q]
      /\ previous'[p] = IF Len(content) = 0 THEN NULL ELSE content[Len(content)]
  <2>1. CASE head = NULL
    BY <1>1, <1>2, <1>3, <1>4, <2>1
  <2>2. CASE head # NULL
    <3>1. Len(content) > 0 /\ Len(content) # 0
      BY <1>3, <2>2
    <3>2. EndElement = content[Len(content)] /\ EndElement \in Elements
      BY <1>3, <3>1
    <3> QED
      BY <1>1, <1>4, <2>2, <3>1, <3>2 DEF Pointers
  <2> QED
    BY <2>1, <2>2
<1>8. LeadsBack(previous', content')
  <2>1. /\ Len(content') = Len(content) + 1 /\ content'[Len(content) + 1] = p
        /\ \A n \in 1 .. Len(content) : content'[n] = content[n]
    BY <1>2, <1>4, HasAppended
  <2>2. ASSUME NEW n \in 1 .. Len(content')
        PROVE  previous'[content'[n]] = IF n = 1 THEN NULL ELSE content'[n - 1]
    <3>1. CASE n = Len(content) + 1
      <4>1. CASE n = 1
        BY <1>3, <1>7, <2>1, <3>1, <4>1
      <4>2. CASE n # 1
        <5>1. n - 1 = Len(content) /\ Len(content) # 0 /\ Len(content) \in 1 .. Len(content)
          BY <1>3, <3>1, <4>2
        <5> QED
          BY <1>7, <2>1, <3>1, <4>2, <5>1
      <4> QED
        BY <4>1, <4>2
    <3>2. CASE n # Len(content) + 1
      <4>1. n \in 1 .. Len(content) /\ (n # 1 => n - 1 \in 1 .. Len(content))
        BY <1>3, <2>1, <3>2
      <4>2. content'[n] = content[n] /\ (n # 1 => content'[n - 1] = content[n - 1])
        BY <2>1, <4>1
      <4>3. content[n] \in Elements \ {p}
        BY <1>2, <1>3, <4>1
      <4>4. previous[content[n]] = IF n = 1 THEN NULL ELSE content[n - 1]
        BY <1>4, <4>1 DEF LeadsBack
      <4> QED
        BY <1>7, <4>2, <4>3, <4>4
    <3> QED
      BY <3>1, <3>2
  <2> QED
    BY <2>2 DEF LeadsBack
<1> QED
  BY <1>1, <1>2, <1>5, <1>6, <1>7, <1>8, AddedAtEnd

LEMMA StackPushSound ==
  ASSUME Sound, NEW p \in Elements, StackPush(p), ~stale'
  PROVE  Sound'
<1>1. /\ kind = "stack" /\ Added(p, <<p>> \o content, head # NULL)
      /\ head' = p /\ next' = next
      /\ previous' = IF head = NULL THEN previous ELSE [previous EXCEPT ![p] = head]
  BY DEF StackPush, Runs
<1>2. /\ p \notin ToSet(content) /\ content' = <<p>> \o content /\ kept' = kept \ {p}
      /\ kind' = kind /\ (p \in kept => head # NULL) /\ (p \notin kept => LinkField[p] = NULL)
  BY <1>1, AddedFacts
<1>3. /\ NULL \notin Elements /\ \A n \in 1 .. Len(content) : content[n] \in Elements
      /\ ToSet(content) = {content[n] : n \in 1 .. Len(content)}
  BY ChainFacts
<1>4. LinkField = previous /\ LinkField' = previous'
  BY <1>1, <1>2 DEF LinkField
<1>5. /\ ChainTypes /\ FreshAreClear /\ content \in Seq(Elements)
      /\ IsList(previous, head, content)
      /\ Pointers(previous, Elements) /\ head \in Elements \cup {NULL}
  BY <1>4 DEF Sound, ChainTypes
<1>6. /\ Pointers(previous', Elements) /\ previous'[p] = head
      /\ \A q \in Elements \ {p} : previous'[q] = previous[q]
  BY <1>1, <1>2, <1>4, <1>5 DEF Pointers
<1>7. /\ content' \in Seq(Elements) /\ Len(content') = Len(content) + 1 /\ content'[1] = p
      /\ \A n \in 1 .. Len(content) : content'[n + 1] = content[n]
      /\ ToSet(content') = ToSet(content) \cup {p}
  BY <1>2, <1>5, HasPushed
<1>8. IsList(previous', head', content')
  <2>1. \A n \in 1 .. Len(content) : previous'[content[n]] = previous[content[n]]
    BY <1>2, <1>3, <1>6
  <2>2. IsList(previous', p, content')
    BY <1>3, <1>5, <1>6, <1>7, <2>1, ListPushed
  <2> QED
    BY <1>1, <2>2
<1>9. ChainTypes'
  BY <1>1, <1>2, <1>5, <1>6, <1>7 DEF ChainTypes
<1>10. FreshAreClear'
  <2>1. ASSUME NEW q \in Elements, q \notin ToSet(content'), q \notin kept'
        PROVE  previous'[q] = NULL
    <3>1. q \notin ToSet(content) /\ q \notin kept /\ q # p
      BY <1>2, <1>7, <2>1
    <3>2. previous[q] = NULL
      BY <1>4, <1>5, <3>1 DEF FreshAreClear
    <3> QED
      BY <1>6, <3>1, <3>2
  <2> QED
    BY <1>1, <1>2, <1>4, <2>1 DEF FreshAreClear
<1> QED
  BY <1>1, <1>2, <1>4, <1>8, <1>9, <1>10 DEF Sound

(* An element taken out of a list. *)
LEMMA TakenOut ==
  ASSUME Sound, NEW i \in 1 .. Len(content), NEW p, p = content[i],
         content' = RemoveFirst(content, p)
  PROVE  /\ content' \in Seq(Elements) /\ IsWithout(content', content, i)
         /\ ToSet(content') = ToSet(content) \ {p}
         /\ \A n \in 1 .. Len(content) : n # i => content[n] # p
<1>1. /\ \A m, n \in 1 .. Len(content) : content[m] = content[n] => m = n
      /\ content \in Seq(Elements)
  BY ChainFacts DEF Sound, ChainTypes
<1>2. \A n \in 1 .. Len(content) : n # i => content[n] # p
  BY <1>1
<1> QED
  BY <1>1, <1>2, HasRemoved

LEMMA ListUnlinkSound ==
  ASSUME Sound, NEW p \in Elements, ListUnlink(p)
  PROVE  Sound'
<1>1. /\ kind = "list" /\ p \in Reach(next, head) /\ content' = RemoveFirst(content, p)
      /\ kind' = kind /\ kept' = kept
      /\ head' = IF head = p THEN next[p] ELSE head
      /\ next' = [Bypass(next, head, p) EXCEPT ![p] = NULL] /\ previous' = previous
  BY DEF ListUnlink, Runs, Removed, Unlinked
<1>2. LinkField = next /\ LinkField' = next'
  BY <1>1 DEF LinkField
<1>3. /\ NULL \notin Elements /\ \A n \in 1 .. Len(content) : content[n] \in Elements
      /\ Reach(next, head) = ToSet(content)
      /\ ToSet(content) = {content[n] : n \in 1 .. Len(content)}
  BY <1>2, ChainFacts
<1>4. /\ ChainTypes /\ FreshAreClear /\ content \in Seq(Elements)
      /\ IsList(next, head, content)
      /\ Pointers(next, Elements) /\ head \in Elements \cup {NULL}
  BY <1>2 DEF Sound, ChainTypes
<1>5. PICK i \in 1 .. Len(content) : p = content[i]
  BY <1>1, <1>3
<1>6. /\ content' \in Seq(Elements) /\ IsWithout(content', content, i)
      /\ ToSet(content') = ToSet(content) \ {p}
      /\ \A n \in 1 .. Len(content) : n # i => content[n] # p
  BY <1>1, <1>5, TakenOut
<1>7. /\ Pointers(next', Elements) /\ next'[p] = NULL
      /\ \A q \in Elements \ {p} :
           next'[q] = IF next[q] = p /\ q \in ToSet(content) THEN next[p] ELSE next[q]
  BY <1>1, <1>3, <1>4 DEF Pointers, Bypass
<1>8. IsList(next', head', content')
  <2>1. ASSUME NEW n \in 1 .. Len(content), n # i
        PROVE  next'[content[n]] = IF next[content[n]] = p THEN next[p] ELSE next[content[n]]
    <3>1. content[n] \in Elements \ {p} /\ content[n] \in ToSet(content)
      BY <1>3, <1>6, <2>1
    <3> QED
      BY <1>7, <3>1
  <2>2. \A n \in 1 .. Len(content) : n # i =>
          next'[content[n]] = IF next[content[n]] = content[i] THEN next[content[i]]
                              ELSE next[content[n]]
    BY <1>5, <2>1
  <2>3. head' = IF head = content[i] THEN next[content[i]] ELSE head
    BY <1>1, <1>5
  <2> QED
    BY <1>3, <1>4, <1>6, <2>2, <2>3, ListWithout
<1>9. ChainTypes'
  BY <1>1, <1>4, <1>6, <1>7 DEF ChainTypes, Pointers
<1>10. FreshAreClear'
  <2>1. ASSUME NEW q \in Elements, q \notin ToSet(content'), q \notin kept'
        PROVE  next'[q] = NULL
    <3>1. CASE q = p
      BY <1>7, <3>1
    <3>2. CASE q # p
      <4>1. q \notin ToSet(content) /\ q \notin kept
        BY <1>1, <1>6, <2>1, <3>2
      <4>2. next[q] = NULL
        BY <1>2, <1>4, <4>1 DEF FreshAreClear
      <4> QED
        BY <1>7, <3>2, <4>1, <4>2
    <3> QED
      BY <3>1, <3>2
  <2> QED
    BY <1>1, <1>2, <2>1 DEF FreshAreClear
<1> QED
  BY <1>1, <1>2, <1>8, <1>9, <1>10 DEF Sound

(* The links back of a list without its i-th element. *)
LEMMA BackWithout ==
  ASSUME NEW N, NULL \notin N, NEW s \in Seq(N), NEW i \in 1 .. Len(s),
         NEW r, IsWithout(r, s, i), NEW back, LeadsBack(back, s), NEW other,
         \A n \in 1 .. Len(s) : n # i =>
           other[s[n]] = IF n = i + 1 THEN back[s[i]] ELSE back[s[n]]
  PROVE  LeadsBack(other, r)
<1>1. /\ Len(s) \in Nat /\ Len(r) = Len(s) - 1
      /\ \A n \in 1 .. Len(s) - 1 : r[n] = IF n < i THEN s[n] ELSE s[n + 1]
  BY LenProperties DEF IsWithout
<1>2. \A n \in 1 .. Len(s) : back[s[n]] = IF n = 1 THEN NULL ELSE s[n - 1]
  BY DEF LeadsBack
<1>3. ASSUME NEW n \in 1 .. Len(r) PROVE other[r[n]] = IF n = 1 THEN NULL ELSE r[n - 1]
  <2>1. n \in 1 .. Len(s) - 1 /\ n \in 1 .. Len(s)
    BY <1>1
  <2>2. CASE n < i
    <3>1. r[n] = s[n] /\ n # i /\ n # i + 1
      BY <1>1, <2>1, <2>2
    <3>2. other[r[n]] = IF n = 1 THEN NULL ELSE s[n - 1]
      BY <1>2, <2>1, <3>1
    <3>3. ASSUME n # 1 PROVE r[n - 1] = s[n - 1]
      <4>1. PICK m \in 1 .. Len(s) - 1 : m = n - 1
        BY <2>1, <3>3
      <4>2. r[m] = s[m]
        BY <1>1, <2>2, <4>1
      <4> QED
        BY <4>1, <4>2
    <3> QED
      BY <3>2, <3>3
  <2>3. CASE ~(n < i)
    <3>1. PICK k \in 1 .. Len(s) : k = n + 1
      BY <1>1, <2>1
    <3>2. r[n] = s[k] /\ k # i /\ k # 1
      BY <1>1, <2>1, <2>3, <3>1
    <3>3. CASE n = i
      <4>1. other[s[k]] = back[s[i]]
        BY <3>1, <3>2, <3>3
      <4>2. back[s[i]] = IF n = 1 THEN NULL ELSE s[n - 1]
        BY <1>2, <3>3
      <4>3. ASSUME n # 1 PROVE r[n - 1] = s[n - 1]
        <5>1. PICK m \in 1 .. Len(s) - 1 : m = n - 1
          BY <2>1, <4>3
        <5>2. m < i
          BY <3>3, <5>1
        <5>3. r[m] = s[m]
          BY <1>1, <5>2
        <5> QED
          BY <5>1, <5>3
      <4> QED
        BY <3>2, <4>1, <4>2, <4>3
    <3>4. CASE n # i
      <4>1. k # i + 1 /\ k - 1 = n /\ n # 1
        BY <2>1, <2>3, <3>1, <3>4
      <4>2. other[s[k]] = s[n]
        BY <1>2, <3>2, <4>1
      <4>3. PICK m \in 1 .. Len(s) - 1 : m = n - 1
        BY <2>1, <4>1
      <4>4. ~(m < i) /\ m + 1 = n
        BY <2>1, <2>3, <3>4, <4>3
      <4>5. r[m] = s[n]
        BY <1>1, <4>4
      <4> QED
        BY <3>2, <4>1, <4>2, <4>3, <4>5
    <3> QED
      BY <3>3, <3>4
  <2> QED
    BY <2>2, <2>3
<1> QED
  BY <1>3 DEF LeadsBack

LEMMA DoubleUnlinkSound ==
  ASSUME Sound, NEW p \in Elements, DoubleUnlink(p)
  PROVE  Sound'
<1> DEFINE joined == IF previous[p] = NULL THEN next ELSE [next EXCEPT ![previous[p]] = next[p]]
           joinedBack == IF next[p] = NULL THEN previous
                         ELSE [previous EXCEPT ![next[p]] = previous[p]]
<1>1. /\ kind = "double" /\ p \in Reach(next, head) /\ content' = RemoveFirst(content, p)
      /\ kind' = kind /\ kept' = kept
      /\ head' = IF previous[p] = NULL THEN next[p] ELSE head
      /\ next' = [joined EXCEPT ![p] = NULL] /\ previous' = [joinedBack EXCEPT ![p] = NULL]
  BY DEF DoubleUnlink, Runs, Removed
<1>2. LinkField = next /\ LinkField' = next'
  BY <1>1 DEF LinkField
<1>3. /\ NULL \notin Elements /\ \A n \in 1 .. Len(content) : content[n] \in Elements
      /\ Reach(next, head) = ToSet(content) /\ Len(content) \in Nat
      /\ ToSet(content) = {content[n] : n \in 1 .. Len(content)}
      /\ \A m, n \in 1 .. Len(content) : content[m] = content[n] => m = n
      /\ Len(content) > 0 => head = content[1] /\ next[content[Len(content)]] = NULL
      /\ \A n \in 1 .. Len(content) - 1 : next[content[n]] = content[n + 1]
  BY <1>2, ChainFacts
<1>4. /\ ChainTypes /\ FreshAreClear /\ content \in Seq(Elements)
      /\ IsList(next, head, content) /\ LeadsBack(previous, content)
      /\ Pointers(next, Elements) /\ Pointers(previous, Elements)
      /\ head \in Elements \cup {NULL}
  BY <1>1, <1>2 DEF Sound, ChainTypes
<1>5. PICK i \in 1 .. Len(content) : p = content[i]
  BY <1>1, <1>3
<1>6. /\ content' \in Seq(Elements) /\ IsWithout(content', content, i)
      /\ ToSet(content') = ToSet(content) \ {p}
      /\ \A n \in 1 .. Len(content) : n # i => content[n] # p
  BY <1>1, <1>5, TakenOut
<1>7. \A n \in 1 .. Len(content) :
        previous[content[n]] = IF n = 1 THEN NULL ELSE content[n - 1]
  BY <1>4 DEF LeadsBack
<1>8. /\ joined \in [Elements -> Elements \cup {NULL}]
      /\ joinedBack \in [Elements -> Elements \cup {NULL}]
  BY <1>4 DEF Pointers
<1>9. /\ Pointers(next', Elements) /\ next'[p] = NULL
      /\ Pointers(previous', Elements) /\ previous'[p] = NULL
  BY <1>1, <1>3, <1>8 DEF Pointers
<1>10. ASSUME NEW q \in Elements \ {p}
       PROVE  /\ next'[q] = IF q = previous[p] THEN next[p] ELSE next[q]
              /\ previous'[q] = IF q = next[p] THEN previous[p] ELSE previous[q]
  <2>1. q # NULL /\ next'[q] = joined[q] /\ previous'[q] = joinedBack[q]
    BY <1>1, <1>3, <1>8
  <2>2. joined[q] = IF q = previous[p] THEN next[p] ELSE next[q]
    BY <1>4, <2>1 DEF Pointers
  <2>3. joinedBack[q] = IF q = next[p] THEN previous[p] ELSE previous[q]
    BY <1>4, <2>1 DEF Pointers
  <2> QED
    BY <2>1, <2>2, <2>3
<1> HIDE DEF joined, joinedBack
<1>11. \A n \in 1 .. Len(content) : n # i =>
         /\ content[n] = previous[p] <=> next[content[n]] = p
         /\ content[n] = next[p] <=> n = i + 1
  <2>1. ASSUME NEW n \in 1 .. Len(content), n # i
        PROVE  content[n] = previous[p] <=> next[content[n]] = p
    <3>1. CASE n = i - 1
      <4>1. n \in 1 .. Len(content) - 1 /\ i # 1 /\ n + 1 = i
        BY <1>3, <3>1
      <4> QED
        BY <1>3, <1>5, <1>7, <3>1, <4>1
    <3>2. CASE n # i - 1
      <4>1. content[n] # previous[p]
        <5>1. i # 1 => i - 1 \in 1 .. Len(content) /\ previous[p] = content[i - 1]
          BY <1>3, <1>5, <1>7
        <5>2. i = 1 => previous[p] = NULL
          BY <1>5, <1>7
        <5> QED
          BY <1>3, <3>2, <5>1, <5>2
      <4>2. next[content[n]] # p
        <5>1. CASE n = Len(content)
          <6>1. Len(content) > 0 /\ p # NULL
            BY <1>3
          <6> QED
            BY <1>3, <5>1, <6>1
        <5>2. CASE n # Len(content)
          <6>1. n \in 1 .. Len(content) - 1 /\ n + 1 \in 1 .. Len(content) /\ n + 1 # i
            BY <1>3, <3>2, <5>2
          <6> QED
            BY <1>3, <1>5, <6>1
        <5> QED
          BY <5>1, <5>2
      <4> QED
        BY <4>1, <4>2
    <3> QED
      BY <3>1, <3>2
  <2>2. ASSUME NEW n \in 1 .. Len(content), n # i
        PROVE  content[n] = next[p] <=> n = i + 1
    <3>1. CASE i = Len(content)
      <4>1. next[p] = NULL /\ n # i + 1
        BY <1>3, <1>5, <3>1
      <4> QED
        BY <1>3, <4>1
    <3>2. CASE i # Len(content)
      <4>1. i \in 1 .. Len(content) - 1 /\ i + 1 \in 1 .. Len(content)
        BY <1>3, <3>2
      <4>2. next[p] = content[i + 1]
        BY <1>3, <1>5, <4>1
      <4> QED
        BY <1>3, <4>1, <4>2
    <3> QED
      BY <3>1, <3>2
  <2> QED
    BY <2>1, <2>2
<1>12. IsList(next', head', content')
  <2>1. ASSUME NEW n \in 1 .. Len(content), n # i
        PROVE  next'[content[n]] = IF next[content[n]] = content[i] THEN next[content[i]]
                                   ELSE next[content[n]]
    <3>1. content[n] \in Elements \ {p}
      BY <1>3, <1>6, <2>1
    <3> QED
      BY <1>5, <1>10, <1>11, <2>1, <3>1
  <2>2. head' = IF head = content[i] THEN next[content[i]] ELSE head
    <3>1. head = content[1] /\ 1 \in 1 .. Len(content)
      BY <1>3
    <3>2. head = content[i] <=> i = 1
      BY <1>3, <3>1
    <3>3. i # 1 => i - 1 \in 1 .. Len(content)
      BY <1>3
    <3>4. previous[p] = NULL <=> i = 1
      BY <1>3, <1>5, <1>7, <3>3
    <3> QED
      BY <1>1, <1>5, <3>2, <3>4
  <2> QED
    BY <1>3, <1>4, <1>6, <2>1, <2>2, ListWithout
<1>13. LeadsBack(previous', content')
  <2>1. ASSUME NEW n \in 1 .. Len(content), n # i
        PROVE  previous'[content[n]] = IF n = i + 1 THEN previous[content[i]]
                                       ELSE previous[content[n]]
    <3>1. content[n] \in Elements \ {p}
      BY <1>3, <1>6, <2>1
    <3> QED
      BY <1>5, <1>10, <1>11, <2>1, <3>1
  <2> QED
    BY <1>3, <1>4, <1>6, <2>1, BackWithout
<1>14. ChainTypes'
  <2>1. head' \in Elements \cup {NULL}
    BY <1>1, <1>4 DEF Pointers
  <2> QED
    BY <1>1, <1>4, <1>6, <1>9, <2>1 DEF ChainTypes
<1>15. FreshAreClear'
  <2>1. ASSUME NEW q \in Elements, q \notin ToSet(content'), q \notin kept'
        PROVE  next'[q] = NULL /\ previous'[q] = NULL
    <3>1. CASE q = p
      BY <1>9, <3>1
    <3>2. CASE q # p
      <4>1. q \notin ToSet(content) /\ q \notin kept
        BY <1>1, <1>6, <2>1, <3>2
      <4>2. next[q] = NULL /\ previous[q] = NULL
        BY <1>1, <1>2, <1>4, <4>1 DEF FreshAreClear
      <4>3. q # previous[p] /\ q # next[p]
        <5>1. i # 1 => i - 1 \in 1 .. Len(content) /\ previous[p] = content[i - 1]
          BY <1>3, <1>5, <1>7
        <5>2. i = 1 => previous[p] = NULL
          BY <1>5, <1>7
        <5>3. i # Len(content) =>
                /\ i \in 1 .. Len(content) - 1 /\ i + 1 \in 1 .. Len(content)
                /\ next[p] = content[i + 1]
          BY <1>3, <1>5
        <5>4. i = Len(content) => next[p] = NULL
          BY <1>3, <1>5
        <5>5. q # NULL /\ \A n \in 1 .. Len(content) : q # content[n]
          BY <1>3, <4>1
        <5>6. q # previous[p]
          BY <5>1, <5>2, <5>5
        <5>7. q # next[p]
          BY <5>3, <5>4, <5>5
        <5> QED
          BY <5>6, <5>7
      <4> QED
        BY <1>10, <3>2, <4>2, <4>3
    <3> QED
      BY <3>1, <3>2
  <2> QED
    BY <1>1, <1>2, <2>1 DEF FreshAreClear
<1> QED
  BY <1>1, <1>2, <1>12, <1>13, <1>14, <1>15 DEF Sound

(* Only the only element of a double list has no neighbour. *)
LEMMA CrashOfOne ==
  ASSUME Sound, NEW p \in Elements, DoubleCrash(p)
  PROVE  course' = "crashed" /\ kind' = "double" /\ Len(content') = 1
<1>1. /\ kind = "double" /\ p \in Reach(next, head) /\ previous[p] = NULL /\ next[p] = NULL
      /\ course' = "crashed" /\ kind' = kind /\ content' = content
  BY DEF DoubleCrash, Runs
<1>2. LinkField = next
  BY <1>1 DEF LinkField
<1>3. /\ NULL \notin Elements /\ \A n \in 1 .. Len(content) : content[n] \in Elements
      /\ Reach(next, head) = ToSet(content) /\ Len(content) \in Nat
      /\ ToSet(content) = {content[n] : n \in 1 .. Len(content)}
      /\ \A n \in 1 .. Len(content) - 1 : next[content[n]] = content[n + 1]
  BY <1>2, ChainFacts
<1>4. PICK i \in 1 .. Len(content) : p = content[i]
  BY <1>1, <1>3
<1>5. i = 1
  <2>1. i # 1 => i - 1 \in 1 .. Len(content) /\ content[i - 1] # NULL
    BY <1>3
  <2>2. previous[p] = IF i = 1 THEN NULL ELSE content[i - 1]
    BY <1>1, <1>4 DEF Sound, LeadsBack
  <2> QED
    BY <1>1, <2>1, <2>2
<1>6. i = Len(content)
  <2>1. i # Len(content) => i \in 1 .. Len(content) - 1 /\ i + 1 \in 1 .. Len(content)
    BY <1>3
  <2>2. i # Len(content) => next[p] = content[i + 1] /\ content[i + 1] # NULL
    BY <1>3, <1>4, <2>1
  <2> QED
    BY <1>1, <2>2
<1> QED
  BY <1>1, <1>5, <1>6

LEMMA PopSound ==
  ASSUME Sound, Pop
  PROVE  Sound'
<1>1. /\ kind \in {"stack", "queue"} /\ head # NULL /\ head' = LinkField[head]
      /\ content' = RemoveFirst(content, head) /\ kept' = kept \cup {head}
      /\ kind' = kind /\ next' = next /\ previous' = previous
  BY DEF Pop, Runs
<1>2. PICK link : link = LinkField
  OBVIOUS
<1>3. /\ LinkField' = link /\ head' = link[head] /\ Pointers(link, Elements)
      /\ ChainTypes /\ FreshAreClear /\ content \in Seq(Elements) /\ IsList(link, head, content)
      /\ head \in Elements \cup {NULL}
  BY <1>1, <1>2 DEF LinkField, Sound, ChainTypes
<1>4. /\ NULL \notin Elements /\ Len(content) \in Nat
      /\ \A n \in 1 .. Len(content) : content[n] \in Elements
      /\ Len(content) = 0 <=> head = NULL
      /\ Len(content) > 0 => head = content[1] /\ link[content[Len(content)]] = NULL
      /\ \A n \in 1 .. Len(content) - 1 : link[content[n]] = content[n + 1]
  BY <1>2, ChainFacts
<1>5. Len(content) > 0 /\ 1 \in 1 .. Len(content) /\ head = content[1]
  BY <1>1, <1>4
<1>6. /\ content' \in Seq(Elements) /\ IsWithout(content', content, 1)
      /\ ToSet(content') = ToSet(content) \ {head}
      /\ \A n \in 1 .. Len(content) : n # 1 => content[n] # head
  BY <1>1, <1>5, TakenOut
<1>7. IsList(link, head', content')
  <2>1. ASSUME NEW n \in 1 .. Len(content), n # 1
        PROVE  link[content[n]] = IF link[content[n]] = content[1] THEN link[content[1]]
                                  ELSE link[content[n]]
    <3>1. CASE n = Len(content)
      BY <1>4, <1>5, <3>1
    <3>2. CASE n # Len(content)
      <4>1. n \in 1 .. Len(content) - 1 /\ n + 1 \in 1 .. Len(content) /\ n + 1 # 1
        BY <1>4, <2>1, <3>2
      <4> QED
        BY <1>4, <1>5, <1>6, <4>1
    <3> QED
      BY <3>1, <3>2
  <2>2. head' = IF head = content[1] THEN link[content[1]] ELSE head
    BY <1>3, <1>5
  <2> QED
    BY <1>3, <1>4, <1>5, <1>6, <2>1, <2>2, ListWithout
<1>8. ChainTypes'
  <2>1. head' \in Elements \cup {NULL} /\ head \in Elements
    BY <1>1, <1>3 DEF Pointers
  <2>2. kept' \subseteq Elements \ ToSet(content')
    BY <1>1, <1>3, <1>6, <2>1 DEF ChainTypes
  <2> QED
    BY <1>1, <1>3, <1>6, <2>1, <2>2 DEF ChainTypes
<1>9. FreshAreClear'
  <2>1. \A q \in Elements : q \notin ToSet(content') /\ q \notin kept' =>
          q \notin ToSet(content) /\ q \notin kept
    BY <1>1, <1>6
  <2> QED
    BY <1>1, <1>2, <1>3, <2>1 DEF FreshAreClear
<1> QED
  BY <1>1, <1>3, <1>7, <1>8, <1>9 DEF Sound

LEMMA ClearSound ==
  ASSUME Sound, Clear
  PROVE  Sound'
<1>1. /\ head' = NULL /\ content' = << >> /\ kept' = kept \cup ToSet(content)
      /\ kind' = kind /\ next' = next /\ previous' = previous
  BY DEF Clear
<1>2. ToSet(content') = {} /\ Len(content') = 0 /\ content' \in Seq(Elements)
  BY <1>1 DEF ToSet
<1>3. ToSet(content) \subseteq Elements
  BY HasNodes DEF Sound, ChainTypes
<1>4. ChainTypes'
  <2>1. kept' \subseteq Elements \ ToSet(content')
    BY <1>1, <1>2, <1>3 DEF Sound, ChainTypes
  <2> QED
    BY <1>1, <1>2, <2>1 DEF Sound, ChainTypes
<1>5. IsList(LinkField', head', content')
  BY <1>1, <1>2 DEF IsList
<1>6. LeadsBack(previous', content')
  BY <1>2 DEF LeadsBack
<1>7. FreshAreClear'
  BY <1>1 DEF Sound, FreshAreClear, LinkField
<1> QED
  BY <1>4, <1>5, <1>6, <1>7 DEF Sound

LEMMA RenewSound ==
  ASSUME Sound, NEW p \in Elements, Renew(p)
  PROVE  Sound'
<1>1. /\ p \in kept /\ kept' = kept \ {p}
      /\ next' = [next EXCEPT ![p] = NULL] /\ previous' = [previous EXCEPT ![p] = NULL]
      /\ kind' = kind /\ head' = head /\ content' = content
  BY DEF Renew
<1>2. /\ ChainTypes /\ content \in Seq(Elements) /\ p \notin ToSet(content)
      /\ Pointers(next, Elements) /\ Pointers(previous, Elements) /\ FreshAreClear
      /\ IsList(LinkField, head, content)
  BY <1>1 DEF Sound, ChainTypes
<1>3. \A n \in 1 .. Len(content) : content[n] \in Elements \ {p}
  BY <1>2, NodesOf, HasNodes
<1>4. /\ Pointers(next', Elements) /\ next'[p] = NULL
      /\ Pointers(previous', Elements) /\ previous'[p] = NULL
      /\ \A q \in Elements \ {p} : next'[q] = next[q] /\ previous'[q] = previous[q]
  BY <1>1, <1>2 DEF Pointers
<1>5. LinkField'[p] = NULL /\ \A q \in Elements \ {p} : LinkField'[q] = LinkField[q]
  BY <1>1, <1>4 DEF LinkField
<1>6. IsList(LinkField', head', content')
  <2>1. PICK link : link = LinkField
    OBVIOUS
  <2>2. PICK other : other = LinkField'
    OBVIOUS
  <2>3. \A n \in 1 .. Len(content) : other[content[n]] = link[content[n]]
    BY <1>3, <1>5, <2>1, <2>2
  <2>4. IsList(other, head, content)
    BY <1>2, <2>1, <2>3, ListSame
  <2> QED
    BY <1>1, <2>2, <2>4
<1>7. ChainTypes'
  BY <1>1, <1>2, <1>4 DEF ChainTypes
<1>8. kind = "double" => LeadsBack(previous', content')
  BY <1>1, <1>3, <1>4 DEF Sound, LeadsBack
<1>9. FreshAreClear'
  <2>1. ASSUME NEW q \in Elements, q \notin ToSet(content'), q \notin kept'
        PROVE  LinkField'[q] = NULL /\ (kind = "double" => previous'[q] = NULL)
    <3>1. CASE q = p
      BY <1>4, <1>5, <3>1
    <3>2. CASE q # p
      <4>1. q \notin ToSet(content) /\ q \notin kept
        BY <1>1, <2>1, <3>2
      <4> QED
        BY <1>2, <1>4, <1>5, <3>2, <4>1 DEF FreshAreClear
    <3> QED
      BY <3>1, <3>2
  <2> QED
    BY <1>1, <2>1 DEF FreshAreClear
<1> QED
  BY <1>1, <1>6, <1>7, <1>8, <1>9 DEF Sound

LEMMA ChainInvariant == ChainSpec => []ChainInv
<1>1. ChainInit => ChainInv
  <2> SUFFICES ASSUME ChainInit PROVE ChainInv
    OBVIOUS
  <2>1. /\ kind \in {"list", "double", "stack", "queue"} /\ head = NULL /\ kept = {}
        /\ next = [p \in Elements |-> NULL] /\ previous = [p \in Elements |-> NULL]
        /\ course = "runs" /\ content = << >>
    BY DEF ChainInit
  <2>2. content \in Seq(Elements) /\ ToSet(content) = {} /\ Len(content) = 0
    BY <2>1 DEF ToSet
  <2>3. Pointers(next, Elements) /\ Pointers(previous, Elements)
    BY <2>1, ElementsAssumption DEF Pointers
  <2>4. ChainTypes
    BY <2>1, <2>2, <2>3 DEF ChainTypes
  <2>5. IsList(LinkField, head, content) /\ LeadsBack(previous, content)
    BY <2>1, <2>2 DEF IsList, LeadsBack
  <2>6. FreshAreClear
    BY <2>1 DEF FreshAreClear, LinkField
  <2> QED
    BY <2>1, <2>4, <2>5, <2>6 DEF ChainInv, Sound
<1>2. ASSUME ChainInv, [ChainNext]_chainVars PROVE ChainInv'
  <2> SUFFICES ASSUME ~stale'
               PROVE  IF course' = "runs" THEN Sound'
                      ELSE course' = "crashed" /\ kind' = "double" /\ Len(content') = 1
    BY DEF ChainInv
  <2>1. CASE UNCHANGED chainVars
    BY <1>2, <2>1 DEF chainVars, ChainInv, Sound, ChainTypes, LinkField, LeadsBack, FreshAreClear
  <2>2. CASE ChainNext
    <3>1. ~stale /\ course = "runs"
      <4>1. ASSUME NEW p \in Elements,
                   ListLink(p) \/ DoubleLink(p) \/ QueuePush(p) \/ StackPush(p)
            PROVE  ~stale /\ course = "runs"
        BY <4>1 DEF ListLink, DoubleLink, QueuePush, StackPush, Added, Runs
      <4>2. ASSUME NEW p \in Elements, ListUnlink(p) \/ DoubleUnlink(p) \/ DoubleCrash(p)
            PROVE  ~stale /\ course = "runs"
        BY <4>2 DEF ListUnlink, DoubleUnlink, DoubleCrash, Removed, Runs
      <4>3. ASSUME (\E p \in Elements : Renew(p)) \/ Pop \/ Clear \/ Hang
            PROVE  ~stale /\ course = "runs"
        BY <4>3 DEF Renew, Pop, Clear, Hang, Runs
      <4> QED
        BY <2>2, <4>1, <4>2, <4>3 DEF ChainNext
    <3>2. Sound
      BY <1>2, <3>1 DEF ChainInv
    <3>3. ASSUME NEW p \in Elements, ListLink(p) \/ DoubleLink(p) \/ QueuePush(p) \/ StackPush(p)
          PROVE  Sound' /\ course' = "runs"
      <4>1. course' = course
        BY <3>3 DEF ListLink, DoubleLink, QueuePush, StackPush, Added
      <4> QED
        BY <3>1, <3>2, <3>3, <4>1, ListLinkSound, DoubleLinkSound, QueuePushSound, StackPushSound
    <3>4. ASSUME NEW p \in Elements, ListUnlink(p) \/ DoubleUnlink(p) \/ Renew(p)
          PROVE  Sound' /\ course' = "runs"
      <4>1. course' = course
        BY <3>4 DEF ListUnlink, DoubleUnlink, Renew, Removed
      <4> QED
        BY <3>1, <3>2, <3>4, <4>1, ListUnlinkSound, DoubleUnlinkSound, RenewSound
    <3>5. ASSUME NEW p \in Elements, DoubleCrash(p)
          PROVE  course' = "crashed" /\ kind' = "double" /\ Len(content') = 1
      BY <3>2, <3>5, CrashOfOne
    <3>6. ASSUME Pop \/ Clear PROVE Sound' /\ course' = "runs"
      <4>1. course' = course
        BY <3>6 DEF Pop, Clear
      <4> QED
        BY <3>1, <3>2, <3>6, <4>1, PopSound, ClearSound
    <3>7. ~Hang
      BY <3>2, ChainFacts DEF Hang
    <3> QED
      BY <2>2, <3>3, <3>4, <3>5, <3>6, <3>7 DEF ChainNext
  <2> QED
    BY <1>2, <2>1, <2>2
<1> QED
  BY <1>1, <1>2, PTL DEF ChainSpec

(* A chain has the elements that were added and not removed, in order, as  *)
(* long as no stale element is added where the function leaves its link    *)
(* alone.                                                                  *)
THEOREM ChainsAreSequences == ChainSpec => []ContentUnlessStale
<1>1. ChainInv => ContentUnlessStale
  <2> SUFFICES ASSUME ChainInv, ~stale
               PROVE  /\ course = "runs" => IsList(LinkField, head, content)
                      /\ course = "runs" /\ kind = "double" =>
                           \A n \in DOMAIN content :
                             previous[content[n]] = IF n = 1 THEN NULL ELSE content[n - 1]
                      /\ course = "crashed" => kind = "double" /\ Len(content) = 1
                      /\ course # "hangs"
    BY DEF ContentUnlessStale
  <2>1. CASE course = "runs"
    <3>1. Sound
      BY <2>1 DEF ChainInv
    <3>2. DOMAIN content = 1 .. Len(content)
      BY <3>1, NodesOf DEF Sound, ChainTypes
    <3> QED
      BY <2>1, <3>1, <3>2 DEF Sound, LeadsBack
  <2>2. CASE course # "runs"
    BY <2>2 DEF ChainInv
  <2> QED
    BY <2>1, <2>2
<1> QED
  BY ChainInvariant, <1>1, PTL

-----------------------------------------------------------------------------
(* The tree.  A node knows its parent, so that it is a child of one only,  *)
(* and the siblings of one node's children are none of another's.          *)

TreeTypes ==
  /\ root \in Nodes \cup {NULL} /\ broke \in Nodes \cup {NULL}
  /\ Pointers(parent, Nodes) /\ Pointers(child, Nodes) /\ Pointers(sibling, Nodes)
  /\ children \in [Nodes -> Seq(Nodes)]

ChildrenAreListed ==
  \A n \in Nodes : /\ IsList(sibling, child[n], children[n])
                   /\ \A m \in ToSet(children[n]) : parent[m] = n

TopsAreAlone ==
  \A n \in Nodes : Top(n) => sibling[n] = NULL /\ (parent[n] = NULL \/ n \in cleared)

TreeInv ==
  /\ TreeTypes
  /\ ChildrenAreListed
  /\ TopsAreAlone
  /\ root # NULL => Top(root)
  /\ broke # NULL => Top(broke) /\ broke # root

LEMMA TreeFacts ==
  ASSUME TreeInv
  PROVE  /\ NULL \notin Nodes
         /\ Pointers(parent, Nodes) /\ Pointers(child, Nodes) /\ Pointers(sibling, Nodes)
         /\ \A n \in Nodes : /\ children[n] \in Seq(Nodes) /\ ToSet(children[n]) \subseteq Nodes
                             /\ IsList(sibling, child[n], children[n])
                             /\ child[n] \in Nodes \cup {NULL}
                             /\ sibling[n] \in Nodes \cup {NULL}
         /\ \A n, k \in Nodes : n \in ToSet(children[k]) => parent[n] = k
         /\ \A n \in Nodes :
              ~Top(n) => parent[n] \in Nodes /\ n \in ToSet(children[parent[n]])
<1>1. /\ NULL \notin Nodes
      /\ Pointers(parent, Nodes) /\ Pointers(child, Nodes) /\ Pointers(sibling, Nodes)
      /\ children \in [Nodes -> Seq(Nodes)]
  BY DEF TreeInv, TreeTypes, Pointers
<1>2. \A n \in Nodes : children[n] \in Seq(Nodes)
  BY <1>1
<1>3. \A n \in Nodes : ToSet(children[n]) \subseteq Nodes
  BY <1>2, HasNodes
<1>4. \A n \in Nodes : child[n] \in Nodes \cup {NULL} /\ sibling[n] \in Nodes \cup {NULL}
  BY <1>1 DEF Pointers
<1>5. \A n, k \in Nodes : n \in ToSet(children[k]) => parent[n] = k
  BY DEF TreeInv, ChildrenAreListed
<1>6. \A n \in Nodes :
        ~Top(n) => parent[n] \in Nodes /\ n \in ToSet(children[parent[n]])
  <2>1. ASSUME NEW n \in Nodes, ~Top(n)
        PROVE  parent[n] \in Nodes /\ n \in ToSet(children[parent[n]])
    <3>1. PICK m \in Nodes : n \in ToSet(children[m])
      BY <2>1 DEF Top
    <3>2. parent[n] = m
      BY <1>5, <3>1
    <3> QED
      BY <3>1, <3>2
  <2> QED
    BY <2>1
<1> QED
  BY <1>1, <1>2, <1>3, <1>4, <1>5, <1>6 DEF TreeInv, ChildrenAreListed

(* The nodes of a tree without siblings: a child of a node is in it if and *)
(* only if the node is.                                                    *)
LEMMA VisitedIsTree ==
  ASSUME TreeInv, NEW top \in Nodes, Top(top)
  PROVE  /\ Visited(top) \subseteq Nodes /\ top \in Visited(top)
         /\ \A k \in Visited(top) : ToSet(children[k]) \subseteq Visited(top)
         /\ \A k \in Nodes : \A m \in ToSet(children[k]) :
              m \in Visited(top) => k \in Visited(top)
<1> DEFINE A == Visited(top)
<1>1. /\ NULL \notin Nodes
      /\ \A n \in Nodes : /\ children[n] \in Seq(Nodes)
                          /\ IsList(sibling, child[n], children[n])
                          /\ child[n] \in Nodes \cup {NULL}
                          /\ sibling[n] \in Nodes \cup {NULL}
      /\ \A n, k \in Nodes : n \in ToSet(children[k]) => parent[n] = k
  BY TreeFacts
<1>2. top # NULL /\ sibling[top] = NULL
  BY <1>1 DEF TreeInv, TopsAreAlone
<1>3. /\ A \subseteq Nodes
      /\ \A n \in Nodes : n \in A <=>
           \A S \in SUBSET Nodes :
             top \in S /\ Closed(child, S) /\ Closed(sibling, S) => n \in S
  BY <1>2 DEF Visited
<1> HIDE DEF A
<1>4. top \in A
  BY <1>3
<1>5. ASSUME NEW k \in A PROVE Holds(A, child[k]) /\ Holds(A, sibling[k])
  <2>1. k \in Nodes /\ child[k] \in Nodes \cup {NULL} /\ sibling[k] \in Nodes \cup {NULL}
    BY <1>1, <1>3
  <2>2. ASSUME NEW S \in SUBSET Nodes, top \in S, Closed(child, S), Closed(sibling, S)
        PROVE  (child[k] # NULL => child[k] \in S) /\ (sibling[k] # NULL => sibling[k] \in S)
    <3>1. k \in S
      BY <1>3, <2>1, <2>2
    <3> QED
      BY <2>2, <3>1 DEF Closed, Holds
  <2>3. child[k] # NULL => child[k] \in A
    BY <1>3, <2>1, <2>2
  <2>4. sibling[k] # NULL => sibling[k] \in A
    BY <1>3, <2>1, <2>2
  <2> QED
    BY <2>3, <2>4 DEF Holds
<1>6. ASSUME NEW k \in A PROVE ToSet(children[k]) \subseteq A
  <2>1. PICK s \in Seq(Nodes) : s = children[k]
    BY <1>1, <1>3
  <2>2. IsList(sibling, child[k], s)
    BY <1>1, <1>3, <2>1
  <2>3. Holds(A, child[k]) /\ \A q \in A \cap Nodes : Holds(A, sibling[q])
    BY <1>5
  <2>4. \A n \in 1 .. Len(s) : s[n] \in A
    BY <1>1, <2>2, <2>3, AlongList
  <2>5. ToSet(s) = {s[n] : n \in 1 .. Len(s)}
    BY HasNodes
  <2> QED
    BY <2>1, <2>4, <2>5
<1>7. \A m \in A : m = top \/ \E k \in A : m \in ToSet(children[k])
  <2> DEFINE S == {m \in A : m = top \/ \E k \in A : m \in ToSet(children[k])}
  <2>1. top \in S /\ S \subseteq Nodes
    BY <1>3, <1>4
  <2>2. ASSUME NEW m \in S, child[m] # NULL PROVE child[m] \in S
    <3>1. m \in A /\ m \in Nodes
      BY <1>3
    <3>2. PICK s \in Seq(Nodes) : s = children[m]
      BY <1>1, <3>1
    <3>3. IsList(sibling, child[m], s)
      BY <1>1, <3>1, <3>2
    <3>4. Len(s) \in Nat
      BY LenProperties
    <3>5. Len(s) > 0 /\ 1 \in 1 .. Len(s) /\ child[m] = s[1]
      <4>1. Len(s) # 0
        BY <1>1, <2>2, <3>3, ListIs
      <4> QED
        BY <1>1, <3>3, <3>4, <4>1, ListIs
    <3>6. child[m] \in ToSet(children[m])
      BY <3>2, <3>5, HasNodes
    <3>7. child[m] \in A
      BY <1>5, <2>2, <3>1 DEF Holds
    <3> QED
      BY <3>1, <3>6, <3>7
  <2>3. ASSUME NEW m \in S, sibling[m] # NULL PROVE sibling[m] \in S
    <3>1. m \in A /\ m \in Nodes /\ m # top
      BY <1>2, <1>3, <2>3
    <3>2. PICK k \in A : m \in ToSet(children[k])
      BY <3>1
    <3>3. PICK s \in Seq(Nodes) : s = children[k]
      BY <1>1, <1>3
    <3>4. IsList(sibling, child[k], s) /\ ToSet(s) = {s[n] : n \in 1 .. Len(s)}
      BY <1>1, <1>3, <3>3, HasNodes
    <3>5. PICK n \in 1 .. Len(s) : m = s[n]
      BY <3>2, <3>3, <3>4
    <3>6. Len(s) \in Nat
      BY LenProperties
    <3>7. n # Len(s)
      <4>1. Len(s) > 0
        BY <3>6
      <4>2. sibling[s[Len(s)]] = NULL
        BY <1>1, <3>4, <4>1, ListIs
      <4> QED
        BY <2>3, <3>5, <4>2
    <3>8. n \in 1 .. Len(s) - 1 /\ n + 1 \in 1 .. Len(s)
      BY <3>6, <3>7
    <3>9. sibling[m] = s[n + 1]
      BY <1>1, <3>4, <3>5, <3>8, ListIs
    <3>10. sibling[m] \in ToSet(children[k])
      BY <3>3, <3>4, <3>8, <3>9
    <3>11. sibling[m] \in A
      BY <1>5, <2>3, <3>1 DEF Holds
    <3> QED
      BY <3>10, <3>11
  <2> HIDE DEF S
  <2>4. Closed(child, S) /\ Closed(sibling, S)
    BY <2>2, <2>3 DEF Closed, Holds
  <2>5. A \subseteq S
    BY <1>3, <2>1, <2>4
  <2> QED
    BY <2>5 DEF S
<1>8. ASSUME NEW k \in Nodes, NEW m \in ToSet(children[k]), m \in A PROVE k \in A
  <2>1. m # top
    BY <1>8 DEF Top
  <2>2. PICK q \in A : m \in ToSet(children[q])
    BY <1>7, <1>8, <2>1
  <2>3. parent[m] = k /\ parent[m] = q
    BY <1>1, <1>3, <1>8, <2>2
  <2> QED
    BY <2>3
<1> QED
  BY <1>3, <1>4, <1>6, <1>8 DEF A

(* Children of the same nodes: the same tops. *)
LEMMA SameTops ==
  ASSUME TreeInv, children' = children, parent' = parent, child' = child,
         sibling' = sibling, cleared' = cleared
  PROVE  ChildrenAreListed' /\ TopsAreAlone' /\ \A n \in Nodes : Top(n) => Top(n)'
BY DEF TreeInv, ChildrenAreListed, TopsAreAlone, Top

LEMMA LinkOfTree ==
  ASSUME TreeInv, NEW above \in Nodes \cup {NULL}, NEW n \in Nodes, TreeLink(above, n)
  PROVE  TreeInv'
<1>1. /\ NULL \notin Nodes
      /\ Pointers(parent, Nodes) /\ Pointers(child, Nodes) /\ Pointers(sibling, Nodes)
      /\ \A q \in Nodes : /\ children[q] \in Seq(Nodes) /\ ToSet(children[q]) \subseteq Nodes
                          /\ IsList(sibling, child[q], children[q])
                          /\ child[q] \in Nodes \cup {NULL}
      /\ \A q, k \in Nodes : q \in ToSet(children[k]) => parent[q] = k
  BY TreeFacts
<1>2. TreeTypes /\ TopsAreAlone /\ (root # NULL => Top(root))
  BY DEF TreeInv
<1>3. Top(n) /\ n # root /\ broke = NULL /\ broke' = NULL
  BY DEF TreeLink
<1>4. CASE root = NULL
  <2>1. /\ root' = n /\ parent' = parent /\ child' = child /\ sibling' = sibling
        /\ children' = children /\ cleared' = cleared
    BY <1>4 DEF TreeLink
  <2>2. ChildrenAreListed' /\ TopsAreAlone' /\ \A q \in Nodes : Top(q) => Top(q)'
    BY <2>1, SameTops
  <2>3. Top(root)'
    BY <1>3, <2>1 DEF Top
  <2>4. TreeTypes'
    BY <1>2, <1>3, <2>1 DEF TreeTypes
  <2> QED
    BY <1>3, <2>2, <2>3, <2>4 DEF TreeInv
<1>5. CASE root # NULL
  <2>1. /\ above \in Nodes /\ root' = root /\ parent' = [parent EXCEPT ![n] = above]
        /\ children' = [children EXCEPT ![above] = Append(@, n)] /\ cleared' = cleared \ {n}
    BY <1>5 DEF TreeLink
  <2>2. PICK s \in Seq(Nodes) : s = children[above]
    BY <1>1, <2>1
  <2>3. /\ IsList(sibling, child[above], s) /\ ToSet(s) = {s[i] : i \in 1 .. Len(s)}
        /\ Len(s) \in Nat /\ child[above] \in Nodes \cup {NULL}
        /\ \A i \in 1 .. Len(s) : s[i] \in Nodes
    BY <1>1, <2>1, <2>2, HasNodes, NodesOf
  <2>4. n \notin ToSet(s) /\ sibling[n] = NULL
    BY <1>2, <1>3, <2>1, <2>2 DEF Top, TopsAreAlone
  <2>5. /\ Pointers(child', Nodes) /\ Pointers(sibling', Nodes)
        /\ \A q \in Nodes \ {above} : child'[q] = child[q]
        /\ child'[above] = IF Len(s) = 0 THEN n ELSE child[above]
        /\ Len(s) > 0 => s[Len(s)] \in ToSet(s) /\ sibling'[s[Len(s)]] = n
        /\ \A q \in Nodes : (Len(s) = 0 \/ q # s[Len(s)]) => sibling'[q] = sibling[q]
    <3>1. CASE child[above] = NULL
      <4>1. Len(s) = 0
        BY <1>1, <2>3, <3>1, ListIs
      <4>2. child' = [child EXCEPT ![above] = n] /\ sibling' = sibling
        BY <1>5, <3>1 DEF TreeLink
      <4> QED
        BY <1>1, <2>1, <4>1, <4>2 DEF Pointers
    <3>2. CASE child[above] # NULL
      <4>1. Len(s) > 0 /\ Len(s) # 0
        <5>1. Len(s) # 0
          BY <1>1, <2>3, <3>2, ListIs
        <5> QED
          BY <2>3, <5>1
      <4>2. EndOf(sibling, child[above]) = s[Len(s)]
        BY <1>1, <2>3, <4>1, ListEnds
      <4>3. sibling' = [sibling EXCEPT ![s[Len(s)]] = n] /\ child' = child
        BY <1>5, <3>2, <4>2 DEF TreeLink
      <4>4. Len(s) \in 1 .. Len(s)
        BY <2>3, <4>1
      <4>5. s[Len(s)] \in ToSet(s) /\ s[Len(s)] \in Nodes
        BY <2>3, <4>4
      <4> QED
        BY <1>1, <4>1, <4>3, <4>5 DEF Pointers
    <3> QED
      BY <3>1, <3>2
  <2>6. \A q \in Nodes : q \notin ToSet(s) => sibling'[q] = sibling[q]
    <3>1. Len(s) = 0 \/ Len(s) > 0
      BY <2>3
    <3> QED
      BY <2>5, <3>1
  <2>7. IsList(sibling', child'[above], Append(s, n))
    <3>1. \A i \in 1 .. Len(s) - 1 : sibling'[s[i]] = sibling[s[i]]
      <4>1. ASSUME NEW i \in 1 .. Len(s) - 1 PROVE sibling'[s[i]] = sibling[s[i]]
        <5>1. i \in 1 .. Len(s) /\ i # Len(s) /\ Len(s) \in 1 .. Len(s)
          BY <2>3
        <5>2. s[i] # s[Len(s)]
          BY <1>1, <2>3, <5>1, ListApart
        <5> QED
          BY <2>3, <2>5, <5>1, <5>2
      <4> QED
        BY <4>1
    <3>2. sibling'[n] = NULL
      BY <2>4, <2>6
    <3> QED
      BY <1>1, <2>3, <2>5, <3>1, <3>2, ListAppended
  <2>8. /\ children'[above] = Append(s, n) /\ Append(s, n) \in Seq(Nodes)
        /\ ToSet(children'[above]) = ToSet(children[above]) \cup {n}
        /\ \A k \in Nodes \ {above} : children'[k] = children[k]
    <3>1. children \in [Nodes -> Seq(Nodes)]
      BY <1>2 DEF TreeTypes
    <3>2. children'[above] = Append(s, n) /\ \A k \in Nodes \ {above} : children'[k] = children[k]
      BY <2>1, <2>2, <3>1
    <3> QED
      BY <2>2, <3>2, HasAppended
  <2>9. /\ Pointers(parent', Nodes) /\ parent'[n] = above
        /\ \A q \in Nodes \ {n} : parent'[q] = parent[q]
    BY <1>1, <2>1 DEF Pointers
  <2>10. ASSUME NEW k \in Nodes
         PROVE  /\ IsList(sibling', child'[k], children'[k])
                /\ \A m \in ToSet(children'[k]) : parent'[m] = k
    <3>1. CASE k = above
      <4>1. \A m \in ToSet(children[above]) : m \in Nodes /\ m # n /\ parent[m] = above
        BY <1>1, <2>1, <2>2, <2>4
      <4> QED
        BY <2>7, <2>8, <2>9, <3>1, <4>1
    <3>2. CASE k # above
      <4>1. PICK t \in Seq(Nodes) : t = children[k]
        BY <1>1
      <4>2. /\ IsList(sibling, child[k], t) /\ ToSet(t) = {t[i] : i \in 1 .. Len(t)}
            /\ \A i \in 1 .. Len(t) : t[i] \in Nodes
        BY <1>1, <4>1, HasNodes, NodesOf
      <4>3. \A m \in ToSet(t) : m \in Nodes /\ parent[m] = k /\ m \notin ToSet(s) /\ m # n
        BY <1>1, <1>3, <2>1, <2>2, <3>2, <4>1 DEF Top
      <4>4. \A i \in 1 .. Len(t) : sibling'[t[i]] = sibling[t[i]]
        BY <2>6, <4>2, <4>3
      <4>5. IsList(sibling', child[k], t)
        BY <4>2, <4>4, ListSame
      <4> QED
        BY <2>5, <2>8, <2>9, <3>2, <4>1, <4>3, <4>5
    <3> QED
      BY <3>1, <3>2
  <2>11. \A q \in Nodes : Top(q)' <=> Top(q) /\ q # n
    BY <1>3, <2>1, <2>8 DEF Top
  <2>12. TopsAreAlone'
    <3>1. ASSUME NEW q \in Nodes, Top(q)'
          PROVE  sibling'[q] = NULL /\ (parent'[q] = NULL \/ q \in cleared')
      <4>1. Top(q) /\ q # n
        BY <2>11, <3>1
      <4>2. q \notin ToSet(s)
        BY <2>1, <2>2, <4>1 DEF Top
      <4> QED
        BY <1>2, <2>1, <2>6, <2>9, <4>1, <4>2 DEF TopsAreAlone
    <3> QED
      BY <3>1 DEF TopsAreAlone
  <2>13. ChildrenAreListed'
    BY <2>10 DEF ChildrenAreListed
  <2>14. TreeTypes'
    <3>1. children' \in [Nodes -> Seq(Nodes)]
      BY <1>2, <2>1, <2>2, <2>8 DEF TreeTypes
    <3> QED
      BY <1>2, <1>3, <2>1, <2>5, <2>9, <3>1 DEF TreeTypes
  <2>15. Top(root)'
    <3>1. root \in Nodes /\ root # n /\ Top(root)
      BY <1>2, <1>3, <1>5 DEF TreeTypes
    <3>2. \A m \in Nodes : root \notin ToSet(children'[m])
      BY <2>1, <2>8, <3>1 DEF Top
    <3> QED
      BY <2>1, <3>2 DEF Top
  <2> QED
    BY <1>3, <2>12, <2>13, <2>14, <2>15 DEF TreeInv
<1> QED
  BY <1>4, <1>5

(* Of the top of a tree, no link but the one to its parent changes. *)
LEMMA UnlinkOfTop ==
  ASSUME TreeInv, NEW from \in Nodes \cup {NULL}, NEW n \in Nodes, TreeUnlink(from, n), Top(n)
  PROVE  TreeInv'
<1>1. /\ NULL \notin Nodes
      /\ Pointers(parent, Nodes) /\ Pointers(child, Nodes) /\ Pointers(sibling, Nodes)
      /\ \A q \in Nodes : /\ children[q] \in Seq(Nodes)
                          /\ IsList(sibling, child[q], children[q])
                          /\ child[q] \in Nodes \cup {NULL}
  BY TreeFacts
<1>2. /\ TreeTypes /\ TopsAreAlone /\ ChildrenAreListed /\ (root # NULL => Top(root))
      /\ children \in [Nodes -> Seq(Nodes)]
  BY DEF TreeInv, TreeTypes
<1>3. CASE n # root /\ parent[n] = NULL
  <2>1. /\ broke' = n /\ root' = root /\ parent' = parent /\ child' = child
        /\ sibling' = sibling /\ children' = children /\ cleared' = cleared
    BY <1>3 DEF TreeUnlink
  <2>2. ChildrenAreListed' /\ TopsAreAlone' /\ \A q \in Nodes : Top(q) => Top(q)'
    BY <2>1, SameTops
  <2>3. Top(broke)' /\ (root # NULL => Top(root)')
    BY <1>2, <2>1 DEF Top
  <2>4. TreeTypes'
    BY <1>2, <2>1 DEF TreeTypes
  <2> QED
    BY <1>3, <2>1, <2>2, <2>3, <2>4 DEF TreeInv
<1>4. CASE ~(n # root /\ parent[n] = NULL)
  <2>1. /\ root' = (IF n = root THEN NULL ELSE root) /\ broke = NULL /\ broke' = NULL
        /\ child' = IF n # root /\ child[parent[n]] = n
                    THEN [child EXCEPT ![parent[n]] = sibling[n]] ELSE child
        /\ sibling' = IF n = root THEN [sibling EXCEPT ![n] = NULL] ELSE Siblings(n)
        /\ parent' = [parent EXCEPT ![n] = NULL]
        /\ children' = [m \in Nodes |-> RemoveFirst(children[m], n)]
        /\ cleared' = cleared \ {n}
    BY <1>4 DEF TreeUnlink
  <2>2. children' = children
    <3>1. \A m \in Nodes : RemoveFirst(children[m], n) = children[m]
      BY <1>1, RemovedNone DEF Top
    <3> QED
      BY <1>2, <2>1, <3>1
  <2>3. sibling[n] = NULL
    BY <1>2 DEF TopsAreAlone
  <2>4. child' = child /\ sibling' = sibling
    <3>1. CASE n = root
      BY <1>1, <2>1, <2>3, <3>1 DEF Pointers
    <3>2. CASE n # root
      <4>1. PICK above \in Nodes : above = parent[n]
        BY <1>1, <1>4, <3>2 DEF Pointers
      <4>2. PICK s \in Seq(Nodes) : s = children[above]
        BY <1>1
      <4>3. /\ IsList(sibling, child[above], s) /\ n \notin ToSet(s)
            /\ ToSet(s) = {s[i] : i \in 1 .. Len(s)} /\ Len(s) \in Nat
        BY <1>1, <4>2, HasNodes, NodesOf DEF Top
      <4>4. Reach(sibling, child[above]) = ToSet(s)
        BY <1>1, <4>3, ListReach
      <4>5. \A q \in ToSet(s) : sibling[q] # n
        <5>1. ASSUME NEW i \in 1 .. Len(s) PROVE sibling[s[i]] # n
          <6>1. CASE i = Len(s)
            <7>1. Len(s) > 0
              BY <4>3
            <7>2. sibling[s[Len(s)]] = NULL
              BY <1>1, <4>3, <7>1, ListIs
            <7> QED
              BY <1>1, <6>1, <7>2
          <6>2. CASE i # Len(s)
            <7>1. i \in 1 .. Len(s) - 1 /\ i + 1 \in 1 .. Len(s)
              BY <4>3, <6>2
            <7>2. sibling[s[i]] = s[i + 1]
              BY <1>1, <4>3, <7>1, ListIs
            <7> QED
              BY <4>3, <7>1, <7>2
          <6> QED
            BY <6>1, <6>2
        <5> QED
          BY <4>3, <5>1
      <4>6. child[above] # n
        <5>1. child[above] # NULL => child[above] \in ToSet(s)
          BY <1>1, <4>4, ReachCloses
        <5> QED
          BY <1>1, <4>3, <5>1
      <4>7. Bypass(sibling, child[above], n) = sibling
        BY <1>1, <4>4, <4>5 DEF Bypass, Pointers
      <4>8. Siblings(n) = sibling
        BY <1>1, <2>3, <4>1, <4>7 DEF Siblings, Pointers
      <4> QED
        BY <2>1, <3>2, <4>1, <4>6, <4>8
    <3> QED
      BY <3>1, <3>2
  <2>5. /\ Pointers(parent', Nodes) /\ parent'[n] = NULL
        /\ \A q \in Nodes \ {n} : parent'[q] = parent[q]
    BY <1>1, <2>1 DEF Pointers
  <2>6. ChildrenAreListed'
    <3>1. \A k \in Nodes : n \notin ToSet(children[k]) /\ ToSet(children[k]) \subseteq Nodes
      BY <1>1, HasNodes DEF Top
    <3> QED
      BY <1>2, <2>2, <2>4, <2>5, <3>1 DEF ChildrenAreListed
  <2>7. TopsAreAlone'
    BY <1>2, <2>1, <2>2, <2>4, <2>5 DEF TopsAreAlone, Top
  <2>8. TreeTypes'
    BY <1>2, <2>1, <2>2, <2>4, <2>5 DEF TreeTypes
  <2>9. root' # NULL => Top(root)'
    BY <1>2, <2>1, <2>2 DEF Top
  <2> QED
    BY <2>1, <2>6, <2>7, <2>8, <2>9 DEF TreeInv
<1> QED
  BY <1>3, <1>4

(* A child leaves the list of its parent's children, and no other. *)
LEMMA UnlinkOfChild ==
  ASSUME TreeInv, NEW from \in Nodes \cup {NULL}, NEW n \in Nodes, TreeUnlink(from, n), ~Top(n)
  PROVE  TreeInv'
<1>1. /\ NULL \notin Nodes
      /\ Pointers(parent, Nodes) /\ Pointers(child, Nodes) /\ Pointers(sibling, Nodes)
      /\ \A q \in Nodes : /\ children[q] \in Seq(Nodes) /\ ToSet(children[q]) \subseteq Nodes
                          /\ IsList(sibling, child[q], children[q])
                          /\ child[q] \in Nodes \cup {NULL}
                          /\ sibling[q] \in Nodes \cup {NULL}
      /\ \A q, k \in Nodes : q \in ToSet(children[k]) => parent[q] = k
      /\ parent[n] \in Nodes /\ n \in ToSet(children[parent[n]])
  BY TreeFacts
<1>2. /\ TreeTypes /\ TopsAreAlone /\ (root # NULL => Top(root))
      /\ children \in [Nodes -> Seq(Nodes)] /\ root \in Nodes \cup {NULL}
  BY DEF TreeInv, TreeTypes
<1>3. n # root /\ parent[n] # NULL
  BY <1>1, <1>2
<1>4. PICK above \in Nodes : above = parent[n]
  BY <1>1
<1>5. /\ root' = root /\ broke = NULL /\ broke' = NULL
      /\ child' = IF child[above] = n THEN [child EXCEPT ![above] = sibling[n]] ELSE child
      /\ sibling' = [Bypass(sibling, child[above], n) EXCEPT ![n] = NULL]
      /\ parent' = [parent EXCEPT ![n] = NULL]
      /\ children' = [m \in Nodes |-> RemoveFirst(children[m], n)]
      /\ cleared' = cleared \ {n}
  BY <1>3, <1>4 DEF TreeUnlink, Siblings
<1>6. PICK s \in Seq(Nodes) : s = children[above]
  BY <1>1
<1>7. /\ IsList(sibling, child[above], s) /\ n \in ToSet(s)
      /\ ToSet(s) = {s[j] : j \in 1 .. Len(s)} /\ \A j \in 1 .. Len(s) : s[j] \in Nodes
  BY <1>1, <1>4, <1>6, HasNodes, NodesOf
<1>8. Reach(sibling, child[above]) = ToSet(s)
  BY <1>1, <1>7, ListReach
<1>9. PICK i \in 1 .. Len(s) : n = s[i]
  BY <1>7
<1>10. \A j \in 1 .. Len(s) : j # i => s[j] # n
  BY <1>1, <1>7, <1>9, ListApart
<1>11. PICK r \in Seq(Nodes) : /\ r = RemoveFirst(s, n) /\ IsWithout(r, s, i)
                               /\ ToSet(r) = ToSet(s) \ {n}
  BY <1>9, <1>10, HasRemoved
<1>12. /\ Pointers(sibling', Nodes) /\ sibling'[n] = NULL
       /\ \A q \in Nodes \ {n} :
            sibling'[q] = IF sibling[q] = n /\ q \in ToSet(s) THEN sibling[n] ELSE sibling[q]
  BY <1>1, <1>5, <1>8 DEF Pointers, Bypass
<1>13. /\ Pointers(child', Nodes) /\ \A q \in Nodes \ {above} : child'[q] = child[q]
       /\ child'[above] = IF child[above] = n THEN sibling[n] ELSE child[above]
  BY <1>1, <1>5 DEF Pointers
<1>14. /\ Pointers(parent', Nodes) /\ parent'[n] = NULL
       /\ \A q \in Nodes \ {n} : parent'[q] = parent[q]
  BY <1>1, <1>5 DEF Pointers
<1>15. children'[above] = r /\ \A k \in Nodes \ {above} : children'[k] = children[k]
  <2>1. ASSUME NEW k \in Nodes \ {above} PROVE children'[k] = children[k]
    <3>1. n \notin ToSet(children[k])
      BY <1>1, <1>4
    <3>2. RemoveFirst(children[k], n) = children[k]
      BY <1>1, <3>1, RemovedNone
    <3> QED
      BY <1>5, <3>2
  <2> QED
    BY <1>5, <1>6, <1>11, <2>1
<1>16. IsList(sibling', child'[above], r)
  <2>1. ASSUME NEW j \in 1 .. Len(s), j # i
        PROVE  sibling'[s[j]] = IF sibling[s[j]] = s[i] THEN sibling[s[i]] ELSE sibling[s[j]]
    <3>1. s[j] \in Nodes \ {n} /\ s[j] \in ToSet(s)
      BY <1>7, <1>10, <2>1
    <3> QED
      BY <1>9, <1>12, <3>1
  <2>2. child'[above] = IF child[above] = s[i] THEN sibling[s[i]] ELSE child[above]
    BY <1>9, <1>13
  <2>3. NULL \notin Nodes /\ IsList(sibling, child[above], s) /\ IsWithout(r, s, i)
    BY <1>1, <1>7, <1>11
  <2>4. PICK other, first : other = sibling' /\ first = child'[above]
    OBVIOUS
  <2>5. IsList(other, first, r)
    BY <2>1, <2>2, <2>3, <2>4, ListWithout
  <2> QED
    BY <2>4, <2>5
<1>17. ASSUME NEW k \in Nodes
       PROVE  /\ IsList(sibling', child'[k], children'[k])
              /\ \A m \in ToSet(children'[k]) : parent'[m] = k
  <2>1. CASE k = above
    <3>1. \A m \in ToSet(r) : m \in Nodes \ {n} /\ parent[m] = above
      BY <1>1, <1>6, <1>11
    <3> QED
      BY <1>14, <1>15, <1>16, <2>1, <3>1
  <2>2. CASE k # above
    <3>1. PICK t \in Seq(Nodes) : t = children[k]
      BY <1>1
    <3>2. /\ IsList(sibling, child[k], t) /\ ToSet(t) = {t[j] : j \in 1 .. Len(t)}
          /\ \A j \in 1 .. Len(t) : t[j] \in Nodes
      <4>1. IsList(sibling, child[k], t)
        BY <1>1, <3>1
      <4>2. ToSet(t) = {t[j] : j \in 1 .. Len(t)} /\ \A j \in 1 .. Len(t) : t[j] \in Nodes
        BY HasNodes, NodesOf
      <4> QED
        BY <4>1, <4>2
    <3>3. \A m \in ToSet(t) : m \in Nodes /\ parent[m] = k /\ m \notin ToSet(s) /\ m # n
      BY <1>1, <1>4, <1>6, <2>2, <3>1
    <3>4. \A j \in 1 .. Len(t) : sibling'[t[j]] = sibling[t[j]]
      BY <1>12, <3>2, <3>3
    <3>5. IsList(sibling', child[k], t)
      BY <3>2, <3>4, ListSame
    <3> QED
      BY <1>13, <1>14, <1>15, <2>2, <3>1, <3>3, <3>5
  <2> QED
    BY <2>1, <2>2
<1>18. \A q \in Nodes : Top(q)' <=> Top(q) \/ q = n
  <2>1. \A k \in Nodes : ToSet(children'[k]) = ToSet(children[k]) \ {n}
    BY <1>1, <1>4, <1>6, <1>11, <1>15
  <2> QED
    BY <2>1 DEF Top
<1>19. TopsAreAlone'
  <2>1. ASSUME NEW q \in Nodes, Top(q)'
        PROVE  sibling'[q] = NULL /\ (parent'[q] = NULL \/ q \in cleared')
    <3>1. CASE q = n
      BY <1>12, <1>14, <3>1
    <3>2. CASE q # n
      <4>1. Top(q)
        BY <1>18, <2>1, <3>2
      <4>2. q \notin ToSet(s)
        BY <1>6, <4>1 DEF Top
      <4> QED
        BY <1>2, <1>5, <1>12, <1>14, <3>2, <4>1, <4>2 DEF TopsAreAlone
    <3> QED
      BY <3>1, <3>2
  <2> QED
    BY <2>1 DEF TopsAreAlone
<1>20. ChildrenAreListed'
  BY <1>17 DEF ChildrenAreListed
<1>21. TreeTypes'
  <2>1. children' \in [Nodes -> Seq(Nodes)]
    BY <1>1, <1>5, <1>15
  <2> QED
    BY <1>2, <1>5, <1>12, <1>13, <1>14, <2>1 DEF TreeTypes
<1>22. root' # NULL => Top(root)'
  <2>1. ASSUME root # NULL PROVE \A m \in Nodes : root \notin ToSet(children'[m])
    <3>1. root \in Nodes /\ Top(root)
      BY <1>2, <2>1
    <3>2. Top(root) => \A m \in Nodes : root \notin ToSet(children[m])
      BY DEF Top
    <3> QED
      BY <1>6, <1>11, <1>15, <3>1, <3>2
  <2> QED
    BY <1>5, <2>1 DEF Top
<1> QED
  BY <1>5, <1>19, <1>20, <1>21, <1>22 DEF TreeInv

(* A cleared tree: all its nodes, and no other, are without children.      *)
LEMMA ClearOfTree ==
  ASSUME TreeInv, NEW top \in Nodes, TreeClear(top)
  PROVE  TreeInv'
<1>1. /\ NULL \notin Nodes
      /\ Pointers(parent, Nodes) /\ Pointers(child, Nodes) /\ Pointers(sibling, Nodes)
      /\ \A q \in Nodes : /\ children[q] \in Seq(Nodes) /\ ToSet(children[q]) \subseteq Nodes
                          /\ IsList(sibling, child[q], children[q])
      /\ \A q, k \in Nodes : q \in ToSet(children[k]) => parent[q] = k
      /\ \A q \in Nodes : ~Top(q) => parent[q] \in Nodes /\ q \in ToSet(children[parent[q]])
  BY TreeFacts
<1>2. TreeTypes /\ TopsAreAlone /\ (root # NULL => Top(root)) /\ root \in Nodes \cup {NULL}
  BY DEF TreeInv, TreeTypes
<1>3. PICK A : A = Visited(top)
  OBVIOUS
<1>4. /\ Top(top) /\ broke = NULL /\ broke' = NULL /\ parent' = parent
      /\ child' = [n \in Nodes |-> IF n \in A THEN NULL ELSE child[n]]
      /\ sibling' = [n \in Nodes |-> IF n \in A THEN NULL ELSE sibling[n]]
      /\ children' = [n \in Nodes |-> IF n \in A THEN << >> ELSE children[n]]
      /\ cleared' = cleared \cup (A \ {top})
      /\ root' = IF root = top THEN NULL ELSE root
  BY <1>3 DEF TreeClear
<1>5. /\ A \subseteq Nodes /\ top \in A
      /\ \A k \in A : ToSet(children[k]) \subseteq A
      /\ \A k \in Nodes : \A m \in ToSet(children[k]) : m \in A => k \in A
  BY <1>3, <1>4, VisitedIsTree
<1>6. Pointers(child', Nodes) /\ Pointers(sibling', Nodes)
  BY <1>1, <1>4 DEF Pointers
<1>7. << >> \in Seq(Nodes) /\ ToSet(<< >>) = {}
  BY DEF ToSet
<1>8. children' \in [Nodes -> Seq(Nodes)]
  BY <1>1, <1>4, <1>7
<1>9. ASSUME NEW k \in Nodes
      PROVE  /\ IsList(sibling', child'[k], children'[k])
             /\ \A m \in ToSet(children'[k]) : parent'[m] = k
  <2>1. CASE k \in A
    <3>1. child'[k] = NULL /\ children'[k] = << >>
      BY <1>4, <2>1
    <3> QED
      BY <1>7, <3>1 DEF IsList
  <2>2. CASE k \notin A
    <3>1. PICK t \in Seq(Nodes) : t = children[k]
      BY <1>1
    <3>2. child'[k] = child[k] /\ children'[k] = t
      BY <1>4, <2>2, <3>1
    <3>3. IsList(sibling, child[k], t)
      BY <1>1, <3>1
    <3>4. ToSet(t) = {t[j] : j \in 1 .. Len(t)} /\ ToSet(t) \subseteq Nodes
      BY HasNodes
    <3>5. \A m \in ToSet(t) : m \notin A /\ parent[m] = k
      BY <1>1, <1>5, <2>2, <3>1, <3>4
    <3>6. \A j \in 1 .. Len(t) : sibling'[t[j]] = sibling[t[j]]
      <4>1. \A m \in ToSet(t) : sibling'[m] = sibling[m]
        BY <1>4, <3>4, <3>5
      <4> QED
        BY <3>4, <4>1
    <3>7. IsList(sibling', child[k], t)
      BY <3>3, <3>6, ListSame
    <3> QED
      BY <1>4, <3>2, <3>5, <3>7
  <2> QED
    BY <2>1, <2>2
<1>10. TopsAreAlone'
  <2>1. ASSUME NEW q \in Nodes, Top(q)'
        PROVE  sibling'[q] = NULL /\ (parent'[q] = NULL \/ q \in cleared')
    <3>1. CASE Top(q)
      BY <1>2, <1>4, <3>1 DEF TopsAreAlone
    <3>2. CASE ~Top(q)
      <4>1. parent[q] \in Nodes /\ q \in ToSet(children[parent[q]])
        BY <1>1, <3>2
      <4>2. q \notin ToSet(children'[parent[q]])
        BY <2>1, <4>1 DEF Top
      <4>3. parent[q] \in A
        BY <1>4, <4>1, <4>2
      <4>4. q \in A /\ q # top
        BY <1>4, <1>5, <3>2, <4>1, <4>3
      <4> QED
        BY <1>4, <4>4
    <3> QED
      BY <3>1, <3>2
  <2> QED
    BY <2>1 DEF TopsAreAlone
<1>11. ChildrenAreListed'
  BY <1>9 DEF ChildrenAreListed
<1>12. TreeTypes'
  BY <1>2, <1>4, <1>6, <1>8 DEF TreeTypes
<1>13. root' # NULL => Top(root)'
  <2>1. ASSUME root' # NULL PROVE \A m \in Nodes : root' \notin ToSet(children'[m])
    <3>1. root' = root /\ root \in Nodes
      BY <1>2, <1>4, <2>1
    <3>2. \A m \in Nodes : root \notin ToSet(children[m])
      BY <1>2, <2>1, <3>1 DEF Top
    <3> QED
      BY <1>4, <1>7, <3>1, <3>2
  <2> QED
    BY <2>1 DEF Top
<1> QED
  BY <1>4, <1>10, <1>11, <1>12, <1>13 DEF TreeInv

LEMMA TreeInvariant == TreeSpec => []TreeInv
<1>1. TreeInit => TreeInv
  <2> SUFFICES ASSUME TreeInit PROVE TreeInv
    OBVIOUS
  <2>1. /\ root = NULL /\ broke = NULL
        /\ parent = [n \in Nodes |-> NULL] /\ child = [n \in Nodes |-> NULL]
        /\ sibling = [n \in Nodes |-> NULL] /\ children = [n \in Nodes |-> << >>]
    BY DEF TreeInit
  <2>2. Pointers(parent, Nodes) /\ Pointers(child, Nodes) /\ Pointers(sibling, Nodes)
    BY <2>1, NodesAssumption DEF Pointers
  <2>3. TreeTypes
    BY <2>1, <2>2 DEF TreeTypes
  <2>4. ChildrenAreListed
    BY <2>1 DEF ChildrenAreListed, IsList, ToSet
  <2>5. TopsAreAlone
    BY <2>1 DEF TopsAreAlone
  <2> QED
    BY <2>1, <2>3, <2>4, <2>5 DEF TreeInv
<1>2. ASSUME TreeInv, [TreeNext]_treeVars PROVE TreeInv'
  <2>1. CASE UNCHANGED treeVars
    BY <1>2, <2>1 DEF treeVars, TreeInv, TreeTypes, ChildrenAreListed, TopsAreAlone, Top
  <2>2. ASSUME NEW above \in Nodes \cup {NULL}, NEW n \in Nodes, TreeLink(above, n)
        PROVE  TreeInv'
    BY <1>2, <2>2, LinkOfTree
  <2>3. ASSUME NEW from \in Nodes \cup {NULL}, NEW n \in Nodes, TreeUnlink(from, n)
        PROVE  TreeInv'
    BY <1>2, <2>3, UnlinkOfTop, UnlinkOfChild
  <2>4. ASSUME NEW top \in Nodes, TreeClear(top) PROVE TreeInv'
    BY <1>2, <2>4, ClearOfTree
  <2> QED
    BY <1>2, <2>1, <2>2, <2>3, <2>4 DEF TreeNext
<1> QED
  BY <1>1, <1>2, PTL DEF TreeSpec

(* However trees are linked, taken apart and put together again, the       *)
(* children of each node are those linked below it and not unlinked since, *)
(* in order.                                                               *)
THEOREM TreeStaysSound == TreeSpec => []TreeIsSound
BY TreeInvariant, PTL DEF TreeInv, ChildrenAreListed, TopsAreAlone, TreeIsSound
=============================================================================
