----------------------------- MODULE MemoryProofs -----------------------------
(***************************************************************************)
(* What holds of the test heap of src/Heap.c and of the counted blocks of  *)
(* src/Sp.c, for any number of threads and blocks.                         *)
(***************************************************************************)
EXTENDS Heap, SmartPointer, LinkProofs, FiniteSetTheorems

(* A thread that is inside libwq_malloc or libwq_free with a page, before  *)
(* the page is in the list, and after it was taken out.                    *)
Outside == {"link", "append", "check"}
Busy == Outside \cup {"protect", "unlink"}
Unlinked == {page[u] : u \in {v \in Users : where[v] \in Outside}}

HeapTypes ==
  /\ _head \in Pages \cup {NULL} /\ Pointers(next_page, Pages)
  /\ mode \in [Pages -> {"rw", "ro"}] /\ whole \in [Pages -> BOOLEAN]
  /\ given \subseteq Pages /\ mutex \subseteq Users
  /\ where \in [Users -> Busy \cup {"user"}] /\ page \in [Users -> Pages \cup {NULL}]
  /\ outcome \in {"runs", "exit", "fault"}
  /\ ended \in [misuse : BOOLEAN, relocked : SUBSET Users]

(* Each page is in the hands of one thread, or of the user. *)
PagesOwned ==
  /\ \A u \in Users : where[u] \in Busy => page[u] \in given /\ page[u] \notin mine
  /\ \A u, v \in Users : where[u] \in Busy /\ where[v] \in Busy /\ page[u] = page[v] => u = v

(* The list holds what is given but not outside, and ends. *)
ListHolds ==
  /\ Straight(next_page, _head) /\ Listed = given \ Unlinked /\ mine \subseteq Listed
  /\ \A u \in Users : where[u] \in {"link", "append"} => next_page[page[u]] = NULL

(* One thread at a time writes a link, and nobody changes the list then.   *)
OneWrites ==
  /\ \A u \in Users : where[u] \in {"append", "unlink"} <=> u \in mutex
  /\ \A u, v \in mutex : u = v
  /\ \A u \in Users : where[u] = "append" => _head # NULL
  /\ \A u \in Users : where[u] = "unlink" => page[u] # _head

(* The page it writes to is protected only by a late mprotect. *)
Relocked ==
  \A u \in Users, q \in Listed :
    /\ where[u] = "append" /\ next_page[q] = NULL /\ mode[q] = "ro" => u \in ended.relocked
    /\ where[u] = "unlink" /\ next_page[q] = page[u] /\ mode[q] = "ro" => u \in ended.relocked

HeapInv == HeapTypes /\ PagesOwned /\ ListHolds /\ OneWrites /\ Relocked /\ EndsForAReason

-----------------------------------------------------------------------------
USE HeapAssumption DEF NULL

LEMMA ListFacts ==
  ASSUME HeapTypes
  PROVE  /\ Listed \subseteq Pages /\ (_head # NULL => _head \in Listed)
         /\ (_head = NULL => Listed = {})
         /\ \A q \in Listed : next_page[q] # NULL => next_page[q] \in Listed
BY ReachCloses DEF HeapTypes, Listed

LEMMA InitHeapInv == HeapInit => HeapInv
<1> SUFFICES ASSUME HeapInit PROVE HeapInv
  OBVIOUS
<1>1. HeapTypes
  BY DEF HeapInit, HeapTypes, Pointers
<1>2. Listed = {} /\ Straight(next_page, _head)
  BY ReachNone DEF HeapInit, Listed
<1>3. PagesOwned /\ OneWrites /\ Relocked /\ EndsForAReason
  BY <1>2 DEF HeapInit, PagesOwned, OneWrites, Relocked, EndsForAReason, Busy, Outside
<1>4. ListHolds
  BY <1>2 DEF HeapInit, ListHolds, Unlinked, Outside
<1> QED
  BY <1>1, <1>3, <1>4 DEF HeapInv

(* What is outside, before and after a step of the thread u. *)
Others(u) == {page[v] : v \in {w \in Users \ {u} : where[w] \in Outside}}

LEMMA IsIn ==
  ASSUME NEW u \in Users, where[u] \in Outside PROVE Unlinked = Others(u) \cup {page[u]}
BY DEF Unlinked, Others

LEMMA IsOut ==
  ASSUME NEW u \in Users, where[u] \notin Outside PROVE Unlinked = Others(u)
BY DEF Unlinked, Others

LEMMA OthersAreOther ==
  ASSUME PagesOwned, NEW u \in Users, where[u] \in Busy PROVE page[u] \notin Others(u)
BY DEF Others, PagesOwned, Busy

LEMMA GoesIn ==
  ASSUME HeapTypes, NEW u \in Users, NEW l \in Outside,
         where' = [where EXCEPT ![u] = l],
         \A v \in Users : v # u => page'[v] = page[v]
  PROVE  Unlinked' = Others(u) \cup {page'[u]}
<1>1. \A v \in Users : where'[v] = IF v = u THEN l ELSE where[v]
  BY DEF HeapTypes
<1>2. Unlinked' = {page'[v] : v \in {w \in Users : where'[w] \in Outside}}
  BY DEF Unlinked
<1> QED
  BY <1>1, <1>2 DEF Others

LEMMA GoesOut ==
  ASSUME HeapTypes, NEW u \in Users, NEW l, l \notin Outside,
         where' = [where EXCEPT ![u] = l],
         \A v \in Users : v # u => page'[v] = page[v]
  PROVE  Unlinked' = Others(u)
<1>1. \A v \in Users : where'[v] = IF v = u THEN l ELSE where[v]
  BY DEF HeapTypes
<1>2. Unlinked' = {page'[v] : v \in {w \in Users : where'[w] \in Outside}}
  BY DEF Unlinked
<1> QED
  BY <1>1, <1>2 DEF Others

(* A thread that goes on with its page, and leaves the page's owners. *)
LEMMA GoesOn ==
  ASSUME HeapTypes, PagesOwned, NEW u \in Users, NEW l \in Busy,
         where[u] \in Busy, where' = [where EXCEPT ![u] = l], UNCHANGED <<page, given, mine>>
  PROVE  PagesOwned'
<1>1. \A v \in Users : where'[v] = IF v = u THEN l ELSE where[v]
  BY DEF HeapTypes
<1> QED
  BY <1>1 DEF PagesOwned

(* A step that changes no link of the list, nor where it starts. *)
LEMMA ListStays ==
  ASSUME HeapTypes, HeapTypes', _head' = _head,
         \A q \in Listed : next_page'[q] = next_page[q]
  PROVE  Listed' = Listed /\ (Straight(next_page, _head) => Straight(next_page, _head)')
BY ReachSame DEF HeapTypes, Listed

LEMMA GenerateKeeps ==
  ASSUME HeapInv, NEW u \in Users, NEW p \in Pages, Generate(u, p) PROVE HeapInv'
<1>1. /\ HeapTypes /\ PagesOwned /\ ListHolds /\ OneWrites /\ Relocked /\ EndsForAReason
      /\ where[u] = "user" /\ p \notin given
  BY DEF HeapInv, Generate
<1>2. HeapTypes'
  <2>1. where' \in [Users -> Busy \cup {"user"}] /\ page' \in [Users -> Pages \cup {NULL}]
    BY <1>1 DEF Generate, HeapTypes, Busy, Outside
  <2>2. Pointers(next_page, Pages)' /\ whole' \in [Pages -> BOOLEAN] /\ given' \subseteq Pages
    BY <1>1 DEF Generate, HeapTypes, Pointers
  <2> QED
    BY <1>1, <2>1, <2>2 DEF Generate, HeapTypes
<1>3. /\ \A v \in Users : where'[v] = IF v = u THEN "link" ELSE where[v]
      /\ \A v \in Users : page'[v] = IF v = u THEN p ELSE page[v]
      /\ \A q \in Pages : next_page'[q] = IF q = p THEN NULL ELSE next_page[q]
      /\ given' = given \cup {p}
  BY <1>1 DEF Generate, HeapTypes, Pointers
<1>4. Listed' = Listed /\ Straight(next_page, _head)' /\ p \notin Listed
  <2>1. p \notin Listed /\ Listed \subseteq Pages
    BY <1>1, ListFacts DEF ListHolds
  <2>2. \A q \in Listed : next_page'[q] = next_page[q]
    BY <1>3, <2>1
  <2> QED
    BY <1>1, <1>2, <2>1, <2>2, ListStays DEF Generate, ListHolds
<1>5. PagesOwned'
  <2>1. mine' = mine /\ p \notin mine
    BY <1>1, <1>4 DEF Generate, ListHolds
  <2>2. \A v \in Users \ {u} : where[v] \in Busy => page[v] # p
    BY <1>1 DEF PagesOwned
  <2> QED
    BY <1>1, <1>3, <2>1, <2>2 DEF PagesOwned
<1>6. ListHolds'
  <2>1. Unlinked = Others(u) /\ Unlinked' = Others(u) \cup {p}
    <3>1. where[u] \notin Outside
      BY <1>1 DEF Outside
    <3>2. "link" \in Outside
      BY DEF Outside
    <3>3. where' = [where EXCEPT ![u] = "link"] /\ \A v \in Users : v # u => page'[v] = page[v]
      BY <1>3 DEF Generate
    <3>4. page'[u] = p
      BY <1>3
    <3>5. Unlinked = Others(u)
      BY <1>1, <3>1, IsOut
    <3>6. Unlinked' = Others(u) \cup {page'[u]}
      BY <1>1, <3>2, <3>3, GoesIn
    <3> QED
      BY <3>2, <3>4, <3>5, <3>6
  <2>2. Listed' = given' \ Unlinked'
    BY <1>1, <1>3, <1>4, <2>1 DEF ListHolds
  <2>3. mine' \subseteq Listed'
    BY <1>1, <1>4 DEF Generate, ListHolds
  <2>4. \A v \in Users : where'[v] \in {"link", "append"} => next_page'[page'[v]] = NULL
    <3>1. \A v \in Users \ {u} : where[v] \in {"link", "append"} => page[v] \in Pages
      BY <1>1 DEF PagesOwned, HeapTypes, Busy, Outside
    <3> QED
      BY <1>1, <1>3, <3>1 DEF ListHolds
  <2> QED
    BY <1>4, <2>2, <2>3, <2>4 DEF ListHolds
<1>7. OneWrites'
  BY <1>1, <1>3 DEF Generate, OneWrites
<1>8. Relocked'
  <2>1. \A q \in Listed : next_page'[q] = next_page[q]
    BY <1>1, <1>3, <1>4, ListFacts
  <2> QED
    BY <1>1, <1>3, <1>4, <2>1 DEF Generate, Relocked
<1>9. EndsForAReason'
  BY <1>1 DEF Generate, EndsForAReason
<1> QED
  BY <1>2, <1>5, <1>6, <1>7, <1>8, <1>9 DEF HeapInv

LEMMA LinkPageKeeps ==
  ASSUME HeapInv, NEW u \in Users, LinkPage(u) PROVE HeapInv'
<1>1. /\ HeapTypes /\ PagesOwned /\ ListHolds /\ OneWrites /\ Relocked /\ EndsForAReason
      /\ where[u] = "link" /\ mutex = {} /\ outcome = "runs"
      /\ UNCHANGED <<next_page, whole, given, page, outcome, mine, ended>>
  BY DEF HeapInv, LinkPage
<1>2. /\ page[u] \in Pages /\ page[u] \in given /\ page[u] # NULL /\ next_page[page[u]] = NULL
      /\ page[u] \notin Listed
  <2>1. page[u] \in given /\ next_page[page[u]] = NULL /\ page[u] \in Unlinked
    BY <1>1 DEF PagesOwned, ListHolds, Unlinked, Busy, Outside
  <2> QED
    BY <1>1, <2>1 DEF HeapTypes, ListHolds
<1>3. CASE _head = NULL
  <2>1. /\ _head' = page[u] /\ where' = [where EXCEPT ![u] = "protect"]
        /\ UNCHANGED <<mode, mutex>>
    BY <1>3 DEF LinkPage
  <2>2. \A v \in Users : where'[v] = IF v = u THEN "protect" ELSE where[v]
    BY <1>1, <2>1 DEF HeapTypes
  <2>3. HeapTypes'
    BY <1>1, <1>2, <2>1 DEF HeapTypes, Busy, Outside
  <2>4. Listed = {} /\ Listed' = {page[u]} /\ Straight(next_page, _head)'
    BY <1>1, <1>2, <1>3, <2>1, ListFacts, ReachOne DEF HeapTypes, Listed
  <2>5. PagesOwned'
    BY <1>1, <2>1, GoesOn DEF Busy, Outside
  <2>6. ListHolds'
    <3>1. Unlinked = Others(u) \cup {page[u]} /\ page[u] \notin Others(u)
      BY <1>1, IsIn, OthersAreOther DEF Busy, Outside
    <3>2. Unlinked' = Others(u)
      <4>1. "protect" \notin Outside /\ \A v \in Users : v # u => page'[v] = page[v]
        BY <1>1 DEF Outside
      <4> QED
        BY <1>1, <2>1, <4>1, GoesOut
    <3>3. Listed' = given' \ Unlinked'
      BY <1>1, <1>2, <2>4, <3>1, <3>2 DEF ListHolds
    <3> QED
      BY <1>1, <2>2, <2>4, <3>3 DEF ListHolds
  <2>7. OneWrites'
    BY <1>1, <1>3, <2>1, <2>2 DEF OneWrites
  <2>8. Relocked'
    BY <1>1, <2>1, <2>2 DEF Relocked, OneWrites
  <2>9. EndsForAReason'
    BY <1>1 DEF EndsForAReason
  <2> QED
    BY <2>3, <2>5, <2>6, <2>7, <2>8, <2>9 DEF HeapInv
<1>4. CASE _head # NULL
  <2>1. /\ mode' = Lift(EndPage) /\ where' = [where EXCEPT ![u] = "append"]
        /\ mutex' = {u} /\ UNCHANGED _head
    BY <1>4 DEF LinkPage
  <2>2. \A v \in Users : where'[v] = IF v = u THEN "append" ELSE where[v]
    BY <1>1, <2>1 DEF HeapTypes
  <2>3. HeapTypes'
    BY <1>1, <2>1 DEF HeapTypes, Busy, Outside, Lift
  <2>4. Listed' = Listed /\ Straight(next_page, _head)'
    BY <1>1, <2>1 DEF Listed, ListHolds
  <2>5. PagesOwned'
    BY <1>1, <2>1, GoesOn DEF Busy, Outside
  <2>6. ListHolds'
    <3>1. Unlinked = Others(u) \cup {page[u]}
      BY <1>1, IsIn DEF Outside
    <3>2. Unlinked' = Others(u) \cup {page[u]}
      <4>1. "append" \in Outside /\ page' = page
        BY <1>1 DEF Outside
      <4> QED
        BY <1>1, <2>1, <4>1, GoesIn
    <3>3. Listed' = given' \ Unlinked'
      BY <1>1, <2>4, <3>1, <3>2 DEF ListHolds
    <3> QED
      BY <1>1, <2>2, <2>4, <3>3 DEF ListHolds
  <2>7. OneWrites'
    BY <1>1, <1>4, <2>1, <2>2 DEF OneWrites
  <2>8. Relocked'
    <3>1. \A q \in Listed : next_page[q] = NULL => q = EndPage
      BY <1>1, <1>4, OneEnd DEF ListHolds, Listed, EndPage
    <3>2. \A q \in Listed : next_page[q] = NULL => mode'[q] = "rw"
      BY <1>1, <2>1, <3>1, ListFacts DEF Lift, HeapTypes
    <3>3. \A v \in Users : v # u => where'[v] \notin {"append", "unlink"}
      BY <1>1, <2>2 DEF OneWrites
    <3> QED
      BY <1>1, <2>2, <2>4, <3>2, <3>3 DEF Relocked
  <2>9. EndsForAReason'
    BY <1>1 DEF EndsForAReason
  <2> QED
    BY <2>3, <2>5, <2>6, <2>7, <2>8, <2>9 DEF HeapInv
<1> QED
  BY <1>3, <1>4

LEMMA AppendPageKeeps ==
  ASSUME HeapInv, NEW u \in Users, AppendPage(u) PROVE HeapInv'
<1>1. /\ HeapTypes /\ PagesOwned /\ ListHolds /\ OneWrites /\ Relocked /\ EndsForAReason
      /\ where[u] = "append" /\ outcome = "runs"
      /\ UNCHANGED <<_head, whole, given, page, mine, ended>>
  BY DEF HeapInv, AppendPage
<1>2. /\ page[u] \in Pages /\ page[u] \in given /\ page[u] # NULL /\ next_page[page[u]] = NULL
      /\ page[u] \notin Listed
  <2>1. page[u] \in given /\ next_page[page[u]] = NULL /\ page[u] \in Unlinked
    BY <1>1 DEF PagesOwned, ListHolds, Unlinked, Busy, Outside
  <2> QED
    BY <1>1, <2>1 DEF HeapTypes, ListHolds
<1>3. /\ _head # NULL /\ EndPage \in Listed /\ next_page[EndPage] = NULL
      /\ \A q \in Listed : next_page[q] = NULL => q = EndPage
  <2>1. _head # NULL
    BY <1>1 DEF OneWrites
  <2> QED
    BY <1>1, <2>1, OneEnd DEF ListHolds, Listed, EndPage
<1>4. CASE Writable(EndPage)
  <2>1. /\ next_page' = [next_page EXCEPT ![EndPage] = page[u]] /\ mode' = Restore(EndPage)
        /\ mutex' = {} /\ where' = [where EXCEPT ![u] = "protect"] /\ outcome' = outcome
    BY <1>4 DEF AppendPage, WriteLink
  <2>2. /\ \A v \in Users : where'[v] = IF v = u THEN "protect" ELSE where[v]
        /\ \A q \in Pages : next_page'[q] = IF q = EndPage THEN page[u] ELSE next_page[q]
    BY <1>1, <2>1 DEF HeapTypes, Pointers
  <2>3. HeapTypes'
    <3>1. Pointers(next_page, Pages)'
      BY <1>1, <1>2, <2>1 DEF HeapTypes, Pointers
    <3> QED
      BY <1>1, <2>1, <3>1 DEF HeapTypes, Busy, Outside, Restore
  <2>4. Listed' = Listed \cup {page[u]} /\ Straight(next_page, _head)'
    <3>1. Listed \subseteq Pages
      BY <1>1, ListFacts
    <3>2. \A q \in Listed : next_page'[q] = IF q = EndPage THEN page[u] ELSE next_page[q]
      BY <2>2, <3>1
    <3>3. next_page'[page[u]] = NULL
      BY <1>2, <1>3, <2>2
    <3> QED
      BY <1>1, <1>2, <1>3, <2>3, <3>2, <3>3, Appended DEF HeapTypes, Listed, EndPage, ListHolds
  <2>5. PagesOwned'
    BY <1>1, <2>1, GoesOn DEF Busy, Outside
  <2>6. ListHolds'
    <3>1. Unlinked = Others(u) \cup {page[u]} /\ page[u] \notin Others(u)
      BY <1>1, IsIn, OthersAreOther DEF Busy, Outside
    <3>2. Unlinked' = Others(u)
      <4>1. "protect" \notin Outside /\ \A v \in Users : v # u => page'[v] = page[v]
        BY <1>1 DEF Outside
      <4> QED
        BY <1>1, <2>1, <4>1, GoesOut
    <3>3. Listed' = given' \ Unlinked'
      BY <1>1, <1>2, <2>4, <3>1, <3>2 DEF ListHolds
    <3>4. \A v \in Users : where'[v] \in {"link", "append"} => next_page'[page'[v]] = NULL
      <4>1. \A v \in Users : where'[v] \in {"link", "append"} =>
              page[v] \in Unlinked /\ page[v] \in Pages /\ next_page[page[v]] = NULL
        BY <1>1, <2>2 DEF Unlinked, Outside, Busy, ListHolds, PagesOwned, HeapTypes
      <4>2. EndPage \notin Unlinked
        BY <1>1, <1>3 DEF ListHolds
      <4> QED
        BY <1>1, <2>2, <4>1, <4>2
    <3> QED
      BY <1>1, <2>4, <3>3, <3>4 DEF ListHolds
  <2>7. OneWrites'
    BY <1>1, <1>3, <2>1, <2>2 DEF OneWrites
  <2>8. Relocked'
    BY <1>1, <2>1, <2>2 DEF Relocked, OneWrites
  <2>9. EndsForAReason'
    BY <1>1, <2>1 DEF EndsForAReason
  <2> QED
    BY <2>3, <2>5, <2>6, <2>7, <2>8, <2>9 DEF HeapInv
<1>5. CASE ~Writable(EndPage)
  <2>1. outcome' = "fault" /\ UNCHANGED <<next_page, mode, mutex, where>>
    BY <1>5 DEF AppendPage
  <2>2. mode[EndPage] = "ro"
    BY <1>1, <1>3, <1>5, ListFacts DEF Writable, HeapTypes
  <2>3. u \in ended.relocked
    BY <1>1, <1>3, <2>2 DEF Relocked
  <2>4. EndsForAReason'
    BY <1>1, <2>1, <2>3 DEF EndsForAReason
  <2>5. HeapTypes' /\ PagesOwned' /\ OneWrites'
    BY <1>1, <2>1 DEF HeapTypes, PagesOwned, OneWrites, Busy
  <2>6. Listed' = Listed /\ Unlinked' = Unlinked
    BY <1>1, <2>1 DEF Listed, Unlinked
  <2>7. ListHolds' /\ Relocked'
    BY <1>1, <2>1, <2>6 DEF ListHolds, Relocked
  <2> QED
    BY <2>4, <2>5, <2>7 DEF HeapInv
<1> QED
  BY <1>4, <1>5

LEMMA ProtectKeeps ==
  ASSUME HeapInv, NEW u \in Users, Protect(u) PROVE HeapInv'
<1>1. /\ HeapTypes /\ PagesOwned /\ ListHolds /\ OneWrites /\ Relocked /\ EndsForAReason
      /\ where[u] = "protect" /\ outcome = "runs"
      /\ mode' = Restore(page[u]) /\ where' = [where EXCEPT ![u] = "user"]
      /\ mine' = mine \cup {page[u]}
      /\ UNCHANGED <<_head, next_page, whole, given, mutex, page, outcome>>
  BY DEF HeapInv, Protect
<1> DEFINE late == {v \in mutex : where[v] \in {"append", "unlink"} /\ mode[page[u]] = "rw"}
<1>2. ended.relocked \subseteq Users /\ late \subseteq Users
  BY <1>1 DEF HeapTypes
<1>3. /\ ended'.relocked = ended.relocked \cup late /\ ended'.misuse = ended.misuse
      /\ ended' \in [misuse : BOOLEAN, relocked : SUBSET Users]
  BY <1>1, <1>2 DEF Protect, HeapTypes
<1>4. \A v \in Users : where'[v] = IF v = u THEN "user" ELSE where[v]
  BY <1>1 DEF HeapTypes
<1>5. page[u] \in given /\ page[u] \in Pages /\ page[u] \notin mine
  BY <1>1 DEF PagesOwned, HeapTypes, Busy
<1>6. HeapTypes'
  BY <1>1, <1>3 DEF HeapTypes, Restore
<1>7. Listed' = Listed /\ Straight(next_page, _head)'
  BY <1>1 DEF Listed, ListHolds
<1>8. Unlinked = Others(u) /\ Unlinked' = Others(u)
  <2>1. where[u] \notin Outside /\ "user" \notin Outside /\ page' = page
    BY <1>1 DEF Outside
  <2>2. Unlinked = Others(u)
    BY <1>1, <2>1, IsOut
  <2> QED
    BY <1>1, <2>1, <2>2, GoesOut
<1>9. page[u] \in Listed
  <2>1. page[u] \notin Others(u)
    BY <1>1, OthersAreOther DEF Busy
  <2> QED
    BY <1>1, <1>5, <1>8, <2>1 DEF ListHolds
<1>10. PagesOwned'
  BY <1>1, <1>4 DEF PagesOwned, Busy, Outside
<1>11. ListHolds'
  BY <1>1, <1>4, <1>7, <1>8, <1>9 DEF ListHolds
<1>12. OneWrites'
  BY <1>1, <1>4 DEF OneWrites
<1>13. Relocked'
  <2>1. ASSUME NEW v \in Users, where'[v] \in {"append", "unlink"}, NEW q \in Listed, mode'[q] = "ro"
        PROVE  mode[q] = "ro" \/ v \in ended'.relocked
    <3>1. v \in mutex /\ where[v] = where'[v]
      BY <1>1, <1>4, <2>1 DEF OneWrites
    <3>2. CASE q # page[u]
      BY <1>1, <2>1, <3>2 DEF Restore, HeapTypes
    <3>3. CASE q = page[u] /\ mode[q] = "rw"
      BY <1>3, <2>1, <3>1, <3>3
    <3> QED
      BY <1>1, <1>5, <3>2, <3>3 DEF HeapTypes
  <2>2. \A v \in Users : where'[v] \in {"append", "unlink"} => where[v] = where'[v]
    BY <1>4
  <2> HIDE DEF late
  <2>3. \A v \in Users, q \in Listed :
          (where'[v] = "append" /\ next_page[q] = NULL /\ mode'[q] = "ro" => v \in ended'.relocked)
    BY <1>1, <1>3, <2>1, <2>2 DEF Relocked
  <2>4. \A v \in Users, q \in Listed :
          (where'[v] = "unlink" /\ next_page[q] = page[v] /\ mode'[q] = "ro" => v \in ended'.relocked)
    BY <1>1, <1>3, <2>1, <2>2 DEF Relocked
  <2> QED
    BY <1>1, <1>7, <2>3, <2>4 DEF Relocked
<1>14. EndsForAReason'
  BY <1>1 DEF EndsForAReason
<1> QED
  BY <1>6, <1>10, <1>11, <1>12, <1>13, <1>14 DEF HeapInv

LEMMA DamageKeeps ==
  ASSUME HeapInv, NEW p \in Pages, Damage(p) PROVE HeapInv'
<1>1. /\ HeapTypes /\ PagesOwned /\ ListHolds /\ OneWrites /\ Relocked
      /\ outcome = "runs" /\ whole' \in [Pages -> BOOLEAN]
      /\ UNCHANGED <<_head, next_page, mode, given, mutex, where, page, outcome, mine, ended>>
  BY DEF HeapInv, HeapTypes, Damage, places
<1>2. HeapTypes' /\ PagesOwned' /\ OneWrites'
  BY <1>1 DEF HeapTypes, PagesOwned, OneWrites, Busy
<1>3. Listed' = Listed /\ Unlinked' = Unlinked
  BY <1>1 DEF Listed, Unlinked
<1>4. ListHolds' /\ Relocked'
  BY <1>1, <1>3 DEF ListHolds, Relocked
<1>5. EndsForAReason'
  BY <1>1 DEF EndsForAReason
<1> QED
  BY <1>2, <1>4, <1>5 DEF HeapInv

(* Printing ends the process, or changes nothing. *)
LEMMA PrintHeapKeeps ==
  ASSUME HeapInv, NEW u \in Users, PrintHeap(u) PROVE HeapInv'
<1>1. /\ HeapTypes /\ PagesOwned /\ ListHolds /\ OneWrites /\ Relocked
      /\ outcome' = "exit" /\ \E p \in Listed : ~whole[p]
      /\ UNCHANGED <<_head, next_page, mode, whole, given, mutex, where, page, mine, ended>>
  BY DEF HeapInv, PrintHeap, places
<1>2. HeapTypes' /\ PagesOwned' /\ OneWrites'
  BY <1>1 DEF HeapTypes, PagesOwned, OneWrites, Busy
<1>3. Listed' = Listed /\ Unlinked' = Unlinked
  BY <1>1 DEF Listed, Unlinked
<1>4. ListHolds' /\ Relocked'
  BY <1>1, <1>3 DEF ListHolds, Relocked
<1>5. EndsForAReason'
  BY <1>1, ListFacts DEF EndsForAReason
<1> QED
  BY <1>2, <1>4, <1>5 DEF HeapInv

LEMMA CheckKeeps ==
  ASSUME HeapInv, NEW u \in Users, Check(u) PROVE HeapInv'
<1>1. /\ HeapTypes /\ PagesOwned /\ ListHolds /\ OneWrites /\ Relocked /\ EndsForAReason
      /\ where[u] = "check" /\ outcome = "runs"
      /\ UNCHANGED <<_head, next_page, whole, mutex, page, mine, ended>>
  BY DEF HeapInv, Check
<1>2. page[u] \in Pages /\ page[u] \in given
  BY <1>1 DEF PagesOwned, HeapTypes, Busy, Outside
<1>3. Listed' = Listed
  BY <1>1 DEF Listed
<1>4. CASE whole[page[u]]
  <2>1. /\ mode' = Lift(page[u]) /\ given' = given \ {page[u]}
        /\ where' = [where EXCEPT ![u] = "user"] /\ outcome' = outcome
    BY <1>4 DEF Check
  <2>2. \A v \in Users : where'[v] = IF v = u THEN "user" ELSE where[v]
    BY <1>1, <2>1 DEF HeapTypes
  <2>3. HeapTypes'
    BY <1>1, <2>1 DEF HeapTypes, Lift
  <2>4. PagesOwned'
    BY <1>1, <2>1, <2>2 DEF PagesOwned, Busy, Outside
  <2>5. ListHolds'
    <3>1. Unlinked = Others(u) \cup {page[u]}
      BY <1>1, IsIn DEF Outside
    <3>2. Unlinked' = Others(u)
      <4>1. "user" \notin Outside /\ page' = page
        BY <1>1 DEF Outside
      <4> QED
        BY <1>1, <2>1, <4>1, GoesOut
    <3>3. Listed' = given' \ Unlinked'
      BY <1>1, <1>3, <2>1, <3>1, <3>2 DEF ListHolds
    <3> QED
      BY <1>1, <1>3, <2>2, <3>3 DEF ListHolds
  <2>6. OneWrites'
    BY <1>1, <2>2 DEF OneWrites
  <2>7. Relocked'
    <3>1. \A q \in Listed : mode'[q] = "ro" => mode[q] = "ro"
      BY <1>1, <2>1, ListFacts DEF Lift, HeapTypes
    <3> QED
      BY <1>1, <1>3, <2>2, <3>1 DEF Relocked
  <2>8. EndsForAReason'
    BY <1>1, <2>1 DEF EndsForAReason
  <2> QED
    BY <2>3, <2>4, <2>5, <2>6, <2>7, <2>8 DEF HeapInv
<1>5. CASE ~whole[page[u]]
  <2>1. outcome' = "exit" /\ UNCHANGED <<mode, given, where>>
    BY <1>5 DEF Check
  <2>2. HeapTypes' /\ PagesOwned' /\ OneWrites'
    BY <1>1, <2>1 DEF HeapTypes, PagesOwned, OneWrites, Busy
  <2>3. Unlinked' = Unlinked
    BY <1>1, <2>1 DEF Unlinked
  <2>4. ListHolds' /\ Relocked'
    BY <1>1, <1>3, <2>1, <2>3 DEF ListHolds, Relocked
  <2>5. EndsForAReason'
    BY <1>1, <1>2, <1>5, <2>1 DEF EndsForAReason
  <2> QED
    BY <2>2, <2>4, <2>5 DEF HeapInv
<1> QED
  BY <1>4, <1>5

LEMMA FreeKeeps ==
  ASSUME HeapInv, NEW u \in Users, NEW p \in Pages \cup {0}, Free(u, p) PROVE HeapInv'
<1>1. /\ HeapTypes /\ PagesOwned /\ ListHolds /\ OneWrites /\ Relocked /\ EndsForAReason
      /\ where[u] = "user" /\ outcome = "runs" /\ (p = NULL \/ mutex = {})
      /\ (p \in mine \/ p \notin Listed) /\ mine' = mine \ {p}
      /\ page' = [page EXCEPT ![u] = p]
      /\ UNCHANGED <<next_page, whole, given>>
  BY DEF HeapInv, Free
<1>2. /\ ended'.relocked = ended.relocked /\ ended'.misuse = (ended.misuse \/ p \notin mine)
      /\ ended' \in [misuse : BOOLEAN, relocked : SUBSET Users]
  BY <1>1 DEF Free, HeapTypes
<1>3. \A v \in Users : page'[v] = IF v = u THEN p ELSE page[v]
  BY <1>1 DEF HeapTypes
<1>4. page' \in [Users -> Pages \cup {NULL}]
  BY <1>1 DEF HeapTypes
<1>5. p \in Listed => p \in Pages /\ p \in given /\ p \in mine /\ mutex = {} /\ p # NULL /\ _head # NULL
  BY <1>1, ListFacts DEF HeapTypes, Pointers, ListHolds
<1>6. Unlinked = Others(u)
  <2>1. where[u] \notin Outside
    BY <1>1 DEF Outside
  <2> QED
    BY <2>1, IsOut
<1>7. CASE p \notin Listed
  <2>1. outcome' = "exit" /\ UNCHANGED <<_head, mode, mutex, where>>
    BY <1>7 DEF Free
  <2>2. HeapTypes'
    BY <1>1, <1>2, <1>4, <2>1 DEF HeapTypes
  <2>3. PagesOwned'
    BY <1>1, <1>3, <2>1 DEF PagesOwned, Busy, Outside
  <2>4. Listed' = Listed
    BY <1>1, <2>1 DEF Listed
  <2>5. Unlinked' = Unlinked
    <3>1. {w \in Users : where'[w] \in Outside} = {w \in Users \ {u} : where[w] \in Outside}
      BY <1>1, <2>1 DEF Outside
    <3> QED
      BY <1>3, <1>6, <3>1 DEF Unlinked, Others
  <2>6. ListHolds'
    BY <1>1, <1>3, <2>1, <2>4, <2>5 DEF ListHolds
  <2>7. OneWrites'
    BY <1>1, <1>3, <2>1 DEF OneWrites
  <2>8. Relocked'
    BY <1>1, <1>2, <1>3, <2>1, <2>4 DEF Relocked
  <2>9. EndsForAReason'
    <3>1. p \notin mine
      BY <1>1, <1>7 DEF ListHolds
    <3> QED
      BY <1>2, <2>1, <3>1 DEF EndsForAReason
  <2> QED
    BY <2>2, <2>3, <2>6, <2>7, <2>8, <2>9 DEF HeapInv
<1>8. CASE p \in Listed /\ p = _head
  <2>1. /\ _head' = next_page[p] /\ where' = [where EXCEPT ![u] = "check"]
        /\ UNCHANGED <<mode, mutex, outcome>>
    BY <1>8 DEF Free
  <2>2. \A v \in Users : where'[v] = IF v = u THEN "check" ELSE where[v]
    BY <1>1, <2>1 DEF HeapTypes
  <2>3. /\ _head' \in Pages \cup {NULL} /\ Listed' = Listed \ {p} /\ Straight(next_page, _head)'
    BY <1>1, <1>5, <1>8, <2>1, WithoutFirst DEF HeapTypes, ListHolds, Listed
  <2>4. HeapTypes'
    BY <1>1, <1>2, <1>4, <2>1, <2>3 DEF HeapTypes, Busy, Outside
  <2>5. PagesOwned'
    BY <1>1, <1>3, <1>5, <1>8, <2>2 DEF PagesOwned
  <2>6. Unlinked' = Unlinked \cup {p}
    <3>1. "check" \in Outside /\ page'[u] = p /\ \A v \in Users : v # u => page'[v] = page[v]
      BY <1>3 DEF Outside
    <3> QED
      BY <1>1, <1>6, <2>1, <3>1, GoesIn
  <2>7. ListHolds'
    <3>1. Listed' = given' \ Unlinked'
      BY <1>1, <2>3, <2>6 DEF ListHolds
    <3> QED
      BY <1>1, <1>3, <2>2, <2>3, <3>1 DEF ListHolds
  <2>8. OneWrites'
    BY <1>1, <1>3, <1>5, <1>8, <2>1, <2>2 DEF OneWrites
  <2>9. Relocked'
    BY <1>1, <1>2, <1>3, <2>1, <2>2, <2>3 DEF Relocked
  <2>10. EndsForAReason'
    BY <1>1, <2>1 DEF EndsForAReason
  <2> QED
    BY <2>4, <2>5, <2>7, <2>8, <2>9, <2>10 DEF HeapInv
<1>9. CASE p \in Listed /\ p # _head
  <2>1. /\ mode' = Lift(Before(p)) /\ mutex' = {u}
        /\ where' = [where EXCEPT ![u] = "unlink"] /\ UNCHANGED <<_head, outcome>>
    BY <1>9 DEF Free
  <2>2. \A v \in Users : where'[v] = IF v = u THEN "unlink" ELSE where[v]
    BY <1>1, <2>1 DEF HeapTypes
  <2>3. HeapTypes'
    BY <1>1, <1>2, <1>4, <2>1 DEF HeapTypes, Busy, Lift
  <2>4. Listed' = Listed /\ Straight(next_page, _head)'
    BY <1>1, <2>1 DEF Listed, ListHolds
  <2>5. PagesOwned'
    BY <1>1, <1>3, <1>5, <1>9, <2>2 DEF PagesOwned
  <2>6. Unlinked' = Unlinked
    <3>1. "unlink" \notin Outside /\ \A v \in Users : v # u => page'[v] = page[v]
      BY <1>3 DEF Outside
    <3> QED
      BY <1>1, <1>6, <2>1, <3>1, GoesOut
  <2>7. ListHolds'
    BY <1>1, <1>3, <2>2, <2>4, <2>6 DEF ListHolds
  <2>8. OneWrites'
    BY <1>1, <1>3, <1>5, <1>9, <2>1, <2>2 DEF OneWrites
  <2>9. Relocked'
    <3>1. \E q \in Listed : next_page[q] = p
      BY <1>1, <1>9, HasBefore DEF HeapTypes, Listed
    <3>2. Before(p) \in Listed /\ next_page[Before(p)] = p
      BY <3>1 DEF Before
    <3>3. \A q \in Listed : next_page[q] = p => q = Before(p)
      BY <1>1, <1>5, <1>9, <3>2 DEF ListHolds, Straight, Listed
    <3>4. \A q \in Listed : next_page[q] = p => mode'[q] = "rw"
      BY <1>1, <2>1, <3>3, ListFacts DEF Lift, HeapTypes
    <3>5. \A v \in Users : v # u => where'[v] \notin {"append", "unlink"}
      BY <1>1, <1>5, <1>9, <2>2 DEF OneWrites
    <3> QED
      BY <1>1, <1>3, <2>2, <2>4, <3>4, <3>5 DEF Relocked
  <2>10. EndsForAReason'
    BY <1>1, <2>1 DEF EndsForAReason
  <2> QED
    BY <2>3, <2>5, <2>7, <2>8, <2>9, <2>10 DEF HeapInv
<1> QED
  BY <1>7, <1>8, <1>9

LEMMA UnlinkKeeps ==
  ASSUME HeapInv, NEW u \in Users, Unlink(u) PROVE HeapInv'
<1> DEFINE p == page[u]
           pre == Before(p)
<1>1. /\ HeapTypes /\ PagesOwned /\ ListHolds /\ OneWrites /\ Relocked /\ EndsForAReason
      /\ where[u] = "unlink" /\ outcome = "runs"
      /\ UNCHANGED <<_head, whole, given, page, mine, ended>>
  BY DEF HeapInv, Unlink
<1>2. p \in Pages /\ p \in given /\ p # NULL /\ p # _head /\ p \notin mine
  BY <1>1 DEF PagesOwned, HeapTypes, Pointers, OneWrites, Busy
<1>3. Unlinked = Others(u) /\ p \notin Unlinked
  <2>1. where[u] \notin Outside /\ where[u] \in Busy
    BY <1>1 DEF Outside, Busy
  <2> QED
    BY <1>1, <2>1, IsOut, OthersAreOther
<1>4. p \in Listed /\ _head # NULL
  BY <1>1, <1>2, <1>3, ListFacts DEF ListHolds
<1>5. /\ pre \in Listed /\ next_page[pre] = p
      /\ \A q \in Listed : next_page[q] = p => q = pre
  <2>1. \E q \in Listed : next_page[q] = p
    BY <1>1, <1>2, <1>4, HasBefore DEF HeapTypes, Listed
  <2>2. pre \in Listed /\ next_page[pre] = p
    BY <2>1 DEF Before
  <2> QED
    BY <1>1, <1>4, <2>2 DEF ListHolds, Straight, Listed
<1> HIDE DEF pre
<1>6. CASE Writable(pre)
  <2>1. /\ next_page' = [next_page EXCEPT ![pre] = next_page[p]] /\ mode' = Restore(pre)
        /\ mutex' = {} /\ where' = [where EXCEPT ![u] = "check"] /\ outcome' = outcome
    BY <1>6 DEF Unlink, WriteLink, pre
  <2>2. /\ \A v \in Users : where'[v] = IF v = u THEN "check" ELSE where[v]
        /\ \A q \in Pages : next_page'[q] = IF q = pre THEN next_page[p] ELSE next_page[q]
    BY <1>1, <2>1 DEF HeapTypes, Pointers
  <2>3. HeapTypes'
    <3>1. Pointers(next_page, Pages)'
      BY <1>1, <1>2, <2>1 DEF HeapTypes, Pointers
    <3> QED
      BY <1>1, <2>1, <3>1 DEF HeapTypes, Busy, Outside, Restore
  <2>4. Listed' = Listed \ {p} /\ Straight(next_page, _head)'
    <3>1. Listed \subseteq Pages
      BY <1>1, ListFacts
    <3>2. \A q \in Listed \ {p} :
            next_page'[q] = IF next_page[q] = p THEN next_page[p] ELSE next_page[q]
      BY <1>5, <2>2, <3>1
    <3>3. _head \in Pages
      BY <1>1, <1>4 DEF HeapTypes
    <3> QED
      BY <1>1, <1>2, <1>4, <2>3, <3>2, <3>3, WithoutOther DEF HeapTypes, Listed, ListHolds
  <2>5. PagesOwned'
    BY <1>1, <2>1, GoesOn DEF Busy, Outside
  <2>6. Unlinked' = Unlinked \cup {p}
    <3>1. "check" \in Outside /\ page' = page
      BY <1>1 DEF Outside
    <3> QED
      BY <1>1, <1>3, <2>1, <3>1, GoesIn
  <2>7. ListHolds'
    <3>1. Listed' = given' \ Unlinked'
      BY <1>1, <2>4, <2>6 DEF ListHolds
    <3>2. \A v \in Users : where'[v] \in {"link", "append"} => next_page'[page'[v]] = NULL
      <4>1. \A v \in Users : where'[v] \in {"link", "append"} =>
              page[v] \in Unlinked /\ page[v] \in Pages /\ next_page[page[v]] = NULL
        BY <1>1, <2>2 DEF Unlinked, Outside, Busy, ListHolds, PagesOwned, HeapTypes
      <4>2. pre \notin Unlinked
        BY <1>1, <1>5 DEF ListHolds
      <4> QED
        BY <1>1, <2>2, <4>1, <4>2
    <3> QED
      BY <1>1, <1>2, <2>4, <3>1, <3>2 DEF ListHolds
  <2>8. OneWrites'
    BY <1>1, <2>1, <2>2 DEF OneWrites
  <2>9. Relocked'
    BY <1>1, <2>1, <2>2 DEF Relocked, OneWrites
  <2>10. EndsForAReason'
    BY <1>1, <2>1 DEF EndsForAReason
  <2> QED
    BY <2>3, <2>5, <2>7, <2>8, <2>9, <2>10 DEF HeapInv
<1>7. CASE ~Writable(pre)
  <2>1. outcome' = "fault" /\ UNCHANGED <<next_page, mode, mutex, where>>
    BY <1>7 DEF Unlink, pre
  <2>2. mode[pre] = "ro"
    BY <1>1, <1>5, <1>7, ListFacts DEF Writable, HeapTypes
  <2>3. u \in ended.relocked
    BY <1>1, <1>5, <2>2 DEF Relocked
  <2>4. EndsForAReason'
    BY <1>1, <2>1, <2>3 DEF EndsForAReason
  <2>5. HeapTypes' /\ PagesOwned' /\ OneWrites'
    BY <1>1, <2>1 DEF HeapTypes, PagesOwned, OneWrites, Busy
  <2>6. Listed' = Listed /\ Unlinked' = Unlinked
    BY <1>1, <2>1 DEF Listed, Unlinked
  <2>7. ListHolds' /\ Relocked'
    BY <1>1, <2>1, <2>6 DEF ListHolds, Relocked
  <2> QED
    BY <2>4, <2>5, <2>7 DEF HeapInv
<1> QED
  BY <1>6, <1>7

LEMMA NextHeapInv == HeapInv /\ [HeapNext]_heapVars => HeapInv'
<1> SUFFICES ASSUME HeapInv, [HeapNext]_heapVars PROVE HeapInv'
  OBVIOUS
<1>1. CASE UNCHANGED heapVars
  <2>1. UNCHANGED <<_head, next_page, mode, whole, given, mutex, where, page, outcome, mine, ended>>
    BY <1>1 DEF heapVars, places
  <2>2. Listed' = Listed /\ Unlinked' = Unlinked
    BY <2>1 DEF Listed, Unlinked
  <2>3. HeapTypes' /\ PagesOwned' /\ OneWrites' /\ EndsForAReason'
    BY <2>1 DEF HeapInv, HeapTypes, PagesOwned, OneWrites, EndsForAReason, Busy
  <2>4. ListHolds' /\ Relocked'
    BY <2>1, <2>2 DEF HeapInv, ListHolds, Relocked
  <2> QED
    BY <2>3, <2>4 DEF HeapInv
<1>2. CASE HeapNext
  BY <1>2, GenerateKeeps, LinkPageKeeps, AppendPageKeeps, ProtectKeeps, FreeKeeps, UnlinkKeeps,
     CheckKeeps, PrintHeapKeeps, DamageKeeps DEF HeapNext
<1> QED
  BY <1>1, <1>2

(* The list of the test heap holds exactly the blocks in use, however      *)
(* libwq_malloc and libwq_free of several threads interleave.              *)
THEOREM HeapKeepsItsList == HeapSpec => []ListIsLive
<1>1. HeapInv => ListIsLive
  BY DEF HeapInv, ListHolds, ListIsLive, Unlinked, Outside
<1> QED
  BY <1>1, InitHeapInv, NextHeapInv, PTL DEF HeapSpec

(* A process under the test heap ends only by a late mprotect of another   *)
(* thread, by a free of what is no block, or by damage done to a block.    *)
THEOREM HeapEndsForAReason == HeapSpec => []EndsForAReason
<1>1. HeapInv => EndsForAReason
  BY DEF HeapInv
<1> QED
  BY <1>1, InitHeapInv, NextHeapInv, PTL DEF HeapSpec

-----------------------------------------------------------------------------
(* Counted blocks.  No link ever leads on from a block: the list has one   *)
(* or none.  A thread that links or frees a block is the only one that     *)
(* knows it; a block in the list is counted right.                         *)
Serves(t, b) == doing[t] \in {"link", "free"} /\ sp_ptr[t] = b

SPTypes ==
  /\ _use \in BOOLEAN /\ crashed \in BOOLEAN /\ _link \in Counted \cup {NULL}
  /\ _next_sp = [b \in Counted |-> NULL]
  /\ _ref \in [Counted -> Nat] /\ refs \in [Counted -> Nat]
  /\ live \subseteq Counted /\ shared \in [Counted -> BOOLEAN]
  /\ doing \in [Holders -> {"user", "link", "free"}]
  /\ sp_ptr \in [Holders -> Counted \cup {NULL}]

BlocksServed ==
  /\ \A t \in Holders, b \in Counted : Serves(t, b) => b \in live /\ refs[b] = 0 /\ b # _link
  /\ \A s, t \in Holders, b \in Counted : Serves(s, b) /\ Serves(t, b) => s = t
  /\ \A t \in Holders : doing[t] # "user" => sp_ptr[t] # NULL
  /\ \A t \in Holders : doing[t] = "link" => _use /\ _ref[sp_ptr[t]] > 0

BlocksCounted ==
  /\ _link # NULL => _use /\ _link \in live /\ refs[_link] = _ref[_link] /\ _ref[_link] > 0
  /\ \A b \in Counted : refs[b] > 0 => b \in live
  /\ \A b \in live : (crashed /\ refs[b] > 0) \/ b = _link \/ shared[b]
                       \/ \E t \in Holders : Serves(t, b)
  /\ crashed => _link # NULL

SPInv == SPTypes /\ BlocksServed /\ BlocksCounted

-----------------------------------------------------------------------------
USE CountedAssumption

LEMMA OneBlock == SPTypes => Chained = IF _link = NULL THEN {} ELSE {_link}
<1> SUFFICES ASSUME SPTypes PROVE Chained = IF _link = NULL THEN {} ELSE {_link}
  OBVIOUS
<1>1. Pointers(_next_sp, Counted) /\ \A b \in Counted : _next_sp[b] = NULL
  BY DEF SPTypes, Pointers
<1>2. _link \in Counted \/ _link = NULL
  BY DEF SPTypes
<1> QED
  <2>1. CASE _link \in Counted
    <3>1. _next_sp[_link] = NULL /\ _link # NULL
      BY <1>1, <2>1 DEF Pointers
    <3> QED
      BY <1>1, <2>1, <3>1, ReachOne DEF Chained
  <2>2. CASE _link = NULL
    BY <2>2, ReachNone DEF Chained
  <2> QED
    BY <1>2, <2>1, <2>2

LEMMA InitSPInv == SPInit => SPInv
<1> SUFFICES ASSUME SPInit PROVE SPInv
  OBVIOUS
<1>1. SPTypes
  BY DEF SPInit, SPTypes
<1>2. BlocksServed
  BY DEF SPInit, BlocksServed, Serves
<1>3. BlocksCounted
  BY DEF SPInit, BlocksCounted
<1> QED
  BY <1>1, <1>2, <1>3 DEF SPInv

LEMMA UsingKeeps ==
  ASSUME SPInv, SP_using \/ SP_unused PROVE SPInv'
<1>1. /\ SPTypes /\ BlocksServed /\ BlocksCounted /\ ~crashed /\ _link' = NULL
      /\ \A t \in Holders : doing[t] = "user"
      /\ UNCHANGED <<_next_sp, _ref, live, doing, sp_ptr, crashed, refs>>
      /\ _use' \in BOOLEAN /\ shared' \in [Counted -> BOOLEAN]
  BY DEF SPInv, SPTypes, SP_using, SP_unused, Quiet
<1>2. \A b \in Counted : shared[b] \/ b = _link => shared'[b]
  <2>1. CASE SP_using
    BY <1>1, <2>1 DEF SP_using, BlocksCounted, SPTypes
  <2>2. CASE SP_unused
    <3>1. \A b \in Counted : b = _link => b \in Chained
      BY <1>1, OneBlock
    <3> QED
      BY <1>1, <2>2, <3>1 DEF SP_unused, SPTypes
  <2> QED
    BY <2>1, <2>2
<1>3. SPTypes'
  BY <1>1 DEF SPTypes
<1>4. \A t \in Holders, b \in Counted : ~Serves(t, b) /\ ~Serves(t, b)'
  BY <1>1 DEF Serves
<1>5. BlocksServed'
  BY <1>1, <1>4 DEF BlocksServed
<1>6. BlocksCounted'
  BY <1>1, <1>2, <1>4 DEF BlocksCounted, SPTypes
<1> QED
  BY <1>3, <1>5, <1>6 DEF SPInv

LEMMA MallocKeeps ==
  ASSUME SPInv, NEW t \in Holders, NEW b \in Counted, NEW refer \in Refers, SP_malloc(t, b, refer)
  PROVE  SPInv'
<1>1. /\ SPTypes /\ BlocksServed /\ BlocksCounted /\ ~crashed /\ _use /\ doing[t] = "user"
      /\ b \notin live /\ live' = live \cup {b} /\ refer \in Nat \ {0}
      /\ UNCHANGED <<_use, _link, crashed, refs>>
  BY DEF SPInv, SP_malloc
<1>2. /\ \A c \in Counted : _ref'[c] = IF c = b THEN refer ELSE _ref[c]
      /\ \A c \in Counted : shared'[c] = IF c = b THEN FALSE ELSE shared[c]
      /\ \A s \in Holders : doing'[s] = IF s = t THEN "link" ELSE doing[s]
      /\ \A s \in Holders : sp_ptr'[s] = IF s = t THEN b ELSE sp_ptr[s]
  BY <1>1 DEF SP_malloc, SPTypes
<1>3. _next_sp' = _next_sp
  BY <1>1 DEF SP_malloc, SPTypes
<1>4. SPTypes'
  <2>1. _ref' \in [Counted -> Nat] /\ shared' \in [Counted -> BOOLEAN]
    BY <1>1 DEF SP_malloc, SPTypes
  <2>2. doing' \in [Holders -> {"user", "link", "free"}] /\ sp_ptr' \in [Holders -> Counted \cup {NULL}]
    BY <1>1 DEF SP_malloc, SPTypes
  <2> QED
    BY <1>1, <1>3, <2>1, <2>2 DEF SPTypes
<1>5. \A s \in Holders, c \in Counted : Serves(s, c)' <=> IF s = t THEN c = b ELSE Serves(s, c)
  BY <1>2 DEF Serves
<1>6. refs[b] = 0 /\ b # _link /\ b # NULL
  BY <1>1 DEF BlocksCounted, SPTypes
<1>7. \A s \in Holders : ~Serves(s, b)
  BY <1>1 DEF BlocksServed
<1>8. BlocksServed'
  <2>1. \A s \in Holders, c \in Counted : Serves(s, c)' => c \in live' /\ refs'[c] = 0 /\ c # _link'
    BY <1>1, <1>5, <1>6 DEF BlocksServed
  <2>2. \A s, r \in Holders, c \in Counted : Serves(s, c)' /\ Serves(r, c)' => s = r
    BY <1>1, <1>5, <1>7 DEF BlocksServed
  <2>3. \A s \in Holders : doing'[s] # "user" => sp_ptr'[s] # NULL
    BY <1>1, <1>2, <1>6 DEF BlocksServed
  <2>4. \A s \in Holders : doing'[s] = "link" => _use' /\ _ref'[sp_ptr'[s]] > 0
    <3>1. \A s \in Holders \ {t} : doing[s] = "link" => sp_ptr[s] \in Counted
      BY <1>1 DEF BlocksServed, SPTypes
    <3> QED
      BY <1>1, <1>2, <3>1 DEF BlocksServed
  <2> QED
    BY <2>1, <2>2, <2>3, <2>4 DEF BlocksServed
<1>9. BlocksCounted'
  <2>1. _link' # NULL => _use' /\ _link' \in live' /\ refs'[_link'] = _ref'[_link'] /\ _ref'[_link'] > 0
    BY <1>1, <1>2, <1>6 DEF BlocksCounted, SPTypes
  <2>2. \A c \in live' : c = _link' \/ shared'[c] \/ \E s \in Holders : Serves(s, c)'
    <3> SUFFICES ASSUME NEW c \in live', c # _link', ~shared'[c] PROVE \E s \in Holders : Serves(s, c)'
      OBVIOUS
    <3>1. CASE c = b
      BY <1>5, <3>1
    <3>2. CASE c # b
      <4>1. c \in live /\ c \in Counted /\ ~shared[c] /\ c # _link
        BY <1>1, <1>2, <3>2 DEF SPTypes
      <4>2. PICK s \in Holders : Serves(s, c)
        BY <1>1, <4>1 DEF BlocksCounted
      <4>3. s # t
        BY <1>1, <4>2 DEF Serves
      <4> QED
        BY <1>5, <4>1, <4>2, <4>3
    <3> QED
      BY <3>1, <3>2
  <2> QED
    BY <1>1, <2>1, <2>2 DEF BlocksCounted
<1> QED
  BY <1>4, <1>8, <1>9 DEF SPInv

LEMMA LinkKeeps ==
  ASSUME SPInv, NEW t \in Holders, SP_link(t) PROVE SPInv'
<1> DEFINE b == sp_ptr[t]
<1>1. /\ SPTypes /\ BlocksServed /\ BlocksCounted /\ ~crashed /\ doing[t] = "link"
      /\ _link' = (IF _link = 0 THEN b ELSE _link) /\ crashed' = (_link # 0 /\ LinkAfter = 0)
      /\ refs' = [refs EXCEPT ![b] = _ref[b]] /\ doing' = [doing EXCEPT ![t] = "user"]
      /\ UNCHANGED <<_use, _ref, live, sp_ptr, shared>>
  BY DEF SPInv, SP_link
<1>2. b \in Counted /\ b # NULL /\ Serves(t, b) /\ b \in live /\ refs[b] = 0 /\ b # _link
      /\ _use /\ _ref[b] > 0
  <2>1. Serves(t, b) /\ b \in Counted /\ b # NULL
    BY <1>1 DEF BlocksServed, SPTypes, Serves
  <2> QED
    BY <1>1, <2>1 DEF BlocksServed
<1>3. LinkAfter = 0
  BY <1>1 DEF LinkAfter, SPTypes
<1>4. _next_sp' = _next_sp
  BY <1>3 DEF SP_link
<1>5. /\ \A c \in Counted : refs'[c] = IF c = b THEN _ref[b] ELSE refs[c]
      /\ \A s \in Holders : doing'[s] = IF s = t THEN "user" ELSE doing[s]
      /\ crashed' = (_link # NULL)
  BY <1>1, <1>3 DEF SPTypes
<1>6. SPTypes'
  <2>1. refs' \in [Counted -> Nat] /\ doing' \in [Holders -> {"user", "link", "free"}]
    BY <1>1, <1>2 DEF SPTypes
  <2> QED
    BY <1>1, <1>2, <1>4, <1>5, <2>1 DEF SPTypes
<1>7. \A s \in Holders, c \in Counted : Serves(s, c)' <=> s # t /\ Serves(s, c)
  BY <1>1, <1>5 DEF Serves
<1>8. \A s \in Holders : s # t => ~Serves(s, b)
  BY <1>1, <1>2 DEF BlocksServed
<1> HIDE DEF b
<1>9. BlocksServed'
  <2>1. \A s \in Holders, c \in Counted : Serves(s, c)' => c \in live' /\ refs'[c] = 0 /\ c # _link'
    BY <1>1, <1>5, <1>7, <1>8 DEF BlocksServed
  <2>2. \A s, r \in Holders, c \in Counted : Serves(s, c)' /\ Serves(r, c)' => s = r
    BY <1>1, <1>7 DEF BlocksServed
  <2> QED
    BY <1>1, <1>5, <2>1, <2>2 DEF BlocksServed
<1>10. BlocksCounted'
  <2>1. _link' # NULL => _use' /\ _link' \in live' /\ refs'[_link'] = _ref'[_link'] /\ _ref'[_link'] > 0
    BY <1>1, <1>2, <1>5 DEF BlocksCounted, SPTypes
  <2>2. \A c \in Counted : refs'[c] > 0 => c \in live'
    BY <1>1, <1>2, <1>5 DEF BlocksCounted
  <2>3. \A c \in live' : (crashed' /\ refs'[c] > 0) \/ c = _link' \/ shared'[c]
                         \/ \E s \in Holders : Serves(s, c)'
    <3> SUFFICES ASSUME NEW c \in live', c # _link', ~shared'[c], ~(crashed' /\ refs'[c] > 0)
                 PROVE  \E s \in Holders : Serves(s, c)'
      OBVIOUS
    <3>1. c \in live /\ c \in Counted /\ ~shared[c] /\ c # b
      BY <1>1, <1>2, <1>5 DEF SPTypes
    <3>2. c # _link
      BY <1>1, <1>2, <1>5, <3>1
    <3>3. PICK s \in Holders : Serves(s, c)
      BY <1>1, <3>1, <3>2 DEF BlocksCounted
    <3>4. s # t
      BY <1>2, <3>1, <3>3 DEF Serves
    <3> QED
      BY <1>7, <3>1, <3>3, <3>4
  <2>4. crashed' => _link' # NULL
    BY <1>1, <1>5
  <2> QED
    BY <2>1, <2>2, <2>3, <2>4 DEF BlocksCounted
<1> QED
  BY <1>6, <1>9, <1>10 DEF SPInv

LEMMA RefKeeps ==
  ASSUME SPInv, NEW t \in Holders, NEW b \in Counted, SP_ref(t, b) PROVE SPInv'
<1>1. /\ SPTypes /\ BlocksServed /\ BlocksCounted /\ ~crashed /\ refs[b] > 0
      /\ refs' = [refs EXCEPT ![b] = refs[b] + 1]
      /\ _ref' = (IF b \in Chained THEN [_ref EXCEPT ![b] = _ref[b] + 1] ELSE _ref)
      /\ UNCHANGED <<_use, _link, _next_sp, live, doing, sp_ptr, crashed, shared>>
  BY DEF SPInv, SP_ref, SPTypes
<1>2. b # NULL /\ b \in live /\ (b \in Chained <=> b = _link) /\ \A s \in Holders : ~Serves(s, b)
  <2>1. b # NULL /\ (b \in Chained <=> b = _link)
    BY <1>1, OneBlock
  <2> QED
    BY <1>1, <2>1 DEF BlocksCounted, BlocksServed
<1>3. /\ \A c \in Counted : refs'[c] = IF c = b THEN refs[c] + 1 ELSE refs[c]
      /\ \A c \in Counted : _ref'[c] = IF c = b /\ b = _link THEN _ref[c] + 1 ELSE _ref[c]
      /\ refs' \in [Counted -> Nat] /\ _ref' \in [Counted -> Nat]
  BY <1>1, <1>2 DEF SPTypes
<1>4. SPTypes'
  BY <1>1, <1>3 DEF SPTypes
<1>5. \A s \in Holders, c \in Counted : Serves(s, c)' <=> Serves(s, c)
  BY <1>1 DEF Serves
<1>6. BlocksServed'
  <2>1. \A s \in Holders, c \in Counted : Serves(s, c)' => c \in live' /\ refs'[c] = 0 /\ c # _link'
    BY <1>1, <1>2, <1>3, <1>5 DEF BlocksServed
  <2>2. \A s \in Holders : doing[s] = "link" => sp_ptr[s] \in Counted /\ _ref'[sp_ptr[s]] > 0
    <3>1. \A s \in Holders : doing[s] = "link" => sp_ptr[s] \in Counted /\ sp_ptr[s] # b
      BY <1>1, <1>2 DEF BlocksServed, SPTypes, Serves
    <3> QED
      BY <1>1, <1>3, <3>1 DEF BlocksServed
  <2> QED
    BY <1>1, <1>5, <2>1, <2>2 DEF BlocksServed
<1>7. BlocksCounted'
  <2>1. \A c \in live : c \in Counted
    BY <1>1 DEF SPTypes
  <2>2. _link' # NULL => _use' /\ _link' \in live' /\ refs'[_link'] = _ref'[_link'] /\ _ref'[_link'] > 0
    BY <1>1, <1>3 DEF BlocksCounted, SPTypes
  <2>3. \A c \in Counted : refs'[c] > 0 => c \in live'
    BY <1>1, <1>2, <1>3 DEF BlocksCounted
  <2>4. \A c \in live' : c = _link' \/ shared'[c] \/ \E s \in Holders : Serves(s, c)'
    BY <1>1, <1>5, <2>1 DEF BlocksCounted
  <2> QED
    BY <1>1, <2>2, <2>3, <2>4 DEF BlocksCounted
<1> QED
  BY <1>4, <1>6, <1>7 DEF SPInv

LEMMA FreedKeeps ==
  ASSUME SPInv, NEW t \in Holders, SP_freed(t) PROVE SPInv'
<1> DEFINE b == sp_ptr[t]
<1>1. /\ SPTypes /\ BlocksServed /\ BlocksCounted /\ ~crashed /\ doing[t] = "free"
      /\ live' = live \ {b} /\ doing' = [doing EXCEPT ![t] = "user"]
      /\ UNCHANGED <<_use, _link, _next_sp, _ref, sp_ptr, crashed, refs, shared>>
  BY DEF SPInv, SP_freed
<1>2. b \in Counted /\ Serves(t, b) /\ refs[b] = 0 /\ b # _link /\ b # NULL
  <2>1. Serves(t, b) /\ b \in Counted /\ b # NULL
    BY <1>1 DEF BlocksServed, SPTypes, Serves
  <2> QED
    BY <1>1, <2>1 DEF BlocksServed
<1>3. \A s \in Holders : doing'[s] = IF s = t THEN "user" ELSE doing[s]
  BY <1>1 DEF SPTypes
<1>4. SPTypes'
  BY <1>1 DEF SPTypes
<1>5. \A s \in Holders, c \in Counted : Serves(s, c)' <=> s # t /\ Serves(s, c)
  BY <1>1, <1>3 DEF Serves
<1>6. \A s \in Holders : s # t => ~Serves(s, b)
  BY <1>1, <1>2 DEF BlocksServed
<1> HIDE DEF b
<1>7. BlocksServed'
  BY <1>1, <1>3, <1>5, <1>6 DEF BlocksServed
<1>8. BlocksCounted'
  <2>1. \A c \in live' : c = _link' \/ shared'[c] \/ \E s \in Holders : Serves(s, c)'
    <3> SUFFICES ASSUME NEW c \in live', c # _link', ~shared'[c] PROVE \E s \in Holders : Serves(s, c)'
      OBVIOUS
    <3>1. c \in live /\ c \in Counted /\ c # b /\ c # _link /\ ~shared[c]
      BY <1>1 DEF SPTypes
    <3>2. PICK s \in Holders : Serves(s, c)
      BY <1>1, <3>1 DEF BlocksCounted
    <3>3. s # t
      BY <1>2, <3>1, <3>2 DEF Serves
    <3> QED
      BY <1>5, <3>1, <3>2, <3>3
  <2> QED
    BY <1>1, <1>2, <2>1 DEF BlocksCounted
<1> QED
  BY <1>4, <1>7, <1>8 DEF SPInv

(* A reference is given back, to a block that is not in the list, ... *)
LEMMA UnrefOutsideKeeps ==
  ASSUME SPInv, NEW t \in Holders, NEW b \in Counted, SP_unref(t, b), b \notin Chained
  PROVE  SPInv'
<1>1. /\ SPTypes /\ BlocksServed /\ BlocksCounted /\ ~crashed /\ refs[b] > 0
      /\ refs' = [refs EXCEPT ![b] = refs[b] - 1]
      /\ UNCHANGED <<_use, _link, _next_sp, _ref, shared, sp_ptr, doing, live, crashed>>
  BY DEF SPInv, SP_unref, SPTypes
<1>2. b # _link /\ b \in live /\ \A s \in Holders : ~Serves(s, b)
  <2>1. b # NULL /\ b # _link
    BY <1>1, OneBlock
  <2> QED
    BY <1>1, <2>1 DEF BlocksCounted, BlocksServed
<1>3. /\ \A c \in Counted : refs'[c] = IF c = b THEN refs[c] - 1 ELSE refs[c]
      /\ refs' \in [Counted -> Nat]
  BY <1>1 DEF SPTypes
<1>4. SPTypes'
  BY <1>1, <1>3 DEF SPTypes
<1>5. \A s \in Holders, c \in Counted : Serves(s, c)' <=> Serves(s, c)
  BY <1>1 DEF Serves
<1>6. BlocksServed'
  <2>1. \A s \in Holders, c \in Counted : Serves(s, c)' => c \in live' /\ refs'[c] = 0 /\ c # _link'
    BY <1>1, <1>2, <1>3, <1>5 DEF BlocksServed
  <2> QED
    BY <1>1, <1>5, <2>1 DEF BlocksServed
<1>7. BlocksCounted'
  <2>1. _link' # NULL => _use' /\ _link' \in live' /\ refs'[_link'] = _ref'[_link'] /\ _ref'[_link'] > 0
    BY <1>1, <1>2, <1>3 DEF BlocksCounted, SPTypes
  <2>2. \A c \in Counted : refs'[c] > 0 => c \in live'
    BY <1>1, <1>2, <1>3 DEF BlocksCounted
  <2>3. \A c \in live : c \in Counted
    BY <1>1 DEF SPTypes
  <2>4. \A c \in live' : c = _link' \/ shared'[c] \/ \E s \in Holders : Serves(s, c)'
    BY <1>1, <1>5, <2>3 DEF BlocksCounted
  <2> QED
    BY <1>1, <2>1, <2>2, <2>4 DEF BlocksCounted
<1> QED
  BY <1>4, <1>6, <1>7 DEF SPInv

(* ... or to the one that is. *)
LEMMA UnrefInsideKeeps ==
  ASSUME SPInv, NEW t \in Holders, NEW b \in Counted, SP_unref(t, b), b \in Chained
  PROVE  SPInv'
<1>1. /\ SPTypes /\ BlocksServed /\ BlocksCounted /\ ~crashed /\ doing[t] = "user"
      /\ b = _link /\ b # NULL
  <2>1. SPTypes /\ BlocksServed /\ BlocksCounted /\ ~crashed /\ doing[t] = "user"
    BY DEF SPInv, SP_unref
  <2> QED
    BY <2>1, OneBlock
<1>2. _use /\ b \in live /\ refs[b] = _ref[b] /\ _ref[b] > 0 /\ \A s \in Holders : ~Serves(s, b)
  BY <1>1 DEF BlocksCounted, BlocksServed
<1> DEFINE l == IF _ref[b] = 1 THEN "free" ELSE "user"
<1>3. /\ _link' = _next_sp[b] /\ _next_sp' = Bypass(_next_sp, _link, b)
      /\ _ref' = [_ref EXCEPT ![b] = _ref[b] - 1] /\ refs' = [refs EXCEPT ![b] = refs[b] - 1]
      /\ shared' = [shared EXCEPT ![b] = refs[b] > 1]
      /\ sp_ptr' = [sp_ptr EXCEPT ![t] = b] /\ doing' = [doing EXCEPT ![t] = l]
      /\ UNCHANGED <<_use, live, crashed>>
  BY <1>1, <1>2 DEF SP_unref, SPTypes, LastRef
<1>4. _link' = NULL /\ _next_sp' = _next_sp
  <2>1. _next_sp = [c \in Counted |-> NULL] /\ DOMAIN _next_sp = Counted /\ _next_sp[b] = NULL
    BY <1>1 DEF SPTypes
  <2>2. \A c \in Counted : _next_sp[c] # b
    BY <1>1, <2>1
  <2>3. _next_sp' = [c \in Counted |-> _next_sp[c]]
    BY <1>3, <2>1, <2>2 DEF Bypass
  <2> QED
    BY <1>3, <2>1, <2>3
<1>5. /\ \A c \in Counted : refs'[c] = IF c = b THEN refs[b] - 1 ELSE refs[c]
      /\ \A c \in Counted : _ref'[c] = IF c = b THEN _ref[b] - 1 ELSE _ref[c]
      /\ \A c \in Counted : shared'[c] <=> IF c = b THEN refs[b] > 1 ELSE shared[c]
      /\ \A s \in Holders : sp_ptr'[s] = IF s = t THEN b ELSE sp_ptr[s]
      /\ \A s \in Holders : doing'[s] = IF s = t THEN l ELSE doing[s]
  BY <1>1, <1>3 DEF SPTypes
<1>6. SPTypes'
  <2>1. refs[b] - 1 \in Nat /\ _ref[b] - 1 \in Nat /\ (refs[b] > 1) \in BOOLEAN
    BY <1>1, <1>2 DEF SPTypes
  <2>2. refs' \in [Counted -> Nat] /\ _ref' \in [Counted -> Nat] /\ shared' \in [Counted -> BOOLEAN]
    BY <1>1, <1>3, <2>1 DEF SPTypes
  <2>3. sp_ptr' \in [Holders -> Counted \cup {NULL}] /\ doing' \in [Holders -> {"user", "link", "free"}]
    BY <1>1, <1>3 DEF SPTypes
  <2> QED
    BY <1>1, <1>3, <1>4, <2>2, <2>3 DEF SPTypes
<1>7. l \in {"user", "free"} /\ (l = "free" <=> _ref[b] = 1)
  OBVIOUS
<1> HIDE DEF l
<1>8. \A s \in Holders, c \in Counted :
        Serves(s, c)' <=> IF s = t THEN c = b /\ l = "free" ELSE Serves(s, c)
  BY <1>5, <1>7 DEF Serves
<1>9. BlocksServed'
  <2>1. \A s \in Holders, c \in Counted : Serves(s, c)' => c \in live' /\ refs'[c] = 0 /\ c # _link'
    <3> SUFFICES ASSUME NEW s \in Holders, NEW c \in Counted, Serves(s, c)'
                 PROVE  c \in live' /\ refs'[c] = 0 /\ c # _link'
      OBVIOUS
    <3>1. c # _link'
      BY <1>4
    <3>2. CASE s = t
      BY <1>2, <1>3, <1>5, <1>7, <1>8, <3>1, <3>2
    <3>3. CASE s # t
      BY <1>1, <1>2, <1>3, <1>5, <1>8, <3>1, <3>3 DEF BlocksServed
    <3> QED
      BY <3>2, <3>3
  <2>2. \A s, r \in Holders, c \in Counted : Serves(s, c)' /\ Serves(r, c)' => s = r
    BY <1>1, <1>2, <1>8 DEF BlocksServed
  <2>3. \A s \in Holders : doing'[s] # "user" => sp_ptr'[s] # NULL
    BY <1>1, <1>5 DEF BlocksServed
  <2>4. \A s \in Holders : doing'[s] = "link" => _use' /\ _ref'[sp_ptr'[s]] > 0
    <3> SUFFICES ASSUME NEW s \in Holders, doing'[s] = "link" PROVE _use' /\ _ref'[sp_ptr'[s]] > 0
      OBVIOUS
    <3>1. s # t /\ doing[s] = "link" /\ sp_ptr'[s] = sp_ptr[s]
      BY <1>5, <1>7
    <3>2. sp_ptr[s] \in Counted /\ sp_ptr[s] # b
      BY <1>1, <1>2, <3>1 DEF BlocksServed, SPTypes, Serves
    <3> QED
      BY <1>1, <1>3, <1>5, <3>1, <3>2 DEF BlocksServed
  <2> QED
    BY <2>1, <2>2, <2>3, <2>4 DEF BlocksServed
<1>10. BlocksCounted'
  <2>1. \A c \in Counted : refs'[c] > 0 => c \in live'
    BY <1>1, <1>2, <1>3, <1>5 DEF BlocksCounted
  <2>2. \A c \in live' : shared'[c] \/ \E s \in Holders : Serves(s, c)'
    <3> SUFFICES ASSUME NEW c \in live', ~shared'[c] PROVE \E s \in Holders : Serves(s, c)'
      OBVIOUS
    <3>1. c \in live /\ c \in Counted
      BY <1>1, <1>3 DEF SPTypes
    <3>2. CASE c = b
      <4>1. refs[b] \in Nat /\ ~(refs[b] > 1)
        BY <1>1, <1>5, <3>2 DEF SPTypes
      <4>2. _ref[b] = 1
        BY <1>2, <4>1
      <4> QED
        BY <1>7, <1>8, <3>2, <4>2
    <3>3. CASE c # b
      <4>1. ~shared[c] /\ c # _link
        BY <1>1, <1>5, <3>1, <3>3
      <4>2. PICK s \in Holders : Serves(s, c)
        BY <1>1, <3>1, <4>1 DEF BlocksCounted
      <4>3. s # t
        BY <1>1, <4>2 DEF Serves
      <4> QED
        BY <1>8, <3>1, <4>2, <4>3
    <3> QED
      BY <3>2, <3>3
  <2> QED
    BY <1>1, <1>3, <1>4, <2>1, <2>2 DEF BlocksCounted
<1> QED
  BY <1>6, <1>9, <1>10 DEF SPInv

LEMMA NextSPInv == SPInv /\ [SPNext]_spVars => SPInv'
<1> SUFFICES ASSUME SPInv, [SPNext]_spVars PROVE SPInv'
  OBVIOUS
<1>1. CASE UNCHANGED spVars
  BY <1>1 DEF spVars, SPInv, SPTypes, BlocksServed, BlocksCounted, Serves
<1>2. CASE SPNext
  BY <1>2, UsingKeeps, MallocKeeps, LinkKeeps, RefKeeps, UnrefOutsideKeeps, UnrefInsideKeeps,
     FreedKeeps DEF SPNext
<1> QED
  BY <1>1, <1>2

(* No block of src/Sp.c is freed while somebody refers to it, for any      *)
(* number of threads that make, share and give back references.            *)
THEOREM ReferencedStaysLive == SPSpec => []ReferencedIsLive
<1>1. SPInv => ReferencedIsLive
  <2> SUFFICES ASSUME SPInv, NEW b \in Counted, refs[b] > 0
               PROVE  b \in live /\ \A t \in Holders : doing[t] = "free" => sp_ptr[t] # b
    BY DEF ReferencedIsLive
  <2>1. b \in live
    BY DEF SPInv, BlocksCounted
  <2>2. \A t \in Holders : ~Serves(t, b)
    BY DEF SPInv, BlocksServed, SPTypes
  <2> QED
    BY <2>1, <2>2 DEF Serves
<1> QED
  BY <1>1, InitSPInv, NextSPInv, PTL DEF SPSpec

(* What SP_unref leaks are the shared blocks, and SP_malloc fails to make  *)
(* a second one.                                                           *)
THEOREM OnlySharedLeak == SPSpec => []LeakedIfShared
<1>1. SPInv => LeakedIfShared
  <2> SUFFICES ASSUME SPInv PROVE LeakedIfShared
    OBVIOUS
  <2>1. Chained = {} \/ \E b \in Counted : Chained = {b}
    BY OneBlock DEF SPInv, SPTypes
  <2>2. Cardinality(Chained) <= 1
    BY <2>1, FS_EmptySet, FS_Singleton
  <2>3. crashed => Chained # {}
    BY OneBlock DEF SPInv, BlocksCounted
  <2>4. ASSUME NEW b \in live, refs[b] = 0
        PROVE  shared[b] \/ \E t \in Holders : doing[t] \in {"link", "free"} /\ sp_ptr[t] = b
    <3>1. b # _link
      BY <2>4 DEF SPInv, SPTypes, BlocksCounted
    <3> QED
      BY <2>4, <3>1 DEF SPInv, BlocksCounted, Serves
  <2> QED
    BY <2>2, <2>3, <2>4 DEF LeakedIfShared
<1> QED
  BY <1>1, InitSPInv, NextSPInv, PTL DEF SPSpec
=============================================================================
