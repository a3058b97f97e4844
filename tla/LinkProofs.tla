------------------------------ MODULE LinkProofs ------------------------------
(***************************************************************************)
(* What the program's loops over lists meet, for any number of nodes: how  *)
(* appending, unlinking and taking from the front change it, and what      *)
(* keeps a list from becoming a circle.                                    *)
(***************************************************************************)
EXTENDS Links, Integers, TLAPS, SequenceTheorems, WellFoundedInduction

(* Pointers lead to nodes. *)
Pointers(link, N) == NULL \notin N /\ link \in [N -> N \cup {NULL}]

(* A list that ends, into whose first node no pointer of it leads, and     *)
(* into each other one only one.                                           *)
Straight(link, start) ==
  start # NULL =>
    /\ \A q \in Reach(link, start) : link[q] # start
    /\ \A q, r \in Reach(link, start) : link[q] = link[r] => q = r
    /\ \E q \in Reach(link, start) : link[q] = NULL

LEMMA ReachNone == \A link : Reach(link, NULL) = {} /\ Straight(link, NULL)
BY DEF Reach, Straight

(* Whatever has the first node and follows the pointers has all nodes. *)
LEMMA ReachLeast ==
  ASSUME NEW N, NEW link, Pointers(link, N), NEW start \in N \cup {NULL}, NEW S,
         Holds(S, start), \A p \in S \cap N : Holds(S, link[p])
  PROVE  Reach(link, start) \subseteq S
<1>1. DOMAIN link = N
  BY DEF Pointers
<1> SUFFICES ASSUME start # NULL, NEW p \in Reach(link, start) PROVE p \in S
  BY DEF Reach
<1> DEFINE T == S \cap N
<1>2. T \in SUBSET DOMAIN link /\ start \in T
  BY <1>1 DEF Holds
<1>3. Closed(link, T)
  BY DEF Closed, Holds, Pointers
<1> QED
  BY <1>2, <1>3 DEF Reach

LEMMA ReachCloses ==
  ASSUME NEW N, NEW link, Pointers(link, N), NEW start \in N \cup {NULL}
  PROVE  /\ Reach(link, start) \subseteq N
         /\ start # NULL => start \in Reach(link, start)
         /\ start = NULL => Reach(link, start) = {}
         /\ \A p \in Reach(link, start) : link[p] # NULL => link[p] \in Reach(link, start)
<1>1. DOMAIN link = N
  BY DEF Pointers
<1>2. Reach(link, start) \subseteq N /\ (start = NULL => Reach(link, start) = {})
  BY <1>1 DEF Reach
<1>3. start # NULL => start \in Reach(link, start)
  BY <1>1 DEF Reach
<1>4. ASSUME NEW p \in Reach(link, start), link[p] # NULL
      PROVE  link[p] \in Reach(link, start)
  <2>1. start # NULL /\ p \in N
    BY <1>2, <1>4
  <2>2. link[p] \in N
    BY <1>4, <2>1 DEF Pointers
  <2>3. ASSUME NEW S \in SUBSET N, start \in S, Closed(link, S) PROVE link[p] \in S
    <3>1. p \in S
      BY <1>1, <1>4, <2>1, <2>3 DEF Reach
    <3> QED
      BY <1>4, <2>3, <3>1 DEF Closed, Holds
  <2> QED
    BY <1>1, <2>1, <2>2, <2>3 DEF Reach
<1> QED
  BY <1>2, <1>3, <1>4

LEMMA ReachOne ==
  ASSUME NEW N, NEW link, Pointers(link, N), NEW start \in N, link[start] = NULL
  PROVE  Reach(link, start) = {start} /\ Straight(link, start)
<1>1. start # NULL /\ start \in Reach(link, start)
  BY ReachCloses DEF Pointers
<1>2. Reach(link, start) \subseteq {start}
  BY ReachLeast DEF Holds
<1>3. Reach(link, start) = {start}
  BY <1>1, <1>2
<1> QED
  BY <1>1, <1>3 DEF Straight

(* Links of nodes that are not in the list do not matter. *)
LEMMA ReachSame ==
  ASSUME NEW N, NEW link, Pointers(link, N), NEW other, Pointers(other, N),
         NEW start \in N \cup {NULL}, \A q \in Reach(link, start) : other[q] = link[q]
  PROVE  /\ Reach(other, start) = Reach(link, start)
         /\ Straight(link, start) => Straight(other, start)
<1> DEFINE R == Reach(link, start)
           O == Reach(other, start)
<1>1. /\ R \subseteq N /\ O \subseteq N /\ (start # NULL => start \in R /\ start \in O)
      /\ \A p \in R : link[p] # NULL => link[p] \in R
      /\ \A p \in O : other[p] # NULL => other[p] \in O
  BY ReachCloses
<1>2. O \subseteq R
  BY <1>1, ReachLeast DEF Holds
<1>3. \A p \in O : other[p] = link[p]
  BY <1>2
<1>4. R \subseteq O
  <2>1. Holds(O, start)
    BY <1>1 DEF Holds
  <2>2. \A p \in O \cap N : Holds(O, link[p])
    BY <1>1, <1>3 DEF Holds
  <2> HIDE DEF O
  <2> QED
    BY <2>1, <2>2, ReachLeast
<1>5. O = R
  BY <1>2, <1>4
<1> QED
  BY <1>3, <1>5 DEF Straight

(* Each node but the first has one before it. *)
LEMMA HasBefore ==
  ASSUME NEW N, NEW link, Pointers(link, N), NEW start \in N \cup {NULL},
         NEW p \in Reach(link, start), p # start
  PROVE  \E q \in Reach(link, start) : link[q] = p
<1> DEFINE R == Reach(link, start)
           S == R \ {p}
<1>1. /\ R \subseteq N /\ (start # NULL => start \in R) /\ (start = NULL => R = {})
      /\ \A q \in R : link[q] # NULL => link[q] \in R
  BY ReachCloses
<1> SUFFICES ASSUME \A q \in R : link[q] # p PROVE FALSE
  OBVIOUS
<1>2. Holds(S, start) /\ \A q \in S \cap N : Holds(S, link[q])
  BY <1>1 DEF Holds
<1>3. R \subseteq S
  <2> HIDE DEF S
  <2> QED
    BY <1>2, ReachLeast
<1> QED
  BY <1>3

LEMMA OneEnd ==
  ASSUME NEW link, NEW start, Straight(link, start), start # NULL
  PROVE  /\ EndOf(link, start) \in Reach(link, start)
         /\ link[EndOf(link, start)] = NULL
         /\ \A q \in Reach(link, start) : link[q] = NULL => q = EndOf(link, start)
         /\ ~Circular(link, start)
<1>1. \E q \in Reach(link, start) : link[q] = NULL
  BY DEF Straight
<1>2. EndOf(link, start) \in Reach(link, start) /\ link[EndOf(link, start)] = NULL
  BY <1>1 DEF EndOf
<1> QED
  BY <1>2 DEF Straight, Circular

(* Appending after the last node. *)
LEMMA Appended ==
  ASSUME NEW N, NEW link, Pointers(link, N), NEW start \in N, Straight(link, start),
         NEW p \in N, p \notin Reach(link, start),
         NEW other, Pointers(other, N), other[p] = NULL,
         \A q \in Reach(link, start) :
           other[q] = IF q = EndOf(link, start) THEN p ELSE link[q]
  PROVE  Reach(other, start) = Reach(link, start) \cup {p} /\ Straight(other, start)
<1> DEFINE R == Reach(link, start)
           O == Reach(other, start)
           e == EndOf(link, start)
<1>1. /\ R \subseteq N /\ start \in R /\ NULL \notin N /\ start # NULL
      /\ \A q \in R : link[q] # NULL => link[q] \in R
  BY ReachCloses DEF Pointers
<1>2. O \subseteq N /\ start \in O /\ \A q \in O : other[q] # NULL => other[q] \in O
  BY <1>1, ReachCloses
<1>3. e \in R /\ link[e] = NULL /\ \A q \in R : link[q] = NULL => q = e
  BY <1>1, OneEnd
<1>4. \A q \in R : other[q] = IF q = e THEN p ELSE link[q]
  OBVIOUS
<1>5. O \subseteq R \cup {p}
  <2>1. Holds(R \cup {p}, start) /\ \A q \in (R \cup {p}) \cap N : Holds(R \cup {p}, other[q])
    BY <1>1, <1>4 DEF Holds
  <2> HIDE DEF R
  <2> QED
    BY <2>1, ReachLeast
<1>6. R \subseteq O
  <2>1. Holds(R \cap O, start)
    BY <1>1, <1>2 DEF Holds
  <2>2. \A q \in R \cap O : Holds(R \cap O, link[q])
    BY <1>1, <1>2, <1>3, <1>4 DEF Holds
  <2>3. R \subseteq R \cap O
    <3> DEFINE S == R \cap O
    <3> HIDE DEF S
    <3> QED
      BY <2>1, <2>2, ReachLeast DEF S
  <2> QED
    BY <2>3
<1>7. p \in O
  <2>1. e \in O /\ other[e] = p /\ p # NULL
    BY <1>1, <1>3, <1>4, <1>6
  <2> QED
    BY <1>2, <2>1
<1>8. O = R \cup {p}
  BY <1>5, <1>6, <1>7
<1>9. p \notin R /\ other[p] = NULL
  OBVIOUS
<1>10. /\ \A q \in R : link[q] # start
       /\ \A q, r \in R : link[q] = link[r] => q = r
  BY <1>1 DEF Straight
<1>11. \A q \in O : other[q] # start
  BY <1>1, <1>4, <1>8, <1>9, <1>10
<1>12. \A q, r \in O : other[q] = other[r] => q = r
  <2> SUFFICES ASSUME NEW q \in O, NEW r \in O, other[q] = other[r] PROVE q = r
    OBVIOUS
  <2>1. \A w \in R : other[w] # NULL
    BY <1>1, <1>3, <1>4, <1>9
  <2>2. \A w \in R : other[w] = p => w = e
    BY <1>1, <1>3, <1>4, <1>9
  <2> QED
    BY <1>3, <1>4, <1>8, <1>9, <1>10, <2>1, <2>2
<1> QED
  BY <1>8, <1>9, <1>11, <1>12 DEF Straight

(* Taking the first node. *)
LEMMA WithoutFirst ==
  ASSUME NEW N, NEW link, Pointers(link, N), NEW start \in N, Straight(link, start)
  PROVE  /\ link[start] \in N \cup {NULL}
         /\ Reach(link, link[start]) = Reach(link, start) \ {start}
         /\ Straight(link, link[start])
<1> DEFINE R == Reach(link, start)
           O == Reach(link, link[start])
<1>1. /\ R \subseteq N /\ start \in R /\ start # NULL
      /\ \A q \in R : link[q] # NULL => link[q] \in R
  BY ReachCloses DEF Pointers
<1>2. link[start] \in N \cup {NULL}
  BY DEF Pointers
<1>3. /\ O \subseteq N /\ (link[start] # NULL => link[start] \in O)
      /\ (link[start] = NULL => O = {})
      /\ \A q \in O : link[q] # NULL => link[q] \in O
  BY <1>2, ReachCloses
<1>4. /\ \A q \in R : link[q] # start
      /\ \A q, r \in R : link[q] = link[r] => q = r
      /\ \E q \in R : link[q] = NULL
  BY <1>1 DEF Straight
<1>5. O \subseteq R \ {start}
  <2>1. Holds(R \ {start}, link[start]) /\ \A q \in (R \ {start}) \cap N : Holds(R \ {start}, link[q])
    BY <1>1, <1>4 DEF Holds
  <2> DEFINE S == R \ {start}
  <2> HIDE DEF S
  <2> QED
    BY <1>2, <2>1, ReachLeast DEF S
<1>6. R \subseteq O \cup {start}
  <2>1. Holds(O \cup {start}, start) /\ \A q \in (O \cup {start}) \cap N : Holds(O \cup {start}, link[q])
    BY <1>3 DEF Holds
  <2> DEFINE S == O \cup {start}
  <2> HIDE DEF S
  <2> QED
    BY <1>2, <2>1, ReachLeast DEF S
<1>7. O = R \ {start}
  BY <1>5, <1>6
<1>8. link[start] # NULL => \E q \in O : link[q] = NULL
  BY <1>4, <1>7
<1>9. \A q \in O : link[q] # link[start]
  BY <1>1, <1>4, <1>7
<1> QED
  BY <1>2, <1>4, <1>7, <1>8, <1>9 DEF Straight

(* Unlinking another node. *)
LEMMA WithoutOther ==
  ASSUME NEW N, NEW link, Pointers(link, N), NEW start \in N, Straight(link, start),
         NEW p \in Reach(link, start), p # start,
         NEW other, Pointers(other, N),
         \A q \in Reach(link, start) \ {p} :
           other[q] = IF link[q] = p THEN link[p] ELSE link[q]
  PROVE  Reach(other, start) = Reach(link, start) \ {p} /\ Straight(other, start)
<1> DEFINE R == Reach(link, start)
           O == Reach(other, start)
<1>1. /\ R \subseteq N /\ start \in R /\ start # NULL /\ NULL \notin N
      /\ \A q \in R : link[q] # NULL => link[q] \in R
  BY ReachCloses DEF Pointers
<1>2. O \subseteq N /\ start \in O /\ \A q \in O : other[q] # NULL => other[q] \in O
  BY <1>1, ReachCloses
<1>3. /\ \A q \in R : link[q] # start
      /\ \A q, r \in R : link[q] = link[r] => q = r
      /\ \E q \in R : link[q] = NULL
  BY <1>1 DEF Straight
<1>4. PICK b \in R : link[b] = p
  BY HasBefore
<1>5. p # NULL /\ p \in R /\ p # start
  BY <1>1
<1>6. link[p] # p
  <2> SUFFICES ASSUME link[p] = p PROVE FALSE
    OBVIOUS
  <2>1. \A q \in R \ {p} : link[q] # p
    BY <1>3
  <2>2. Holds(R \ {p}, start) /\ \A q \in (R \ {p}) \cap N : Holds(R \ {p}, link[q])
    BY <1>1, <1>5, <2>1 DEF Holds
  <2>3. R \subseteq R \ {p}
    <3> DEFINE S == R \ {p}
    <3> HIDE DEF S
    <3> QED
      BY <2>2, ReachLeast DEF S
  <2> QED
    BY <1>5, <2>3
<1>7. b # p
  BY <1>4, <1>6
<1>8. \A q \in R \ {p} : other[q] = IF q = b THEN link[p] ELSE link[q]
  BY <1>3, <1>4
<1>9. \A q \in R \ {b} : link[q] # p
  BY <1>3, <1>4
<1>10. O \subseteq R \ {p}
  <2>1. Holds(R \ {p}, start)
    BY <1>1 DEF Holds
  <2>2. \A q \in (R \ {p}) \cap N : Holds(R \ {p}, other[q])
    BY <1>1, <1>5, <1>6, <1>8, <1>9 DEF Holds
  <2> DEFINE S == R \ {p}
  <2> HIDE DEF S
  <2> QED
    BY <2>1, <2>2, ReachLeast DEF S
<1>11. R \subseteq O \cup {p}
  <2>1. Holds(O \cup {p}, start)
    BY <1>2 DEF Holds
  <2>2. \A q \in O : Holds(O \cup {p}, link[q])
    BY <1>2, <1>4, <1>8, <1>10 DEF Holds
  <2>3. CASE b \in O
    <3>1. Holds(O, link[p])
      BY <1>2, <1>7, <1>8, <2>3, <1>10 DEF Holds
    <3> DEFINE S == O \cup {p}
    <3>2. \A q \in S \cap N : Holds(S, link[q])
      BY <2>2, <3>1 DEF Holds
    <3> HIDE DEF S
    <3> QED
      BY <2>1, <3>2, ReachLeast DEF S
  <2>4. CASE b \notin O
    <3>1. \A q \in O : other[q] = link[q]
      BY <1>8, <1>10, <2>4
    <3>2. \A q \in O \cap N : Holds(O, link[q])
      BY <1>2, <3>1 DEF Holds
    <3>3. Holds(O, start)
      BY <1>2 DEF Holds
    <3> HIDE DEF O
    <3> QED
      BY <3>2, <3>3, ReachLeast
  <2> QED
    BY <2>3, <2>4
<1>12. O = R \ {p}
  BY <1>10, <1>11
<1>13. \A q \in O : other[q] # start
  BY <1>3, <1>5, <1>8, <1>12
<1>14. \A q, r \in O : other[q] = other[r] => q = r
  BY <1>3, <1>5, <1>8, <1>12
<1>15. \E q \in O : other[q] = NULL
  <2>1. PICK e \in R : link[e] = NULL
    BY <1>3
  <2>2. CASE e = p
    BY <1>4, <1>7, <1>8, <1>12, <2>1, <2>2
  <2>3. CASE e # p
    BY <1>4, <1>5, <1>8, <1>12, <2>1, <2>3
  <2> QED
    BY <2>2, <2>3
<1> QED
  BY <1>12, <1>13, <1>14, <1>15 DEF Straight

-----------------------------------------------------------------------------
(* Lists as sequences. *)

(* An order of numbers has a least one. *)
LEMMA Least ==
  ASSUME NEW T, T \subseteq Nat, T # {}
  PROVE  \E m \in T : \A n \in T : m <= n
<1>1. PICK m \in T : \A n \in T : ~(<<n, m>> \in OpToRel(<, Nat))
  BY WFMin, NatLessThanWellFounded
<1>2. \A n \in T : ~(n < m)
  BY <1>1 DEF OpToRel
<1> QED
  BY <1>2

LEMMA NodesOf ==
  ASSUME NEW N, NEW s \in Seq(N)
  PROVE  /\ Len(s) \in Nat /\ DOMAIN s = 1 .. Len(s)
         /\ \A n \in 1 .. Len(s) : s[n] \in N
  BY LenProperties, ElementOfSeq

LEMMA ListIs ==
  ASSUME NEW N, NULL \notin N, NEW s \in Seq(N), NEW link, NEW start, IsList(link, start, s)
  PROVE  /\ Len(s) = 0 => start = NULL /\ s = << >>
         /\ Len(s) > 0 => start = s[1] /\ start \in N /\ link[s[Len(s)]] = NULL
         /\ \A n \in 1 .. Len(s) - 1 : link[s[n]] = s[n + 1] /\ s[n + 1] \in N /\ s[n + 1] # NULL
<1>1. /\ Len(s) \in Nat /\ \A n \in 1 .. Len(s) : s[n] \in N
  BY NodesOf
<1>2. Len(s) = 0 <=> s = << >>
  BY EmptySeq, LenProperties
<1>3. /\ start = IF s = << >> THEN NULL ELSE s[1]
      /\ \A n \in 1 .. Len(s) : link[s[n]] = IF n = Len(s) THEN NULL ELSE s[n + 1]
  BY DEF IsList
<1>4. \A n \in 1 .. Len(s) - 1 : n \in 1 .. Len(s) /\ n # Len(s) /\ n + 1 \in 1 .. Len(s)
  BY <1>1
<1>5. Len(s) > 0 => 1 \in 1 .. Len(s) /\ Len(s) \in 1 .. Len(s)
  BY <1>1
<1>6. \A n \in 1 .. Len(s) - 1 : link[s[n]] = s[n + 1] /\ s[n + 1] \in N /\ s[n + 1] # NULL
  BY <1>1, <1>3, <1>4
<1> QED
  BY <1>1, <1>2, <1>3, <1>5, <1>6

(* A set that has the first node and follows the pointers has all.         *)
LEMMA AlongList ==
  ASSUME NEW N, NULL \notin N, NEW s \in Seq(N), NEW link, NEW start, IsList(link, start, s),
         NEW S, Holds(S, start), \A p \in S \cap N : Holds(S, link[p])
  PROVE  \A n \in 1 .. Len(s) : s[n] \in S
<1>1. /\ Len(s) \in Nat /\ \A n \in 1 .. Len(s) : s[n] \in N
  BY NodesOf
<1>2. /\ Len(s) > 0 => start = s[1] /\ start \in N
      /\ \A n \in 1 .. Len(s) - 1 : link[s[n]] = s[n + 1] /\ s[n + 1] \in N /\ s[n + 1] # NULL
  BY ListIs
<1> DEFINE T == {n \in 1 .. Len(s) : s[n] \notin S}
<1> SUFFICES ASSUME T # {} PROVE FALSE
  OBVIOUS
<1>3. PICK m \in T : \A n \in T : m <= n
  <2>1. T \subseteq Nat
    OBVIOUS
  <2> HIDE DEF T
  <2> QED
    BY <2>1, Least
<1>4. m \in 1 .. Len(s) /\ s[m] \notin S
  OBVIOUS
<1>5. m # 1
  BY <1>1, <1>2, <1>4 DEF Holds
<1>6. m - 1 \in 1 .. Len(s) /\ m - 1 \in 1 .. Len(s) - 1 /\ m - 1 + 1 = m /\ ~(m <= m - 1)
  BY <1>1, <1>4, <1>5
<1>7. s[m - 1] \in S
  BY <1>3, <1>6
<1>8. link[s[m - 1]] = s[m] /\ s[m] # NULL /\ s[m - 1] \in N
  BY <1>1, <1>2, <1>6
<1> QED
  BY <1>4, <1>7, <1>8 DEF Holds

LEMMA ListReach ==
  ASSUME NEW N, NEW link, Pointers(link, N), NEW s \in Seq(N), NEW start, IsList(link, start, s)
  PROVE  Reach(link, start) = {s[n] : n \in 1 .. Len(s)}
<1>1. /\ Len(s) \in Nat /\ \A n \in 1 .. Len(s) : s[n] \in N
  BY NodesOf
<1>2. NULL \notin N
  BY DEF Pointers
<1>3. /\ Len(s) = 0 => start = NULL
      /\ Len(s) > 0 => start = s[1] /\ start \in N /\ link[s[Len(s)]] = NULL
      /\ \A n \in 1 .. Len(s) - 1 : link[s[n]] = s[n + 1] /\ s[n + 1] \in N /\ s[n + 1] # NULL
  BY <1>2, ListIs
<1>4. start \in N \cup {NULL}
  BY <1>1, <1>3
<1> DEFINE R == Reach(link, start)
           S == {s[n] : n \in 1 .. Len(s)}
<1>5. R \subseteq S
  <2>1. Holds(S, start)
    <3>1. start # NULL => start = s[1] /\ 1 \in 1 .. Len(s)
      BY <1>1, <1>3
    <3> QED
      BY <3>1 DEF Holds
  <2>2. ASSUME NEW p \in S PROVE Holds(S, link[p])
    <3>1. PICK n \in 1 .. Len(s) : p = s[n]
      OBVIOUS
    <3>2. CASE n = Len(s)
      <4>1. link[p] = NULL
        BY <1>1, <1>3, <3>1, <3>2
      <4> QED
        BY <4>1 DEF Holds
    <3>3. CASE n # Len(s)
      <4>1. n \in 1 .. Len(s) - 1 /\ n + 1 \in 1 .. Len(s)
        BY <1>1, <3>3
      <4>2. link[p] = s[n + 1]
        BY <1>3, <3>1, <4>1
      <4> QED
        BY <4>1, <4>2 DEF Holds
    <3> QED
      BY <3>2, <3>3
  <2> HIDE DEF S
  <2> QED
    BY <1>4, <2>1, <2>2, ReachLeast
<1>6. S \subseteq R
  <2>1. /\ R \subseteq N /\ (start # NULL => start \in R)
        /\ \A p \in R : link[p] # NULL => link[p] \in R
    BY <1>4, ReachCloses
  <2>2. Holds(R, start) /\ \A p \in R \cap N : Holds(R, link[p])
    BY <2>1 DEF Holds
  <2>3. \A n \in 1 .. Len(s) : s[n] \in R
    <3> HIDE DEF R
    <3> QED
      BY <1>2, <2>2, AlongList
  <2> QED
    BY <2>3
<1> QED
  BY <1>5, <1>6

(* The loop to the end stops at the last node. *)
LEMMA ListEnds ==
  ASSUME NEW N, NEW link, Pointers(link, N), NEW s \in Seq(N), NEW start, IsList(link, start, s)
  PROVE  /\ Len(s) > 0 => EndOf(link, start) = s[Len(s)]
         /\ ~Circular(link, start)
<1>1. /\ Len(s) \in Nat /\ NULL \notin N
      /\ Reach(link, start) = {s[n] : n \in 1 .. Len(s)}
  BY NodesOf, ListReach DEF Pointers
<1>2. /\ Len(s) = 0 => start = NULL
      /\ Len(s) > 0 => link[s[Len(s)]] = NULL
      /\ \A n \in 1 .. Len(s) - 1 : link[s[n]] = s[n + 1] /\ s[n + 1] # NULL
  BY <1>1, ListIs
<1>3. CASE Len(s) = 0
  BY <1>2, <1>3 DEF Circular
<1>4. CASE Len(s) > 0
  <2>1. s[Len(s)] \in Reach(link, start) /\ link[s[Len(s)]] = NULL
    BY <1>1, <1>2, <1>4
  <2>2. ASSUME NEW p \in Reach(link, start), link[p] = NULL PROVE p = s[Len(s)]
    <3>1. PICK n \in 1 .. Len(s) : p = s[n]
      BY <1>1
    <3>2. n \notin 1 .. Len(s) - 1
      BY <1>2, <2>2, <3>1
    <3>3. n = Len(s)
      BY <1>1, <3>2
    <3> QED
      BY <3>1, <3>3
  <2>3. EndOf(link, start) = s[Len(s)]
    BY <2>1, <2>2 DEF EndOf
  <2> QED
    BY <2>1, <2>3 DEF Circular
<1> QED
  BY <1>1, <1>3, <1>4

(* No node is twice in a list: from both places it would go on alike, and  *)
(* only one of them can be as far from the end.                            *)
LEMMA ListDiffers ==
  ASSUME NEW N, NULL \notin N, NEW s \in Seq(N), NEW link, NEW start, IsList(link, start, s),
         NEW i \in 1 .. Len(s), NEW j \in 1 .. Len(s), i < j
  PROVE  s[i] # s[j]
<1>1. Len(s) \in Nat
  BY NodesOf
<1>2. /\ link[s[Len(s)]] = NULL
      /\ \A n \in 1 .. Len(s) - 1 : link[s[n]] = s[n + 1] /\ s[n + 1] # NULL
  BY <1>1, ListIs
<1> SUFFICES ASSUME s[i] = s[j] PROVE FALSE
  OBVIOUS
<1> DEFINE T == {k \in 0 .. Len(s) - j : s[i + k] # s[j + k]}
<1>3. T = {}
  <2> SUFFICES ASSUME T # {} PROVE FALSE
    OBVIOUS
  <2>1. PICK m \in T : \A n \in T : m <= n
    <3>1. T \subseteq Nat
      OBVIOUS
    <3> HIDE DEF T
    <3> QED
      BY <3>1, Least
  <2>2. m \in 0 .. Len(s) - j /\ s[i + m] # s[j + m]
    OBVIOUS
  <2>3. m # 0
    <3> SUFFICES ASSUME m = 0 PROVE FALSE
      OBVIOUS
    <3>1. i + m = i /\ j + m = j
      OBVIOUS
    <3> QED
      BY <2>2, <3>1
  <2>4. PICK k \in Nat : m = k + 1
    BY <1>1, <2>2, <2>3
  <2>5. k \in 0 .. Len(s) - j /\ ~(m <= k)
    BY <1>1, <2>2, <2>4
  <2>6. s[i + k] = s[j + k]
    BY <2>1, <2>5
  <2>7. /\ i + k \in 1 .. Len(s) - 1 /\ j + k \in 1 .. Len(s) - 1
        /\ i + m = i + k + 1 /\ j + m = j + k + 1
    BY <1>1, <2>2, <2>4
  <2>8. s[i + k + 1] = link[s[i + k]] /\ s[j + k + 1] = link[s[j + k]]
    BY <1>2, <2>7
  <2> QED
    BY <2>2, <2>6, <2>7, <2>8
<1>4. PICK k \in 0 .. Len(s) - j : k = Len(s) - j
  BY <1>1
<1>5. j + k = Len(s) /\ i + k \in 1 .. Len(s) - 1
  BY <1>1, <1>4
<1>6. s[i + k] = s[j + k]
  BY <1>3, <1>4
<1> QED
  BY <1>2, <1>5, <1>6

(* How a list is made: node by node. *)
LEMMA MakeList ==
  ASSUME NEW N, NEW s \in Seq(N), NEW link, NEW start,
         Len(s) = 0 => start = NULL,
         Len(s) > 0 => start = s[1] /\ link[s[Len(s)]] = NULL,
         \A n \in 1 .. Len(s) - 1 : link[s[n]] = s[n + 1]
  PROVE  IsList(link, start, s)
<1>1. Len(s) \in Nat /\ (Len(s) = 0 <=> s = << >>)
  BY LenProperties, EmptySeq
<1>2. start = IF s = << >> THEN NULL ELSE s[1]
  BY <1>1
<1>3. ASSUME NEW n \in 1 .. Len(s)
      PROVE  link[s[n]] = IF n = Len(s) THEN NULL ELSE s[n + 1]
  <2>1. CASE n = Len(s)
    BY <1>1, <2>1
  <2>2. CASE n # Len(s)
    <3>1. n \in 1 .. Len(s) - 1
      BY <1>1, <2>2
    <3> QED
      BY <2>2, <3>1
  <2> QED
    BY <2>1, <2>2
<1> QED
  BY <1>2, <1>3 DEF IsList

(* Pointers of other nodes do not matter. *)
LEMMA ListSame ==
  ASSUME NEW N, NEW s \in Seq(N), NEW link, NEW start, IsList(link, start, s),
         NEW other, \A n \in 1 .. Len(s) : other[s[n]] = link[s[n]]
  PROVE  IsList(other, start, s)
  BY DEF IsList

LEMMA ListAppended ==
  ASSUME NEW N, NULL \notin N, NEW s \in Seq(N), NEW link, NEW start, IsList(link, start, s),
         NEW p \in N, NEW other, other[p] = NULL,
         \A n \in 1 .. Len(s) - 1 : other[s[n]] = link[s[n]],
         Len(s) > 0 => other[s[Len(s)]] = p,
         NEW first, first = IF Len(s) = 0 THEN p ELSE start
  PROVE  IsList(other, first, Append(s, p))
<1> DEFINE t == Append(s, p)
<1>1. /\ t \in Seq(N) /\ Len(t) = Len(s) + 1 /\ t[Len(s) + 1] = p /\ Len(s) \in Nat
      /\ \A n \in 1 .. Len(s) : t[n] = s[n]
  BY AppendProperties, LenProperties
<1>2. /\ Len(s) > 0 => start = s[1]
      /\ \A n \in 1 .. Len(s) - 1 : link[s[n]] = s[n + 1]
  BY ListIs
<1> HIDE DEF t
<1>3. Len(t) > 0 /\ first = t[1] /\ other[t[Len(t)]] = NULL
  BY <1>1, <1>2
<1>4. ASSUME NEW n \in 1 .. Len(t) - 1 PROVE other[t[n]] = t[n + 1]
  <2>1. CASE n = Len(s)
    BY <1>1, <2>1
  <2>2. CASE n # Len(s)
    <3>1. n \in 1 .. Len(s) - 1 /\ n \in 1 .. Len(s) /\ n + 1 \in 1 .. Len(s)
      BY <1>1, <2>2
    <3> QED
      BY <1>1, <1>2, <3>1
  <2> QED
    BY <2>1, <2>2
<1>5. IsList(other, first, t)
  BY SMTT(30), <1>1, <1>3, <1>4, MakeList
<1> QED
  BY <1>5 DEF t

(* r is s without its n-th node. *)
IsWithout(r, s, i) ==
  /\ Len(r) = Len(s) - 1
  /\ \A n \in 1 .. Len(s) - 1 : r[n] = IF n < i THEN s[n] ELSE s[n + 1]

LEMMA ListPushed ==
  ASSUME NEW N, NULL \notin N, NEW s \in Seq(N), NEW link, NEW start, IsList(link, start, s),
         NEW p \in N, NEW other, other[p] = start,
         \A n \in 1 .. Len(s) : other[s[n]] = link[s[n]],
         NEW t \in Seq(N), Len(t) = Len(s) + 1, t[1] = p,
         \A n \in 1 .. Len(s) : t[n + 1] = s[n]
  PROVE  IsList(other, p, t)
<1>1. Len(s) \in Nat
  BY LenProperties
<1>2. /\ Len(s) = 0 => start = NULL
      /\ Len(s) > 0 => start = s[1] /\ link[s[Len(s)]] = NULL
      /\ \A n \in 1 .. Len(s) - 1 : link[s[n]] = s[n + 1]
  BY ListIs
<1>3. other[t[Len(t)]] = NULL
  <2>1. CASE Len(s) = 0
    BY <1>2, <2>1
  <2>2. CASE Len(s) > 0
    <3>1. Len(s) \in 1 .. Len(s)
      BY <1>1, <2>2
    <3> QED
      BY <1>2, <2>2, <3>1
  <2> QED
    BY <1>1, <2>1, <2>2
<1>4. ASSUME NEW n \in 1 .. Len(t) - 1 PROVE other[t[n]] = t[n + 1]
  <2>1. CASE n = 1
    <3>1. 1 \in 1 .. Len(s) /\ Len(s) > 0
      BY <1>1, <2>1
    <3> QED
      BY <1>2, <2>1, <3>1
  <2>2. CASE n # 1
    <3>1. PICK m \in 1 .. Len(s) - 1 : n = m + 1
      <4>1. Len(t) - 1 = Len(s)
        BY <1>1
      <4>2. n - 1 \in 1 .. Len(s) - 1 /\ n = (n - 1) + 1
        BY <1>1, <2>2, <4>1
      <4> QED
        BY <4>2
    <3>2. m \in 1 .. Len(s) /\ n \in 1 .. Len(s)
      BY <1>1, <3>1
    <3>3. t[n] = s[m] /\ t[n + 1] = s[n] /\ other[s[m]] = s[n]
      BY <1>2, <3>1, <3>2
    <3> QED
      BY <3>3
  <2> QED
    BY <2>1, <2>2
<1>5. Len(t) > 0
  BY <1>1
<1> QED
  BY <1>3, <1>4, <1>5, MakeList

LEMMA ListWithout ==
  ASSUME NEW N, NULL \notin N, NEW s \in Seq(N), NEW link, NEW start, IsList(link, start, s),
         NEW i \in 1 .. Len(s), NEW r \in Seq(N), IsWithout(r, s, i),
         NEW other,
         \A n \in 1 .. Len(s) : n # i =>
           other[s[n]] = IF link[s[n]] = s[i] THEN link[s[i]] ELSE link[s[n]],
         NEW first, first = IF start = s[i] THEN link[s[i]] ELSE start
  PROVE  IsList(other, first, r)
<1>1. /\ Len(s) \in Nat /\ Len(r) = Len(s) - 1 /\ \A n \in 1 .. Len(s) : s[n] \in N
      /\ \A n \in 1 .. Len(s) - 1 : r[n] = IF n < i THEN s[n] ELSE s[n + 1]
  BY NodesOf DEF IsWithout
<1>2. /\ start = s[1] /\ link[s[Len(s)]] = NULL
      /\ \A n \in 1 .. Len(s) - 1 : link[s[n]] = s[n + 1]
  <2>1. Len(s) > 0
    BY <1>1
  <2> QED
    BY <2>1, ListIs
<1>3. \A n \in 1 .. Len(s) : n # i => s[n] # s[i]
  <2>1. ASSUME NEW n \in 1 .. Len(s), n # i PROVE s[n] # s[i]
    <3>1. n < i \/ i < n
      BY <1>1, <2>1
    <3> QED
      BY <3>1, ListDiffers
  <2> QED
    BY <2>1
<1>4. s[i] # NULL
  BY <1>1
<1>5. ASSUME i > 1 PROVE other[s[i - 1]] = link[s[i]]
  <2>1. PICK m \in 1 .. Len(s) - 1 : i = m + 1
    BY <1>1, <1>5
  <2>2. m \in 1 .. Len(s) /\ m # i /\ link[s[m]] = s[i] /\ i - 1 = m
    BY <1>1, <1>2, <2>1
  <2> QED
    BY <2>2
<1>6. ASSUME NEW n \in 1 .. Len(s), n # i, n + 1 # i PROVE other[s[n]] = link[s[n]]
  <2>1. CASE n = Len(s)
    BY <1>2, <1>4, <1>6, <2>1
  <2>2. CASE n # Len(s)
    <3>1. PICK k \in 1 .. Len(s) : k = n + 1 /\ n \in 1 .. Len(s) - 1
      BY <1>1, <2>2
    <3>2. link[s[n]] = s[k] /\ s[k] # s[i]
      BY <1>2, <1>3, <1>6, <3>1
    <3> QED
      BY <1>6, <3>2
  <2> QED
    BY <2>1, <2>2
<1>7. CASE Len(s) = 1
  <2>1. i = 1 /\ Len(r) = 0 /\ first = NULL
    BY <1>1, <1>2, <1>7
  <2>2. ~(Len(r) > 0) /\ \A n \in 1 .. Len(r) - 1 : FALSE
    BY <2>1
  <2> QED
    BY <2>1, <2>2, MakeList
<1>8. CASE Len(s) > 1
  <2>1. 1 \in 1 .. Len(s) - 1 /\ 1 \in 1 .. Len(s)
    BY <1>1, <1>8
  <2>2. first = r[1]
    <3>1. CASE i = 1
      <4>1. link[s[1]] = s[1 + 1] /\ r[1] = s[1 + 1]
        BY <1>1, <1>2, <2>1, <3>1
      <4> QED
        BY <1>2, <3>1, <4>1
    <3>2. CASE i # 1
      <4>1. s[1] # s[i] /\ 1 < i
        BY <1>1, <1>3, <2>1, <3>2
      <4>2. r[1] = s[1]
        BY <1>1, <2>1, <4>1
      <4> QED
        BY <1>2, <4>1, <4>2
    <3> QED
      BY <3>1, <3>2
  <2>3. other[r[Len(r)]] = NULL
    <3>1. PICK m \in 1 .. Len(s) - 1 : m = Len(s) - 1
      BY <1>1, <1>8
    <3>2. m \in 1 .. Len(s) /\ m + 1 = Len(s) /\ m + 1 \in 1 .. Len(s) /\ Len(r) = m
      BY <1>1, <3>1
    <3>3. CASE i = Len(s)
      <4>1. r[m] = s[m] /\ i > 1 /\ i - 1 = m
        BY <1>1, <3>1, <3>2, <3>3
      <4>2. other[s[m]] = NULL
        BY <1>2, <1>5, <3>3, <4>1
      <4> QED
        BY <3>2, <4>1, <4>2
    <3>4. CASE i # Len(s)
      <4>1. r[m] = s[m + 1] /\ s[m + 1] = s[Len(s)]
        BY <1>1, <3>1, <3>2, <3>4
      <4>2. other[s[Len(s)]] = link[s[Len(s)]]
        <5>1. Len(s) \in 1 .. Len(s) /\ Len(s) # i /\ Len(s) + 1 # i
          BY <1>1, <1>8, <3>4
        <5> QED
          BY <1>6, <5>1
      <4> QED
        BY <1>2, <3>2, <4>1, <4>2
    <3> QED
      BY <3>3, <3>4
  <2>4. ASSUME NEW n \in 1 .. Len(r) - 1 PROVE other[r[n]] = r[n + 1]
    <3>1. PICK k \in 1 .. Len(s) - 1 : k = n + 1
      BY <1>1
    <3>2. /\ n \in 1 .. Len(s) - 1 /\ n \in 1 .. Len(s) /\ k \in 1 .. Len(s)
          /\ n + 1 = k /\ k + 1 \in 1 .. Len(s)
      BY <1>1, <3>1
    <3>3. CASE k < i
      <4>1. r[n] = s[n] /\ r[k] = s[k] /\ n # i /\ n + 1 # i
        BY <1>1, <3>1, <3>2, <3>3
      <4>2. other[s[n]] = s[k]
        BY <1>2, <1>6, <3>2, <4>1
      <4> QED
        BY <3>2, <4>1, <4>2
    <3>4. CASE k = i
      <4>1. r[n] = s[n] /\ r[k] = s[k + 1] /\ i - 1 = n /\ i > 1
        BY <1>1, <3>1, <3>2, <3>4
      <4>2. other[s[n]] = s[k + 1]
        BY <1>2, <1>5, <3>4, <4>1
      <4> QED
        BY <3>2, <4>1, <4>2
    <3>5. CASE k > i
      <4>1. r[n] = s[k] /\ r[k] = s[k + 1] /\ k # i /\ k + 1 # i
        BY <1>1, <3>1, <3>2, <3>5
      <4>2. other[s[k]] = s[k + 1]
        BY <1>2, <1>6, <3>2, <4>1
      <4> QED
        BY <3>2, <4>1, <4>2
    <3> QED
      BY <1>1, <3>3, <3>4, <3>5
  <2>5. Len(r) > 0
    BY <1>1, <1>8
  <2> QED
    BY <2>2, <2>3, <2>4, <2>5, MakeList
<1> QED
  BY <1>1, <1>7, <1>8

LEMMA ListPopped ==
  ASSUME NEW N, NULL \notin N, NEW s \in Seq(N), NEW link, NEW start, IsList(link, start, s),
         Len(s) > 0, NEW r \in Seq(N), IsWithout(r, s, 1)
  PROVE  IsList(link, link[start], r)
<1>1. /\ Len(s) \in Nat /\ start = s[1]
      /\ \A n \in 1 .. Len(s) - 1 : link[s[n]] = s[n + 1]
  BY NodesOf, ListIs
<1>2. 1 \in 1 .. Len(s)
  BY <1>1
<1>3. ASSUME NEW n \in 1 .. Len(s) PROVE link[s[n]] # s[1]
  <2>1. CASE n = Len(s)
    <3>1. link[s[Len(s)]] = NULL /\ s[1] # NULL
      BY <1>2, ListIs, NodesOf
    <3> QED
      BY <2>1, <3>1
  <2>2. CASE n # Len(s)
    <3>1. PICK k \in 1 .. Len(s) : k = n + 1 /\ n \in 1 .. Len(s) - 1 /\ 1 < k
      BY <1>1, <2>2
    <3>2. s[1] # s[k]
      BY <1>2, <3>1, ListDiffers
    <3> QED
      BY <1>1, <3>1, <3>2
  <2> QED
    BY <2>1, <2>2
<1>4. link[start] = IF start = s[1] THEN link[s[1]] ELSE start
  BY <1>1
<1>5. \A n \in 1 .. Len(s) : n # 1 =>
        link[s[n]] = IF link[s[n]] = s[1] THEN link[s[1]] ELSE link[s[n]]
  BY <1>3
<1> QED
  BY <1>2, <1>4, <1>5, ListWithout
=============================================================================
