--------------------------- MODULE NetGroupProofs ---------------------------
(***************************************************************************)
(* What holds of the smaller parts of src/NetGroup.c, for all parameters:  *)
(* what the message server sends to the hosts, and keeps in its buffer;    *)
(* what a sender of datagrams is told; when the alarms of a host are       *)
(* called.                                                                 *)
(***************************************************************************)
EXTENDS MessageServer, SendMessage, Alarms, LinkProofs, SequenceTheorems, FiniteSetTheorems,
        WellFoundedInduction

-----------------------------------------------------------------------------
(* The message server. *)

(* One mark, one message length and one set of marked hosts per datagram;  *)
(* marks are those of datagrams that have come.                            *)
CastsTyped ==
  /\ outlens \in Seq(Nat) /\ marked \in Seq(SUBSET Receivers) /\ Len(outlens) = Len(marked)
  /\ _bcast \in [Receivers -> Nat] /\ \A h \in Receivers : _bcast[h] <= Len(marked)
  /\ sent \subseteq Receivers \X (1 .. Len(marked)) \X (1 .. Len(marked))

(* A mark that has stayed is of a datagram without a message. *)
StaleMarksUnsent == \A h \in Receivers : _bcast[h] > 0 => outlens[_bcast[h]] = 0

CastsInv == CastsTyped /\ StaleMarksUnsent /\ CastsFollowMarks

LEMMA InitCasts == ServerInit => CastsInv
<1> SUFFICES ASSUME ServerInit PROVE CastsInv
  OBVIOUS
<1>1. CastsTyped
  BY DEF ServerInit, CastsTyped
<1>2. StaleMarksUnsent /\ CastsFollowMarks
  BY DEF ServerInit, StaleMarksUnsent, CastsFollowMarks
<1> QED
  BY <1>1, <1>2 DEF CastsInv

LEMMA ReceiverSizes == \A h \in Receivers : ParameterSizes[h] \in Nat
  BY SizesAssumption DEF Receivers

(* One datagram: its marks, what is sent, and the marks that stay. *)
LEMMA DatagramCasts ==
  ASSUME CastsInv, NEW n \in DatagramSizes, NEW res, NEW marks \in SUBSET Receivers,
         NEW out \in OutLengths, Datagram(n, res, marks, out)
  PROVE  CastsInv'
<1> DEFINE number == Len(marked) + 1
           marking == [h \in Receivers |-> IF h \in marks THEN number ELSE _bcast[h]]
<1>1. /\ number \in Nat /\ out \in Nat
      /\ outlens' = Append(outlens, out) /\ marked' = Append(marked, marks)
      /\ sent' = sent \cup {<<h, number, marking[h]>> : h \in Casts(marking, out)}
      /\ _bcast' = Unmark(marking, out)
  BY SizesAssumption DEF Datagram, CastsInv, CastsTyped
<1>2. /\ outlens' \in Seq(Nat) /\ marked' \in Seq(SUBSET Receivers)
      /\ Len(outlens') = number /\ Len(marked') = number
      /\ DOMAIN marked' = 1 .. number /\ DOMAIN marked = 1 .. number - 1
      /\ outlens'[number] = out /\ marked'[number] = marks
      /\ \A d \in 1 .. number - 1 : outlens'[d] = outlens[d] /\ marked'[d] = marked[d]
  BY <1>1 DEF CastsInv, CastsTyped
<1>3. \A h \in Receivers : marking[h] \in 0 .. number
  BY <1>1 DEF CastsInv, CastsTyped
<1>4. \A h \in Casts(marking, out) :
        /\ h \in Receivers /\ marking[h] \in 1 .. number /\ out > 0 /\ out <= ParameterSizes[h]
  BY <1>1, <1>3 DEF Casts
<1>5. \A h \in Receivers : marking[h] > 0 /\ marking[h] # number => outlens'[marking[h]] = 0
  BY <1>1, <1>2, <1>3 DEF CastsInv, CastsTyped, StaleMarksUnsent
<1>6. CastsTyped'
  <2>1. sent' \subseteq Receivers \X (1 .. Len(marked')) \X (1 .. Len(marked'))
    BY <1>1, <1>2, <1>4 DEF CastsInv, CastsTyped
  <2>2. _bcast' \in [Receivers -> Nat] /\ \A h \in Receivers : _bcast'[h] <= number
    BY <1>1, <1>3 DEF Unmark
  <2> QED
    BY <1>2, <2>1, <2>2 DEF CastsTyped
<1>7. StaleMarksUnsent'
  <2>1. CASE out > 0
    BY <1>1, <2>1 DEF Unmark, StaleMarksUnsent
  <2>2. CASE out = 0
    BY <1>1, <1>2, <1>3, <1>5, <2>2 DEF Unmark, StaleMarksUnsent
  <2> QED
    BY <1>1, <2>1, <2>2
<1>8. CastsFollowMarks'
  <2>1. ASSUME NEW c \in sent'
        PROVE  /\ c[3] = c[2] \/ outlens'[c[3]] = 0
               /\ outlens'[c[2]] <= ParameterSizes[c[1]]
    <3>1. CASE c \in sent
      <4>1. c[2] \in 1 .. number - 1 /\ c[3] \in 1 .. number - 1
        BY <1>1, <3>1 DEF CastsInv, CastsTyped
      <4>2. /\ c[3] = c[2] \/ outlens[c[3]] = 0
            /\ outlens[c[2]] <= ParameterSizes[c[1]]
        BY <3>1 DEF CastsInv, CastsFollowMarks
      <4> QED
        BY <1>2, <4>1, <4>2
    <3>2. CASE c \notin sent
      <4>1. PICK h \in Casts(marking, out) : c = <<h, number, marking[h]>>
        BY <1>1, <2>1, <3>2
      <4> QED
        BY <1>2, <1>4, <1>5, <4>1
    <3> QED
      BY <3>1, <3>2
  <2>2. ASSUME NEW d \in DOMAIN marked', NEW h \in marked'[d],
               outlens'[d] \in 1 .. ParameterSizes[h]
        PROVE  <<h, d, d>> \in sent'
    <3>1. CASE d = number
      <4>1. h \in Receivers /\ marking[h] = number
        BY <1>2, <3>1
      <4>2. h \in Casts(marking, out)
        BY <1>1, <1>2, <2>2, <3>1, <4>1, ReceiverSizes DEF Casts
      <4> QED
        BY <1>1, <3>1, <4>1, <4>2
    <3>2. CASE d # number
      <4>1. d \in DOMAIN marked /\ h \in marked[d] /\ outlens[d] \in 1 .. ParameterSizes[h]
        BY <1>1, <1>2, <2>2, <3>2
      <4> QED
        BY <1>1, <4>1 DEF CastsInv, CastsFollowMarks
    <3> QED
      BY <3>1, <3>2
  <2> QED
    BY <2>1, <2>2 DEF CastsFollowMarks
<1> QED
  BY <1>6, <1>7, <1>8 DEF CastsInv

LEMMA StepCasts == CastsInv /\ [ServerNext]_serverVars => CastsInv'
<1> SUFFICES ASSUME CastsInv, [ServerNext]_serverVars PROVE CastsInv'
  OBVIOUS
<1>1. CASE UNCHANGED <<outlens, marked, _bcast, sent>>
  BY <1>1 DEF CastsInv, CastsTyped, StaleMarksUnsent, CastsFollowMarks
<1>2. CASE Leave \/ UNCHANGED serverVars
  BY <1>1, <1>2 DEF Leave, serverVars, stream
<1>3. CASE ServerNext /\ ~Leave
  BY <1>3, DatagramCasts DEF ServerNext
<1> QED
  BY <1>2, <1>3

(* A message of the server's goes to the hosts that the decoder has marked *)
(* for it and that can hold it, and to others only because of a mark that  *)
(* an earlier datagram without a message has left.                         *)
THEOREM CastsFollow == ServerSpec => []CastsFollowMarks
<1>1. CastsInv => CastsFollowMarks
  BY DEF CastsInv
<1> QED
  BY <1>1, InitCasts, StepCasts, PTL DEF ServerSpec
-----------------------------------------------------------------------------
(* The buffer. *)

(* What the byte at position i of `length` should be, when `total` have    *)
(* arrived, and one is missing after the first `before` of them.           *)
Due(total, length, before, i) == total - length + i - (IF i <= before THEN 1 ELSE 0)

HoldsNewest(bytes, total, later, before) ==
  \A i \in 1 .. Len(bytes) :
    /\ bytes[i] \in Due(total, Len(bytes), before, i) .. total
    /\ i \notin later => bytes[i] = Due(total, Len(bytes), before, i)

(* The missing byte is of the first half, where halving has left it. *)
BufferInv ==
  /\ buffersize \in Nat \ {0} /\ arrivals \in Nat /\ pbuffer \in Seq(Nat)
  /\ cursor < buffersize
  /\ \E before \in 0 .. Half :
       /\ buffersize % 2 = 0 => before = 0
       /\ before <= cursor
       /\ HoldsNewest(pbuffer, arrivals, mixed, before)

LEMMA MinOf ==
  ASSUME NEW a \in Nat, NEW b \in Nat
  PROVE  Min({a, b}) = IF a <= b THEN a ELSE b
<1>1. \E x \in {a, b} : \A y \in {a, b} : x <= y
  OBVIOUS
<1>2. \A x, z \in {a, b} : (\A y \in {a, b} : x <= y) /\ (\A y \in {a, b} : z <= y) => x = z
  OBVIOUS
<1> QED
  BY <1>1, <1>2 DEF Min

(* A piece of a sequence. *)
LEMMA Piece ==
  ASSUME NEW s \in Seq(Nat), NEW m \in 1 .. Len(s) + 1, NEW n \in m - 1 .. Len(s)
  PROVE  /\ SubSeq(s, m, n) \in Seq(Nat) /\ Len(SubSeq(s, m, n)) = n - m + 1
         /\ \A i \in 1 .. n - m + 1 : SubSeq(s, m, n)[i] = s[m + i - 1]
<1>1. \A i \in m .. n : s[i] \in Nat
  BY ElementOfSeq
<1>2. m \in Int /\ n \in Int
  OBVIOUS
<1> QED
  BY <1>1, <1>2, SubSeqProperties

LEMMA SecondHalf ==
  ASSUME NEW s \in Seq(Nat), NEW h \in Nat, 2 * h <= Len(s)
  PROVE  /\ SubSeq(s, h + 1, 2 * h) \in Seq(Nat) /\ Len(SubSeq(s, h + 1, 2 * h)) = h
         /\ \A i \in 1 .. h : SubSeq(s, h + 1, 2 * h)[i] = s[h + i]
<1>1. PICK m \in 1 .. Len(s) + 1 : m = h + 1
  BY LenProperties
<1>2. PICK n \in m - 1 .. Len(s) : n = 2 * h
  BY <1>1, LenProperties
<1>3. n - m + 1 = h /\ \A i \in 1 .. h : m + i - 1 = h + i
  BY <1>1, <1>2
<1>4. /\ SubSeq(s, m, n) \in Seq(Nat) /\ Len(SubSeq(s, m, n)) = n - m + 1
      /\ \A i \in 1 .. n - m + 1 : SubSeq(s, m, n)[i] = s[m + i - 1]
  BY Piece
<1>5. /\ SubSeq(s, m, n) \in Seq(Nat) /\ Len(SubSeq(s, m, n)) = h
      /\ \A i \in 1 .. h : SubSeq(s, m, n)[i] = s[h + i]
  BY <1>3, <1>4
<1> QED
  BY <1>1, <1>2, <1>5, Zenon

LEMMA NewBytes ==
  ASSUME NEW a \in Nat, NEW m \in Nat
  PROVE  [i \in 1 .. m |-> a + i] \in Seq(Nat) /\ Len([i \in 1 .. m |-> a + i]) = m
<1>1. \A i \in 1 .. m : a + i \in Nat
  OBVIOUS
<1> QED
  BY <1>1

(* The lengths of a datagram. *)
LEMMA Received ==
  ASSUME buffersize \in Nat, cursor \in Nat, cursor < buffersize, NEW n \in Nat \ {0},
         NEW nread, nread = Min({n, buffersize - cursor})
  PROVE  nread \in Nat /\ nread > 0 /\ cursor + nread <= buffersize
<1>1. buffersize - cursor \in Nat /\ buffersize - cursor > 0
  OBVIOUS
<1>2. nread = IF n <= buffersize - cursor THEN n ELSE buffersize - cursor
  BY <1>1, MinOf
<1> QED
  BY <1>1, <1>2

LEMMA HalfSize ==
  ASSUME buffersize \in Nat \ {0}
  PROVE  /\ Half \in Nat /\ Half < buffersize /\ buffersize - 2 * Half \in {0, 1}
         /\ buffersize % 2 = buffersize - 2 * Half
BY DEF Half

(* Bytes that arrive are the newest ones. *)
LEMMA AppendedBytes ==
  ASSUME NEW s \in Seq(Nat), NEW total \in Nat, NEW m \in Nat, NEW later, NEW before \in Nat,
         before <= Len(s), HoldsNewest(s, total, later, before)
  PROVE  HoldsNewest(s \o [i \in 1 .. m |-> total + i], total + m, later, before)
<1> DEFINE new == [i \in 1 .. m |-> total + i]
           bytes == s \o new
<1>1. new \in Seq(Nat) /\ Len(new) = m /\ \A i \in 1 .. m : new[i] = total + i
  BY NewBytes
<1> HIDE DEF new
<1>2. /\ Len(bytes) = Len(s) + m /\ Len(s) \in Nat
      /\ \A i \in 1 .. Len(s) + m : bytes[i] = IF i <= Len(s) THEN s[i] ELSE new[i - Len(s)]
  BY <1>1, ConcatProperties, LenProperties
<1> HIDE DEF bytes
<1>3. ASSUME NEW i \in 1 .. Len(bytes)
      PROVE  /\ bytes[i] \in Due(total + m, Len(bytes), before, i) .. total + m
             /\ i \notin later => bytes[i] = Due(total + m, Len(bytes), before, i)
  <2>1. CASE i <= Len(s)
    <3>1. i \in 1 .. Len(s) /\ bytes[i] = s[i] /\ s[i] \in Nat
      BY <1>2, <2>1, ElementOfSeq
    <3>2. Due(total + m, Len(bytes), before, i) = Due(total, Len(s), before, i)
      BY <1>2, <3>1 DEF Due
    <3>3. /\ s[i] \in Due(total, Len(s), before, i) .. total
          /\ i \notin later => s[i] = Due(total, Len(s), before, i)
      BY <3>1 DEF HoldsNewest
    <3>4. Due(total, Len(s), before, i) \in Int
      BY <1>2, <3>1 DEF Due
    <3> QED
      BY <3>1, <3>2, <3>3, <3>4
  <2>2. CASE i > Len(s)
    <3>1. bytes[i] = total + (i - Len(s))
      BY <1>1, <1>2, <2>2
    <3>2. Due(total + m, Len(bytes), before, i) = total - Len(s) + i
      BY <1>2, <2>2 DEF Due
    <3> QED
      BY <1>2, <2>2, <3>1, <3>2
  <2> QED
    BY <1>2, <2>1, <2>2
<1> QED
  BY <1>3 DEF HoldsNewest, bytes, new

LEMMA Multiples ==
  ASSUME NEW d \in Nat, NEW k \in Nat \ {0}
  PROVE  k * d \in Nat /\ k * d >= d /\ (k # 1 => k * d >= 2 * d)
<1>1. CASE k = 1
  BY <1>1
<1>2. CASE k # 1
  <2>1. PICK m \in Nat : k = m + 2
    <3>1. k - 2 \in Nat /\ k = (k - 2) + 2
      BY <1>2
    <3> QED
      BY <3>1
  <2>2. m * d \in Nat /\ k * d = m * d + 2 * d
    BY <2>1
  <2> QED
    BY <2>2
<1> QED
  BY <1>1, <1>2

(* What a copy leaves at a position was behind what should be there, and   *)
(* is that unless the areas overlap there.                                 *)
LEMMA Copied ==
  ASSUME NEW bytes \in Seq(Nat), NEW res \in Nat, NEW rest \in Copies(bytes, res)
  PROVE  /\ rest \in Seq(Nat)
         /\ Len(rest) = IF res <= Len(bytes) THEN Len(bytes) - res ELSE 0
         /\ \A i \in 1 .. Len(rest) :
              /\ \E j \in i + res .. Len(bytes) : rest[i] = bytes[j]
              /\ ~(res > 0 /\ i + 2 * res <= Len(bytes)) => rest[i] = bytes[i + res]
<1> DEFINE whole == SubSeq(bytes, res + 1, Len(bytes))
<1>1. Len(bytes) \in Nat
  BY LenProperties
<1>2. /\ whole \in Seq(Nat) /\ Len(whole) = IF res <= Len(bytes) THEN Len(bytes) - res ELSE 0
      /\ \A i \in 1 .. Len(whole) : whole[i] = bytes[i + res]
  <2>1. CASE res <= Len(bytes)
    <3>1. res + 1 \in 1 .. Len(bytes) + 1 /\ Len(bytes) \in (res + 1) - 1 .. Len(bytes)
      BY <1>1, <2>1
    <3>2. /\ whole \in Seq(Nat) /\ Len(whole) = Len(bytes) - (res + 1) + 1
          /\ \A i \in 1 .. Len(bytes) - (res + 1) + 1 : whole[i] = bytes[(res + 1) + i - 1]
      BY <3>1, Piece
    <3>3. /\ Len(bytes) - (res + 1) + 1 = Len(bytes) - res
          /\ \A i \in 1 .. Len(bytes) - res : (res + 1) + i - 1 = i + res
      BY <1>1
    <3> HIDE DEF whole
    <3> QED
      BY <2>1, <3>2, <3>3
  <2>2. CASE res > Len(bytes)
    <3>1. whole = << >>
      BY <1>1, <2>2
    <3> HIDE DEF whole
    <3> QED
      BY <1>1, <2>2, <3>1
  <2> QED
    BY <1>1, <2>1, <2>2
<1>3. ASSUME NEW i \in 1 .. Len(whole)
      PROVE  i + res \in i + res .. Len(bytes)
  BY <1>1, <1>2
<1>4. IF res = 0 \/ 2 * res >= Len(bytes) THEN rest = whole
      ELSE /\ rest \in [DOMAIN whole -> Range(whole)]
           /\ \A i \in DOMAIN whole : \E k \in 1 .. Len(bytes) :
                i + k * res <= Len(bytes) /\ rest[i] = bytes[i + k * res]
  BY Zenon DEF Copies
<1> HIDE DEF whole
<1>5. CASE rest = whole
  BY <1>2, <1>3, <1>5
<1>6. CASE rest # whole
  <2>1. DOMAIN whole = 1 .. Len(whole) /\ \A i \in 1 .. Len(whole) : whole[i] \in Nat
    BY <1>2, ElementOfSeq, LenProperties
  <2>2. /\ rest \in [1 .. Len(whole) -> Nat]
        /\ \A i \in 1 .. Len(whole) : \E k \in 1 .. Len(bytes) :
             i + k * res <= Len(bytes) /\ rest[i] = bytes[i + k * res]
    BY <1>4, <1>6, <2>1 DEF Range
  <2>3. rest \in Seq(Nat) /\ Len(rest) = Len(whole)
    <3>1. PICK size \in Nat : size = Len(whole)
      BY <1>1, <1>2, LenProperties
    <3>2. rest \in [1 .. size -> Nat]
      BY <2>2, <3>1
    <3>3. rest \in Seq(Nat) /\ Len(rest) = size
      BY <3>2
    <3> QED
      BY <3>1, <3>3
  <2>4. ASSUME NEW i \in 1 .. Len(whole)
        PROVE  /\ \E j \in i + res .. Len(bytes) : rest[i] = bytes[j]
               /\ ~(res > 0 /\ i + 2 * res <= Len(bytes)) => rest[i] = bytes[i + res]
    <3>1. PICK k \in 1 .. Len(bytes) : i + k * res <= Len(bytes) /\ rest[i] = bytes[i + k * res]
      BY <2>2
    <3>2. k \in Nat \ {0} /\ i \in Nat
      BY <1>1, <1>2
    <3>3. PICK d \in Nat : d = k * res /\ d >= res /\ (k # 1 => d >= 2 * res) /\ (k = 1 => d = res)
      BY <3>2, Multiples
    <3>4. i + d \in i + res .. Len(bytes)
      BY <1>1, <3>1, <3>2, <3>3
    <3>5. ~(res > 0 /\ i + 2 * res <= Len(bytes)) => d = res
      BY <1>1, <3>1, <3>2, <3>3, SMTT(30)
    <3> QED
      BY <3>1, <3>3, <3>4, <3>5
  <2> QED
    BY <1>2, <2>3, <2>4
<1> QED
  BY <1>5, <1>6

(* So the rest of the newest bytes are the newest bytes. *)
LEMMA CopiedBytes ==
  ASSUME NEW bytes \in Seq(Nat), NEW total \in Nat, NEW later, NEW before \in Nat,
         before <= Len(bytes), HoldsNewest(bytes, total, later, before),
         NEW res \in Nat, NEW rest \in Copies(bytes, res), NEW mix,
         \A i \in 1 .. Len(rest) :
           i \notin mix => i + res \notin later /\ ~(res > 0 /\ i + 2 * res <= Len(bytes))
  PROVE  LET left == IF before > res THEN before - res ELSE 0
         IN left <= Len(rest) /\ HoldsNewest(rest, total, mix, left)
<1> DEFINE left == IF before > res THEN before - res ELSE 0
<1>1. /\ rest \in Seq(Nat) /\ Len(bytes) \in Nat /\ Len(rest) \in Nat
      /\ Len(rest) = IF res <= Len(bytes) THEN Len(bytes) - res ELSE 0
  BY Copied, LenProperties
<1>2. left \in Nat /\ left <= Len(rest)
  BY <1>1, SMTT(30)
<1>3. ASSUME NEW i \in 1 .. Len(rest)
      PROVE  /\ rest[i] \in Due(total, Len(rest), left, i) .. total
             /\ i \notin mix => rest[i] = Due(total, Len(rest), left, i)
  <2>1. i + res \in 1 .. Len(bytes) /\ Len(rest) = Len(bytes) - res /\ i \in Nat
    BY <1>1
  <2>2. Due(total, Len(rest), left, i) = Due(total, Len(bytes), before, i + res)
    <3>1. i <= left <=> i + res <= before
      BY <1>1, <2>1
    <3> HIDE DEF left
    <3>2. PICK a, b \in Nat : a = Len(bytes) /\ b = Len(rest)
      BY <1>1
    <3>3. total - b + i = total - a + (i + res)
      BY <2>1, <3>2
    <3>4. CASE i <= left
      <4>1. /\ Due(total, b, left, i) = total - b + i - 1
            /\ Due(total, a, before, i + res) = total - a + (i + res) - 1
        BY <3>1, <3>4 DEF Due
      <4> QED
        BY <2>1, <3>2, <3>3, <4>1
    <3>5. CASE ~(i <= left)
      <4>1. /\ Due(total, b, left, i) = total - b + i - 0
            /\ Due(total, a, before, i + res) = total - a + (i + res) - 0
        BY <3>1, <3>5 DEF Due
      <4> QED
        BY <2>1, <3>2, <3>3, <4>1
    <3> QED
      BY <3>4, <3>5
  <2>3. PICK j \in i + res .. Len(bytes) : rest[i] = bytes[j]
    BY Copied
  <2>4. j \in 1 .. Len(bytes) /\ j >= i + res
    BY <1>1, <2>1
  <2>5. bytes[j] \in Due(total, Len(bytes), before, j) .. total
    BY <2>4 DEF HoldsNewest
  <2>6. /\ Due(total, Len(bytes), before, i + res) \in Int
        /\ Due(total, Len(bytes), before, j) \in Int
        /\ Due(total, Len(bytes), before, i + res) <= Due(total, Len(bytes), before, j)
    BY <1>1, <2>1, <2>4, SMTT(30) DEF Due
  <2>7. rest[i] \in Due(total, Len(bytes), before, i + res) .. total
    BY <2>3, <2>5, <2>6
  <2>8. i \notin mix => rest[i] = Due(total, Len(bytes), before, i + res)
    <3>1. i \notin mix => rest[i] = bytes[i + res] /\ i + res \notin later
      BY Copied, ZenonT(30)
    <3> QED
      BY <2>1, <3>1 DEF HoldsNewest
  <2> QED
    BY <2>2, <2>7, <2>8
<1>4. HoldsNewest(rest, total, mix, left)
  <2> HIDE DEF left
  <2> QED
    BY <1>3 DEF HoldsNewest
<1> QED
  BY <1>2, <1>4

(* What one datagram does to the buffer: the rest of the bytes stays, or   *)
(* half of a full buffer.                                                  *)
LEMMA DatagramBuffer ==
  ASSUME BufferInv, NEW n \in DatagramSizes, NEW res \in Nat, NEW marks, NEW out,
         Datagram(n, res, marks, out)
  PROVE  /\ BufferInv'
         /\ decoder_res' <= told' =>
              \/ Len(pbuffer') >= cursor
              \/ decoder_res' = 0 /\ cursor + told' = buffersize
<1> DEFINE nread == Min({n, buffersize - cursor})
           bytes == pbuffer \o [i \in 1 .. nread |-> arrivals + i]
           full == res = 0 /\ Len(bytes) = buffersize
<1>1. /\ n \in Nat \ {0} /\ told' = nread /\ decoder_res' = res
      /\ arrivals' = arrivals + nread /\ buffersize' = buffersize
      /\ mixed' = {i \in DOMAIN pbuffer' :
                     \/ i + (IF full THEN Half ELSE res) \in mixed
                     \/ res > 0 /\ i + 2 * res <= Len(bytes)}
  BY SizesAssumption DEF Datagram, Told
<1>2. PICK rest \in Copies(bytes, res) : pbuffer' = Shift(rest)
  BY DEF Datagram
<1>3. PICK before \in 0 .. Half :
        /\ buffersize % 2 = 0 => before = 0
        /\ before <= cursor
        /\ HoldsNewest(pbuffer, arrivals, mixed, before)
  BY DEF BufferInv
<1>4. /\ buffersize \in Nat \ {0} /\ arrivals \in Nat /\ pbuffer \in Seq(Nat)
      /\ cursor \in Nat /\ cursor < buffersize /\ cursor = Len(pbuffer)
      /\ Half \in Nat /\ Half < buffersize /\ buffersize - 2 * Half \in {0, 1}
      /\ buffersize % 2 = buffersize - 2 * Half /\ before \in Nat /\ before <= Half
  BY <1>3, HalfSize, LenProperties DEF BufferInv, cursor
<1>5. nread \in Nat /\ nread > 0 /\ cursor + nread <= buffersize
  BY <1>1, <1>4, Received
<1>6. bytes \in Seq(Nat) /\ Len(bytes) = cursor + nread
  <2>1. /\ [i \in 1 .. nread |-> arrivals + i] \in Seq(Nat)
        /\ Len([i \in 1 .. nread |-> arrivals + i]) = nread
    BY <1>4, <1>5, NewBytes
  <2> DEFINE new == [i \in 1 .. nread |-> arrivals + i]
  <2>2. new \in Seq(Nat) /\ Len(new) = nread /\ bytes = pbuffer \o new
    BY <2>1
  <2> HIDE DEF new, bytes, nread
  <2> QED
    BY <1>4, <2>2, ConcatProperties
<1>7. HoldsNewest(bytes, arrivals', mixed, before)
  BY <1>1, <1>3, <1>4, <1>5, AppendedBytes
<1> HIDE DEF nread, bytes
<1>8. rest \in Seq(Nat) /\ Len(rest) = IF res <= Len(bytes) THEN Len(bytes) - res ELSE 0
  BY <1>6, Copied
<1>9. arrivals' \in Nat /\ Len(bytes) \in Nat /\ before <= Len(bytes)
  BY <1>1, <1>3, <1>4, <1>5, <1>6
<1>10. CASE full
  <2>1. rest = bytes
    <3>1. rest = SubSeq(bytes, 1, Len(bytes))
      BY <1>2, <1>10 DEF Copies
    <3> QED
      BY <1>6, <3>1, SubSeqFull
  <2>2. pbuffer' = SubSeq(bytes, Half + 1, 2 * Half)
    BY <1>2, <1>4, <1>10, <2>1 DEF Shift
  <2>4. Len(bytes) \in {2 * Half, 2 * Half + 1} /\ 2 * Half <= Len(bytes)
    BY <1>4, <1>10
  <2>5. DOMAIN pbuffer' = 1 .. Half
    BY <1>4, <1>6, <2>2, <2>4, SecondHalf, LenProperties
  <2>6. \A i \in 1 .. Half : i \notin mixed' => i + Half \notin mixed
    BY <1>1, <1>10, <2>5
  <2>7. PICK missing \in 0 .. Half :
          /\ buffersize % 2 = 0 => missing = 0
          /\ missing = IF Len(bytes) = 2 * Half THEN 0 ELSE Half
    <3>1. CASE Len(bytes) = 2 * Half
      <4>1. 0 \in 0 .. Half
        BY <1>4
      <4> QED
        BY <3>1, <4>1
    <3>2. CASE Len(bytes) # 2 * Half
      <4>1. Half \in 0 .. Half /\ buffersize % 2 # 0
        BY <1>4, <1>10, <3>2
      <4> QED
        BY <3>2, <4>1
    <3> QED
      BY <3>1, <3>2
  <2>8. /\ pbuffer' \in Seq(Nat) /\ Len(pbuffer') = Half
        /\ \A i \in 1 .. Half : pbuffer'[i] = bytes[Half + i]
    <3>1. 2 * Half <= Len(bytes) /\ Half \in Nat
      BY <1>4, <1>9, <2>4
    <3>2. /\ SubSeq(bytes, Half + 1, 2 * Half) \in Seq(Nat)
          /\ Len(SubSeq(bytes, Half + 1, 2 * Half)) = Half
          /\ \A i \in 1 .. Half : SubSeq(bytes, Half + 1, 2 * Half)[i] = bytes[Half + i]
      BY <1>6, <3>1, SecondHalf
    <3> QED
      BY <2>2, <3>2, Zenon
  <2>10. HoldsNewest(pbuffer', arrivals', mixed', missing)
    <3>1. ASSUME NEW i \in 1 .. Half
          PROVE  /\ pbuffer'[i] \in Due(arrivals', Half, missing, i) .. arrivals'
                 /\ i \notin mixed' => pbuffer'[i] = Due(arrivals', Half, missing, i)
      <4>1. Half + i \in 1 .. Len(bytes) /\ Half + i = i + Half
        BY <1>4, <2>4
      <4>2. /\ bytes[Half + i] \in Due(arrivals', Len(bytes), before, Half + i) .. arrivals'
            /\ Half + i \notin mixed => bytes[Half + i] = Due(arrivals', Len(bytes), before, Half + i)
        BY <1>7, <4>1 DEF HoldsNewest
      <4>3. Due(arrivals', Len(bytes), before, Half + i) = Due(arrivals', Half, missing, i)
        <5>1. PICK total \in Nat, half \in Nat, size \in Nat, j \in Nat :
                total = arrivals' /\ half = Half /\ size = Len(bytes) /\ j = Half + i
          <6>1. arrivals' \in Nat /\ Half \in Nat /\ Len(bytes) \in Nat /\ Half + i \in Nat
            BY <1>4, <1>9
          <6> QED
            BY <6>1, Zenon
        <5>2. /\ before \in Nat /\ before <= half /\ i \in 1 .. half
              /\ missing \in Nat /\ missing = IF size = 2 * half THEN 0 ELSE half
              /\ size \in {2 * half, 2 * half + 1} /\ j = half + i
          BY <1>4, <2>4, <2>7, <5>1
        <5>3. Due(total, size, before, j) = total - size + j
          <6>1. ~(j <= before)
            BY <5>1, <5>2
          <6> QED
            BY <6>1 DEF Due
        <5>4. CASE size = 2 * half
          <6>1. ~(i <= missing) /\ total - size + j = total - half + i - 0
            BY <5>1, <5>2, <5>4
          <6>2. Due(total, half, missing, i) = total - half + i - 0
            BY <6>1 DEF Due
          <6> QED
            BY <5>1, <5>3, <6>1, <6>2, Zenon
        <5>5. CASE size = 2 * half + 1
          <6>1. i <= missing /\ total - size + j = total - half + i - 1
            BY <5>1, <5>2, <5>5
          <6>2. Due(total, half, missing, i) = total - half + i - 1
            BY <6>1 DEF Due
          <6> QED
            BY <5>1, <5>3, <6>1, <6>2, Zenon
        <5> QED
          BY <5>2, <5>4, <5>5, Zenon
      <4>4. pbuffer'[i] = bytes[Half + i] /\ (i \notin mixed' => Half + i \notin mixed)
        BY <2>6, <2>8, <4>1
      <4> QED
        BY <4>2, <4>3, <4>4, Zenon
    <3> QED
      BY <2>8, <3>1 DEF HoldsNewest
  <2>9. BufferInv'
    <3>1. cursor' = Half /\ Half' = Half
      BY <1>1, <2>8 DEF cursor, Half
    <3>2. missing \in 0 .. Half /\ missing <= Half /\ (buffersize % 2 = 0 => missing = 0)
      BY <1>4, <2>7
    <3> QED
      BY <1>1, <1>4, <1>9, <2>8, <2>10, <3>1, <3>2 DEF BufferInv
  <2> QED
    BY <1>1, <1>6, <1>10, <2>9
<1>11. CASE ~full
  <2>1. Len(rest) < buffersize
    <3>1. Len(bytes) \in Nat /\ Len(bytes) <= buffersize /\ buffersize \in Nat \ {0}
      BY <1>4, <1>5, <1>6, <1>9
    <3>2. ~(res = 0 /\ Len(bytes) = buffersize)
      BY <1>11
    <3>3. CASE res > Len(bytes)
      BY <1>8, <3>1, <3>3
    <3>4. CASE res <= Len(bytes)
      <4>1. Len(rest) = Len(bytes) - res
        BY <1>8, <3>4
      <4> QED
        BY <3>1, <3>2, <4>1
    <3> QED
      BY <3>1, <3>3, <3>4
  <2>2. pbuffer' = rest
    <3>1. Len(rest) \in Nat /\ buffersize \in Nat
      BY <1>4, <1>8, LenProperties
    <3>2. ~(Len(rest) >= buffersize)
      BY <2>1, <3>1
    <3> QED
      BY <1>2, <3>2, Zenon DEF Shift
  <2>3. DOMAIN pbuffer' = 1 .. Len(rest)
    BY <1>8, <2>2, LenProperties
  <2>4. \A i \in 1 .. Len(rest) :
          i \notin mixed' => i + res \notin mixed /\ ~(res > 0 /\ i + 2 * res <= Len(bytes))
    BY <1>1, <1>11, <2>3
  <2> DEFINE left == IF before > res THEN before - res ELSE 0
  <2>5. left <= Len(rest) /\ HoldsNewest(rest, arrivals', mixed', left)
    BY <1>2, <1>4, <1>6, <1>7, <1>9, <2>4, CopiedBytes, ZenonT(30)
  <2>6. left \in 0 .. Half /\ (buffersize % 2 = 0 => left = 0)
    BY <1>3, <1>4
  <2> HIDE DEF left
  <2>7. BufferInv'
    <3>1. cursor' = Len(rest) /\ Half' = Half
      BY <1>1, <2>2 DEF cursor, Half
    <3> QED
      BY <1>1, <1>4, <1>8, <1>9, <2>1, <2>2, <2>5, <2>6, <3>1 DEF BufferInv
  <2>8. decoder_res' <= told' => Len(pbuffer') >= cursor
    BY <1>1, <1>4, <1>5, <1>6, <1>8, <2>2
  <2> QED
    BY <2>7, <2>8
<1> QED
  BY <1>10, <1>11

LEMMA StepBuffer ==
  BufferInv /\ [ServerNext]_serverVars =>
    /\ BufferInv'
    /\ marked' # marked /\ decoder_res' <= told'
         => \/ Len(pbuffer') >= cursor
            \/ decoder_res' = 0 /\ cursor + told' = buffersize
<1> SUFFICES ASSUME BufferInv, [ServerNext]_serverVars
             PROVE  /\ BufferInv'
                    /\ marked' # marked /\ decoder_res' <= told'
                         => \/ Len(pbuffer') >= cursor
                            \/ decoder_res' = 0 /\ cursor + told' = buffersize
  OBVIOUS
<1>1. CASE Leave \/ UNCHANGED serverVars
  <2>1. UNCHANGED <<buffersize, pbuffer, mixed, arrivals, marked>>
    BY <1>1 DEF Leave, serverVars, stream
  <2> QED
    BY <2>1 DEF BufferInv, cursor, Half, HoldsNewest
<1>2. CASE ServerNext /\ ~Leave
  <2>1. PICK n \in DatagramSizes, res \in 0 .. buffersize + 1,
             marks \in SUBSET Receivers, out \in OutLengths : Datagram(n, res, marks, out)
    BY <1>2 DEF ServerNext
  <2>2. res \in Nat
    BY DEF BufferInv
  <2> QED
    BY <2>1, <2>2, DatagramBuffer
<1> QED
  BY <1>1, <1>2

LEMMA InitBuffer == ServerInit => BufferInv
<1> SUFFICES ASSUME ServerInit PROVE BufferInv
  OBVIOUS
<1>1. buffersize \in Nat \ {0} /\ arrivals = 0 /\ pbuffer = << >> /\ cursor = 0
  BY SizesAssumption DEF ServerInit, cursor
<1>2. Half \in Nat /\ 0 \in 0 .. Half
  BY <1>1, HalfSize
<1>3. HoldsNewest(pbuffer, arrivals, mixed, 0)
  BY <1>1 DEF HoldsNewest
<1> QED
  BY <1>1, <1>2, <1>3 DEF BufferInv

(* The buffer always has room and holds the newest bytes in the order of   *)
(* their arrival, but for the byte that an odd size loses and for later    *)
(* bytes where the areas of a copy have overlapped.                        *)
THEOREM BufferKeepsNewest == ServerSpec => []BufferHoldsNewest
<1>1. BufferInv => BufferHoldsNewest
  BY DEF BufferInv, BufferHoldsNewest, HoldsNewest, Due, cursor
<1> QED
  BY <1>1, InitBuffer, StepBuffer, PTL DEF ServerSpec

(* A decoder that never returns more than it was told never catches up     *)
(* with what it has once left over.                                        *)
THEOREM LeftOverStays == ServerSpec => LeftOverNeverShrinks
<1>1. BufferInv /\ [ServerNext]_serverVars =>
        [marked' # marked /\ decoder_res' <= told'
          => \/ Len(pbuffer') >= cursor
             \/ decoder_res' = 0 /\ cursor + told' = buffersize]_serverVars
  BY StepBuffer
<1> QED
  BY <1>1, InitBuffer, StepBuffer, PTL DEF ServerSpec, LeftOverNeverShrinks

-----------------------------------------------------------------------------
(* What a sender of datagrams is told. *)

SendTypes ==
  /\ _message_tos \in Seq(Addresses) /\ to_cs \in Seq(SUBSET Callers)
  /\ _messagebuffer \in Seq((Callers \X Nat) \cup {<< >>})
  /\ Len(to_cs) = Len(_message_tos) /\ Len(_messagebuffer) = Len(_message_tos)
  /\ at \in [Callers -> {"idle", "lock", "encode", "send", "unlock"}] /\ to \in [Callers -> Nat]
  /\ sendlen_s \in [Callers -> 0 .. Word - 1] /\ sendlen \in [Callers -> 0 .. Word - 1]
  /\ sendedlen \in [Callers -> 0 .. Word - 1]
  /\ result \in [Callers -> {-1, 0, 1}] /\ made \in [Callers -> Nat]
  /\ failed \in [Callers -> 0 .. Word]

(* A thread that is in a call, or whose last call found an entry, has it. *)
HasReturned(t) == at[t] = "idle" /\ made[t] > 0 /\ result[t] # -1

KnowsEntry(t) == at[t] # "idle" \/ HasReturned(t) => to[t] \in 1 .. Len(_message_tos)

(* Only the thread that encodes and sends holds the mutex of its entry, so *)
(* that the buffer has its own message.                                    *)
HoldsMutex(t) == at[t] \in {"encode", "send", "unlock"}

Sends(t) == at[t] \in {"send", "unlock"}

HasBuffer(t) ==
  /\ HoldsMutex(t) => to_cs[to[t]] = {t}
  /\ Sends(t) => _messagebuffer[to[t]] = <<t, made[t]>>

(* A failed sendto moves one byte from one length to the other, and one    *)
(* that succeeds exchanges them: their sum stays, but for the overflow.    *)
LengthsAddUp(t) ==
  Sends(t) => sendlen[t] + sendedlen[t] \in {sendlen_s[t], sendlen_s[t] + Word}

(* Without failures one of the lengths is 0, and which one tells what was  *)
(* sent.  With failures, bytes that are not the message's were sent, or    *)
(* the lengths tell how many failures there were.                          *)
SentWhole(t) == sendlen_s[t] > 0 => OwnPart(t, 0, sendlen_s[t]) \in wire

Unsent(t) == failed[t] = 0 /\ sendlen[t] = sendlen_s[t] /\ sendedlen[t] = 0

SentAll(t) ==
  failed[t] = 0 /\ sendlen[t] = 0 /\ sendedlen[t] = sendlen_s[t] /\ SentWhole(t)

OnlyFailed(t) ==
  /\ sendlen_s[t] > 0
  /\ failed[t] \in 1 .. Word - sendlen_s[t] /\ sendedlen[t] + failed[t] = Word
  /\ sendlen[t] = IF failed[t] = Word - sendlen_s[t] THEN 0 ELSE sendlen_s[t] + failed[t]

HasSent(t) ==
  /\ at[t] \in {"lock", "encode"} => failed[t] = 0
  /\ Sends(t) => Unsent(t) \/ SentAll(t) \/ (failed[t] > 0 /\ Strayed(t)) \/ OnlyFailed(t)

(* The loop has ended with an empty datagram. *)
SentEmpty(t) ==
  at[t] = "unlock" =>
    sendlen[t] = sendedlen[t] /\ sendlen[t] > 0 /\ OwnPart(t, sendedlen[t], 0) \in wire

Returned1(t) ==
  sendlen_s[t] > 0 =>
    \/ failed[t] = 0 /\ OwnPart(t, 0, sendlen_s[t]) \in wire
    \/ failed[t] > 0 /\ (Strayed(t) \/ failed[t] >= Word - sendlen_s[t])

Returned0(t) ==
  /\ failed[t] > 0 /\ sendlen_s[t] % 2 = 0 /\ OwnPart(t, sendedlen[t], 0) \in wire
  /\ Strayed(t) \/ 2 * failed[t] >= Word - sendlen_s[t]

IsTold(t) ==
  at[t] = "idle" /\ made[t] > 0 =>
    (result[t] = 1 => Returned1(t)) /\ (result[t] = 0 => Returned0(t))

SenderInv(t) ==
  /\ KnowsEntry(t)
  /\ HasBuffer(t)
  /\ LengthsAddUp(t)
  /\ HasSent(t)
  /\ SentEmpty(t)
  /\ IsTold(t)

SendInv == SendTypes /\ \A t \in Callers : SenderInv(t)

LEMMA SenderDefs ==
  \A t \in Callers : SenderInv(t) <=>
    /\ KnowsEntry(t)
    /\ HasBuffer(t)
    /\ LengthsAddUp(t)
    /\ HasSent(t)
    /\ SentEmpty(t)
    /\ IsTold(t)
  BY DEF SenderInv

LEMMA WrapBelow == \A a \in 0 .. Word - 1 : a % Word = a
  BY WordAssumption

LEMMA WrapOnce == \A a \in Word .. 2 * Word - 1 : a % Word = a - Word
  BY WordAssumption

(* What is asked of sendto, and what the two sums are, without and with    *)
(* the overflow.                                                           *)
LEMMA AskedIs ==
  ASSUME SendTypes, NEW t \in Callers
  PROVE  /\ Asked(t) \in 0 .. Word - 1
         /\ \/ sendlen[t] >= sendedlen[t] /\ Asked(t) = sendlen[t] - sendedlen[t]
            \/ sendlen[t] < sendedlen[t] /\ Asked(t) = sendlen[t] - sendedlen[t] + Word
<1>1. sendlen[t] \in 0 .. Word - 1 /\ sendedlen[t] \in 0 .. Word - 1 /\ Word \in Nat \ {0}
  BY WordAssumption DEF SendTypes
<1>2. CASE sendlen[t] >= sendedlen[t]
  <2>1. sendlen[t] - sendedlen[t] + Word \in Word .. 2 * Word - 1
    BY <1>1, <1>2
  <2>2. Asked(t) = sendlen[t] - sendedlen[t] + Word - Word
    <3>1. PICK sum \in Word .. 2 * Word - 1 : sum = sendlen[t] - sendedlen[t] + Word
      BY <2>1
    <3>2. sum % Word = sum - Word
      BY WrapOnce
    <3>3. Asked(t) = sum % Word
      BY <3>1, Zenon DEF Asked
    <3> QED
      BY <3>1, <3>2, <3>3, <1>1
  <2> QED
    BY <1>1, <1>2, <2>2
<1>3. CASE sendlen[t] < sendedlen[t]
  <2>1. sendlen[t] - sendedlen[t] + Word \in 0 .. Word - 1
    BY <1>1, <1>3
  <2>2. Asked(t) = sendlen[t] - sendedlen[t] + Word
    BY <2>1, WrapBelow DEF Asked
  <2> QED
    BY <1>1, <1>3, <2>1, <2>2
<1> QED
  BY <1>1, <1>2, <1>3

(* A sendto that succeeds exchanges the two lengths. *)
LEMMA Exchanged ==
  ASSUME SendTypes, NEW t \in Callers
  PROVE  /\ Sum(sendedlen[t], Asked(t)) = sendlen[t]
         /\ (sendlen[t] - Asked(t) + Word) % Word = sendedlen[t]
<1>1. /\ sendlen[t] \in 0 .. Word - 1 /\ sendedlen[t] \in 0 .. Word - 1
      /\ Word \in Nat \ {0} /\ Asked(t) \in Int
  BY AskedIs, WordAssumption DEF SendTypes
<1>2. CASE Asked(t) = sendlen[t] - sendedlen[t] /\ sendlen[t] >= sendedlen[t]
  <2>1. /\ sendedlen[t] + Asked(t) = sendlen[t]
        /\ sendlen[t] - Asked(t) + Word = sendedlen[t] + Word
        /\ sendedlen[t] + Word \in Word .. 2 * Word - 1
    BY <1>1, <1>2
  <2>2. sendlen[t] % Word = sendlen[t] /\ (sendedlen[t] + Word) % Word = sendedlen[t] + Word - Word
    BY <1>1, <2>1, WrapBelow, WrapOnce
  <2> QED
    BY <1>1, <2>1, <2>2 DEF Sum
<1>3. CASE Asked(t) = sendlen[t] - sendedlen[t] + Word
  <2>1. /\ sendedlen[t] + Asked(t) = sendlen[t] + Word
        /\ sendlen[t] - Asked(t) + Word = sendedlen[t]
        /\ sendlen[t] + Word \in Word .. 2 * Word - 1
    BY <1>1, <1>3
  <2>2. sendedlen[t] % Word = sendedlen[t] /\ (sendlen[t] + Word) % Word = sendlen[t] + Word - Word
    BY <1>1, <2>1, WrapBelow, WrapOnce
  <2> QED
    BY <1>1, <2>1, <2>2 DEF Sum
<1> QED
  BY <1>2, <1>3, AskedIs

(* A sendto that fails moves one byte, round the end of the words.         *)
LEMMA Moved ==
  ASSUME NEW a \in 0 .. Word - 1, NEW b \in 0 .. Word - 1, NEW total \in 0 .. Word - 1,
         a + b \in {total, total + Word}
  PROVE  /\ Sum(a, 1) \in 0 .. Word - 1 /\ Sum(b, Word - 1) \in 0 .. Word - 1
         /\ Sum(a, 1) + Sum(b, Word - 1) \in {total, total + Word}
<1>1. Word \in Nat \ {0}
  BY WordAssumption
<1>2. CASE a = Word - 1
  <2>1. a + 1 \in Word .. 2 * Word - 1
    BY <1>1, <1>2
  <2>2. Sum(a, 1) = a + 1 - Word
    <3>1. PICK sum \in Word .. 2 * Word - 1 : sum = a + 1
      BY <2>1
    <3>2. sum % Word = sum - Word
      BY WrapOnce
    <3>3. Sum(a, 1) = sum % Word
      BY <3>1, Zenon DEF Sum
    <3> QED
      BY <3>1, <3>2, <3>3, <1>1
  <2> QED
    <3>1. CASE b = 0
      <4>1. b + (Word - 1) \in 0 .. Word - 1
        BY <1>1, <3>1
      <4>2. Sum(b, Word - 1) = b + (Word - 1)
        BY <4>1, WrapBelow DEF Sum
      <4> QED
        BY <1>1, <1>2, <2>2, <3>1, <4>2
    <3>2. CASE b > 0
      <4>1. b + (Word - 1) \in Word .. 2 * Word - 1
        BY <1>1, <3>2
      <4>2. Sum(b, Word - 1) = b + (Word - 1) - Word
        <5>1. PICK sum \in Word .. 2 * Word - 1 : sum = b + (Word - 1)
          BY <4>1
        <5>2. sum % Word = sum - Word
          BY WrapOnce
        <5>3. Sum(b, Word - 1) = sum % Word
          BY <5>1, Zenon DEF Sum
        <5> QED
          BY <5>1, <5>2, <5>3, <1>1
      <4> QED
        BY <1>1, <1>2, <2>2, <3>2, <4>2
    <3> QED
      BY <3>1, <3>2
<1>3. CASE a < Word - 1
  <2>1. a + 1 \in 0 .. Word - 1
    BY <1>1, <1>3
  <2>2. Sum(a, 1) = a + 1
    BY <2>1, WrapBelow DEF Sum
  <2> QED
    <3>1. CASE b = 0
      <4>1. b + (Word - 1) \in 0 .. Word - 1
        BY <1>1, <3>1
      <4>2. Sum(b, Word - 1) = b + (Word - 1)
        BY <4>1, WrapBelow DEF Sum
      <4> QED
        BY <1>1, <1>3, <2>2, <3>1, <4>2
    <3>2. CASE b > 0
      <4>1. b + (Word - 1) \in Word .. 2 * Word - 1
        BY <1>1, <3>2
      <4>2. Sum(b, Word - 1) = b + (Word - 1) - Word
        <5>1. PICK sum \in Word .. 2 * Word - 1 : sum = b + (Word - 1)
          BY <4>1
        <5>2. sum % Word = sum - Word
          BY WrapOnce
        <5>3. Sum(b, Word - 1) = sum % Word
          BY <5>1, Zenon DEF Sum
        <5> QED
          BY <5>1, <5>2, <5>3, <1>1
      <4> QED
        BY <1>1, <1>3, <2>2, <3>2, <4>2
    <3> QED
      BY <3>1, <3>2
<1> QED
  BY <1>1, <1>2, <1>3

(* Two lengths that are equal are half of an even message. *)
LEMMA HalvesAreEven ==
  ASSUME NEW half \in Nat, NEW total \in Nat, half + half \in {total, total + Word}
  PROVE  total % 2 = 0
  BY WordAssumption

LEMMA InitSends == SendInit => SendInv
<1> SUFFICES ASSUME SendInit PROVE SendInv
  OBVIOUS
<1>1. 0 \in 0 .. Word - 1
  BY WordAssumption
<1>2. SendTypes
  <2>1. /\ _message_tos \in Seq(Addresses) /\ to_cs \in Seq(SUBSET Callers)
        /\ _messagebuffer \in Seq((Callers \X Nat) \cup {<< >>})
        /\ Len(to_cs) = Len(_message_tos) /\ Len(_messagebuffer) = Len(_message_tos)
    BY DEF SendInit
  <2>2. /\ at \in [Callers -> {"idle", "lock", "encode", "send", "unlock"}] /\ to \in [Callers -> Nat]
        /\ result \in [Callers -> {-1, 0, 1}] /\ made \in [Callers -> Nat]
    BY DEF SendInit
  <2>3. /\ sendlen_s \in [Callers -> 0 .. Word - 1] /\ sendlen \in [Callers -> 0 .. Word - 1]
        /\ sendedlen \in [Callers -> 0 .. Word - 1] /\ failed \in [Callers -> 0 .. Word]
    BY <1>1, WordAssumption DEF SendInit
  <2> QED
    BY <2>1, <2>2, <2>3 DEF SendTypes
<1>3. ASSUME NEW t \in Callers PROVE SenderInv(t)
  <2>1. at[t] = "idle" /\ made[t] = 0
    BY DEF SendInit
  <2> QED
    BY <2>1
       DEF SenderInv, KnowsEntry, HasReturned, HasBuffer, HoldsMutex, Sends, LengthsAddUp,
           HasSent, SentEmpty, IsTold
<1> QED
  BY <1>2, <1>3 DEF SendInv

(* What the other threads leave of a thread's state, and of the entry that *)
(* it has found.                                                           *)
SameThread(t) ==
  /\ at'[t] = at[t] /\ to'[t] = to[t] /\ sendlen_s'[t] = sendlen_s[t]
  /\ sendlen'[t] = sendlen[t] /\ sendedlen'[t] = sendedlen[t]
  /\ result'[t] = result[t] /\ made'[t] = made[t] /\ failed'[t] = failed[t]

EntriesStay ==
  /\ Len(_message_tos) \in Nat /\ Len(_message_tos') \in Nat
  /\ Len(_message_tos') >= Len(_message_tos) /\ wire \subseteq wire'
  /\ \A i \in 1 .. Len(_message_tos) : _message_tos'[i] = _message_tos[i]

(* What a thread has sent and has been told stays. *)
LEMMA SentStays ==
  ASSUME EntriesStay, NEW t \in Callers, to[t] \in 1 .. Len(_message_tos), SameThread(t)
  PROVE  /\ HasSent(t) => HasSent(t)'
         /\ SentEmpty(t) => SentEmpty(t)'
         /\ IsTold(t) => IsTold(t)'
<1>1. Strayed(t) => Strayed(t)'
  BY DEF Strayed, SameThread, EntriesStay
<1>2. /\ Unsent(t) => Unsent(t)'
      /\ OnlyFailed(t) => OnlyFailed(t)'
  BY DEF SameThread, Unsent, OnlyFailed
<1>3. /\ OwnPart(t, 0, sendlen_s[t]) \in wire => OwnPart(t, 0, sendlen_s[t])' \in wire'
      /\ OwnPart(t, sendedlen[t], 0) \in wire => OwnPart(t, sendedlen[t], 0)' \in wire'
  <2>1. /\ OwnPart(t, 0, sendlen_s[t])' = OwnPart(t, 0, sendlen_s[t])
        /\ OwnPart(t, sendedlen[t], 0)' = OwnPart(t, sendedlen[t], 0)
    BY DEF OwnPart, SameThread, EntriesStay
  <2> QED
    BY <2>1 DEF EntriesStay
<1>4. SentAll(t) => SentAll(t)'
  BY <1>3 DEF SentAll, SentWhole, SameThread
<1>5. HasSent(t) => HasSent(t)'
  BY <1>1, <1>2, <1>4 DEF HasSent, Sends, SameThread
<1>6. SentEmpty(t) => SentEmpty(t)'
  BY <1>3 DEF SentEmpty, SameThread
<1>7. /\ Returned1(t) => Returned1(t)'
      /\ Returned0(t) => Returned0(t)'
  BY <1>1, <1>3 DEF Returned1, Returned0, SameThread
<1>8. IsTold(t) => IsTold(t)'
  BY <1>7 DEF IsTold, SameThread
<1> QED
  BY <1>5, <1>6, <1>8

LEMMA OtherThread ==
  ASSUME SendInv, EntriesStay, NEW t \in Callers, SameThread(t),
         HoldsMutex(t) =>
           /\ to_cs'[to[t]] = to_cs[to[t]]
           /\ _messagebuffer'[to[t]] = _messagebuffer[to[t]]
  PROVE  SenderInv(t)'
<1>1. /\ KnowsEntry(t)
      /\ HasBuffer(t)
      /\ LengthsAddUp(t)
      /\ HasSent(t)
      /\ SentEmpty(t)
      /\ IsTold(t)
  BY SenderDefs DEF SendInv
<1>2. KnowsEntry(t)'
  BY <1>1 DEF KnowsEntry, HasReturned, SameThread, EntriesStay
<1>3. HasBuffer(t)'
  BY <1>1 DEF HasBuffer, HoldsMutex, Sends, SameThread
<1>4. LengthsAddUp(t)'
  BY <1>1 DEF LengthsAddUp, Sends, SameThread
<1>5. HasSent(t)' /\ SentEmpty(t)' /\ IsTold(t)'
  <2>1. CASE to[t] \in 1 .. Len(_message_tos)
    BY <1>1, <2>1, SentStays
  <2>2. CASE to[t] \notin 1 .. Len(_message_tos)
    <3>1. at[t] = "idle" /\ (made[t] > 0 => result[t] = -1)
      BY <1>1, <2>2 DEF KnowsEntry, HasReturned
    <3> QED
      BY <3>1 DEF HasSent, Sends, SentEmpty, IsTold, SameThread
  <2> QED
    BY <2>1, <2>2
<1> QED
  BY <1>2, <1>3, <1>4, <1>5 DEF SenderInv

(* The thread that acts, and the others. *)
LEMMA ByThreads ==
  ASSUME NEW t \in Callers, SendTypes', SenderInv(t)',
         \A u \in Callers \ {t} : SenderInv(u)'
  PROVE  SendInv'
  BY DEF SendInv

LEMMA FoundEntry ==
  ASSUME SendInv, NEW t \in Callers, NEW address \in Addresses, Find(t, address)
  PROVE  SendInv'
<1>1. SendTypes /\ at[t] = "idle"
  BY DEF SendInv, Find
<1>2. /\ made' = [made EXCEPT ![t] = made[t] + 1] /\ failed' = [failed EXCEPT ![t] = 0]
      /\ at' = [at EXCEPT ![t] = "lock"] /\ wire' = wire /\ result' = result
      /\ sendlen_s' = sendlen_s /\ sendlen' = sendlen /\ sendedlen' = sendedlen
  BY DEF Find, locals
<1>3. \/ /\ \E i \in DOMAIN _message_tos : to' = [to EXCEPT ![t] = i]
         /\ _message_tos' = _message_tos /\ to_cs' = to_cs /\ _messagebuffer' = _messagebuffer
      \/ /\ to' = [to EXCEPT ![t] = Len(_message_tos) + 1]
         /\ _message_tos' = Append(_message_tos, address) /\ to_cs' = Append(to_cs, {})
         /\ _messagebuffer' = Append(_messagebuffer, << >>)
  <2>1. CASE Known(address) # {}
    <3>1. (CHOOSE i \in Known(address) : TRUE) \in Known(address)
      BY <2>1
    <3>2. (CHOOSE i \in Known(address) : TRUE) \in DOMAIN _message_tos
      BY <3>1 DEF Known
    <3> QED
      BY <2>1, <3>2 DEF Find
  <2>2. CASE Known(address) = {}
    BY <2>2 DEF Find
  <2> QED
    BY <2>1, <2>2
<1>4. /\ _message_tos \in Seq(Addresses) /\ to_cs \in Seq(SUBSET Callers)
      /\ _messagebuffer \in Seq((Callers \X Nat) \cup {<< >>})
      /\ Len(to_cs) = Len(_message_tos) /\ Len(_messagebuffer) = Len(_message_tos)
  BY <1>1 DEF SendTypes
<1>5. Len(_message_tos) \in Nat /\ DOMAIN _message_tos = 1 .. Len(_message_tos)
      /\ DOMAIN to_cs = 1 .. Len(_message_tos) /\ DOMAIN _messagebuffer = 1 .. Len(_message_tos)
  BY <1>4, LenProperties
<1>6. /\ _message_tos' \in Seq(Addresses) /\ to_cs' \in Seq(SUBSET Callers)
      /\ _messagebuffer' \in Seq((Callers \X Nat) \cup {<< >>})
      /\ Len(to_cs') = Len(_message_tos') /\ Len(_messagebuffer') = Len(_message_tos')
      /\ Len(_message_tos') \in Nat /\ Len(_message_tos') >= Len(_message_tos)
      /\ \A i \in 1 .. Len(_message_tos) :
           /\ _message_tos'[i] = _message_tos[i] /\ to_cs'[i] = to_cs[i]
           /\ _messagebuffer'[i] = _messagebuffer[i]
  <2>1. CASE /\ _message_tos' = _message_tos /\ to_cs' = to_cs
             /\ _messagebuffer' = _messagebuffer
    BY <1>4, <1>5, <2>1
  <2>2. CASE /\ _message_tos' = Append(_message_tos, address) /\ to_cs' = Append(to_cs, {})
             /\ _messagebuffer' = Append(_messagebuffer, << >>)
    <3>1. /\ _message_tos' \in Seq(Addresses) /\ Len(_message_tos') = Len(_message_tos) + 1
          /\ \A i \in 1 .. Len(_message_tos) : _message_tos'[i] = _message_tos[i]
      BY <1>4, <2>2, AppendProperties
    <3>2. /\ to_cs' \in Seq(SUBSET Callers) /\ Len(to_cs') = Len(_message_tos) + 1
          /\ \A i \in 1 .. Len(_message_tos) : to_cs'[i] = to_cs[i]
      <4>1. {} \in SUBSET Callers
        OBVIOUS
      <4> QED
        BY <1>4, <2>2, <4>1, AppendProperties
    <3>3. /\ _messagebuffer' \in Seq((Callers \X Nat) \cup {<< >>})
          /\ Len(_messagebuffer') = Len(_message_tos) + 1
          /\ \A i \in 1 .. Len(_message_tos) : _messagebuffer'[i] = _messagebuffer[i]
      <4>1. << >> \in (Callers \X Nat) \cup {<< >>}
        OBVIOUS
      <4> QED
        BY <1>4, <2>2, <4>1, AppendProperties
    <3> QED
      BY <1>5, <3>1, <3>2, <3>3
  <2> QED
    BY <1>3, <2>1, <2>2
<1>7. to' \in [Callers -> Nat] /\ to'[t] \in 1 .. Len(_message_tos')
      /\ \A u \in Callers \ {t} : to'[u] = to[u]
  <2>1. to \in [Callers -> Nat]
    BY <1>1 DEF SendTypes
  <2>2. \E i \in 1 .. Len(_message_tos') : to' = [to EXCEPT ![t] = i]
    <3>1. CASE \E i \in DOMAIN _message_tos : to' = [to EXCEPT ![t] = i]
      <4>1. PICK i \in 1 .. Len(_message_tos) : to' = [to EXCEPT ![t] = i]
        BY <1>5, <3>1
      <4>2. i \in 1 .. Len(_message_tos')
        BY <1>5, <1>6
      <4> QED
        BY <4>1, <4>2
    <3>2. CASE /\ to' = [to EXCEPT ![t] = Len(_message_tos) + 1]
               /\ _message_tos' = Append(_message_tos, address)
      <4>1. Len(_message_tos) + 1 \in 1 .. Len(_message_tos')
        BY <1>4, <1>5, <3>2, AppendProperties
      <4> QED
        BY <3>2, <4>1
    <3> QED
      BY <1>3, <3>1, <3>2
  <2> QED
    BY <1>6, <2>1, <2>2
<1>8. SendTypes'
  <2>1. at' \in [Callers -> {"idle", "lock", "encode", "send", "unlock"}]
    BY <1>1, <1>2 DEF SendTypes
  <2>2. made' \in [Callers -> Nat] /\ failed' \in [Callers -> 0 .. Word]
    BY <1>1, <1>2, WordAssumption DEF SendTypes
  <2>3. /\ sendlen_s' \in [Callers -> 0 .. Word - 1] /\ sendlen' \in [Callers -> 0 .. Word - 1]
        /\ sendedlen' \in [Callers -> 0 .. Word - 1] /\ result' \in [Callers -> {-1, 0, 1}]
    BY <1>1, <1>2 DEF SendTypes
  <2> QED
    BY <1>6, <1>7, <2>1, <2>2, <2>3 DEF SendTypes
<1>9. SenderInv(t)'
  <2>1. at'[t] = "lock" /\ failed'[t] = 0
    BY <1>1, <1>2 DEF SendTypes
  <2> QED
    BY <1>7, <2>1
       DEF SenderInv, KnowsEntry, HasReturned, HasBuffer, HoldsMutex, Sends, LengthsAddUp,
           HasSent, SentEmpty, IsTold
<1>10. ASSUME NEW u \in Callers \ {t} PROVE SenderInv(u)'
  <2>1. EntriesStay
    BY <1>2, <1>5, <1>6 DEF EntriesStay
  <2>2. SameThread(u)
    BY <1>1, <1>2, <1>7 DEF SameThread, SendTypes
  <2>3. HoldsMutex(u) => to[u] \in 1 .. Len(_message_tos)
    BY SenderDefs DEF SendInv, KnowsEntry, HoldsMutex
  <2> QED
    BY <1>6, <2>1, <2>2, <2>3, OtherThread
<1> QED
  BY <1>8, <1>9, <1>10, ByThreads

(* In the other steps no entry is added. *)
LEMMA SameEntries ==
  ASSUME SendTypes, _message_tos' = _message_tos, wire \subseteq wire'
  PROVE  EntriesStay
<1>1. Len(_message_tos) \in Nat
  BY LenProperties DEF SendTypes
<1> QED
  BY <1>1 DEF EntriesStay

LEMMA NotFound ==
  ASSUME SendInv, NEW t \in Callers, NEW address \in Addresses, FindFails(t, address)
  PROVE  SendInv'
<1>1. SendTypes /\ at[t] = "idle"
  BY DEF SendInv, FindFails
<1>2. /\ made' = [made EXCEPT ![t] = made[t] + 1] /\ result' = [result EXCEPT ![t] = -1]
      /\ _message_tos' = _message_tos /\ to_cs' = to_cs /\ _messagebuffer' = _messagebuffer
      /\ at' = at /\ to' = to /\ failed' = failed /\ wire' = wire
      /\ sendlen_s' = sendlen_s /\ sendlen' = sendlen /\ sendedlen' = sendedlen
  BY DEF FindFails, locals
<1>3. SendTypes'
  <2>1. made' \in [Callers -> Nat] /\ result' \in [Callers -> {-1, 0, 1}]
    BY <1>1, <1>2 DEF SendTypes
  <2> QED
    BY <1>1, <1>2, <2>1 DEF SendTypes
<1>4. SenderInv(t)'
  <2>1. at'[t] = "idle" /\ result'[t] = -1
    BY <1>1, <1>2 DEF SendTypes
  <2> QED
    BY <2>1
       DEF SenderInv, KnowsEntry, HasReturned, HasBuffer, HoldsMutex, Sends, LengthsAddUp,
           HasSent, SentEmpty, IsTold
<1>5. ASSUME NEW u \in Callers \ {t} PROVE SenderInv(u)'
  <2>1. EntriesStay
    BY <1>1, <1>2, SameEntries
  <2>2. SameThread(u)
    BY <1>1, <1>2 DEF SameThread, SendTypes
  <2> QED
    BY <1>2, <2>1, <2>2, OtherThread
<1> QED
  BY <1>3, <1>4, <1>5, ByThreads

(* A thread that is in a call has an entry, and while it has the mutex, no *)
(* other one of that entry has.                                            *)
LEMMA AtEntry ==
  ASSUME SendInv, NEW t \in Callers, at[t] # "idle"
  PROVE  /\ to[t] \in Nat /\ to[t] \in DOMAIN _message_tos
         /\ to[t] \in DOMAIN to_cs /\ to[t] \in DOMAIN _messagebuffer
<1>1. SendTypes /\ to[t] \in 1 .. Len(_message_tos)
  BY SenderDefs DEF SendInv, KnowsEntry
<1>2. /\ DOMAIN _message_tos = 1 .. Len(_message_tos)
      /\ DOMAIN to_cs = 1 .. Len(_message_tos)
      /\ DOMAIN _messagebuffer = 1 .. Len(_message_tos)
  BY <1>1, LenProperties DEF SendTypes
<1> QED
  BY <1>1, <1>2

LEMMA OneAtEntry ==
  ASSUME SendInv, NEW t \in Callers, NEW u \in Callers \ {t},
         HoldsMutex(u), HoldsMutex(t) \/ to_cs[to[t]] = {}
  PROVE  to[u] # to[t]
  BY SenderDefs DEF SendInv, HasBuffer

LEMMA Locked ==
  ASSUME SendInv, NEW t \in Callers, Lock(t)
  PROVE  SendInv'
<1>1. SendTypes /\ at[t] = "lock" /\ to_cs[to[t]] = {}
  BY DEF SendInv, Lock, MayLock
<1>2. /\ to_cs' = [to_cs EXCEPT ![to[t]] = {t}] /\ at' = [at EXCEPT ![t] = "encode"]
      /\ _message_tos' = _message_tos /\ _messagebuffer' = _messagebuffer
      /\ to' = to /\ failed' = failed /\ wire' = wire /\ made' = made /\ result' = result
      /\ sendlen_s' = sendlen_s /\ sendlen' = sendlen /\ sendedlen' = sendedlen
  BY <1>1 DEF Lock, locals
<1>3. to[t] \in DOMAIN to_cs
  BY <1>1, AtEntry
<1>4. SendTypes'
  <2>1. at' \in [Callers -> {"idle", "lock", "encode", "send", "unlock"}]
    BY <1>1, <1>2 DEF SendTypes
  <2>2. to_cs' \in Seq(SUBSET Callers) /\ Len(to_cs') = Len(to_cs)
    BY <1>1, <1>2, <1>3, ExceptSeq DEF SendTypes
  <2> QED
    BY <1>1, <1>2, <2>1, <2>2 DEF SendTypes
<1>5. at'[t] = "encode" /\ to'[t] = to[t] /\ to_cs'[to[t]] = {t}
  BY <1>1, <1>2, <1>3 DEF SendTypes
<1>6. SenderInv(t)'
  <2>1. to[t] \in 1 .. Len(_message_tos) /\ failed[t] = 0
    BY <1>1, SenderDefs DEF SendInv, KnowsEntry, HasSent
  <2> QED
    BY <1>2, <1>5, <2>1
       DEF SenderInv, KnowsEntry, HasReturned, HasBuffer, HoldsMutex, Sends, LengthsAddUp,
           HasSent, SentEmpty, IsTold
<1>7. ASSUME NEW u \in Callers \ {t} PROVE SenderInv(u)'
  <2>1. EntriesStay
    BY <1>1, <1>2, SameEntries
  <2>2. SameThread(u)
    BY <1>1, <1>2 DEF SameThread, SendTypes
  <2>3. HoldsMutex(u) => to_cs'[to[u]] = to_cs[to[u]]
    <3>1. SUFFICES ASSUME HoldsMutex(u) PROVE to_cs'[to[u]] = to_cs[to[u]]
      OBVIOUS
    <3>2. to[u] # to[t] /\ to[u] \in DOMAIN to_cs
      BY <1>1, <3>1, AtEntry, OneAtEntry DEF HoldsMutex
    <3> QED
      BY <1>2, <3>2
  <2> QED
    BY <1>2, <2>1, <2>2, <2>3, OtherThread
<1> QED
  BY <1>4, <1>6, <1>7, ByThreads

LEMMA EncodedOne ==
  ASSUME SendInv, NEW t \in Callers, NEW length \in Encoded, Encode(t, length)
  PROVE  SendInv'
<1> DEFINE message == <<t, made[t]>>
<1>1. SendTypes /\ at[t] = "encode" /\ length \in 0 .. Word - 1 /\ 0 \in 0 .. Word - 1
      /\ Word \in Nat
  BY WordAssumption DEF SendInv, Encode
<1>2. /\ _messagebuffer' = [_messagebuffer EXCEPT ![to[t]] = message]
      /\ at' = [at EXCEPT ![t] = "send"] /\ sendedlen' = [sendedlen EXCEPT ![t] = 0]
      /\ sendlen_s' = [sendlen_s EXCEPT ![t] = length]
      /\ sendlen' = [sendlen EXCEPT ![t] = length]
      /\ _message_tos' = _message_tos /\ to_cs' = to_cs
      /\ to' = to /\ failed' = failed /\ wire' = wire /\ made' = made /\ result' = result
  BY DEF Encode
<1>3. to[t] \in 1 .. Len(_message_tos) /\ to[t] \in DOMAIN _messagebuffer
      /\ Len(_messagebuffer) = Len(_message_tos) /\ to_cs[to[t]] = {t} /\ failed[t] = 0
  BY <1>1, AtEntry, SenderDefs DEF SendInv, KnowsEntry, HasBuffer, HoldsMutex, HasSent, SendTypes
<1>4. message \in (Callers \X Nat) \cup {<< >>}
  BY <1>1 DEF SendTypes
<1> HIDE DEF message
<1>5. SendTypes'
  <2>1. at' \in [Callers -> {"idle", "lock", "encode", "send", "unlock"}]
    BY <1>1, <1>2 DEF SendTypes
  <2>2. /\ _messagebuffer' \in Seq((Callers \X Nat) \cup {<< >>})
        /\ Len(_messagebuffer') = Len(_messagebuffer)
    <3>1. /\ _messagebuffer \in Seq((Callers \X Nat) \cup {<< >>})
          /\ to[t] \in 1 .. Len(_messagebuffer)
      BY <1>1, <1>3 DEF SendTypes
    <3> QED
      BY <1>2, <1>4, <3>1, ExceptSeq
  <2>3. /\ sendlen_s' \in [Callers -> 0 .. Word - 1] /\ sendlen' \in [Callers -> 0 .. Word - 1]
        /\ sendedlen' \in [Callers -> 0 .. Word - 1]
    BY <1>1, <1>2 DEF SendTypes
  <2> QED
    BY <1>1, <1>2, <2>1, <2>2, <2>3 DEF SendTypes
<1>6. /\ at'[t] = "send" /\ sendlen_s'[t] = length /\ sendlen'[t] = length /\ sendedlen'[t] = 0
      /\ _messagebuffer'[to[t]] = message
  BY <1>1, <1>2, <1>3 DEF SendTypes
<1>7. SenderInv(t)'
  <2>1. KnowsEntry(t)'
    BY <1>2, <1>3, <1>6 DEF KnowsEntry
  <2>2. HasBuffer(t)'
    BY <1>2, <1>3, <1>6 DEF HasBuffer, HoldsMutex, Sends, message
  <2>3. LengthsAddUp(t)'
    BY <1>1, <1>6 DEF LengthsAddUp
  <2>4. HasSent(t)' /\ SentEmpty(t)' /\ IsTold(t)'
    BY <1>1, <1>2, <1>3, <1>6 DEF HasSent, Unsent, SentEmpty, IsTold
  <2> QED
    BY <2>1, <2>2, <2>3, <2>4 DEF SenderInv
<1>8. ASSUME NEW u \in Callers \ {t} PROVE SenderInv(u)'
  <2>1. EntriesStay
    BY <1>1, <1>2, SameEntries
  <2>2. SameThread(u)
    BY <1>1, <1>2 DEF SameThread, SendTypes
  <2>3. ASSUME HoldsMutex(u) PROVE _messagebuffer'[to[u]] = _messagebuffer[to[u]]
    <3>1. to[u] # to[t] /\ to[u] \in DOMAIN _messagebuffer
      BY <1>1, <2>3, AtEntry, OneAtEntry DEF HoldsMutex
    <3> QED
      BY <1>2, <3>1
  <2> QED
    BY <1>2, <2>1, <2>2, <2>3, OtherThread
<1> QED
  BY <1>5, <1>7, <1>8, ByThreads

(* A sendto changes the two lengths of its thread. *)
LEMMA OtherSender ==
  ASSUME SendInv, NEW t \in Callers, NEW u \in Callers \ {t},
         _message_tos' = _message_tos, to_cs' = to_cs, _messagebuffer' = _messagebuffer,
         at'[u] = at[u], to' = to, sendlen_s' = sendlen_s, result' = result, made' = made,
         failed'[u] = failed[u], sendlen'[u] = sendlen[u], sendedlen'[u] = sendedlen[u],
         wire \subseteq wire'
  PROVE  SenderInv(u)'
<1>1. EntriesStay
  BY SameEntries DEF SendInv
<1>2. SameThread(u)
  BY DEF SameThread
<1> QED
  BY <1>1, <1>2, OtherThread

LEMMA SentOne ==
  ASSUME SendInv, NEW t \in Callers, SendTo(t)
  PROVE  SendInv'
<1> DEFINE datagram == OwnPart(t, sendedlen[t], Asked(t))
<1>1. SendTypes /\ at[t] = "send" /\ sendlen[t] > 0
  BY DEF SendInv, SendTo
<1>2. /\ KnowsEntry(t)
      /\ HasBuffer(t)
      /\ LengthsAddUp(t)
      /\ HasSent(t)
  BY SenderDefs DEF SendInv
<1>3. /\ wire' = wire \cup {datagram}
      /\ sendedlen' = [sendedlen EXCEPT ![t] = sendlen[t]]
      /\ sendlen' = [sendlen EXCEPT ![t] = sendedlen[t]]
  <2>1. /\ wire' = wire \cup {<<_message_tos[to[t]], _messagebuffer[to[t]], sendedlen[t], Asked(t)>>}
        /\ sendedlen' = [sendedlen EXCEPT ![t] = Sum(sendedlen[t], Asked(t))]
        /\ sendlen' = [sendlen EXCEPT ![t] = (sendlen[t] - Asked(t) + Word) % Word]
    BY DEF SendTo
  <2>2. /\ Sum(sendedlen[t], Asked(t)) = sendlen[t]
        /\ (sendlen[t] - Asked(t) + Word) % Word = sendedlen[t]
    BY <1>1, Exchanged
  <2>3. _messagebuffer[to[t]] = <<t, made[t]>>
    BY <1>1, <1>2 DEF HasBuffer, Sends
  <2> QED
    BY <2>1, <2>2, <2>3 DEF OwnPart
<1>4. /\ _message_tos' = _message_tos /\ to_cs' = to_cs /\ _messagebuffer' = _messagebuffer
      /\ at' = (IF Asked(t) = 0 THEN [at EXCEPT ![t] = "unlock"] ELSE at)
      /\ to' = to /\ sendlen_s' = sendlen_s /\ result' = result /\ made' = made
      /\ failed' = failed
  BY DEF SendTo
<1>5. /\ sendlen_s[t] \in 0 .. Word - 1 /\ sendlen[t] \in 0 .. Word - 1
      /\ sendedlen[t] \in 0 .. Word - 1 /\ Word \in Nat \ {0} /\ failed[t] \in 0 .. Word
  BY <1>1, WordAssumption DEF SendTypes
<1>6. SendTypes'
  <2>1. sendlen' \in [Callers -> 0 .. Word - 1] /\ sendedlen' \in [Callers -> 0 .. Word - 1]
    BY <1>1, <1>3, <1>5 DEF SendTypes
  <2>2. at' \in [Callers -> {"idle", "lock", "encode", "send", "unlock"}]
    BY <1>1, <1>4 DEF SendTypes
  <2> QED
    BY <1>1, <1>4, <2>1, <2>2 DEF SendTypes
<1>7. /\ sendlen'[t] = sendedlen[t] /\ sendedlen'[t] = sendlen[t]
      /\ at'[t] = (IF Asked(t) = 0 THEN "unlock" ELSE "send")
      /\ \A u \in Callers \ {t} :
           at'[u] = at[u] /\ sendlen'[u] = sendlen[u] /\ sendedlen'[u] = sendedlen[u]
  BY <1>1, <1>3, <1>4 DEF SendTypes
<1>8. \A first, length : OwnPart(t, first, length)' = OwnPart(t, first, length)
  BY <1>4 DEF OwnPart
<1>9. Strayed(t) => Strayed(t)'
  BY <1>3, <1>4 DEF Strayed
<1>10. /\ Asked(t) \in Nat
       /\ \/ sendlen[t] >= sendedlen[t] /\ Asked(t) = sendlen[t] - sendedlen[t]
          \/ sendlen[t] < sendedlen[t] /\ Asked(t) = sendlen[t] - sendedlen[t] + Word
  BY <1>1, <1>5, AskedIs
<1>11. HasSent(t)'
  <2>1. Unsent(t) => SentAll(t)'
    <3>1. SUFFICES ASSUME Unsent(t) PROVE SentAll(t)'
      OBVIOUS
    <3>2. sendedlen[t] = 0 /\ Asked(t) = sendlen_s[t] /\ sendlen[t] = sendlen_s[t] /\ failed[t] = 0
      BY <1>5, <1>10, <3>1 DEF Unsent
    <3>3. OwnPart(t, 0, sendlen_s[t]) \in wire'
      BY <1>3, <3>2
    <3>4. OwnPart(t, 0, sendlen_s[t])' = OwnPart(t, 0, sendlen_s[t])
      BY <1>4 DEF OwnPart
    <3> QED
      BY <1>4, <1>7, <3>2, <3>3, <3>4 DEF SentAll, SentWhole
  <2>2. ~SentAll(t)
    BY <1>1 DEF SentAll
  <2>3. failed[t] > 0 /\ Strayed(t) => failed'[t] > 0 /\ Strayed(t)'
    BY <1>4, <1>9
  <2>4. OnlyFailed(t) /\ Asked(t) > 0 => Strayed(t)'
    <3>1. SUFFICES ASSUME OnlyFailed(t), Asked(t) > 0 PROVE Strayed(t)'
      OBVIOUS
    <3>2. sendedlen[t] >= sendlen_s[t]
      BY <1>5, <3>1 DEF OnlyFailed
    <3>3. sendedlen[t] + Asked(t) > sendlen_s[t]
      BY <1>5, <1>10, <3>1, <3>2
    <3>4. /\ datagram \in wire' /\ datagram[1] = _message_tos[to[t]]
          /\ datagram[2] = <<t, made[t]>> /\ datagram[3] = sendedlen[t] /\ datagram[4] = Asked(t)
      BY <1>3 DEF OwnPart
    <3> HIDE DEF datagram
    <3> QED
      BY <1>4, <3>1, <3>3, <3>4 DEF Strayed
  <2>5. OnlyFailed(t) /\ Asked(t) = 0 => OnlyFailed(t)'
    <3>1. SUFFICES ASSUME OnlyFailed(t), Asked(t) = 0 PROVE OnlyFailed(t)'
      OBVIOUS
    <3>2. sendlen[t] = sendedlen[t]
      BY <1>5, <1>10, <3>1
    <3> QED
      BY <1>4, <1>7, <3>1, <3>2 DEF OnlyFailed
  <2>6. OnlyFailed(t) => failed'[t] > 0
    BY <1>4, <1>5 DEF OnlyFailed
  <2>7. at'[t] \notin {"lock", "encode"}
    BY <1>7
  <2>8. Asked(t) = 0 \/ Asked(t) > 0
    BY <1>10
  <2> QED
    BY <1>1, <1>2, <2>1, <2>2, <2>3, <2>4, <2>5, <2>6, <2>7, <2>8 DEF HasSent, Sends
<1>12. SentEmpty(t)'
  <2>1. SUFFICES ASSUME Asked(t) = 0
                 PROVE  /\ sendlen'[t] = sendedlen'[t] /\ sendlen'[t] > 0
                        /\ OwnPart(t, sendedlen[t], 0)' \in wire'
                        /\ sendedlen'[t] = sendedlen[t]
    <3>1. CASE Asked(t) = 0
      BY <1>7, <2>1, <3>1 DEF SentEmpty, OwnPart
    <3>2. CASE Asked(t) # 0
      BY <1>7, <3>2 DEF SentEmpty
    <3> QED
      BY <3>1, <3>2
  <2>2. sendlen[t] = sendedlen[t]
    BY <1>5, <1>10, <2>1
  <2>3. OwnPart(t, sendedlen[t], 0)' = OwnPart(t, sendlen[t], 0)
    BY <1>4, <1>7 DEF OwnPart
  <2> QED
    BY <1>1, <1>3, <1>7, <2>1, <2>2, <2>3
<1>13. SenderInv(t)'
  <2>1. KnowsEntry(t)'
    BY <1>1, <1>2, <1>4, <1>7 DEF KnowsEntry, HasReturned
  <2>2. HasBuffer(t)'
    BY <1>1, <1>2, <1>4 DEF HasBuffer, HoldsMutex, Sends
  <2>3. LengthsAddUp(t)'
    <3>1. sendlen[t] + sendedlen[t] \in {sendlen_s[t], sendlen_s[t] + Word}
      BY <1>1, <1>2 DEF LengthsAddUp, Sends
    <3>2. sendedlen[t] + sendlen[t] = sendlen[t] + sendedlen[t]
      BY <1>5
    <3> QED
      BY <1>4, <1>7, <3>1, <3>2 DEF LengthsAddUp
  <2>4. IsTold(t)'
    BY <1>7 DEF IsTold
  <2> QED
    BY <1>11, <1>12, <2>1, <2>2, <2>3, <2>4 DEF SenderInv
<1>14. ASSUME NEW u \in Callers \ {t} PROVE SenderInv(u)'
  BY <1>3, <1>4, <1>7, OtherSender
<1> QED
  BY <1>6, <1>13, <1>14, ByThreads

(* The sums after a failure, if so far there were only failures. *)
LEMMA OneMoreFailed ==
  ASSUME NEW total \in 1 .. Word - 1, NEW before \in 0 .. Word - total - 1
  PROVE  /\ Sum(IF before = 0 THEN 0 ELSE Word - before, Word - 1) = Word - (before + 1)
         /\ Sum(total + before, 1)
              = IF before + 1 = Word - total THEN 0 ELSE total + (before + 1)
<1>1. Word \in Nat \ {0} /\ total \in Nat /\ before \in Nat /\ before + 1 <= Word - total
  BY WordAssumption
<1>2. Sum(total + before, 1) = IF before + 1 = Word - total THEN 0 ELSE total + (before + 1)
  <2>1. CASE before + 1 = Word - total
    <3>1. total + before + 1 = Word
      BY <1>1, <2>1
    <3>2. Word % Word = Word - Word
      <4>1. Word \in Word .. 2 * Word - 1
        BY <1>1
      <4> QED
        BY <4>1, WrapOnce
    <3> QED
      BY <1>1, <2>1, <3>1, <3>2 DEF Sum
  <2>2. CASE before + 1 # Word - total
    <3>1. total + before + 1 \in 0 .. Word - 1 /\ total + before + 1 = total + (before + 1)
      BY <1>1, <2>2
    <3> QED
      BY <2>2, <3>1, WrapBelow DEF Sum
  <2> QED
    BY <2>1, <2>2
<1>3. Sum(IF before = 0 THEN 0 ELSE Word - before, Word - 1) = Word - (before + 1)
  <2>1. CASE before = 0
    <3>1. 0 + (Word - 1) \in 0 .. Word - 1 /\ 0 + (Word - 1) = Word - (before + 1)
      BY <1>1, <2>1
    <3> QED
      BY <2>1, <3>1, WrapBelow DEF Sum
  <2>2. CASE before # 0
    <3>1. PICK sum \in Word .. 2 * Word - 1 : sum = Word - before + (Word - 1)
      <4>1. Word - before + (Word - 1) \in Word .. 2 * Word - 1
        BY <1>1, <2>2
      <4> QED
        BY <4>1
    <3>2. sum % Word = sum - Word
      BY WrapOnce
    <3>3. Sum(Word - before, Word - 1) = sum % Word
      BY <3>1, Zenon DEF Sum
    <3>4. sum - Word = Word - (before + 1)
      BY <1>1, <3>1
    <3> QED
      BY <2>2, <3>2, <3>3, <3>4
  <2> QED
    BY <2>1, <2>2
<1> QED
  BY <1>2, <1>3

LEMMA SentNone ==
  ASSUME SendInv, NEW t \in Callers, SendToFails(t)
  PROVE  SendInv'
<1>1. SendTypes /\ at[t] = "send" /\ sendlen[t] > 0
  BY DEF SendInv, SendToFails
<1>2. /\ KnowsEntry(t)
      /\ HasBuffer(t)
      /\ LengthsAddUp(t)
      /\ HasSent(t)
  BY SenderDefs DEF SendInv
<1>3. /\ failed' = [failed EXCEPT ![t] = IF failed[t] < Word THEN failed[t] + 1 ELSE failed[t]]
      /\ sendedlen' = [sendedlen EXCEPT ![t] = Sum(sendedlen[t], Word - 1)]
      /\ sendlen' = [sendlen EXCEPT ![t] = Sum(sendlen[t], 1)]
  BY DEF SendToFails
<1>4. /\ _message_tos' = _message_tos /\ to_cs' = to_cs /\ _messagebuffer' = _messagebuffer
      /\ at' = at /\ to' = to /\ sendlen_s' = sendlen_s /\ result' = result /\ made' = made
      /\ wire' = wire
  BY DEF SendToFails
<1>5. /\ sendlen_s[t] \in 0 .. Word - 1 /\ sendlen[t] \in 0 .. Word - 1
      /\ sendedlen[t] \in 0 .. Word - 1 /\ Word \in Nat \ {0} /\ failed[t] \in 0 .. Word
  BY <1>1, WordAssumption DEF SendTypes
<1>6. /\ Sum(sendlen[t], 1) \in 0 .. Word - 1 /\ Sum(sendedlen[t], Word - 1) \in 0 .. Word - 1
      /\ Sum(sendlen[t], 1) + Sum(sendedlen[t], Word - 1) \in {sendlen_s[t], sendlen_s[t] + Word}
  <2>1. sendlen[t] + sendedlen[t] \in {sendlen_s[t], sendlen_s[t] + Word}
    BY <1>1, <1>2 DEF LengthsAddUp, Sends
  <2> QED
    BY <1>5, <2>1, Moved
<1>7. SendTypes'
  <2>1. sendlen' \in [Callers -> 0 .. Word - 1] /\ sendedlen' \in [Callers -> 0 .. Word - 1]
    BY <1>1, <1>3, <1>6 DEF SendTypes
  <2>2. failed' \in [Callers -> 0 .. Word]
    <3>1. (IF failed[t] < Word THEN failed[t] + 1 ELSE failed[t]) \in 0 .. Word
      BY <1>5
    <3> QED
      BY <1>1, <1>3, <3>1 DEF SendTypes
  <2> QED
    BY <1>1, <1>4, <2>1, <2>2 DEF SendTypes
<1>8. /\ sendlen'[t] = Sum(sendlen[t], 1) /\ sendedlen'[t] = Sum(sendedlen[t], Word - 1)
      /\ failed'[t] = IF failed[t] < Word THEN failed[t] + 1 ELSE failed[t]
      /\ \A u \in Callers \ {t} :
           failed'[u] = failed[u] /\ sendlen'[u] = sendlen[u] /\ sendedlen'[u] = sendedlen[u]
  BY <1>1, <1>3 DEF SendTypes
<1>9. failed'[t] > 0
  BY <1>5, <1>8
<1>10. HasSent(t)'
  <2>1. Strayed(t) => Strayed(t)'
    BY <1>4 DEF Strayed
  <2>2. ~SentAll(t)
    BY <1>1 DEF SentAll
  <2>3. Unsent(t) \/ OnlyFailed(t) => OnlyFailed(t)'
    <3>1. SUFFICES ASSUME Unsent(t) \/ OnlyFailed(t) PROVE OnlyFailed(t)'
      OBVIOUS
    <3>2. sendlen_s[t] \in 1 .. Word - 1
      <4>1. CASE Unsent(t)
        BY <1>1, <1>5, <4>1 DEF Unsent
      <4>2. CASE OnlyFailed(t)
        BY <1>1, <1>2, <1>5, <4>2 DEF OnlyFailed
      <4> QED
        BY <3>1, <4>1, <4>2
    <3>3. /\ failed[t] \in 0 .. Word - sendlen_s[t] - 1
          /\ sendedlen[t] = IF failed[t] = 0 THEN 0 ELSE Word - failed[t]
          /\ sendlen[t] = sendlen_s[t] + failed[t]
      <4>1. CASE Unsent(t)
        BY <1>5, <3>2, <4>1 DEF Unsent
      <4>2. CASE OnlyFailed(t)
        BY <1>1, <1>5, <3>2, <4>2 DEF OnlyFailed
      <4> QED
        BY <3>1, <4>1, <4>2
    <3>4. /\ sendedlen'[t] = Word - (failed[t] + 1)
          /\ sendlen'[t] = IF failed[t] + 1 = Word - sendlen_s[t] THEN 0
                           ELSE sendlen_s[t] + (failed[t] + 1)
      BY <1>8, <3>2, <3>3, OneMoreFailed
    <3>5. failed'[t] = failed[t] + 1 /\ failed[t] + 1 \in 1 .. Word - sendlen_s[t]
      BY <1>5, <1>8, <3>2, <3>3
    <3>6. Word - (failed[t] + 1) + (failed[t] + 1) = Word
      BY <1>5
    <3>7. sendlen_s'[t] > 0
      BY <1>4, <1>5, <3>2
    <3> QED
      BY <1>4, <3>4, <3>5, <3>6, <3>7 DEF OnlyFailed
  <2> QED
    BY <1>1, <1>2, <1>4, <1>9, <2>1, <2>2, <2>3 DEF HasSent, Sends
<1>11. SenderInv(t)'
  <2>1. KnowsEntry(t)' /\ HasBuffer(t)'
    BY <1>2, <1>4 DEF KnowsEntry, HasReturned, HasBuffer, HoldsMutex, Sends
  <2>2. LengthsAddUp(t)'
    BY <1>4, <1>6, <1>8 DEF LengthsAddUp
  <2>3. SentEmpty(t)' /\ IsTold(t)'
    BY <1>1, <1>4 DEF SentEmpty, IsTold
  <2> QED
    BY <1>10, <2>1, <2>2, <2>3 DEF SenderInv
<1>12. ASSUME NEW u \in Callers \ {t} PROVE SenderInv(u)'
  BY <1>4, <1>8, OtherSender
<1> QED
  BY <1>7, <1>11, <1>12, ByThreads

(* The loop has ended because nothing is left, and all was sent, or after  *)
(* an empty datagram, and the two lengths are halves of the message's.     *)
LEMMA LoopEnded ==
  ASSUME SendInv, NEW t \in Callers,
         at[t] = "unlock" \/ (at[t] = "send" /\ sendlen[t] = 0)
  PROVE  /\ Success(t) => Returned1(t)
         /\ ~Success(t) => Returned0(t)
<1>1. SendTypes /\ LengthsAddUp(t) /\ HasSent(t) /\ SentEmpty(t)
  BY SenderDefs DEF SendInv
<1>2. /\ sendlen_s[t] \in 0 .. Word - 1 /\ sendlen[t] \in 0 .. Word - 1
      /\ sendedlen[t] \in 0 .. Word - 1 /\ Word \in Nat \ {0} /\ failed[t] \in 0 .. Word
  BY <1>1, WordAssumption DEF SendTypes
<1>3. sendlen[t] + sendedlen[t] \in {sendlen_s[t], sendlen_s[t] + Word}
  BY <1>1 DEF LengthsAddUp, Sends
<1>4. Unsent(t) \/ SentAll(t) \/ (failed[t] > 0 /\ Strayed(t)) \/ OnlyFailed(t)
  BY <1>1 DEF HasSent, Sends
<1>5. CASE at[t] = "send" /\ sendlen[t] = 0
  <2>1. Success(t)
    BY <1>2, <1>3, <1>5 DEF Success
  <2>2. Returned1(t)
    <3>1. CASE Unsent(t)
      BY <1>5, <3>1 DEF Unsent, Returned1
    <3>2. CASE SentAll(t)
      BY <3>2 DEF SentAll, SentWhole, Returned1
    <3>3. CASE failed[t] > 0 /\ Strayed(t)
      BY <3>3 DEF Returned1
    <3>4. CASE OnlyFailed(t)
      <4>1. failed[t] = Word - sendlen_s[t]
        BY <1>2, <1>5, <3>4 DEF OnlyFailed
      <4>2. failed[t] > 0 /\ failed[t] >= Word - sendlen_s[t]
        BY <1>2, <4>1
      <4> QED
        BY <4>2 DEF Returned1
    <3> QED
      BY <1>4, <3>1, <3>2, <3>3, <3>4
  <2> QED
    BY <2>1, <2>2
<1>6. CASE at[t] = "unlock"
  <2>1. sendlen[t] = sendedlen[t] /\ sendlen[t] > 0 /\ OwnPart(t, sendedlen[t], 0) \in wire
    BY <1>1, <1>6 DEF SentEmpty
  <2>2. Success(t) => Returned1(t)
    <3>1. Success(t) => sendlen_s[t] = 0
      BY <1>2, <1>3, <2>1 DEF Success
    <3> QED
      BY <3>1 DEF Returned1
  <2>3. sendlen_s[t] % 2 = 0
    <3>1. PICK half \in Nat, total \in Nat : half = sendlen[t] /\ total = sendlen_s[t]
      BY <1>2
    <3>2. half + half \in {total, total + Word}
      BY <1>3, <2>1, <3>1
    <3> QED
      BY <3>1, <3>2, HalvesAreEven
  <2>4. ~Unsent(t) /\ ~SentAll(t)
    BY <1>2, <2>1 DEF Unsent, SentAll
  <2>5. OnlyFailed(t) => failed[t] > 0 /\ 2 * failed[t] >= Word - sendlen_s[t]
    BY <1>2, <2>1 DEF OnlyFailed
  <2>6. Returned0(t)
    BY <1>4, <2>1, <2>3, <2>4, <2>5 DEF Returned0
  <2> QED
    BY <2>2, <2>6
<1> QED
  BY <1>5, <1>6

LEMMA Unlocked ==
  ASSUME SendInv, NEW t \in Callers, Unlock(t)
  PROVE  SendInv'
<1> DEFINE returns == IF Success(t) THEN 1 ELSE 0
<1>1. SendTypes /\ (at[t] = "unlock" \/ (at[t] = "send" /\ sendlen[t] = 0)) /\ HoldsMutex(t)
  BY DEF SendInv, Unlock, HoldsMutex
<1>2. /\ to_cs' = [to_cs EXCEPT ![to[t]] = to_cs[to[t]] \ {t}]
      /\ at' = [at EXCEPT ![t] = "idle"] /\ result' = [result EXCEPT ![t] = returns]
      /\ _message_tos' = _message_tos /\ _messagebuffer' = _messagebuffer
      /\ to' = to /\ failed' = failed /\ wire' = wire /\ made' = made
      /\ sendlen_s' = sendlen_s /\ sendlen' = sendlen /\ sendedlen' = sendedlen
  BY DEF Unlock, locals
<1>3. to[t] \in 1 .. Len(_message_tos) /\ to[t] \in DOMAIN to_cs
  BY <1>1, AtEntry, SenderDefs DEF SendInv, KnowsEntry
<1>4. /\ returns \in {0, 1} /\ (returns = 1 => Success(t)) /\ (returns = 0 => ~Success(t))
  OBVIOUS
<1> HIDE DEF returns
<1>5. SendTypes'
  <2>1. /\ at' \in [Callers -> {"idle", "lock", "encode", "send", "unlock"}]
        /\ result' \in [Callers -> {-1, 0, 1}]
    BY <1>1, <1>2, <1>4 DEF SendTypes
  <2>2. to_cs' \in Seq(SUBSET Callers) /\ Len(to_cs') = Len(to_cs)
    <3>1. /\ to_cs \in Seq(SUBSET Callers) /\ to[t] \in 1 .. Len(to_cs)
      BY <1>1, <1>3 DEF SendTypes
    <3>2. to_cs[to[t]] \ {t} \in SUBSET Callers
      BY <3>1, ElementOfSeq
    <3> QED
      BY <1>2, <3>1, <3>2, ExceptSeq
  <2> QED
    BY <1>1, <1>2, <2>1, <2>2 DEF SendTypes
<1>6. at'[t] = "idle" /\ result'[t] = returns
  BY <1>1, <1>2 DEF SendTypes
<1>7. SenderInv(t)'
  <2>1. KnowsEntry(t)'
    BY <1>2, <1>3 DEF KnowsEntry
  <2>2. HasBuffer(t)' /\ LengthsAddUp(t)' /\ HasSent(t)' /\ SentEmpty(t)'
    BY <1>6 DEF HasBuffer, HoldsMutex, Sends, LengthsAddUp, HasSent, SentEmpty
  <2>3. IsTold(t)'
    <3>1. /\ Success(t) => Returned1(t)
          /\ ~Success(t) => Returned0(t)
      BY <1>1, LoopEnded
    <3>2. Returned1(t)' = Returned1(t) /\ Returned0(t)' = Returned0(t)
      BY <1>2 DEF Returned1, Returned0, Strayed, OwnPart
    <3> QED
      BY <1>4, <1>6, <3>1, <3>2 DEF IsTold
  <2> QED
    BY <2>1, <2>2, <2>3 DEF SenderInv
<1>8. ASSUME NEW u \in Callers \ {t} PROVE SenderInv(u)'
  <2>1. EntriesStay
    BY <1>1, <1>2, SameEntries
  <2>2. SameThread(u)
    BY <1>1, <1>2 DEF SameThread, SendTypes
  <2>3. ASSUME HoldsMutex(u) PROVE to_cs'[to[u]] = to_cs[to[u]]
    <3>1. to[u] # to[t] /\ to[u] \in DOMAIN to_cs
      BY <1>1, <2>3, AtEntry, OneAtEntry DEF HoldsMutex
    <3> QED
      BY <1>2, <3>1
  <2> QED
    BY <1>2, <2>1, <2>2, <2>3, OtherThread
<1> QED
  BY <1>5, <1>7, <1>8, ByThreads

(* What a call returns tells what it has done, as far as it can, whatever  *)
(* the lengths, how often sendto fails, an empty one included, and how     *)
(* many threads send to one address: whoever encodes holds the mutex, so   *)
(* the buffer is its own until it unlocks, and the two lengths tell how    *)
(* often sendto has failed until bytes are sent that are not the message's.*)
THEOREM ResultIsTrue == SendSpec => []ResultTells
<1>1. ASSUME SendInv, [SendNext]_sendVars PROVE SendInv'
  <2>1. CASE SendNext
    <3>1. PICK t \in Callers :
            \/ \E address \in Addresses : Find(t, address) \/ FindFails(t, address)
            \/ Lock(t)
            \/ \E length \in Encoded : Encode(t, length)
            \/ SendTo(t) \/ SendToFails(t) \/ Unlock(t)
      BY <2>1 DEF SendNext
    <3>2. CASE \E address \in Addresses : Find(t, address) \/ FindFails(t, address)
      BY <1>1, <3>2, FoundEntry, NotFound
    <3>3. CASE Lock(t)
      BY <1>1, <3>3, Locked
    <3>4. CASE \E length \in Encoded : Encode(t, length)
      BY <1>1, <3>4, EncodedOne
    <3>5. CASE SendTo(t)
      BY <1>1, <3>5, SentOne
    <3>6. CASE SendToFails(t)
      BY <1>1, <3>6, SentNone
    <3>7. CASE Unlock(t)
      BY <1>1, <3>7, Unlocked
    <3> QED
      BY <3>1, <3>2, <3>3, <3>4, <3>5, <3>6, <3>7
  <2>2. CASE UNCHANGED sendVars
    <3>1. /\ _message_tos' = _message_tos /\ to_cs' = to_cs /\ _messagebuffer' = _messagebuffer
          /\ at' = at /\ to' = to /\ failed' = failed /\ wire' = wire /\ made' = made
          /\ sendlen_s' = sendlen_s /\ sendlen' = sendlen /\ sendedlen' = sendedlen
          /\ result' = result
      BY <2>2 DEF sendVars, locals
    <3>2. SendTypes'
      BY <1>1, <3>1 DEF SendInv, SendTypes
    <3>3. EntriesStay
      BY <1>1, <3>1, SameEntries DEF SendInv
    <3>4. ASSUME NEW t \in Callers PROVE SenderInv(t)'
      BY <1>1, <3>1, <3>3, OtherThread DEF SameThread
    <3> QED
      BY <3>2, <3>4 DEF SendInv
  <2> QED
    BY <1>1, <2>1, <2>2
<1>2. SendInv => ResultTells
  BY DEF SendInv, SenderInv, IsTold, Returned1, Returned0, ResultTells
<1> QED
  BY InitSends, <1>1, <1>2, PTL DEF SendSpec

-----------------------------------------------------------------------------
(* The alarms of a host. *)

Fates == {"set", "called", "ended", "mistaken"}

AlarmTypes ==
  /\ _alarms \in Blocks \cup {NULL} /\ _repeat \in [Blocks -> BOOLEAN]
  /\ allocated \subseteq Blocks /\ phase \in {"callback", "walk", "alarm"}
  /\ alarms \in Blocks \cup {NULL} /\ prev_alarm \in Blocks \cup {NULL}
  /\ variable \in [Variables -> Blocks \cup {NULL}]
  /\ starts \in Seq([block : Blocks, variable : Variables, became : Fates, within : Nat])

(* No block is ever linked to another, and no alarm waits. *)
NeverLinked == _next = [b \in Blocks |-> NULL] /\ _time = [b \in Blocks |-> 0]

(* The walk meets at most the alarm that was the head when it began, which *)
(* callbacks may have unlinked, but have not freed.                        *)
WalkInv ==
  /\ _alarms # NULL => _alarms \in allocated
  /\ phase # "callback" => {alarms, prev_alarm} \ {NULL} \subseteq allocated
  /\ phase = "alarm" => alarms # NULL
  /\ phase = "walk" /\ alarms # NULL => alarms = _alarms
  /\ phase # "callback" /\ alarms # NULL => prev_alarm = NULL /\ next_alarm = INFINITE
  /\ phase = "walk" /\ alarms = NULL /\ _alarms # NULL => next_alarm = 0

In(b) == {s \in DOMAIN starts : starts[s].block = b}
Into(v) == {s \in DOMAIN starts : starts[s].variable = v}

Was(s) == starts[s].became

(* A block is malloc'ed again only when the alarm in it is no more set, so *)
(* that a set one is the latest in its block; the head's block has one.    *)
LatestIsSet ==
  /\ \A s \in DOMAIN starts :
       Was(s) = "set" => starts[s].block \in allocated /\ StartIn(starts[s].block) = s
  /\ _alarms # NULL => In(_alarms) # {} /\ Was(StartIn(_alarms)) = "set"

(* A variable has the block of the last alarm started into it, and is NULL *)
(* when that alarm was ended through it.                                   *)
VariableKept ==
  \A v \in Variables : variable[v] # NULL =>
    /\ Into(v) # {} /\ starts[StartInto(v)].block = variable[v]
    /\ Was(StartInto(v)) # "ended"

Unset(s) == Was(s) \in {"ended", "mistaken"}

(* In an alarm's callback: if the alarm is not the head any more, it was   *)
(* ended, and the head, if there is one, was started in this callback.     *)
WithinKept ==
  phase = "alarm" =>
    /\ In(alarms) # {}
    /\ _alarms # alarms => Unset(StartIn(alarms))
    /\ _alarms \notin {NULL, alarms} => starts[StartIn(_alarms)].within = StartIn(alarms)

SetOrLost ==
  \A s \in DOMAIN starts : Was(s) = "set" =>
    \/ starts[s].block = _alarms
    \/ starts[s].within \in DOMAIN starts /\ Unset(starts[s].within)

MistakenForCalled ==
  \A s \in DOMAIN starts : Was(s) = "mistaken" =>
    \E r \in 1 .. s - 1 : starts[r].block = starts[s].block /\ Was(r) = "called"

AlarmsKept ==
  /\ LatestIsSet
  /\ VariableKept
  /\ WithinKept
  /\ SetOrLost
  /\ MistakenForCalled

AlarmsInv ==
  /\ AlarmTypes
  /\ NeverLinked
  /\ WalkInv
  /\ fate = "runs" => AlarmsKept

(* A set of numbers with a bound has a greatest one. *)
LEMMA Greatest ==
  ASSUME NEW n \in Nat, NEW S, S \subseteq 1 .. n, S # {}
  PROVE  Max(S) \in S /\ \A k \in S : k <= Max(S)
<1> DEFINE T == {n - k : k \in S}
<1>1. T \subseteq Nat /\ T # {}
  <2>1. \A k \in S : n - k \in Nat
    OBVIOUS
  <2>2. PICK k : k \in S
    OBVIOUS
  <2>3. n - k \in T
    BY <2>2
  <2> QED
    BY <2>1, <2>3
<1> HIDE DEF T
<1>2. PICK least \in T : \A m \in T : ~(<<m, least>> \in OpToRel(<, Nat))
  BY <1>1, WFMin, NatLessThanWellFounded
<1>3. \A m \in T : ~(m < least)
  BY <1>1, <1>2 DEF OpToRel
<1>4. PICK k \in S : least = n - k
  BY DEF T
<1>5. ASSUME NEW j \in S PROVE j <= k
  <2>1. n - j \in T
    BY DEF T
  <2>2. ~(n - j < n - k)
    BY <1>3, <1>4, <2>1
  <2> QED
    BY <2>2
<1>6. \A j \in S : k >= j
  BY <1>5
<1>7. Max(S) \in S /\ \A j \in S : Max(S) >= j
  BY <1>6, Zenon DEF Max
<1> QED
  BY <1>7

LEMMA NullIsNoBlock == NULL \notin Blocks
  BY BlocksAssumption DEF NULL

LEMMA StartsTyped ==
  ASSUME AlarmTypes
  PROVE  /\ Len(starts) \in Nat /\ DOMAIN starts = 1 .. Len(starts)
         /\ \A s \in DOMAIN starts :
              /\ starts[s] \in [block : Blocks, variable : Variables, became : Fates, within : Nat]
              /\ starts[s].block \in Blocks /\ starts[s].variable \in Variables
              /\ Was(s) \in Fates /\ starts[s].within \in Nat
<1> DEFINE Start == [block : Blocks, variable : Variables, became : Fates, within : Nat]
<1>1. starts \in Seq(Start)
  BY DEF AlarmTypes
<1> HIDE DEF Start
<1>2. /\ Len(starts) \in Nat /\ DOMAIN starts = 1 .. Len(starts)
      /\ \A s \in DOMAIN starts : starts[s] \in Start
  BY <1>1, LenProperties, ElementOfSeq
<1>3. ASSUME NEW x \in Start
      PROVE  x.block \in Blocks /\ x.variable \in Variables /\ x.became \in Fates
             /\ x.within \in Nat
  BY DEF Start
<1> QED
  BY <1>2, <1>3 DEF Start, Was

(* The latest start in a block that has one. *)
LEMMA LatestIn ==
  ASSUME AlarmTypes, NEW b, In(b) # {}
  PROVE  /\ StartIn(b) \in DOMAIN starts /\ starts[StartIn(b)].block = b
         /\ \A s \in DOMAIN starts : starts[s].block = b => s <= StartIn(b)
<1>1. Len(starts) \in Nat /\ In(b) \subseteq 1 .. Len(starts)
  BY StartsTyped DEF In
<1>2. Max(In(b)) \in In(b) /\ \A s \in In(b) : s <= Max(In(b))
  BY <1>1, Greatest
<1>3. StartIn(b) = Max(In(b))
  BY DEF StartIn, In
<1> QED
  BY <1>2, <1>3 DEF In

LEMMA LatestInto ==
  ASSUME AlarmTypes, NEW v, Into(v) # {}
  PROVE  /\ StartInto(v) \in DOMAIN starts /\ starts[StartInto(v)].variable = v
<1>1. Len(starts) \in Nat /\ Into(v) \subseteq 1 .. Len(starts)
  BY StartsTyped DEF Into
<1>2. Max(Into(v)) \in Into(v)
  BY <1>1, Greatest
<1>3. StartInto(v) = Max(Into(v))
  BY DEF StartInto, Into
<1> QED
  BY <1>2, <1>3 DEF Into

(* What becomes of one alarm changes none of the others, and no set alarm  *)
(* appears.                                                                *)
LEMMA BecomesOne ==
  ASSUME AlarmTypes, NEW t \in DOMAIN starts, NEW what \in Fates, starts' = Becomes(t, what)
  PROVE  /\ starts' \in Seq([block : Blocks, variable : Variables, became : Fates, within : Nat])
         /\ DOMAIN starts' = DOMAIN starts
         /\ \A s \in DOMAIN starts :
              /\ starts'[s].block = starts[s].block /\ starts'[s].variable = starts[s].variable
              /\ starts'[s].within = starts[s].within
              /\ s # t \/ Was(s) # "set" => Was(s)' = Was(s)
         /\ Was(t) = "set" => Was(t)' = what
         /\ \A b : In(b)' = In(b) /\ StartIn(b)' = StartIn(b)
         /\ \A v : Into(v)' = Into(v) /\ StartInto(v)' = StartInto(v)
<1> DEFINE Start == [block : Blocks, variable : Variables, became : Fates, within : Nat]
           new == [starts[t] EXCEPT !.became = what]
<1>1. /\ starts \in Seq(Start) /\ t \in 1 .. Len(starts) /\ starts[t] \in Start
      /\ DOMAIN starts = 1 .. Len(starts) /\ Len(starts) \in Nat
  BY StartsTyped DEF AlarmTypes
<1>2. /\ new \in Start /\ new.block = starts[t].block /\ new.variable = starts[t].variable
      /\ new.within = starts[t].within /\ new.became = what
  BY <1>1
<1>3. starts' = IF Was(t) = "set" THEN [starts EXCEPT ![t] = new] ELSE starts
  BY DEF Becomes, Was
<1> HIDE DEF Start, new
<1>4. /\ [starts EXCEPT ![t] = new] \in Seq(Start)
      /\ Len([starts EXCEPT ![t] = new]) = Len(starts)
      /\ \A s \in 1 .. Len(starts) :
           [starts EXCEPT ![t] = new][s] = IF s = t THEN new ELSE starts[s]
  BY <1>1, <1>2, ExceptSeq
<1>5. starts' \in Seq(Start) /\ DOMAIN starts' = DOMAIN starts
  <2>1. starts' \in Seq(Start) /\ Len(starts') = Len(starts)
    BY <1>1, <1>3, <1>4
  <2>2. DOMAIN starts' = 1 .. Len(starts')
    BY <2>1, LenProperties
  <2> QED
    BY <1>1, <2>1, <2>2
<1>6. \A s \in DOMAIN starts :
        starts'[s] = IF s = t /\ Was(t) = "set" THEN new ELSE starts[s]
  BY <1>1, <1>3, <1>4
<1>7. /\ \A s \in DOMAIN starts :
           /\ starts'[s].block = starts[s].block /\ starts'[s].variable = starts[s].variable
           /\ starts'[s].within = starts[s].within
           /\ s # t \/ Was(s) # "set" => Was(s)' = Was(s)
      /\ Was(t) = "set" => Was(t)' = what
  BY <1>2, <1>6 DEF Was
<1>8. ASSUME NEW b PROVE In(b)' = In(b) /\ StartIn(b)' = StartIn(b)
  <2>1. {s \in DOMAIN starts' : starts'[s].block = b} = {s \in DOMAIN starts : starts[s].block = b}
    BY <1>5, <1>7
  <2> QED
    BY <2>1 DEF In, StartIn
<1>9. ASSUME NEW v PROVE Into(v)' = Into(v) /\ StartInto(v)' = StartInto(v)
  <2>1. {s \in DOMAIN starts' : starts'[s].variable = v}
          = {s \in DOMAIN starts : starts[s].variable = v}
    BY <1>5, <1>7
  <2> QED
    BY <2>1 DEF Into, StartInto
<1>10. starts' \in Seq([block : Blocks, variable : Variables, became : Fates, within : Nat])
  BY <1>5 DEF Start
<1> QED
  BY <1>5, <1>7, <1>8, <1>9, <1>10

(* A new start is the latest in its block and into its variable. *)
LEMMA StartsOne ==
  ASSUME AlarmTypes, NEW b \in Blocks, NEW v \in Variables, NEW w \in Nat,
         starts' = Append(starts, [block |-> b, variable |-> v, became |-> "set", within |-> w])
  PROVE  LET n == Len(starts) + 1
         IN /\ starts' \in Seq([block : Blocks, variable : Variables, became : Fates, within : Nat])
            /\ n \in Nat /\ n \notin DOMAIN starts
            /\ DOMAIN starts' = DOMAIN starts \cup {n}
            /\ \A s \in DOMAIN starts : starts'[s] = starts[s] /\ s < n
            /\ starts'[n].block = b /\ starts'[n].variable = v /\ starts'[n].within = w
            /\ starts'[n].became = "set"
            /\ In(b)' # {} /\ StartIn(b)' = n /\ Into(v)' # {} /\ StartInto(v)' = n
            /\ \A c : c # b => In(c)' = In(c) /\ StartIn(c)' = StartIn(c)
            /\ \A u : u # v => Into(u)' = Into(u) /\ StartInto(u)' = StartInto(u)
<1> DEFINE Start == [block : Blocks, variable : Variables, became : Fates, within : Nat]
           new == [block |-> b, variable |-> v, became |-> "set", within |-> w]
           n == Len(starts) + 1
<1>1. starts \in Seq(Start) /\ DOMAIN starts = 1 .. Len(starts) /\ Len(starts) \in Nat
  BY StartsTyped DEF AlarmTypes
<1>2. /\ new \in Start /\ new.block = b /\ new.variable = v /\ new.within = w
      /\ new.became = "set"
  BY DEF Fates
<1>3. starts' = Append(starts, new)
  OBVIOUS
<1> HIDE DEF Start, new
<1>4. /\ starts' \in Seq(Start) /\ Len(starts') = n /\ starts'[n] = new
      /\ \A s \in 1 .. Len(starts) : starts'[s] = starts[s]
  BY <1>1, <1>2, <1>3, AppendProperties
<1>5. DOMAIN starts' = 1 .. n
  BY <1>4, LenProperties
<1>6. /\ n \in Nat /\ n \notin DOMAIN starts /\ DOMAIN starts' = DOMAIN starts \cup {n}
      /\ \A s \in DOMAIN starts : starts'[s] = starts[s] /\ s < n
      /\ DOMAIN starts' \subseteq 1 .. n /\ n \in DOMAIN starts'
  BY <1>1, <1>4, <1>5
<1> HIDE DEF n
<1>7. /\ starts'[n].block = b /\ starts'[n].variable = v /\ starts'[n].within = w
      /\ starts'[n].became = "set"
  BY <1>2, <1>4
<1>8. ASSUME NEW S, S \subseteq DOMAIN starts', n \in S PROVE Max(S) = n
  <2>1. Max(S) \in S /\ \A k \in S : k <= Max(S)
    BY <1>6, <1>8, Greatest
  <2> QED
    BY <1>5, <1>6, <1>8, <2>1
<1>9. In(b)' # {} /\ StartIn(b)' = n
  <2> DEFINE S == {s \in DOMAIN starts' : starts'[s].block = b}
  <2>1. n \in S /\ S \subseteq DOMAIN starts'
    BY <1>6, <1>7
  <2>2. Max(S) = n
    BY <1>8, <2>1
  <2> QED
    BY <2>1, <2>2 DEF In, StartIn
<1>10. Into(v)' # {} /\ StartInto(v)' = n
  <2> DEFINE S == {s \in DOMAIN starts' : starts'[s].variable = v}
  <2>1. n \in S /\ S \subseteq DOMAIN starts'
    BY <1>6, <1>7
  <2>2. Max(S) = n
    BY <1>8, <2>1
  <2> QED
    BY <2>1, <2>2 DEF Into, StartInto
<1>11. ASSUME NEW c, c # b PROVE In(c)' = In(c) /\ StartIn(c)' = StartIn(c)
  <2>1. {s \in DOMAIN starts' : starts'[s].block = c} = {s \in DOMAIN starts : starts[s].block = c}
    BY <1>6, <1>7, <1>11
  <2> QED
    BY <2>1 DEF In, StartIn
<1>12. ASSUME NEW u, u # v PROVE Into(u)' = Into(u) /\ StartInto(u)' = StartInto(u)
  <2>1. {s \in DOMAIN starts' : starts'[s].variable = u}
          = {s \in DOMAIN starts : starts[s].variable = u}
    BY <1>6, <1>7, <1>12
  <2> QED
    BY <2>1 DEF Into, StartInto
<1>13. starts' \in Seq([block : Blocks, variable : Variables, became : Fates, within : Nat])
  BY <1>4 DEF Start
<1> QED
  BY <1>6, <1>7, <1>9, <1>10, <1>11, <1>12, <1>13 DEF n

LEMMA LinkedIs ==
  ASSUME AlarmTypes, NeverLinked
  PROVE  /\ _alarms = NULL => Linked = {}
         /\ _alarms # NULL => Linked = {_alarms}
<1>1. Pointers(_next, Blocks)
  BY NullIsNoBlock DEF NeverLinked, Pointers
<1>2. CASE _alarms = NULL
  BY <1>2, ReachNone DEF Linked
<1>3. CASE _alarms # NULL
  <2>1. _alarms \in Blocks /\ _next[_alarms] = NULL
    BY <1>3 DEF AlarmTypes, NeverLinked
  <2> QED
    BY <1>1, <1>3, <2>1, ReachOne DEF Linked
<1> QED
  BY <1>2, <1>3

LEMMA InitAlarms == AlarmsInit => AlarmsInv
<1> SUFFICES ASSUME AlarmsInit PROVE AlarmsInv
  OBVIOUS
<1>1. starts = << >> /\ DOMAIN starts = {} /\ phase = "callback" /\ _alarms = NULL
  BY DEF AlarmsInit
<1>2. AlarmTypes
  <2>1. starts \in Seq([block : Blocks, variable : Variables, became : Fates, within : Nat])
    BY <1>1
  <2>2. /\ _repeat \in [Blocks -> BOOLEAN] /\ variable \in [Variables -> Blocks \cup {NULL}]
        /\ allocated \subseteq Blocks /\ alarms = NULL /\ prev_alarm = NULL
    BY DEF AlarmsInit
  <2> QED
    BY <1>1, <2>1, <2>2 DEF AlarmTypes
<1>3. NeverLinked /\ WalkInv
  BY DEF AlarmsInit, NeverLinked, WalkInv
<1>4. AlarmsKept
  <2>1. \A v \in Variables : variable[v] = NULL
    BY DEF AlarmsInit
  <2> QED
    BY <1>1, <2>1
       DEF AlarmsKept, LatestIsSet, VariableKept, WithinKept, SetOrLost, MistakenForCalled
<1> QED
  BY <1>2, <1>3, <1>4 DEF AlarmsInv

(* The steps that start and end no alarm. *)
LEMMA SameAlarms ==
  ASSUME AlarmsInv, starts' = starts, variable' = variable, allocated' = allocated,
         _alarms' = _alarms, fate' = fate, fate = "runs" => WithinKept'
  PROVE  fate' = "runs" => AlarmsKept'
<1> SUFFICES ASSUME fate = "runs" PROVE AlarmsKept'
  OBVIOUS
<1>1. /\ LatestIsSet
      /\ VariableKept
      /\ SetOrLost
      /\ MistakenForCalled
  BY DEF AlarmsInv, AlarmsKept
<1>2. \A b : In(b)' = In(b) /\ StartIn(b)' = StartIn(b)
  BY DEF In, StartIn
<1>3. \A v : Into(v)' = Into(v) /\ StartInto(v)' = StartInto(v)
  BY DEF Into, StartInto
<1>4. \A s : Was(s)' = Was(s)
  BY DEF Was
<1>5. LatestIsSet'
  BY <1>1 DEF LatestIsSet, In, StartIn, Was
<1>6. VariableKept'
  BY <1>1 DEF VariableKept, Into, StartInto, Was
<1>7. SetOrLost' /\ MistakenForCalled'
  BY <1>1 DEF SetOrLost, MistakenForCalled, Unset, Was
<1> QED
  BY <1>5, <1>6, <1>7 DEF AlarmsKept

LEMMA Scheduled ==
  ASSUME AlarmsInv, Schedule
  PROVE  AlarmsInv'
<1>1. AlarmTypes /\ NeverLinked /\ WalkInv
  BY DEF AlarmsInv
<1>2. /\ phase' = "walk" /\ alarms' = _alarms /\ prev_alarm' = NULL /\ next_alarm' = INFINITE
      /\ starts' = starts /\ variable' = variable /\ allocated' = allocated
      /\ _alarms' = _alarms /\ _next' = _next /\ _time' = _time /\ _repeat' = _repeat
      /\ fate' = fate
  BY DEF Schedule, blocks
<1>3. AlarmTypes'
  BY <1>1, <1>2 DEF AlarmTypes
<1>4. NeverLinked' /\ WalkInv'
  BY <1>1, <1>2 DEF NeverLinked, WalkInv
<1>5. WithinKept'
  BY <1>2 DEF WithinKept
<1> QED
  BY <1>2, <1>3, <1>4, <1>5, SameAlarms DEF AlarmsInv

(* No alarm has to wait: _time is never set. *)
LEMMA Looked ==
  ASSUME AlarmsInv, NEW flow_tick \in FlowTicks, Look(flow_tick)
  PROVE  AlarmsInv'
<1>1. AlarmTypes /\ NeverLinked /\ WalkInv
  BY DEF AlarmsInv
<1>2. phase = "walk" /\ alarms # NULL /\ alarms \in Blocks /\ alarms = _alarms
  BY <1>1 DEF Look, AlarmTypes, WalkInv
<1>3. /\ starts' = starts /\ variable' = variable /\ allocated' = allocated
      /\ _alarms' = _alarms /\ _next' = _next /\ _time' = _time /\ _repeat' = _repeat
      /\ fate' = fate
  BY DEF Look, blocks
<1>4. flow_tick >= _time[alarms]
  <2>1. _time[alarms] = 0 /\ flow_tick \in Nat
    BY <1>1, <1>2, TicksAssumption DEF NeverLinked
  <2> QED
    BY <2>1
<1>5. /\ phase' = "alarm" /\ alarms' = alarms /\ prev_alarm' = prev_alarm
      /\ next_alarm' = next_alarm
  BY <1>4 DEF Look
<1>6. AlarmTypes'
  BY <1>1, <1>3, <1>5 DEF AlarmTypes
<1>7. NeverLinked' /\ WalkInv'
  BY <1>1, <1>2, <1>3, <1>5 DEF NeverLinked, WalkInv
<1>8. ASSUME fate = "runs" PROVE WithinKept'
  <2>1. In(_alarms) # {}
    BY <1>2, <1>8 DEF AlarmsInv, AlarmsKept, LatestIsSet
  <2>2. In(alarms)' = In(alarms)
    BY <1>3, <1>5 DEF In
  <2>3. In(alarms)' # {} /\ _alarms' = alarms'
    BY <1>2, <1>3, <1>5, <2>1, <2>2
  <2> QED
    BY <2>3 DEF WithinKept
<1> QED
  BY <1>3, <1>6, <1>7, <1>8, SameAlarms DEF AlarmsInv

LEMMA Repeated ==
  ASSUME AlarmsInv, Repeats
  PROVE  AlarmsInv'
<1>1. AlarmTypes /\ NeverLinked /\ WalkInv
  BY DEF AlarmsInv
<1>2. phase = "alarm" /\ alarms # NULL /\ alarms \in Blocks /\ alarms \in allocated
      /\ next_alarm = INFINITE
  BY <1>1 DEF Repeats, AlarmTypes, WalkInv
<1>3. /\ starts' = starts /\ variable' = variable /\ allocated' = allocated
      /\ _alarms' = _alarms /\ _next' = _next /\ _time' = _time /\ _repeat' = _repeat
      /\ fate' = fate
  BY DEF Repeats, blocks
<1>4. phase' = "walk" /\ alarms' = NULL /\ prev_alarm' = alarms /\ next_alarm' = 0
  <2>1. _time[alarms] = 0 /\ _next[alarms] = NULL
    BY <1>1, <1>2 DEF NeverLinked
  <2>2. Sooner(_time[alarms]) = 0
    BY <1>2, <2>1 DEF Sooner
  <2> QED
    BY <2>1, <2>2 DEF Repeats
<1>5. AlarmTypes'
  BY <1>1, <1>2, <1>3, <1>4 DEF AlarmTypes
<1>6. NeverLinked' /\ WalkInv'
  BY <1>1, <1>2, <1>3, <1>4 DEF NeverLinked, WalkInv
<1>7. WithinKept'
  BY <1>4 DEF WithinKept
<1> QED
  BY <1>3, <1>5, <1>6, <1>7, SameAlarms DEF AlarmsInv

LEMMA ReceivedOne ==
  ASSUME AlarmsInv, Receive
  PROVE  AlarmsInv'
<1>1. AlarmTypes /\ NeverLinked /\ WalkInv
  BY DEF AlarmsInv
<1>2. /\ phase' = "callback" /\ alarms' = alarms /\ prev_alarm' = prev_alarm
      /\ next_alarm' = next_alarm
      /\ starts' = starts /\ variable' = variable /\ allocated' = allocated
      /\ _alarms' = _alarms /\ _next' = _next /\ _time' = _time /\ _repeat' = _repeat
      /\ fate' = fate
  BY DEF Receive, blocks
<1>3. AlarmTypes'
  BY <1>1, <1>2 DEF AlarmTypes
<1>4. NeverLinked' /\ WalkInv'
  BY <1>1, <1>2 DEF NeverLinked, WalkInv
<1>5. WithinKept'
  BY <1>2 DEF WithinKept
<1> QED
  BY <1>2, <1>3, <1>4, <1>5, SameAlarms DEF AlarmsInv

(* A second alarm finds no end of the list: the start crashes. *)
LEMMA StartedOne ==
  ASSUME AlarmsInv, NEW v \in Variables, NEW b \in Blocks, NEW repeat \in BOOLEAN,
         AlarmStart(v, b, repeat)
  PROVE  AlarmsInv'
<1> DEFINE w == IF phase = "alarm" THEN StartIn(alarms) ELSE 0
           n == Len(starts) + 1
<1>1. AlarmTypes /\ NeverLinked /\ WalkInv /\ fate = "runs" /\ phase \in {"callback", "alarm"}
  BY DEF AlarmsInv, AlarmStart, InCallback
<1>2. /\ LatestIsSet
      /\ VariableKept
      /\ WithinKept
      /\ SetOrLost
      /\ MistakenForCalled
  BY <1>1 DEF AlarmsInv, AlarmsKept
<1>3. variable[v] = NULL /\ b \notin allocated /\ b # NULL
  BY NullIsNoBlock DEF AlarmStart
<1>4. /\ allocated' = allocated \cup {b} /\ _time' = [_time EXCEPT ![b] = 0]
      /\ _repeat' = [_repeat EXCEPT ![b] = repeat]
      /\ _alarms' = IF _alarms = NULL THEN b ELSE _alarms
      /\ variable' = [variable EXCEPT ![v] = b]
      /\ starts' = Append(starts, [block |-> b, variable |-> v, became |-> "set", within |-> w])
      /\ alarms' = alarms /\ prev_alarm' = prev_alarm /\ next_alarm' = next_alarm
      /\ phase' = phase
  BY DEF AlarmStart, walk
<1>5. /\ _next' = [_next EXCEPT ![b] = NULL]
      /\ fate' = IF _alarms # NULL THEN "crashed" ELSE fate
  <2>1. _alarms # NULL => End = NULL
    BY <1>1 DEF AlarmTypes, NeverLinked, End
  <2> QED
    BY <2>1 DEF AlarmStart
<1>6. w \in Nat /\ (phase = "alarm" => w \in DOMAIN starts)
  <2>1. CASE phase = "alarm"
    <3>1. StartIn(alarms) \in DOMAIN starts
      BY <1>1, <1>2, <2>1, LatestIn DEF WithinKept
    <3> QED
      BY <1>1, <2>1, <3>1, StartsTyped
  <2> QED
    BY <2>1
<1>7. phase = "alarm" => w = StartIn(alarms)
  OBVIOUS
<1> HIDE DEF w
<1>8. /\ starts' \in Seq([block : Blocks, variable : Variables, became : Fates, within : Nat])
      /\ n \in Nat /\ n \notin DOMAIN starts /\ DOMAIN starts' = DOMAIN starts \cup {n}
      /\ \A s \in DOMAIN starts : starts'[s] = starts[s] /\ s < n
      /\ starts'[n].block = b /\ starts'[n].variable = v /\ starts'[n].within = w
      /\ starts'[n].became = "set"
      /\ In(b)' # {} /\ StartIn(b)' = n /\ Into(v)' # {} /\ StartInto(v)' = n
  BY <1>1, <1>4, <1>6, StartsOne
<1>9. /\ \A c : c # b => In(c)' = In(c) /\ StartIn(c)' = StartIn(c)
      /\ \A u : u # v => Into(u)' = Into(u) /\ StartInto(u)' = StartInto(u)
  BY <1>1, <1>4, <1>6, StartsOne
<1> HIDE DEF n
<1>10. AlarmTypes'
  <2>1. _alarms' \in Blocks \cup {NULL} /\ allocated' \subseteq Blocks
    BY <1>1, <1>4 DEF AlarmTypes
  <2>2. /\ _repeat' \in [Blocks -> BOOLEAN]
        /\ variable' \in [Variables -> Blocks \cup {NULL}]
    BY <1>1, <1>4 DEF AlarmTypes
  <2> QED
    BY <1>1, <1>4, <1>8, <2>1, <2>2 DEF AlarmTypes
<1>11. NeverLinked'
  BY <1>1, <1>4, <1>5 DEF NeverLinked
<1>12. WalkInv'
  <2>1. _alarms' # NULL => _alarms' \in allocated'
    BY <1>1, <1>4 DEF WalkInv
  <2> QED
    BY <1>1, <1>4, <2>1 DEF WalkInv
<1>13. ASSUME fate' = "runs" PROVE AlarmsKept'
  <2>1. _alarms = NULL /\ _alarms' = b
    BY <1>4, <1>5, <1>13
  <2>2. \A s \in DOMAIN starts : Was(s)' = Was(s)
    BY <1>8 DEF Was
  <2>3. \A s : Was(s)' = starts'[s].became
    BY DEF Was
  <2>4. \A s \in DOMAIN starts :
          Was(s) = "set" => starts[s].block \in allocated /\ StartIn(starts[s].block) = s
    BY <1>2 DEF LatestIsSet
  <2>5. LatestIsSet'
    <3>1. ASSUME NEW s \in DOMAIN starts', starts'[s].became = "set"
          PROVE  starts'[s].block \in allocated' /\ StartIn(starts[s].block)' = s
      <4>1. PICK c : c = starts'[s].block
        OBVIOUS
      <4>2. StartIn(starts[s].block)' = StartIn(c)'
        BY <4>1 DEF StartIn
      <4>3. CASE s = n
        <5>1. c = b
          BY <1>8, <4>1, <4>3
        <5> QED
          BY <1>4, <1>8, <4>1, <4>2, <4>3, <5>1
      <4>4. CASE s \in DOMAIN starts
        <5>1. c = starts[s].block /\ Was(s) = "set"
          BY <1>8, <3>1, <4>1, <4>4 DEF Was
        <5>2. c \in allocated /\ StartIn(c) = s
          BY <2>4, <4>4, <5>1
        <5>3. StartIn(c)' = s
          BY <1>3, <1>9, <5>2
        <5> QED
          BY <1>4, <4>1, <4>2, <5>2, <5>3
      <4> QED
        BY <1>8, <4>3, <4>4
    <3>2. In(_alarms)' # {} /\ Was(StartIn(_alarms))' = "set"
      <4>1. In(_alarms)' = In(b)' /\ StartIn(_alarms)' = StartIn(b)'
        BY <2>1 DEF In, StartIn
      <4>2. Was(StartIn(_alarms))' = starts'[StartIn(_alarms)'].became
        BY DEF Was
      <4> QED
        BY <1>8, <4>1, <4>2
    <3>3. \A s \in DOMAIN starts' : Was(s)' = "set" =>
            starts'[s].block \in allocated' /\ StartIn(starts[s].block)' = s
      BY <2>3, <3>1
    <3> QED
      BY <3>2, <3>3, Zenon DEF LatestIsSet
  <2>6. VariableKept'
    <3> SUFFICES ASSUME NEW u \in Variables, variable'[u] # NULL
                 PROVE  /\ Into(u)' # {} /\ starts'[StartInto(u)'].block = variable'[u]
                        /\ starts'[StartInto(u)'].became # "ended"
      BY Zenon DEF VariableKept, Was
    <3>1. CASE u = v
      BY <1>1, <1>4, <1>8, <3>1 DEF AlarmTypes
    <3>2. CASE u # v
      <4>1. variable'[u] = variable[u] /\ Into(u)' = Into(u) /\ StartInto(u)' = StartInto(u)
        BY <1>1, <1>4, <1>9, <3>2 DEF AlarmTypes
      <4>2. /\ Into(u) # {} /\ starts[StartInto(u)].block = variable[u]
            /\ Was(StartInto(u)) # "ended"
        BY <1>2, <4>1 DEF VariableKept
      <4>3. StartInto(u) \in DOMAIN starts
        BY <1>1, <4>2, LatestInto
      <4> QED
        BY <1>8, <4>1, <4>2, <4>3 DEF Was
    <3> QED
      BY <3>1, <3>2
  <2>7. WithinKept'
    <3> SUFFICES ASSUME phase' = "alarm"
                 PROVE  /\ In(alarms)' # {}
                        /\ Unset(StartIn(alarms))'
                        /\ starts'[StartIn(_alarms)'].within = StartIn(alarms)'
      BY DEF WithinKept
    <3>1. phase = "alarm" /\ alarms # NULL /\ alarms \in allocated /\ alarms # b
      BY <1>1, <1>3, <1>4 DEF WalkInv
    <3>2. In(alarms) # {} /\ Unset(StartIn(alarms))
      BY <1>2, <2>1, <3>1 DEF WithinKept
    <3>3. StartIn(alarms) \in DOMAIN starts
      BY <1>1, <3>2, LatestIn
    <3>4. PICK a : a = alarms
      OBVIOUS
    <3>5. In(alarms)' = In(a)' /\ StartIn(alarms)' = StartIn(a)'
      BY <1>4, <3>4 DEF In, StartIn
    <3>6. In(a)' = In(a) /\ StartIn(a)' = StartIn(a)
      BY <1>9, <3>1, <3>4
    <3>7. StartIn(_alarms)' = n
      <4>1. StartIn(_alarms)' = StartIn(b)'
        BY <2>1 DEF StartIn
      <4> QED
        BY <1>8, <4>1
    <3>8. Unset(StartIn(alarms))'
      <4>1. Unset(StartIn(alarms))' <=> starts'[StartIn(alarms)'].became \in {"ended", "mistaken"}
        BY DEF Unset, Was
      <4>2. starts'[StartIn(alarms)'] = starts[StartIn(alarms)]
        BY <1>8, <3>3, <3>4, <3>5, <3>6
      <4> QED
        BY <3>2, <4>1, <4>2 DEF Unset, Was
    <3> QED
      BY <1>7, <1>8, <3>1, <3>2, <3>4, <3>5, <3>6, <3>7, <3>8
  <2>8. SetOrLost'
    <3> SUFFICES ASSUME NEW s \in DOMAIN starts', starts'[s].became = "set"
                 PROVE  \/ starts'[s].block = b
                        \/ starts'[s].within \in DOMAIN starts' /\ Unset(starts[s].within)'
      BY <2>1, <2>3 DEF SetOrLost
    <3>1. CASE s = n
      BY <1>8, <3>1
    <3>2. CASE s \in DOMAIN starts
      <4>1. starts'[s] = starts[s] /\ Was(s) = "set" /\ starts[s].block # NULL
        BY <1>1, <1>8, <3>2, NullIsNoBlock, StartsTyped DEF Was
      <4>2. starts[s].within \in DOMAIN starts /\ Unset(starts[s].within)
        BY <1>2, <2>1, <3>2, <4>1 DEF SetOrLost
      <4>3. Unset(starts[s].within)' <=>
              starts'[starts'[s].within].became \in {"ended", "mistaken"}
        BY DEF Unset, Was
      <4> QED
        BY <1>8, <4>1, <4>2, <4>3 DEF Unset, Was
    <3> QED
      BY <1>8, <3>1, <3>2
  <2>9. MistakenForCalled'
    <3> SUFFICES ASSUME NEW s \in DOMAIN starts', starts'[s].became = "mistaken"
                 PROVE  \E r \in 1 .. s - 1 :
                          starts'[r].block = starts'[s].block /\ starts'[r].became = "called"
      BY <2>3 DEF MistakenForCalled
    <3>1. s \in DOMAIN starts /\ starts'[s] = starts[s] /\ Was(s) = "mistaken"
      BY <1>8 DEF Was
    <3>2. PICK r \in 1 .. s - 1 : starts[r].block = starts[s].block /\ Was(r) = "called"
      BY <1>2, <3>1 DEF MistakenForCalled
    <3>3. r \in DOMAIN starts
      BY <1>1, <3>1, <3>2, StartsTyped
    <3> QED
      BY <1>8, <3>1, <3>2, <3>3 DEF Was
  <2> QED
    BY <2>5, <2>6, <2>7, <2>8, <2>9 DEF AlarmsKept
<1> QED
  BY <1>10, <1>11, <1>12, <1>13 DEF AlarmsInv

(* What stays when something becomes of one alarm. *)
LEMMA BecameOne ==
  ASSUME AlarmTypes, AlarmsKept, NEW t \in DOMAIN starts, NEW what \in Fates \ {"set"},
         starts' = Becomes(t, what)
  PROVE  /\ \A s \in DOMAIN starts :
              /\ Was(s)' = "set" => Was(s) = "set" /\ s # t
              /\ Unset(s) => Unset(s)'
              /\ Was(s) = "called" => Was(s)' = "called"
              /\ Was(s)' # Was(s) => s = t /\ Was(s) = "set" /\ Was(s)' = what
         /\ Was(t)' # "set"
<1>1. /\ \A s \in DOMAIN starts : s # t \/ Was(s) # "set" => Was(s)' = Was(s)
      /\ Was(t) = "set" => Was(t)' = what
  BY BecomesOne
<1>2. \A s : Unset(s) <=> Was(s) \in {"ended", "mistaken"}
  BY DEF Unset
<1>3. \A s : Unset(s)' <=> Was(s)' \in {"ended", "mistaken"}
  BY DEF Unset
<1> QED
  BY <1>1, <1>2, <1>3 DEF Fates

LEMMA MistakenStays ==
  ASSUME AlarmTypes, AlarmsKept, NEW t \in DOMAIN starts, NEW what \in Fates \ {"set"},
         starts' = Becomes(t, what),
         what = "mistaken" =>
           \E r \in 1 .. t - 1 : starts[r].block = starts[t].block /\ Was(r) = "called"
  PROVE  MistakenForCalled'
<1>1. /\ DOMAIN starts' = DOMAIN starts
      /\ \A s \in DOMAIN starts : starts'[s].block = starts[s].block
  BY BecomesOne
<1> SUFFICES ASSUME NEW s \in DOMAIN starts, Was(s)' = "mistaken"
             PROVE  \E r \in 1 .. s - 1 :
                      starts'[r].block = starts'[s].block /\ Was(r)' = "called"
  BY <1>1, Zenon DEF MistakenForCalled
<1>2. \E r \in 1 .. s - 1 : starts[r].block = starts[s].block /\ Was(r) = "called"
  <2>1. CASE Was(s) = "mistaken"
    BY <2>1 DEF AlarmsKept, MistakenForCalled
  <2>2. CASE Was(s) # "mistaken"
    <3>1. s = t /\ what = "mistaken"
      BY <2>2, BecameOne
    <3> QED
      BY <3>1
  <2> QED
    BY <2>1, <2>2
<1>3. PICK r \in 1 .. s - 1 : starts[r].block = starts[s].block /\ Was(r) = "called"
  BY <1>2
<1>4. r \in DOMAIN starts
  BY <1>3, StartsTyped
<1>5. starts'[r].block = starts'[s].block /\ Was(r)' = "called"
  BY <1>1, <1>3, <1>4, BecameOne
<1> QED
  BY <1>3, <1>5

(* An alarm that was not ended, and is not the latest in its block, was    *)
(* called, or mistaken for one in the same block that was.                 *)
LEMMA EarlierWasCalled ==
  ASSUME AlarmTypes, AlarmsKept, NEW r \in DOMAIN starts, Was(r) # "ended",
         StartIn(starts[r].block) # r
  PROVE  \E q \in 1 .. StartIn(starts[r].block) - 1 :
           starts[q].block = starts[r].block /\ Was(q) = "called"
<1>1. Was(r) \in {"called", "mistaken"}
  BY StartsTyped DEF AlarmsKept, LatestIsSet, Fates
<1>2. PICK t : t = StartIn(starts[r].block)
  OBVIOUS
<1>3. t \in DOMAIN starts /\ r <= t
  <2>1. In(starts[r].block) # {}
    BY DEF In
  <2> QED
    BY <1>2, <2>1, LatestIn
<1>4. r \in 1 .. t - 1
  BY <1>2, <1>3, StartsTyped
<1>5. CASE Was(r) = "called"
  BY <1>2, <1>4, <1>5
<1>6. CASE Was(r) = "mistaken"
  <2>1. PICK q \in 1 .. r - 1 : starts[q].block = starts[r].block /\ Was(q) = "called"
    BY <1>6 DEF AlarmsKept, MistakenForCalled
  <2>2. q \in 1 .. t - 1
    BY <1>3, <1>4, <2>1, StartsTyped
  <2> QED
    BY <1>2, <2>1, <2>2
<1> QED
  BY <1>1, <1>5, <1>6

LEMMA EndedOne ==
  ASSUME AlarmsInv, NEW v \in Variables, AlarmEnd(v)
  PROVE  AlarmsInv'
<1>1. AlarmTypes /\ NeverLinked /\ WalkInv /\ fate = "runs" /\ phase \in {"callback", "alarm"}
  BY DEF AlarmsInv, AlarmEnd, InCallback
<1>2. /\ AlarmsKept
      /\ LatestIsSet
      /\ VariableKept
      /\ WithinKept
      /\ SetOrLost
  BY <1>1 DEF AlarmsInv, AlarmsKept
<1>3. PICK b : b = variable[v]
  OBVIOUS
<1>4. PICK i : i = StartInto(v)
  OBVIOUS
<1>5. /\ b \in Blocks /\ b # NULL
      /\ i \in DOMAIN starts /\ starts[i].variable = v /\ starts[i].block = b /\ Was(i) # "ended"
  <2>1. b \in Blocks /\ b # NULL
    BY <1>1, <1>3 DEF AlarmEnd, AlarmTypes
  <2>2. Into(v) # {} /\ starts[i].block = b /\ Was(i) # "ended"
    BY <1>2, <1>3, <1>4, <2>1 DEF VariableKept
  <2> QED
    BY <1>1, <1>4, <2>1, <2>2, LatestInto
<1>6. b \in Linked <=> b = _alarms
  BY <1>1, <1>5, LinkedIs
<1>7. /\ _alarms' = IF b = _alarms THEN NULL ELSE _alarms
      /\ variable' = [variable EXCEPT ![v] = NULL]
      /\ _time' = _time /\ _repeat' = _repeat /\ allocated' = allocated
      /\ alarms' = alarms /\ prev_alarm' = prev_alarm /\ next_alarm' = next_alarm
      /\ phase' = phase
  <2>1. _next[b] = NULL
    BY <1>1, <1>5 DEF NeverLinked
  <2> QED
    BY <1>3, <1>6, <2>1 DEF AlarmEnd, Unlinks, walk
<1>8. NeverLinked'
  <2>1. Bypass(_next, _alarms, b) = _next
    <3>1. \A q \in DOMAIN _next : _next[q] # b
      BY <1>1, <1>5 DEF NeverLinked
    <3>2. Bypass(_next, _alarms, b) = [q \in DOMAIN _next |-> _next[q]]
      BY <3>1 DEF Bypass
    <3> QED
      BY <1>1, <3>2 DEF NeverLinked
  <2>2. _next' = _next
    BY <1>3, <2>1 DEF AlarmEnd
  <2> QED
    BY <1>1, <1>7, <2>2 DEF NeverLinked
<1> DEFINE other == b = _alarms /\ StartIn(b) # i
<1>t. PICK t : t = IF other THEN StartIn(b) ELSE i
  OBVIOUS
<1>w. PICK what : what = IF other THEN "mistaken" ELSE "ended"
  OBVIOUS
<1>9. starts' = Becomes(t, what)
  <2>1. starts' = IF b \in Linked /\ StartIn(b) # i THEN Becomes(StartIn(b), "mistaken")
                  ELSE Becomes(i, "ended")
    BY <1>3, <1>4 DEF AlarmEnd
  <2>2. CASE other
    BY <1>6, <1>t, <1>w, <2>1, <2>2
  <2>3. CASE ~other
    BY <1>6, <1>t, <1>w, <2>1, <2>3
  <2> QED
    BY <2>2, <2>3
<1>10. In(b) # {}
  BY <1>5 DEF In
<1>11. /\ t \in DOMAIN starts /\ starts[t].block = b /\ what \in Fates \ {"set"}
       /\ what \in {"ended", "mistaken"}
       /\ b = _alarms => t = StartIn(b)
       /\ what = "ended" => t = i
       /\ what = "mistaken" => StartIn(b) # i /\ t = StartIn(b)
  <2>1. StartIn(b) \in DOMAIN starts /\ starts[StartIn(b)].block = b
    BY <1>1, <1>10, LatestIn
  <2> QED
    BY <1>5, <1>t, <1>w, <2>1 DEF Fates
<1> HIDE DEF other
<1>12. /\ starts' \in Seq([block : Blocks, variable : Variables, became : Fates, within : Nat])
       /\ DOMAIN starts' = DOMAIN starts
       /\ \A s \in DOMAIN starts :
            /\ starts'[s].block = starts[s].block /\ starts'[s].variable = starts[s].variable
            /\ starts'[s].within = starts[s].within
  BY <1>1, <1>9, <1>11, BecomesOne
<1>13. /\ \A c : In(c)' = In(c) /\ StartIn(c)' = StartIn(c)
       /\ \A u : Into(u)' = Into(u) /\ StartInto(u)' = StartInto(u)
  BY <1>1, <1>9, <1>11, BecomesOne
<1>14. /\ \A s \in DOMAIN starts :
            /\ Was(s)' = "set" => Was(s) = "set" /\ s # t
            /\ Unset(s) => Unset(s)'
            /\ Was(s)' # Was(s) => s = t /\ Was(s) = "set" /\ Was(s)' = what
  BY <1>1, <1>2, <1>9, <1>11, BecameOne
<1>15. AlarmTypes'
  <2>1. _alarms' \in Blocks \cup {NULL} /\ variable' \in [Variables -> Blocks \cup {NULL}]
    BY <1>1, <1>7 DEF AlarmTypes
  <2> QED
    BY <1>1, <1>7, <1>12, <2>1 DEF AlarmTypes
<1>16. WalkInv'
  BY <1>1, <1>7 DEF WalkInv
<1>17. Was(t) = "set" => Was(t)' = what
  BY <1>1, <1>9, <1>11, BecomesOne
<1>18. LatestIsSet'
  <2>1. ASSUME NEW s \in DOMAIN starts, Was(s)' = "set"
        PROVE  starts'[s].block \in allocated' /\ StartIn(starts[s].block)' = s
    <3>1. PICK c : c = starts[s].block
      OBVIOUS
    <3>2. starts'[s].block = c
      BY <1>12, <3>1
    <3>3. StartIn(starts[s].block)' = StartIn(c)'
      BY <3>2 DEF StartIn
    <3>4. c \in allocated /\ StartIn(c) = s
      BY <1>2, <1>14, <2>1, <3>1 DEF LatestIsSet
    <3> QED
      BY <1>7, <1>13, <3>2, <3>3, <3>4
  <2>2. ASSUME _alarms' # NULL PROVE In(_alarms)' # {} /\ Was(StartIn(_alarms))' = "set"
    <3>1. PICK a : a = _alarms
      OBVIOUS
    <3>2. _alarms' = a /\ a # b /\ a # NULL
      BY <1>7, <2>2, <3>1
    <3>3. In(a) # {} /\ Was(StartIn(a)) = "set"
      BY <1>2, <3>1, <3>2 DEF LatestIsSet
    <3>4. StartIn(a) \in DOMAIN starts /\ starts[StartIn(a)].block = a
      BY <1>1, <3>3, LatestIn
    <3>5. PICK m : m = StartIn(a)
      OBVIOUS
    <3>6. Was(m)' = "set"
      BY <1>11, <1>14, <3>2, <3>3, <3>4, <3>5
    <3>7. In(_alarms)' = In(a)' /\ StartIn(_alarms)' = StartIn(a)'
      BY <3>2 DEF In, StartIn
    <3>8. StartIn(_alarms)' = m
      BY <1>13, <3>5, <3>7
    <3>9. Was(StartIn(_alarms))' = Was(m)'
      BY <3>8 DEF Was
    <3> QED
      BY <1>13, <3>3, <3>6, <3>7, <3>9
  <2> QED
    BY <1>12, <2>1, <2>2, Zenon DEF LatestIsSet
<1>19. VariableKept'
  <2> SUFFICES ASSUME NEW u \in Variables, variable'[u] # NULL
               PROVE  /\ Into(u)' # {} /\ starts'[StartInto(u)'].block = variable'[u]
                      /\ Was(StartInto(u))' # "ended"
    BY Zenon DEF VariableKept
  <2>1. u # v /\ variable'[u] = variable[u]
    BY <1>1, <1>7 DEF AlarmTypes
  <2>2. PICK m : m = StartInto(u)
    OBVIOUS
  <2>3. Into(u) # {} /\ starts[m].block = variable[u] /\ Was(m) # "ended"
    BY <1>2, <2>1, <2>2 DEF VariableKept
  <2>4. m \in DOMAIN starts /\ starts[m].variable = u
    BY <1>1, <2>2, <2>3, LatestInto
  <2>5. StartInto(u)' = m
    BY <1>13, <2>2
  <2>6. Was(StartInto(u))' = Was(m)'
    BY <2>5 DEF Was
  <2>7. Was(m)' # "ended"
    BY <1>5, <1>11, <1>14, <2>1, <2>3, <2>4
  <2> QED
    BY <1>12, <1>13, <2>1, <2>3, <2>4, <2>5, <2>6, <2>7
<1>20. WithinKept'
  <2> SUFFICES ASSUME phase' = "alarm"
               PROVE  /\ In(alarms)' # {}
                      /\ _alarms' # alarms' => Unset(StartIn(alarms))'
                      /\ _alarms' \notin {NULL, alarms'} =>
                           starts'[StartIn(_alarms)'].within = StartIn(alarms)'
    BY Zenon DEF WithinKept
  <2>1. phase = "alarm"
    BY <1>7
  <2>2. PICK a : a = alarms
    OBVIOUS
  <2>3. PICK m : m = StartIn(a)
    OBVIOUS
  <2>4. In(a) # {} /\ m \in DOMAIN starts
    BY <1>1, <1>2, <2>1, <2>2, <2>3, LatestIn DEF WithinKept
  <2>5. In(alarms)' = In(a) /\ StartIn(alarms)' = m
    <3>1. In(alarms)' = In(a)' /\ StartIn(alarms)' = StartIn(a)'
      BY <1>7, <2>2 DEF In, StartIn
    <3> QED
      BY <1>13, <2>3, <3>1
  <2>6. ASSUME _alarms' # alarms' PROVE Unset(StartIn(alarms))'
    <3>1. Unset(StartIn(alarms))' <=> Unset(m)'
      BY <2>5 DEF Unset, Was
    <3>2. CASE _alarms # a
      <4>1. Unset(m)
        BY <1>2, <2>1, <2>2, <2>3, <3>2 DEF WithinKept
      <4> QED
        BY <1>14, <2>4, <3>1, <4>1
    <3>3. CASE _alarms = a
      <4>1. a = b /\ a # NULL
        BY <1>5, <1>7, <2>2, <2>6, <3>3
      <4>2. Was(m) = "set" /\ t = m
        BY <1>2, <1>11, <2>3, <3>3, <4>1 DEF LatestIsSet
      <4>3. Was(m)' = what
        BY <1>17, <4>2
      <4> QED
        BY <1>11, <3>1, <4>3 DEF Unset
    <3> QED
      BY <3>2, <3>3
  <2>7. ASSUME _alarms' \notin {NULL, alarms'}
        PROVE  starts'[StartIn(_alarms)'].within = StartIn(alarms)'
    <3>1. PICK h : h = _alarms
      OBVIOUS
    <3>2. _alarms' = h /\ h # NULL /\ h # a
      BY <1>7, <2>2, <2>7, <3>1
    <3>3. In(h) # {} /\ starts[StartIn(h)].within = m
      BY <1>2, <2>1, <2>2, <2>3, <3>1, <3>2 DEF LatestIsSet, WithinKept
    <3>4. StartIn(h) \in DOMAIN starts
      BY <1>1, <3>3, LatestIn
    <3>5. StartIn(_alarms)' = StartIn(h)
      <4>1. StartIn(_alarms)' = StartIn(h)'
        BY <3>2 DEF StartIn
      <4> QED
        BY <1>13, <4>1
    <3> QED
      BY <1>12, <2>5, <3>3, <3>4, <3>5
  <2> QED
    BY <2>4, <2>5, <2>6, <2>7
<1>21. SetOrLost'
  <2> SUFFICES ASSUME NEW s \in DOMAIN starts, Was(s)' = "set"
               PROVE  \/ starts'[s].block = _alarms'
                      \/ starts'[s].within \in DOMAIN starts' /\ Unset(starts[s].within)'
    BY <1>12, Zenon DEF SetOrLost
  <2>1. Was(s) = "set" /\ s # t
    BY <1>14
  <2>2. CASE starts[s].block = _alarms
    <3>1. StartIn(_alarms) = s
      BY <1>2, <2>1, <2>2 DEF LatestIsSet
    <3>2. b # _alarms
      BY <1>11, <2>1, <3>1
    <3> QED
      BY <1>7, <1>12, <2>2, <3>2
  <2>3. CASE starts[s].within \in DOMAIN starts /\ Unset(starts[s].within)
    <3>1. PICK w : w = starts[s].within
      OBVIOUS
    <3>2. Unset(w)' /\ starts'[s].within = w
      BY <1>12, <1>14, <2>3, <3>1
    <3>3. Unset(starts[s].within)' <=> Unset(w)'
      BY <3>2 DEF Unset, Was
    <3> QED
      BY <1>12, <2>3, <3>1, <3>2, <3>3
  <2> QED
    BY <1>2, <2>1, <2>2, <2>3 DEF SetOrLost
<1>22. MistakenForCalled'
  <2>1. what = "mistaken" =>
          \E r \in 1 .. t - 1 : starts[r].block = starts[t].block /\ Was(r) = "called"
    BY <1>1, <1>2, <1>5, <1>11, EarlierWasCalled
  <2> QED
    BY <1>1, <1>2, <1>9, <1>11, <2>1, MistakenStays
<1> QED
  BY <1>8, <1>15, <1>16, <1>18, <1>19, <1>20, <1>21, <1>22 DEF AlarmsInv, AlarmsKept

(* The alarm that was called goes, and no other one stays in the list: the *)
(* one started in the callback is lost.                                    *)
LEMMA WentOne ==
  ASSUME AlarmsInv, Goes
  PROVE  AlarmsInv'
<1>1. AlarmTypes /\ NeverLinked /\ WalkInv /\ fate = "runs" /\ phase = "alarm"
  BY DEF AlarmsInv, Goes
<1>2. /\ AlarmsKept
      /\ LatestIsSet
      /\ VariableKept
      /\ WithinKept
      /\ SetOrLost
  BY <1>1 DEF AlarmsInv, AlarmsKept
<1>3. PICK a : a = alarms
  OBVIOUS
<1>4. PICK t : t = StartIn(a)
  OBVIOUS
<1>5. a \in Blocks /\ a # NULL /\ prev_alarm = NULL /\ _next[a] = NULL /\ In(a) # {}
  BY <1>1, <1>2, <1>3 DEF AlarmTypes, NeverLinked, WalkInv, WithinKept
<1>6. t \in DOMAIN starts /\ starts[t].block = a /\ "called" \in Fates \ {"set"}
  BY <1>1, <1>4, <1>5, LatestIn DEF Fates
<1>7. /\ _alarms' = NULL /\ _next' = _next /\ allocated' = allocated \ {a}
      /\ alarms' = NULL /\ phase' = "walk" /\ starts' = Becomes(t, "called")
      /\ _time' = _time /\ _repeat' = _repeat /\ prev_alarm' = NULL
      /\ variable' = variable /\ fate' = fate
  BY <1>3, <1>4, <1>5 DEF Goes
<1>8. /\ starts' \in Seq([block : Blocks, variable : Variables, became : Fates, within : Nat])
      /\ DOMAIN starts' = DOMAIN starts
      /\ \A s \in DOMAIN starts :
           /\ starts'[s].block = starts[s].block
           /\ starts'[s].within = starts[s].within
  BY <1>1, <1>6, <1>7, BecomesOne
<1>9. /\ \A c : In(c)' = In(c) /\ StartIn(c)' = StartIn(c)
      /\ \A u : Into(u)' = Into(u) /\ StartInto(u)' = StartInto(u)
  BY <1>1, <1>6, <1>7, BecomesOne
<1>10. \A s \in DOMAIN starts :
         /\ Was(s)' = "set" => Was(s) = "set" /\ s # t
         /\ Unset(s) => Unset(s)'
         /\ Was(s)' # Was(s) => Was(s)' = "called"
  BY <1>1, <1>2, <1>6, <1>7, BecameOne
<1>11. AlarmTypes'
  BY <1>1, <1>7, <1>8 DEF AlarmTypes
<1>12. NeverLinked' /\ WalkInv'
  BY <1>1, <1>7 DEF NeverLinked, WalkInv
<1>13. LatestIsSet'
  <2>1. ASSUME NEW s \in DOMAIN starts, Was(s)' = "set"
        PROVE  starts'[s].block \in allocated' /\ StartIn(starts[s].block)' = s
    <3>1. PICK c : c = starts[s].block
      OBVIOUS
    <3>2. starts'[s].block = c
      BY <1>8, <3>1
    <3>3. StartIn(starts[s].block)' = StartIn(c)'
      BY <3>2 DEF StartIn
    <3>4. c \in allocated /\ StartIn(c) = s /\ s # t
      BY <1>2, <1>10, <2>1, <3>1 DEF LatestIsSet
    <3> QED
      BY <1>4, <1>7, <1>9, <3>2, <3>3, <3>4
  <2> QED
    BY <1>7, <1>8, <2>1, Zenon DEF LatestIsSet
<1>14. VariableKept'
  <2> SUFFICES ASSUME NEW u \in Variables, variable'[u] # NULL
               PROVE  /\ Into(u)' # {} /\ starts'[StartInto(u)'].block = variable'[u]
                      /\ Was(StartInto(u))' # "ended"
    BY Zenon DEF VariableKept
  <2>1. PICK m : m = StartInto(u)
    OBVIOUS
  <2>2. Into(u) # {} /\ starts[m].block = variable[u] /\ Was(m) # "ended"
    BY <1>2, <1>7, <2>1 DEF VariableKept
  <2>3. m \in DOMAIN starts
    BY <1>1, <2>1, <2>2, LatestInto
  <2>4. StartInto(u)' = m
    BY <1>9, <2>1
  <2>5. Was(StartInto(u))' = Was(m)'
    BY <2>4 DEF Was
  <2>6. Was(m)' # "ended"
    BY <1>10, <2>2, <2>3
  <2> QED
    BY <1>7, <1>8, <1>9, <2>2, <2>3, <2>4, <2>5, <2>6
<1>15. WithinKept'
  BY <1>7 DEF WithinKept
<1>16. SetOrLost'
  <2> SUFFICES ASSUME NEW s \in DOMAIN starts, Was(s)' = "set"
               PROVE  starts'[s].within \in DOMAIN starts' /\ Unset(starts[s].within)'
    BY <1>8, Zenon DEF SetOrLost
  <2>1. Was(s) = "set" /\ s # t
    BY <1>10
  <2>2. starts[s].within \in DOMAIN starts /\ Unset(starts[s].within)
    <3>1. CASE starts[s].block = _alarms
      <4>1. StartIn(_alarms) = s
        BY <1>2, <2>1, <3>1 DEF LatestIsSet
      <4>2. _alarms # a /\ _alarms # NULL
        BY <1>1, <1>4, <2>1, <3>1, <4>1, NullIsNoBlock, StartsTyped
      <4>3. starts[s].within = t /\ Unset(t)
        BY <1>1, <1>2, <1>3, <1>4, <4>1, <4>2 DEF WithinKept
      <4> QED
        BY <1>6, <4>3
    <3> QED
      BY <1>2, <2>1, <3>1 DEF SetOrLost
  <2>3. PICK w : w = starts[s].within
    OBVIOUS
  <2>4. Unset(w)' /\ starts'[s].within = w
    BY <1>8, <1>10, <2>2, <2>3
  <2>5. Unset(starts[s].within)' <=> Unset(w)'
    BY <2>4 DEF Unset, Was
  <2> QED
    BY <1>8, <2>2, <2>3, <2>4, <2>5
<1>17. MistakenForCalled'
  BY <1>1, <1>2, <1>6, <1>7, MistakenStays
<1> QED
  BY <1>11, <1>12, <1>13, <1>14, <1>15, <1>16, <1>17 DEF AlarmsInv, AlarmsKept

LEMMA AlarmsInvariant == AlarmsSpec => []AlarmsInv
<1>1. ASSUME AlarmsInv, [AlarmsNext]_alarmVars PROVE AlarmsInv'
  <2>1. CASE \E v \in Variables, b \in Blocks, repeat \in BOOLEAN : AlarmStart(v, b, repeat)
    BY <1>1, <2>1, StartedOne
  <2>2. CASE \E v \in Variables : AlarmEnd(v)
    BY <1>1, <2>2, EndedOne
  <2>3. CASE Schedule
    BY <1>1, <2>3, Scheduled
  <2>4. CASE \E flow_tick \in FlowTicks : Look(flow_tick)
    BY <1>1, <2>4, Looked
  <2>5. CASE Repeats
    BY <1>1, <2>5, Repeated
  <2>6. CASE Goes
    BY <1>1, <2>6, WentOne
  <2>7. CASE Receive
    BY <1>1, <2>7, ReceivedOne
  <2>8. CASE UNCHANGED alarmVars
    <3>1. /\ starts' = starts /\ variable' = variable /\ allocated' = allocated
          /\ _alarms' = _alarms /\ _next' = _next /\ _time' = _time /\ _repeat' = _repeat
          /\ fate' = fate /\ alarms' = alarms /\ prev_alarm' = prev_alarm
          /\ next_alarm' = next_alarm /\ phase' = phase
      BY <2>8 DEF alarmVars, blocks, walk
    <3>2. AlarmTypes' /\ NeverLinked' /\ WalkInv'
      BY <1>1, <3>1 DEF AlarmsInv, AlarmTypes, NeverLinked, WalkInv
    <3>3. fate = "runs" => WithinKept'
      BY <1>1, <3>1 DEF AlarmsInv, AlarmsKept, WithinKept, In, StartIn, Unset, Was
    <3> QED
      BY <1>1, <3>1, <3>2, <3>3, SameAlarms DEF AlarmsInv
  <2> QED
    BY <1>1, <2>1, <2>2, <2>3, <2>4, <2>5, <2>6, <2>7, <2>8 DEF AlarmsNext
<1> QED
  BY InitAlarms, <1>1, PTL DEF AlarmsSpec

(* The list has at most one alarm, whose block is not freed, and so has    *)
(* the walk: alarm_start never links a second one, and only the walk frees *)
(* blocks, the one that it leaves.                                         *)
THEOREM WalkIsSafe == AlarmsSpec => []WalksAllocatedBlocks
<1>1. ASSUME AlarmsInv PROVE WalksAllocatedBlocks
  <2>1. AlarmTypes /\ NeverLinked /\ WalkInv
    BY <1>1 DEF AlarmsInv
  <2>2. Cardinality(Linked) <= 1
    <3>1. CASE _alarms = NULL
      BY <2>1, <3>1, LinkedIs, FS_EmptySet
    <3>2. CASE _alarms # NULL
      BY <2>1, <3>2, LinkedIs, FS_Singleton
    <3> QED
      BY <3>1, <3>2
  <2>3. Linked \subseteq allocated
    BY <2>1, LinkedIs DEF WalkInv
  <2> QED
    BY <2>1, <2>2, <2>3 DEF WalksAllocatedBlocks, WalkInv
<1> QED
  BY AlarmsInvariant, <1>1, PTL

(* There are only two ways to lose an alarm, whatever the callbacks start  *)
(* and end, and however often blocks are malloc'ed again: a set alarm is   *)
(* the latest in its block, so that another one found there in its place   *)
(* was called before.                                                      *)
THEOREM AlarmsStayOrTwoWays == AlarmsSpec => []AlarmsStay
<1>1. ASSUME AlarmsInv PROVE AlarmsStay
  <2>1. AlarmTypes /\ NeverLinked /\ WalkInv
    BY <1>1 DEF AlarmsInv
  <2>2. phase = "walk" /\ alarms = NULL /\ Linked # {} => next_alarm = 0
    BY <2>1, LinkedIs DEF WalkInv
  <2>3. ASSUME fate = "runs", NEW s \in DOMAIN starts
        PROVE  /\ starts[s].became = "set" =>
                    \/ starts[s].block \in Linked /\ StartIn(starts[s].block) = s
                    \/ /\ starts[s].within > 0
                       /\ starts[starts[s].within].became \in {"ended", "mistaken"}
               /\ starts[s].became = "mistaken" =>
                    \E r \in 1 .. s - 1 :
                      starts[r].block = starts[s].block /\ starts[r].became = "called"
               /\ starts[s].block \in Linked /\ StartIn(starts[s].block) = s =>
                    starts[s].became = "set"
    <3>1. /\ LatestIsSet
          /\ SetOrLost
          /\ MistakenForCalled
      BY <1>1, <2>3 DEF AlarmsInv, AlarmsKept
    <3>2. /\ starts[s].block \in Blocks /\ starts[s].block # NULL
          /\ DOMAIN starts = 1 .. Len(starts) /\ Len(starts) \in Nat
      BY <2>1, NullIsNoBlock, StartsTyped
    <3>3. starts[s].block \in Linked <=> starts[s].block = _alarms
      BY <2>1, <3>2, LinkedIs
    <3>4. ASSUME Was(s) = "set"
          PROVE  \/ starts[s].block \in Linked /\ StartIn(starts[s].block) = s
                 \/ /\ starts[s].within > 0
                    /\ starts[starts[s].within].became \in {"ended", "mistaken"}
      BY <3>1, <3>2, <3>3, <3>4 DEF LatestIsSet, SetOrLost, Unset, Was
    <3>5. ASSUME starts[s].block = _alarms, StartIn(_alarms) = s PROVE Was(s) = "set"
      BY <3>1, <3>2, <3>5 DEF LatestIsSet
    <3> QED
      BY <3>1, <3>3, <3>4, <3>5 DEF MistakenForCalled, Was
  <2> QED
    BY <2>2, <2>3 DEF AlarmsStay
<1> QED
  BY AlarmsInvariant, <1>1, PTL
=============================================================================
