--------------------------- MODULE TranscodeProofs ---------------------------
(***************************************************************************)
(* What Transcode's conversions do to texts of any length and of any       *)
(* characters: facts on Unicode's encodings and on digits, the invariant   *)
(* of the copies, and what it says of the result.                          *)
(***************************************************************************)
EXTENDS Transcode, LinkProofs, SequenceTheorems

-----------------------------------------------------------------------------
(* Encoded texts. *)

Lans == {"utf8", "utf16le", "utf16be"}

(* f(n) are the bytes of the first n characters, up to m: BytesUpTo is     *)
(* such a function.                                                        *)
GoesOn(f, chars, lan, m) ==
  f = [n \in 0 .. m |-> IF n = 0 THEN << >> ELSE f[n - 1] \o Code(chars[n], lan)]

(* There is one, by taking the least length that has none. *)
LEMMA SomeGoesOn ==
  ASSUME NEW chars, NEW lan, NEW m \in Nat
  PROVE  \E f : GoesOn(f, chars, lan, m)
<1> DEFINE T == {n \in 0 .. m : ~\E f : GoesOn(f, chars, lan, n)}
<1>1. CASE T = {}
  BY <1>1
<1>2. CASE T # {}
  <2>1. PICK k \in T : \A n \in T : k <= n
    <3>1. T \subseteq Nat
      OBVIOUS
    <3> HIDE DEF T
    <3> QED
      BY <1>2, <3>1, Least
  <2>2. k # 0
    <3> DEFINE f == [n \in 0 .. 0 |-> << >>]
    <3>1. \A n \in 0 .. 0 : n = 0
      OBVIOUS
    <3>2. f = [n \in 0 .. 0 |-> IF n = 0 THEN << >> ELSE f[n - 1] \o Code(chars[n], lan)]
      BY <3>1
    <3> QED
      BY <3>2 DEF GoesOn
  <2>3. k - 1 \in 0 .. m /\ k - 1 \notin T /\ k \in Nat /\ k > 0
    BY <2>1, <2>2
  <2>4. PICK f : GoesOn(f, chars, lan, k - 1)
    BY <2>3
  <2> DEFINE g == [n \in 0 .. k |-> IF n = k THEN f[k - 1] \o Code(chars[k], lan) ELSE f[n]]
  <2>5. ASSUME NEW n \in 0 .. k
        PROVE  g[n] = IF n = 0 THEN << >> ELSE g[n - 1] \o Code(chars[n], lan)
    <3>1. CASE n = k
      BY <2>3, <3>1
    <3>2. CASE n # k
      <4>1. n \in 0 .. k - 1 /\ (n # 0 => n - 1 \in 0 .. k /\ n - 1 # k)
        BY <2>3, <3>2
      <4>2. f[n] = IF n = 0 THEN << >> ELSE f[n - 1] \o Code(chars[n], lan)
        BY <2>4, <4>1 DEF GoesOn
      <4> QED
        BY <3>2, <4>1, <4>2
    <3> QED
      BY <3>1, <3>2
  <2>6. GoesOn(g, chars, lan, k)
    <3> HIDE DEF g
    <3>1. g = [n \in 0 .. k |-> g[n]]
      BY DEF g
    <3> QED
      BY <2>5, <3>1 DEF GoesOn
  <2> QED
    BY <2>1, <2>6
<1> QED
  BY <1>1, <1>2

LEMMA BytesGoOn ==
  ASSUME NEW chars, NEW lan, Len(chars) \in Nat
  PROVE  GoesOn(BytesUpTo(chars, lan), chars, lan, Len(chars))
<1>1. PICK f : GoesOn(f, chars, lan, Len(chars))
  BY SomeGoesOn
<1>2. f = [n \in 0 .. Len(chars) |-> IF n = 0 THEN << >> ELSE f[n - 1] \o Code(chars[n], lan)]
  BY <1>1 DEF GoesOn
<1> QED
  BY <1>2 DEF GoesOn, BytesUpTo

(* What a byte, a unit of UTF-16 and a character can be.                   *)
Byte == 0 .. 255
Word16 == {u \in Nat : u < 65536}
Characters == {c \in Nat : 0 < c /\ c < 1114112}

(* The characters that come out right from UTF-8.                          *)
Kept(c) == c < 2048 \/ (c \div 64) % 64 \in {0, 21, 42, 63}

LEMMA Ranges ==
  /\ \A b \in Byte : b \in Nat
  /\ \A u \in Word16 : u \in Nat
  /\ \A c \in Characters : c \in Nat /\ c # 0
BY DEF Byte, Word16, Characters

(* A number of sixteen bits is its highest four, its middle six and its    *)
(* lowest six bits.                                                        *)
LEMMA Splits ==
  ASSUME NEW c \in Word16
  PROVE  \E a, b, d \in Nat :
           /\ a < 16 /\ b < 64 /\ d < 64 /\ c = 4096 * a + 64 * b + d
           /\ c \div 4096 = a /\ (c \div 64) % 64 = b /\ c % 64 = d /\ c \div 64 = 64 * a + b
<1> DEFINE high == c \div 4096
           middle == (c \div 64) % 64
           low == c % 64
<1> c \in Nat /\ c < 65536
  BY DEF Word16
<1>1. /\ high \in Nat /\ middle \in Nat /\ low \in Nat
      /\ high < 16 /\ middle < 64 /\ low < 64
  OBVIOUS
<1>2. c \div 64 = 64 * high + middle
  OBVIOUS
<1>3. c = 4096 * high + 64 * middle + low
  BY <1>2
<1>4. /\ c = 4096 * high + 64 * middle + low
      /\ c \div 4096 = high /\ (c \div 64) % 64 = middle /\ c % 64 = low
      /\ c \div 64 = 64 * high + middle
  BY <1>2, <1>3
<1> HIDE DEF high, middle, low
<1> QED
  BY <1>1, <1>4

LEMMA Remains ==
  ASSUME NEW n \in Nat
  PROVE  /\ n % 4 \in Nat /\ n % 4 < 4 /\ n % 8 \in Nat /\ n % 8 < 8
         /\ n % 16 \in Nat /\ n % 16 < 16 /\ n % 64 \in Nat /\ n % 64 < 64
         /\ n \div 4 \in Nat /\ n = 4 * (n \div 4) + (n % 4)
<1>1. n % 4 \in Nat /\ n % 4 < 4
  OBVIOUS
<1>2. n % 8 \in Nat /\ n % 8 < 8
  OBVIOUS
<1>3. n % 16 \in Nat /\ n % 16 < 16
  OBVIOUS
<1>4. n % 64 \in Nat /\ n % 64 < 64
  OBVIOUS
<1>5. n \div 4 \in Nat
  OBVIOUS
<1>6. n = 4 * (n \div 4) + (n % 4)
  OBVIOUS
<1> QED
  BY <1>1, <1>2, <1>3, <1>4, <1>5, <1>6

(* Of six bits, the lowest four, then the lowest two: the same if the two  *)
(* highest, the two in the middle and the two lowest are.                  *)
LEMMA SixBits ==
  ASSUME NEW b \in Nat, b < 64
  PROVE  4 * (b % 16) + (b % 4) = b <=> b \in {0, 21, 42, 63}
<1> DEFINE h == b \div 16
           m == (b \div 4) % 4
           l == b % 4
<1>1. /\ h \in Nat /\ m \in Nat /\ l \in Nat /\ h < 4 /\ m < 4 /\ l < 4
  OBVIOUS
<1>2. b = 16 * h + 4 * m + l /\ b % 16 = 4 * m + l
  OBVIOUS
<1>3. b % 4 = l
  OBVIOUS
<1> HIDE DEF h, m, l
<1>4. 4 * (b % 16) + (b % 4) = b <=> 3 * m + l = 4 * h
  BY <1>1, <1>2, <1>3
<1>5. 3 * m + l = 4 * h <=> m = h /\ l = h
  BY <1>1
<1>6. m = h /\ l = h <=> b = 21 * h
  BY <1>1, <1>2
<1>7. h = 0 \/ h = 1 \/ h = 2 \/ h = 3
  BY <1>1
<1>8. b = 21 * h <=> b = 0 \/ b = 21 \/ b = 42 \/ b = 63
  BY <1>1, <1>2, <1>7
<1> QED
  BY <1>4, <1>5, <1>6, <1>8

(* What the copy reads of characters that are coded in one, two and three  *)
(* bytes.                                                                  *)
LEMMA OneByte ==
  ASSUME NEW c \in Nat, 0 < c, c < 128
  PROVE  /\ Utf8(c) \in Seq(Byte) /\ Len(Utf8(c)) = 1 /\ Utf8(c)[1] # 0
         /\ Taken(Utf8(c)[1]) = 1 /\ Unit(Utf8(c)) = c
<1>1. Utf8(c) = <<c>> /\ c \in Byte
  BY DEF Utf8, Byte
<1>2. Taken(c) = 1
  BY DEF Taken
<1>3. Unit(<<c>>) = c
  BY DEF Unit
<1> QED
  BY <1>1, <1>2, <1>3

LEMMA TwoBytes ==
  ASSUME NEW c \in Nat, 128 <= c, c < 2048
  PROVE  /\ Utf8(c) \in Seq(Byte) /\ Len(Utf8(c)) = 2 /\ Utf8(c)[1] # 0
         /\ Taken(Utf8(c)[1]) = 2 /\ Unit(Utf8(c)) = c
<1> DEFINE b1 == 192 + (c \div 64)
           b2 == 128 + (c % 64)
<1>1. b1 \in Nat /\ b2 \in Nat /\ 192 <= b1 /\ b1 < 224 /\ 128 <= b2 /\ b2 < 192
  OBVIOUS
<1>2. Utf8(c) = <<b1, b2>>
  BY DEF Utf8, Trail
<1>3. ((b1 \div 4) % 8) * 256 + (b1 % 4) * 64 + (b2 % 64) = c
  <2>0. c \in Word16
    BY DEF Word16
  <2>1. PICK a, b, d \in Nat :
          /\ a < 16 /\ b < 64 /\ d < 64 /\ c = 4096 * a + 64 * b + d
          /\ c % 64 = d /\ c \div 64 = 64 * a + b
    BY <2>0, Splits
  <2>2. a = 0 /\ b < 32 /\ b1 = 192 + b /\ b2 = 128 + d
    BY <2>1
  <2> HIDE DEF b1, b2
  <2>3. (b1 \div 4) % 8 = b \div 4 /\ b1 % 4 = b % 4 /\ b2 % 64 = d
    BY <2>1, <2>2
  <2>4. b = 4 * (b \div 4) + (b % 4)
    BY Remains
  <2> QED
    BY <2>1, <2>2, <2>3, <2>4
<1> HIDE DEF b1, b2
<1>4. Taken(b1) = 2 /\ b1 \in Byte /\ b2 \in Byte /\ b1 # 0
  BY <1>1 DEF Taken, Byte
<1>5. Unit(<<b1, b2>>) = c
  BY <1>3 DEF Unit
<1>6. <<b1, b2>> \in Seq(Byte) /\ Len(<<b1, b2>>) = 2 /\ <<b1, b2>>[1] = b1
  BY <1>4
<1> QED
  BY <1>2, <1>4, <1>5, <1>6

LEMMA ThreeBytes ==
  ASSUME NEW c \in Word16, 2048 <= c
  PROVE  /\ Utf8(c) \in Seq(Byte) /\ Len(Utf8(c)) = 3 /\ Utf8(c)[1] # 0
         /\ Taken(Utf8(c)[1]) = 3
         /\ Unit(Utf8(c)) = c <=> Kept(c)
<1> DEFINE b1 == 224 + (c \div 4096)
           b2 == 128 + ((c \div 64) % 64)
           b3 == 128 + (c % 64)
<1>1. PICK a, b, d \in Nat :
        /\ a < 16 /\ b < 64 /\ d < 64 /\ c = 4096 * a + 64 * b + d
        /\ c \div 4096 = a /\ (c \div 64) % 64 = b /\ c % 64 = d
  BY Splits
<1>2. b1 = 224 + a /\ b2 = 128 + b /\ b3 = 128 + d
  BY <1>1
<1>3. Utf8(c) = <<b1, b2, b3>>
  BY DEF Utf8, Trail, Word16
<1> HIDE DEF b1, b2, b3
<1>4. b1 % 16 = a /\ b2 % 16 = b % 16 /\ b2 % 4 = b % 4 /\ b3 % 64 = d
  BY <1>1, <1>2
<1>5. Unit(<<b1, b2, b3>>) = (a * 16 + (b % 16)) * 256 + (b % 4) * 64 + d
  BY <1>4 DEF Unit
<1>6. Unit(<<b1, b2, b3>>) = c <=> 4 * (b % 16) + (b % 4) = b
  <2>1. PICK p, q \in Nat : p = b % 16 /\ q = b % 4
    BY Remains
  <2>2. Unit(<<b1, b2, b3>>) = 4096 * a + 256 * p + 64 * q + d
    BY <1>1, <1>5, <2>1
  <2>3. 4096 * a + 256 * p + 64 * q + d = c <=> 4 * p + q = b
    BY <1>1, <2>1
  <2> QED
    BY <2>1, <2>2, <2>3
<1>7. b1 \in Byte /\ b2 \in Byte /\ b3 \in Byte /\ b1 # 0 /\ b1 > 223
  BY <1>1, <1>2 DEF Byte
<1>8. Taken(b1) = 3
  BY <1>1, <1>2 DEF Taken
<1>9. 4 * (b % 16) + (b % 4) = b <=> b \in {0, 21, 42, 63}
  BY <1>1, SixBits
<1>10. /\ <<b1, b2, b3>> \in Seq(Byte) /\ Len(<<b1, b2, b3>>) = 3
       /\ <<b1, b2, b3>>[1] = b1
  BY <1>7
<1>11. Unit(Utf8(c)) = c <=> Kept(c)
  <2>1. Unit(Utf8(c)) = c <=> b \in {0, 21, 42, 63}
    BY <1>3, <1>6, <1>9
  <2>2. ~(c < 2048)
    BY Ranges
  <2>3. Kept(c) <=> b \in {0, 21, 42, 63}
    BY <1>1, <2>2 DEF Kept
  <2> QED
    BY <2>1, <2>3
<1> QED
  BY <1>3, <1>7, <1>8, <1>10, <1>11

LEMMA FourBytes ==
  ASSUME NEW c \in Characters \ Word16
  PROVE  \E w, x, y, z \in Byte : w # 0 /\ Utf8(c) = <<w, x, y, z>>
<1> DEFINE b1 == 240 + (c \div 262144)
           b2 == 128 + ((c \div 4096) % 64)
           b3 == 128 + ((c \div 64) % 64)
           b4 == 128 + (c % 64)
<1> c \in Nat /\ 65536 <= c /\ c < 1114112
  BY DEF Word16, Characters
<1>1. Utf8(c) = <<b1, b2, b3, b4>>
  BY DEF Utf8, Trail
<1>2. b1 \in Byte /\ b2 \in Byte /\ b3 \in Byte /\ b4 \in Byte /\ b1 # 0
  BY DEF Byte
<1> HIDE DEF b1, b2, b3, b4
<1> QED
  BY <1>1, <1>2

(* What the copy reads is what was encoded, but for the six bits.          *)
LEMMA Utf8Coded ==
  ASSUME NEW c \in Characters
  PROVE  /\ Utf8(c) \in Seq(Byte) /\ Len(Utf8(c)) \in {1, 2, 3, 4} /\ Utf8(c)[1] # 0
         /\ c \in Word16 =>
              /\ Len(Utf8(c)) = Taken(Utf8(c)[1]) /\ Len(Utf8(c)) \in {1, 2, 3}
              /\ Unit(Utf8(c)) = c <=> Kept(c)
<1>1. c \in Nat /\ 0 < c
  BY DEF Characters
<1>2. CASE c < 128
  <2>1. Kept(c)
    BY <1>1, <1>2 DEF Kept
  <2> QED
    BY <1>1, <1>2, <2>1, OneByte
<1>3. CASE 128 <= c /\ c < 2048
  <2>1. Kept(c)
    BY <1>3 DEF Kept
  <2>2. /\ Utf8(c) \in Seq(Byte) /\ Len(Utf8(c)) = 2 /\ Utf8(c)[1] # 0
        /\ Taken(Utf8(c)[1]) = 2 /\ Unit(Utf8(c)) = c
    BY <1>1, <1>3, TwoBytes
  <2> QED
    BY <2>1, <2>2
<1>4. CASE 2048 <= c /\ c \in Word16
  <2>1. /\ Utf8(c) \in Seq(Byte) /\ Len(Utf8(c)) = 3 /\ Utf8(c)[1] # 0
        /\ Taken(Utf8(c)[1]) = 3
        /\ Unit(Utf8(c)) = c <=> Kept(c)
    BY <1>4, ThreeBytes
  <2> QED
    BY <2>1
<1>5. CASE c \notin Word16
  <2>1. PICK w, x, y, z \in Byte : w # 0 /\ Utf8(c) = <<w, x, y, z>>
    BY <1>5, FourBytes
  <2>2. /\ <<w, x, y, z>> \in Seq(Byte) /\ Len(<<w, x, y, z>>) = 4
        /\ <<w, x, y, z>>[1] = w
    OBVIOUS
  <2> QED
    BY <1>5, <2>1, <2>2
<1>6. c < 128 \/ (128 <= c /\ c < 2048) \/ 2048 <= c
  BY <1>1
<1> QED
  BY <1>2, <1>3, <1>4, <1>5, <1>6

(* What it makes of two or three bytes in any case is a unit.              *)
LEMMA UnitTyped ==
  ASSUME NEW s \in Seq(Byte), Len(s) \in {1, 2, 3}
  PROVE  Unit(s) \in Word16
<1>1. \A n \in 1 .. Len(s) : s[n] \in Byte
  BY NodesOf
<1>2. CASE Len(s) = 1
  <2>1. s[1] \in Byte
    BY <1>1, <1>2
  <2>2. Unit(s) = s[1]
    BY <1>2 DEF Unit
  <2>3. \A b \in Byte : b \in Word16
    BY DEF Byte, Word16
  <2> QED
    BY <2>1, <2>2, <2>3
<1>3. CASE Len(s) = 2
  <2>1. s[1] \in Nat /\ s[2] \in Nat
    BY <1>1, <1>3, Ranges
  <2> DEFINE value(p, r) == ((p \div 4) % 8) * 256 + (p % 4) * 64 + (r % 64)
  <2>2. Unit(s) = value(s[1], s[2])
    BY <1>3 DEF Unit
  <2>3. \A p, r \in Nat : value(p, r) \in Word16
    BY DEF Word16
  <2> HIDE DEF value
  <2> QED
    BY <2>1, <2>2, <2>3
<1>4. CASE Len(s) = 3
  <2>1. s[1] \in Nat /\ s[2] \in Nat /\ s[3] \in Nat
    BY <1>1, <1>4, Ranges
  <2> DEFINE value(p, q, r) ==
               ((p % 16) * 16 + (q % 16)) * 256 + (q % 4) * 64 + (r % 64)
  <2>2. Unit(s) = value(s[1], s[2], s[3])
    BY <1>4 DEF Unit
  <2>3. \A p, q, r \in Nat : value(p, q, r) \in Word16
    BY DEF Word16
  <2> HIDE DEF value
  <2> QED
    BY <2>1, <2>2, <2>3
<1> QED
  BY <1>2, <1>3, <1>4

(* A unit in memory reads as what it was.                                  *)
LEMMA BytesTyped ==
  ASSUME NEW unit \in Word16, NEW lan
  PROVE  /\ Bytes(unit, lan) \in Seq(Byte) /\ Len(Bytes(unit, lan)) = 2
         /\ UnitAt(Bytes(unit, lan), 1, lan) = unit
<1> DEFINE high == unit \div 256
           low == unit % 256
<1>1. high \in Byte /\ low \in Byte /\ unit = high * 256 + low
  BY DEF Byte, Word16
<1>2. Bytes(unit, lan) = IF lan = "utf16be" THEN <<high, low>> ELSE <<low, high>>
  BY DEF Bytes
<1> HIDE DEF high, low
<1>3. \A b \in Byte : b \in Nat
  BY DEF Byte
<1>4. CASE lan = "utf16be"
  <2>1. Bytes(unit, lan) = <<high, low>>
    BY <1>2, <1>4
  <2>2. UnitAt(<<high, low>>, 1, lan) = unit
    BY <1>1, <1>4 DEF UnitAt
  <2>3. <<high, low>> \in Seq(Byte) /\ Len(<<high, low>>) = 2
    BY <1>1
  <2> QED
    BY <2>1, <2>2, <2>3
<1>5. CASE lan # "utf16be"
  <2>1. Bytes(unit, lan) = <<low, high>>
    BY <1>2, <1>5
  <2>2. low + high * 256 = unit
    BY <1>1, <1>3
  <2>3. UnitAt(<<low, high>>, 1, lan) = unit
    BY <1>5, <2>2 DEF UnitAt
  <2>4. <<low, high>> \in Seq(Byte) /\ Len(<<low, high>>) = 2
    BY <1>1
  <2> QED
    BY <2>1, <2>3, <2>4
<1> QED
  BY <1>4, <1>5

(* A character has one to four bytes in every encoding. *)
LEMMA CodeTyped ==
  ASSUME NEW c \in Characters, NEW lan \in Lans
  PROVE  Code(c, lan) \in Seq(Byte) /\ Len(Code(c, lan)) \in {1, 2, 3, 4}
<1>1. CASE lan = "utf8"
  BY <1>1, Utf8Coded DEF Code
<1>2. CASE lan # "utf8" /\ c \in Word16
  <2>1. Code(c, lan) = Bytes(c, lan)
    BY <1>2 DEF Code, Word16
  <2> QED
    BY <1>2, <2>1, BytesTyped
<1>3. CASE lan # "utf8" /\ c \notin Word16
  <2> DEFINE first == 55296 + ((c - 65536) \div 1024)
             second == 56320 + ((c - 65536) % 1024)
  <2>1. c \in Nat /\ 65536 <= c /\ c < 1114112
    BY <1>3 DEF Word16, Characters
  <2>2. first \in Word16 /\ second \in Word16
    <3>1. first \in Nat /\ first < 65536
      BY <2>1
    <3>2. second \in Nat /\ second < 65536
      <4>1. (c - 65536) % 1024 \in Nat /\ (c - 65536) % 1024 < 1024
        BY <2>1
      <4> QED
        BY <4>1
    <3> QED
      BY <3>1, <3>2 DEF Word16
  <2>3. Code(c, lan) = Bytes(first, lan) \o Bytes(second, lan)
    <3>1. lan # "utf8" /\ ~(c < 65536)
      BY <1>3, <2>1
    <3> QED
      BY <3>1 DEF Code
  <2> HIDE DEF first, second
  <2>4. /\ Bytes(first, lan) \in Seq(Byte) /\ Len(Bytes(first, lan)) = 2
        /\ Bytes(second, lan) \in Seq(Byte) /\ Len(Bytes(second, lan)) = 2
    BY <2>2, BytesTyped
  <2>5. \A s, t \in Seq(Byte) : s \o t \in Seq(Byte) /\ Len(s \o t) = Len(s) + Len(t)
    BY ConcatProperties
  <2>6. Len(Code(c, lan)) = 2 + 2
    BY <2>3, <2>4, <2>5
  <2> QED
    BY <2>3, <2>4, <2>5, <2>6
<1> QED
  BY <1>1, <1>2, <1>3

-----------------------------------------------------------------------------
(* The bytes of a text, one character after the other. *)
LEMMA UpToParts ==
  ASSUME NEW chars \in Seq(Characters), NEW lan \in Lans
  PROVE  /\ Len(chars) \in Nat /\ \A n \in 1 .. Len(chars) : chars[n] \in Characters
         /\ BytesUpTo(chars, lan)[0] = << >>
         /\ \A n \in 1 .. Len(chars) :
              BytesUpTo(chars, lan)[n] = BytesUpTo(chars, lan)[n - 1] \o Code(chars[n], lan)
<1>1. Len(chars) \in Nat /\ \A n \in 1 .. Len(chars) : chars[n] \in Characters
  BY NodesOf
<1> DEFINE e == BytesUpTo(chars, lan)
<1>2. e = [n \in 0 .. Len(chars) |-> IF n = 0 THEN << >> ELSE e[n - 1] \o Code(chars[n], lan)]
  BY <1>1, BytesGoOn DEF GoesOn
<1> HIDE DEF e
<1>3. e[0] = << >>
  <2>1. 0 \in 0 .. Len(chars)
    BY <1>1
  <2> QED
    BY <1>2, <2>1
<1>4. ASSUME NEW n \in 1 .. Len(chars)
      PROVE  e[n] = e[n - 1] \o Code(chars[n], lan)
  <2>1. n \in 0 .. Len(chars) /\ n # 0
    BY <1>1
  <2> QED
    BY <1>2, <2>1
<1> QED
  BY <1>1, <1>3, <1>4 DEF e

(* Where the elements of two sequences are in both together. *)
LEMMA Appends ==
  ASSUME NEW s \in Seq(Byte), NEW t \in Seq(Byte)
  PROVE  /\ s \o t \in Seq(Byte) /\ Len(s \o t) = Len(s) + Len(t)
         /\ Len(s) \in Nat /\ Len(t) \in Nat
         /\ \A k \in 1 .. Len(s) : (s \o t)[k] = s[k]
         /\ \A k \in 1 .. Len(t) : (s \o t)[Len(s) + k] = t[k]
<1>1. Len(s) \in Nat /\ Len(t) \in Nat
  BY LenProperties
<1>2. /\ s \o t \in Seq(Byte) /\ Len(s \o t) = Len(s) + Len(t)
      /\ \A i \in 1 .. Len(s) + Len(t) :
           (s \o t)[i] = IF i <= Len(s) THEN s[i] ELSE t[i - Len(s)]
  BY ConcatProperties
<1>3. ASSUME NEW k \in 1 .. Len(s) PROVE (s \o t)[k] = s[k]
  BY <1>1, <1>2
<1>4. ASSUME NEW k \in 1 .. Len(t) PROVE (s \o t)[Len(s) + k] = t[k]
  <2>1. /\ Len(s) + k \in 1 .. Len(s) + Len(t) /\ ~(Len(s) + k <= Len(s))
        /\ Len(s) + k - Len(s) = k
    BY <1>1
  <2> QED
    BY <1>2, <2>1
<1> QED
  BY <1>1, <1>2, <1>3, <1>4

LEMMA UpToTyped ==
  ASSUME NEW chars \in Seq(Characters), NEW lan \in Lans
  PROVE  \A n \in 0 .. Len(chars) : BytesUpTo(chars, lan)[n] \in Seq(Byte)
<1> DEFINE e == BytesUpTo(chars, lan)
           T == {n \in 0 .. Len(chars) : e[n] \notin Seq(Byte)}
<1>1. /\ Len(chars) \in Nat /\ \A n \in 1 .. Len(chars) : chars[n] \in Characters
      /\ e[0] = << >>
      /\ \A n \in 1 .. Len(chars) : e[n] = e[n - 1] \o Code(chars[n], lan)
  BY UpToParts
<1> HIDE DEF e
<1> SUFFICES ASSUME T # {} PROVE FALSE
  BY DEF e
<1>2. PICK m \in T : \A n \in T : m <= n
  <2>1. T \subseteq Nat
    BY <1>1
  <2> HIDE DEF T
  <2> QED
    BY <2>1, Least
<1>3. m # 0
  <2>1. << >> \in Seq(Byte)
    BY EmptySeq
  <2> QED
    BY <1>1, <2>1
<1>4. m \in 1 .. Len(chars) /\ m - 1 \in 0 .. Len(chars) /\ ~(m <= m - 1)
  BY <1>1, <1>3
<1>5. e[m - 1] \in Seq(Byte)
  BY <1>2, <1>4
<1>6. Code(chars[m], lan) \in Seq(Byte)
  BY <1>1, <1>4, CodeTyped
<1>7. e[m] = e[m - 1] \o Code(chars[m], lan)
  BY <1>1, <1>4
<1>8. e[m] \in Seq(Byte)
  <2>1. \A s, t \in Seq(Byte) : s \o t \in Seq(Byte)
    BY ConcatProperties
  <2> QED
    BY <1>5, <1>6, <1>7, <2>1
<1> QED
  BY <1>2, <1>8

(* What was there of the first characters stays when others follow.        *)
LEMMA UpToStays ==
  ASSUME NEW chars \in Seq(Characters), NEW lan \in Lans,
         NEW m \in 0 .. Len(chars), NEW n \in m .. Len(chars)
  PROVE  /\ Len(BytesUpTo(chars, lan)[m]) <= Len(BytesUpTo(chars, lan)[n])
         /\ \A k \in 1 .. Len(BytesUpTo(chars, lan)[m]) :
              BytesUpTo(chars, lan)[n][k] = BytesUpTo(chars, lan)[m][k]
<1> DEFINE e == BytesUpTo(chars, lan)
           Stays(i) == /\ Len(e[m]) <= Len(e[i])
                       /\ \A k \in 1 .. Len(e[m]) : e[i][k] = e[m][k]
           T == {i \in m .. Len(chars) : ~Stays(i)}
<1>1. /\ Len(chars) \in Nat /\ \A i \in 1 .. Len(chars) : chars[i] \in Characters
      /\ \A i \in 1 .. Len(chars) : e[i] = e[i - 1] \o Code(chars[i], lan)
  BY UpToParts
<1>2. \A i \in 0 .. Len(chars) : e[i] \in Seq(Byte) /\ Len(e[i]) \in Nat
  BY UpToTyped, LenProperties
<1> HIDE DEF e
<1> SUFFICES ASSUME T # {} PROVE FALSE
  BY DEF e
<1>3. PICK j \in T : \A i \in T : j <= i
  <2>1. T \subseteq Nat
    BY <1>1
  <2> HIDE DEF T
  <2> QED
    BY <2>1, Least
<1>4. j # m
  <2>1. Len(e[m]) <= Len(e[m])
    BY <1>2
  <2> QED
    BY <2>1
<1>5. /\ j \in 1 .. Len(chars) /\ j - 1 \in m .. Len(chars) /\ ~(j <= j - 1)
      /\ j - 1 \in 0 .. Len(chars)
  BY <1>1, <1>4
<1>6. Stays(j - 1) /\ ~Stays(j)
  <2>1. j - 1 \notin T
    BY <1>3, <1>5
  <2> HIDE DEF Stays
  <2> QED
    BY <1>5, <2>1
<1>7. Code(chars[j], lan) \in Seq(Byte)
  BY <1>1, <1>5, CodeTyped
<1>8. /\ Len(e[j - 1]) \in Nat /\ Len(e[j - 1]) <= Len(e[j])
      /\ \A k \in 1 .. Len(e[j - 1]) : e[j][k] = e[j - 1][k]
  <2>1. PICK s, t \in Seq(Byte) : s = e[j - 1] /\ t = Code(chars[j], lan)
    BY <1>2, <1>5, <1>7
  <2>2. e[j] = s \o t
    BY <1>1, <1>5, <2>1
  <2>3. /\ Len(s \o t) = Len(s) + Len(t) /\ Len(s) \in Nat /\ Len(t) \in Nat
        /\ \A k \in 1 .. Len(s) : (s \o t)[k] = s[k]
    BY Appends
  <2>4. Len(s) <= Len(s \o t)
    BY <2>3
  <2> QED
    BY <2>1, <2>2, <2>3, <2>4
<1>9. /\ Len(e[m]) <= Len(e[j - 1]) /\ Len(e[m]) \in Nat /\ Len(e[j]) \in Nat
      /\ \A k \in 1 .. Len(e[m]) : e[j - 1][k] = e[m][k]
  <2>1. m \in 0 .. Len(chars) /\ j \in 0 .. Len(chars)
    BY <1>1, <1>5
  <2> QED
    BY <1>2, <1>6, <2>1
<1>10. Len(e[m]) <= Len(e[j]) /\ \A k \in 1 .. Len(e[m]) : k \in 1 .. Len(e[j - 1])
  <2> \A a, b, c \in Nat : a <= b /\ b <= c => a <= c /\ \A k \in 1 .. a : k \in 1 .. b
    OBVIOUS
  <2> QED
    BY <1>8, <1>9
<1>11. \A k \in 1 .. Len(e[m]) : e[j][k] = e[m][k]
  BY <1>8, <1>9, <1>10
<1> QED
  BY <1>6, <1>10, <1>11

(* Where a character is among the bytes of a text.                         *)
LEMMA BytesOfParts ==
  ASSUME NEW chars \in Seq(Characters), NEW lan \in Lans
  PROVE  /\ BytesOf(chars, lan) \in Seq(Byte) /\ Len(BytesOf(chars, lan)) \in Nat
         /\ Len(BytesUpTo(chars, lan)[0]) = 0
         /\ \A n \in 1 .. Len(chars) :
              /\ chars[n] \in Characters
              /\ Len(BytesUpTo(chars, lan)[n - 1]) \in Nat
              /\ Len(BytesUpTo(chars, lan)[n])
                   = Len(BytesUpTo(chars, lan)[n - 1]) + Len(Code(chars[n], lan))
              /\ Len(BytesUpTo(chars, lan)[n]) <= Len(BytesOf(chars, lan))
              /\ \A k \in 1 .. Len(Code(chars[n], lan)) :
                   BytesOf(chars, lan)[Len(BytesUpTo(chars, lan)[n - 1]) + k]
                     = Code(chars[n], lan)[k]
<1> DEFINE e == BytesUpTo(chars, lan)
<1>1. /\ Len(chars) \in Nat /\ \A i \in 1 .. Len(chars) : chars[i] \in Characters
      /\ e[0] = << >>
      /\ \A i \in 1 .. Len(chars) : e[i] = e[i - 1] \o Code(chars[i], lan)
  BY UpToParts
<1>2. \A i \in 0 .. Len(chars) : e[i] \in Seq(Byte) /\ Len(e[i]) \in Nat
  BY UpToTyped, LenProperties
<1>3. BytesOf(chars, lan) = e[Len(chars)]
  BY DEF BytesOf
<1>4. \A i \in 0 .. Len(chars) :
        /\ Len(e[i]) <= Len(e[Len(chars)])
        /\ \A k \in 1 .. Len(e[i]) : e[Len(chars)][k] = e[i][k]
  <2>1. \A i \in 0 .. Len(chars) : Len(chars) \in i .. Len(chars)
    BY <1>1
  <2> QED
    BY <2>1, UpToStays
<1> HIDE DEF e
<1>5. e[Len(chars)] \in Seq(Byte) /\ Len(e[Len(chars)]) \in Nat
  BY <1>1, <1>2
<1>6. Len(e[0]) = 0
  BY <1>1, EmptySeq
<1>7. ASSUME NEW n \in 1 .. Len(chars)
      PROVE  /\ Len(e[n - 1]) \in Nat
             /\ Len(e[n]) = Len(e[n - 1]) + Len(Code(chars[n], lan))
             /\ Len(e[n]) <= Len(e[Len(chars)])
             /\ \A k \in 1 .. Len(Code(chars[n], lan)) :
                  e[Len(chars)][Len(e[n - 1]) + k] = Code(chars[n], lan)[k]
  <2>1. n - 1 \in 0 .. Len(chars) /\ n \in 0 .. Len(chars)
    BY <1>1
  <2>2. e[n - 1] \in Seq(Byte) /\ Len(e[n - 1]) \in Nat /\ e[n] \in Seq(Byte)
    BY <1>2, <2>1
  <2>3. Code(chars[n], lan) \in Seq(Byte)
    BY <1>1, CodeTyped
  <2>4. /\ Len(e[n]) = Len(e[n - 1]) + Len(Code(chars[n], lan))
        /\ Len(Code(chars[n], lan)) \in Nat
        /\ \A k \in 1 .. Len(Code(chars[n], lan)) : e[n][Len(e[n - 1]) + k] = Code(chars[n], lan)[k]
    <3>1. PICK s, t \in Seq(Byte) : s = e[n - 1] /\ t = Code(chars[n], lan)
      BY <2>2, <2>3
    <3>2. e[n] = s \o t
      BY <1>1, <3>1
    <3>3. /\ Len(s \o t) = Len(s) + Len(t) /\ Len(t) \in Nat
          /\ \A k \in 1 .. Len(t) : (s \o t)[Len(s) + k] = t[k]
      BY Appends
    <3> QED
      BY <3>1, <3>2, <3>3
  <2>5. \A k \in 1 .. Len(Code(chars[n], lan)) : Len(e[n - 1]) + k \in 1 .. Len(e[n])
    <3> \A a, b \in Nat : \A k \in 1 .. b : a + k \in 1 .. a + b
      OBVIOUS
    <3> QED
      BY <2>2, <2>4
  <2> QED
    BY <1>4, <2>1, <2>2, <2>4, <2>5
<1> QED
  BY <1>1, <1>3, <1>5, <1>6, <1>7 DEF e

-----------------------------------------------------------------------------
(* Digits.  A byte's digits are at the two places where StringToHex looks  *)
(* for them.                                                               *)
LEMMA NibbleOfDigit ==
  ASSUME NEW x \in Nat, x < 16
  PROVE  Nibble(Digit(x)) = x
<1>1. CASE x > 9
  <2>1. Digit(x) = 87 + x /\ 87 + x > 64 /\ 87 + x = 96 + (x - 9) /\ x - 9 \in Nat /\ x - 9 < 16
    BY <1>1 DEF Digit
  <2>2. (87 + x) % 16 = x - 9
    BY <2>1
  <2> QED
    BY <2>1, <2>2 DEF Nibble
<1>2. CASE x <= 9
  <2>1. Digit(x) = 48 + x /\ ~(48 + x > 64)
    BY <1>2 DEF Digit
  <2>2. (48 + x) % 16 = x
    BY <1>2
  <2> QED
    BY <2>1, <2>2 DEF Nibble
<1> QED
  BY <1>1, <1>2

LEMMA PrefixIsText ==
  ASSUME NEW prefix \in BOOLEAN
  PROVE  Prefix(prefix) \in Seq(Byte) /\ Len(Prefix(prefix)) \in Nat
<1>1. CASE prefix
  <2>1. Prefix(prefix) = <<48, 120>>
    BY <1>1 DEF Prefix
  <2>2. 48 \in Byte /\ 120 \in Byte
    BY DEF Byte
  <2> QED
    BY <2>1, <2>2
<1>2. CASE ~prefix
  <2>1. Prefix(prefix) = << >>
    BY <1>2 DEF Prefix
  <2> QED
    BY <2>1, EmptySeq
<1> QED
  BY <1>1, <1>2

LEMMA DigitTyped ==
  ASSUME NEW x \in Nat, x < 16
  PROVE  Digit(x) \in Byte
BY DEF Digit, Byte

(* The two digits of a byte. *)
LEMMA DigitsOf ==
  ASSUME NEW b \in Byte
  PROVE  /\ b \div 16 \in Nat /\ b \div 16 < 16 /\ b % 16 \in Nat /\ b % 16 < 16
         /\ (b \div 16) * 16 + (b % 16) = b
<1> b \in Nat /\ b < 256
  BY DEF Byte
<1>1. b \div 16 \in Nat /\ b \div 16 < 16
  OBVIOUS
<1>2. b % 16 \in Nat /\ b % 16 < 16
  OBVIOUS
<1>3. (b \div 16) * 16 + (b % 16) = b
  OBVIOUS
<1> QED
  BY <1>1, <1>2, <1>3

(* The digits of byte n from the end are the 2(len - n) + 1st and the one  *)
(* after it.                                                               *)
LEMMA HexPlaces ==
  ASSUME NEW len \in Nat, NEW n \in 1 .. len
  PROVE  /\ 2 * (len - n) + 1 \in 1 .. 2 * len /\ 2 * (len - n) + 2 \in 1 .. 2 * len
         /\ len - ((2 * (len - n) + 1) - 1) \div 2 = n
         /\ len - ((2 * (len - n) + 2) - 1) \div 2 = n
         /\ (2 * (len - n) + 1) % 2 = 1 /\ (2 * (len - n) + 2) % 2 # 1
<1>1. PICK d \in Nat : d = len - n /\ len - d = n
  OBVIOUS
<1>2. ((2 * d + 1) - 1) \div 2 = d /\ ((2 * d + 2) - 1) \div 2 = d
  OBVIOUS
<1>3. (2 * d + 1) % 2 = 1 /\ (2 * d + 2) % 2 = 0
  OBVIOUS
<1>4. 2 * d + 1 \in 1 .. 2 * len /\ 2 * d + 2 \in 1 .. 2 * len
  BY <1>1
<1> QED
  BY <1>1, <1>2, <1>3, <1>4

(* Bytes survive the way to digits and back. *)
LEMMA HexKeepsBytes ==
  ASSUME NEW bytes \in Seq(Byte), NEW prefix \in BOOLEAN
  PROVE  StringToHex(HexToString(bytes, prefix), Len(bytes), prefix) = bytes
<1> DEFINE len == Len(bytes)
           start == Len(Prefix(prefix))
           digit(k) == LET byte == bytes[len - (k - 1) \div 2]
                       IN Digit(IF k % 2 = 1 THEN byte \div 16 ELSE byte % 16)
           digits == [k \in 1 .. 2 * len |-> digit(k)]
           string == HexToString(bytes, prefix)
           nibbles(n) == Nibble(string[start + 2 * (len - n) + 1]) * 16
                         + Nibble(string[start + 2 * (len - n) + 2])
<1>1. len \in Nat /\ start \in Nat /\ Prefix(prefix) \in Seq(Byte)
      /\ \A n \in 1 .. len : bytes[n] \in Byte
  BY PrefixIsText, NodesOf
<1>2. string = Prefix(prefix) \o digits
  BY DEF HexToString
<1>3. \A k \in 1 .. 2 * len : digit(k) \in Byte
  <2> SUFFICES ASSUME NEW k \in 1 .. 2 * len PROVE digit(k) \in Byte
    OBVIOUS
  <2>1. len - (k - 1) \div 2 \in 1 .. len
    BY <1>1
  <2>2. PICK b \in Byte : b = bytes[len - (k - 1) \div 2]
    BY <1>1, <2>1
  <2>3. Digit(b \div 16) \in Byte /\ Digit(b % 16) \in Byte
    BY DigitsOf, DigitTyped
  <2> QED
    BY <2>2, <2>3
<1>4. digits \in Seq(Byte) /\ Len(digits) = 2 * len
  <2> HIDE DEF len, digit
  <2>1. 2 * len \in Nat
    BY <1>1
  <2> QED
    BY <1>3, <2>1
<1>5. \A k \in 1 .. 2 * len : string[start + k] = digit(k)
  <2>1. \A k \in 1 .. Len(digits) : (Prefix(prefix) \o digits)[start + k] = digits[k]
    BY <1>1, <1>4, Appends
  <2> HIDE DEF string, digit
  <2> QED
    BY <1>2, <1>4, <2>1
<1>6. ASSUME NEW n \in 1 .. len
      PROVE  nibbles(n) = bytes[n]
  <2>1. PICK h, l \in 1 .. 2 * len :
          /\ h = 2 * (len - n) + 1 /\ l = 2 * (len - n) + 2
          /\ len - (h - 1) \div 2 = n /\ len - (l - 1) \div 2 = n
          /\ h % 2 = 1 /\ l % 2 # 1
    BY <1>1, HexPlaces
  <2>2. PICK b \in Byte : b = bytes[n]
    BY <1>1
  <2>3. digit(h) = Digit(b \div 16) /\ digit(l) = Digit(b % 16)
    BY <2>1, <2>2
  <2>4. string[start + h] = Digit(b \div 16) /\ string[start + l] = Digit(b % 16)
    <3> HIDE DEF digit, string
    <3> QED
      BY <1>5, <2>3
  <2>5. Nibble(string[start + h]) * 16 + Nibble(string[start + l]) = b
    BY <2>4, DigitsOf, NibbleOfDigit
  <2>6. start + 2 * (len - n) + 1 = start + h /\ start + 2 * (len - n) + 2 = start + l
    BY <1>1, <2>1
  <2> HIDE DEF string, start
  <2> QED
    BY <2>2, <2>5, <2>6
<1>7. StringToHex(string, len, prefix) = [n \in 1 .. len |-> nibbles(n)]
  BY DEF StringToHex
<1>8. bytes = [n \in 1 .. len |-> bytes[n]]
  BY <1>1
<1> HIDE DEF nibbles, string, len
<1>9. StringToHex(string, len, prefix) = bytes
  BY <1>6, <1>7, <1>8
<1> QED
  BY <1>9 DEF string, len

-----------------------------------------------------------------------------
(* What the copies have done. *)

TextTypes ==
  /\ from \in Lans /\ tolan \in Lans /\ from # tolan /\ text \in Seq(Characters)
  /\ memory = BytesOf(text, from) \o Terminator(from)
  /\ state = "overrun" => from = "utf8"

(* From UTF-8, m characters have come out as they must, and the copy is    *)
(* where the next one begins, unless that one is beyond sixteen bits.      *)
FromUtf8Inv ==
  from = "utf8" =>
    /\ written \in Seq(Byte) /\ (state = "copies" => place \in 1 .. Len(memory))
    /\ \E m \in 0 .. Len(text) :
         /\ 2 * m <= Len(written)
         /\ \A n \in 1 .. m : /\ text[n] \in Word16
                              /\ UnitAt(written, 2 * n - 1, tolan) = text[n] <=> Kept(text[n])
         /\ \/ m < Len(text) /\ text[m + 1] \notin Word16
            \/ /\ state = "copies" /\ Len(written) = 2 * m
               /\ place = Len(BytesUpTo(text, from)[m]) + 1
            \/ state = "done" /\ m = Len(text)

(* To UTF-8, the bytes of m characters have been written. *)
FromUtf16Inv ==
  from # "utf8" /\ tolan = "utf8" /\ (\A n \in 1 .. Len(text) : text[n] \in Word16) =>
    \E m \in 0 .. Len(text) :
       /\ place = 2 * m + 1 /\ written = BytesUpTo(text, "utf8")[m]
       /\ state = "copies" \/ (state = "done" /\ m = Len(text))

TextInv == TextTypes /\ FromUtf8Inv /\ FromUtf16Inv

LEMMA TerminatorZero ==
  ASSUME NEW lan \in Lans
  PROVE  /\ Terminator(lan) \in Seq(Byte)
         /\ Len(Terminator(lan)) = IF lan = "utf8" THEN 1 ELSE 2
         /\ \A k \in 1 .. Len(Terminator(lan)) : Terminator(lan)[k] = 0
<1>1. 0 \in Byte
  BY DEF Byte
<1>2. CASE lan = "utf8"
  <2>1. Terminator(lan) = <<0>>
    BY <1>2 DEF Terminator
  <2>2. <<0>> \in Seq(Byte) /\ Len(<<0>>) = 1 /\ \A k \in 1 .. 1 : k = 1
    BY <1>1
  <2>3. \A k \in 1 .. 1 : <<0>>[k] = 0
    BY <2>2
  <2> QED
    BY <1>2, <2>1, <2>2, <2>3
<1>3. CASE lan # "utf8"
  <2>1. Terminator(lan) = <<0, 0>>
    BY <1>3 DEF Terminator
  <2> QED
    BY <1>1, <1>3, <2>1
<1> QED
  BY <1>2, <1>3

(* Where the bytes of characters and of the terminator are in memory. *)
LEMMA MemoryHas ==
  ASSUME TextTypes
  PROVE  /\ memory \in Seq(Byte) /\ Len(memory) \in Nat /\ Len(text) \in Nat
         /\ Len(BytesOf(text, from)) \in Nat
         /\ Len(memory) = Len(BytesOf(text, from)) + (IF from = "utf8" THEN 1 ELSE 2)
         /\ memory[Len(BytesOf(text, from)) + 1] = 0
         /\ from # "utf8" => memory[Len(BytesOf(text, from)) + 2] = 0
         /\ \A n \in 1 .. Len(text) : \A k \in 1 .. Len(Code(text[n], from)) :
              memory[Len(BytesUpTo(text, from)[n - 1]) + k] = Code(text[n], from)[k]
<1>1. from \in Lans /\ text \in Seq(Characters) /\ memory = BytesOf(text, from) \o Terminator(from)
  BY DEF TextTypes
<1>2. PICK s, t \in Seq(Byte) : s = BytesOf(text, from) /\ t = Terminator(from)
  BY <1>1, BytesOfParts, TerminatorZero
<1>3. memory = s \o t
  BY <1>1, <1>2
<1>4. /\ s \o t \in Seq(Byte) /\ Len(s \o t) = Len(s) + Len(t)
      /\ Len(s) \in Nat /\ Len(t) \in Nat
      /\ \A k \in 1 .. Len(s) : (s \o t)[k] = s[k]
      /\ \A k \in 1 .. Len(t) : (s \o t)[Len(s) + k] = t[k]
  BY Appends
<1>5. /\ Len(t) = IF from = "utf8" THEN 1 ELSE 2
      /\ \A k \in 1 .. Len(t) : t[k] = 0
  BY <1>1, <1>2, TerminatorZero
<1>6. /\ (s \o t)[Len(s) + 1] = 0
      /\ from # "utf8" => (s \o t)[Len(s) + 2] = 0
  <2>1. 1 \in 1 .. Len(t) /\ (from # "utf8" => 2 \in 1 .. Len(t))
    BY <1>5
  <2> QED
    BY <1>4, <1>5, <2>1
<1>7. ASSUME NEW n \in 1 .. Len(text), NEW k \in 1 .. Len(Code(text[n], from))
      PROVE  memory[Len(BytesUpTo(text, from)[n - 1]) + k] = Code(text[n], from)[k]
  <2>1. /\ text[n] \in Characters
        /\ Len(BytesUpTo(text, from)[n - 1]) \in Nat
        /\ Len(BytesUpTo(text, from)[n])
             = Len(BytesUpTo(text, from)[n - 1]) + Len(Code(text[n], from))
        /\ Len(BytesUpTo(text, from)[n]) <= Len(s)
        /\ s[Len(BytesUpTo(text, from)[n - 1]) + k] = Code(text[n], from)[k]
    BY <1>1, <1>2, BytesOfParts
  <2>2. Len(Code(text[n], from)) \in Nat
    BY <1>1, <2>1, CodeTyped
  <2>3. PICK i \in 1 .. Len(s) : i = Len(BytesUpTo(text, from)[n - 1]) + k
    <3>1. \A a, b, c, d \in Nat : a = b + c /\ a <= d =>
            \A j \in 1 .. c : b + j \in 1 .. d
      OBVIOUS
    <3>2. Len(BytesUpTo(text, from)[n]) \in Nat
      <4>1. n \in 0 .. Len(text)
        OBVIOUS
      <4> QED
        BY <1>1, <4>1, UpToTyped, LenProperties
    <3> QED
      BY <1>4, <2>1, <2>2, <3>1, <3>2
  <2>4. (s \o t)[i] = s[i]
    BY <1>4
  <2> QED
    BY <1>3, <2>1, <2>3, <2>4
<1>8. Len(text) \in Nat
  BY <1>1, LenProperties
<1>9. /\ memory \in Seq(Byte) /\ Len(memory) \in Nat /\ Len(BytesOf(text, from)) \in Nat
      /\ Len(memory) = Len(BytesOf(text, from)) + (IF from = "utf8" THEN 1 ELSE 2)
  BY <1>2, <1>3, <1>4, <1>5
<1>10. /\ memory[Len(BytesOf(text, from)) + 1] = 0
       /\ from # "utf8" => memory[Len(BytesOf(text, from)) + 2] = 0
  BY <1>2, <1>3, <1>6
<1> QED
  BY <1>7, <1>8, <1>9, <1>10

(* A text without longer characters has two bytes for each in UTF-16. *)
LEMMA UnitsUpTo ==
  ASSUME NEW chars \in Seq(Characters), NEW lan \in Lans, lan # "utf8",
         \A n \in 1 .. Len(chars) : chars[n] \in Word16
  PROVE  \A n \in 0 .. Len(chars) : Len(BytesUpTo(chars, lan)[n]) = 2 * n
<1> DEFINE e == BytesUpTo(chars, lan)
           T == {n \in 0 .. Len(chars) : Len(e[n]) # 2 * n}
<1>1. Len(chars) \in Nat
  BY LenProperties
<1>2. /\ Len(e[0]) = 0
      /\ \A n \in 1 .. Len(chars) : Len(e[n]) = Len(e[n - 1]) + Len(Code(chars[n], lan))
  BY BytesOfParts
<1>3. ASSUME NEW n \in 1 .. Len(chars)
      PROVE  Len(Code(chars[n], lan)) = 2
  <2>1. Code(chars[n], lan) = Bytes(chars[n], lan)
    BY DEF Code, Word16
  <2> QED
    BY <2>1, BytesTyped
<1> HIDE DEF e
<1> SUFFICES ASSUME T # {} PROVE FALSE
  BY DEF e
<1>4. PICK m \in T : \A n \in T : m <= n
  <2>1. T \subseteq Nat
    BY <1>1
  <2> HIDE DEF T
  <2> QED
    BY <2>1, Least
<1>5. m # 0
  BY <1>2
<1>6. m \in 1 .. Len(chars) /\ m - 1 \in 0 .. Len(chars) /\ ~(m <= m - 1)
  BY <1>1, <1>5
<1>7. Len(e[m - 1]) = 2 * (m - 1)
  BY <1>4, <1>6
<1>8. Len(e[m]) = 2 * (m - 1) + 2
  BY <1>2, <1>3, <1>6, <1>7
<1> QED
  BY <1>6, <1>8

-----------------------------------------------------------------------------
(* TextInv is inductive, and says what the conversions keep. *)
LEMMA InitText == TextInit => TextInv
<1> SUFFICES ASSUME TextInit PROVE TextInv
  OBVIOUS
<1>1. text \in Seq(Characters)
  <2>1. \A c \in CodePoints : c \in Characters
    BY CodePointsAssumption DEF Characters
  <2>2. PICK n \in 1 .. MaxText : text \in [1 .. n -> CodePoints]
    BY DEF TextInit
  <2>3. n \in Nat
    BY CodePointsAssumption
  <2>4. text \in [1 .. n -> Characters]
    BY <2>1, <2>2
  <2> QED
    BY <2>3, <2>4
<1>2. TextTypes
  BY <1>1 DEF TextInit, TextTypes, Lans
<1>3. place = 1 /\ written = << >> /\ state = "copies"
  BY DEF TextInit
<1>4. /\ Len(text) \in Nat /\ 0 \in 0 .. Len(text) /\ << >> \in Seq(Byte) /\ Len(<< >>) = 0
      /\ Len(memory) \in Nat /\ 1 \in 1 .. Len(memory)
  <2>1. Len(memory) \in Nat /\ Len(memory) >= 1 /\ Len(text) \in Nat
    BY <1>2, MemoryHas
  <2> QED
    BY <2>1, EmptySeq
<1>5. /\ Len(BytesUpTo(text, from)[0]) = 0 /\ BytesUpTo(text, "utf8")[0] = << >>
  BY <1>2, BytesOfParts, UpToParts DEF TextTypes, Lans
<1>6. FromUtf8Inv
  <2>1. /\ 2 * 0 <= Len(written)
        /\ \A n \in 1 .. 0 : /\ text[n] \in Word16
                             /\ UnitAt(written, 2 * n - 1, tolan) = text[n] <=> Kept(text[n])
        /\ state = "copies" /\ Len(written) = 2 * 0
        /\ place = Len(BytesUpTo(text, from)[0]) + 1
    BY <1>3, <1>4, <1>5
  <2> QED
    BY <1>3, <1>4, <2>1 DEF FromUtf8Inv
<1>7. FromUtf16Inv
  BY <1>3, <1>4, <1>5 DEF FromUtf16Inv
<1> QED
  BY <1>2, <1>6, <1>7 DEF TextInv

(* What a copy appends leaves the units before it. *)
LEMMA UnitsStay ==
  ASSUME NEW s \in Seq(Byte), NEW t \in Seq(Byte), NEW lan, NEW m \in Nat, 2 * m <= Len(s)
  PROVE  \A n \in 1 .. m : UnitAt(s \o t, 2 * n - 1, lan) = UnitAt(s, 2 * n - 1, lan)
<1> SUFFICES ASSUME NEW n \in 1 .. m
             PROVE  UnitAt(s \o t, 2 * n - 1, lan) = UnitAt(s, 2 * n - 1, lan)
  OBVIOUS
<1>1. Len(s) \in Nat /\ \A k \in 1 .. Len(s) : (s \o t)[k] = s[k]
  BY Appends
<1>2. 2 * n - 1 \in 1 .. Len(s) /\ 2 * n - 1 + 1 \in 1 .. Len(s)
  BY <1>1
<1> QED
  BY <1>1, <1>2 DEF UnitAt

(* A unit appended to m units is the next. *)
LEMMA UnitAppended ==
  ASSUME NEW s \in Seq(Byte), NEW unit \in Word16, NEW lan, NEW m \in Nat, Len(s) = 2 * m
  PROVE  UnitAt(s \o Bytes(unit, lan), 2 * (m + 1) - 1, lan) = unit
<1>1. PICK t \in Seq(Byte) : t = Bytes(unit, lan) /\ Len(t) = 2 /\ UnitAt(t, 1, lan) = unit
  BY BytesTyped
<1>2. \A k \in 1 .. Len(t) : (s \o t)[Len(s) + k] = t[k]
  BY Appends
<1>3. (s \o t)[2 * m + 1] = t[1] /\ (s \o t)[2 * m + 2] = t[2]
  <2>1. 1 \in 1 .. Len(t) /\ 2 \in 1 .. Len(t)
    BY <1>1
  <2>2. (s \o t)[Len(s) + 1] = t[1] /\ (s \o t)[Len(s) + 2] = t[2]
    BY <1>2, <2>1
  <2> QED
    BY <2>2
<1>4. 2 * (m + 1) - 1 = 2 * m + 1 /\ 2 * (m + 1) - 1 + 1 = 2 * m + 2 /\ 1 + 1 = 2
  OBVIOUS
<1>5. UnitAt(s \o t, 2 * (m + 1) - 1, lan) = UnitAt(t, 1, lan)
  <2>1. PICK u : u = s \o t /\ u[2 * m + 1] = t[1] /\ u[2 * m + 2] = t[2]
    BY <1>3
  <2>2. UnitAt(u, 2 * m + 1, lan) = UnitAt(t, 1, lan)
    <3>1. u[2 * m + 1 + 1] = t[1 + 1]
      BY <1>4, <2>1
    <3> QED
      BY <2>1, <3>1 DEF UnitAt
  <2> QED
    BY <1>4, <2>1, <2>2
<1> QED
  BY <1>1, <1>5

(* Another character from UTF-8, or the end of what was claimed.           *)
LEMMA FromUtf8Keeps ==
  ASSUME TextInv, FromUtf8 PROVE TextInv'
<1>1. /\ TextTypes /\ FromUtf8Inv /\ from = "utf8" /\ state = "copies"
      /\ UNCHANGED <<from, tolan, text, memory>> /\ memory[place] # 0
  BY DEF TextInv, FromUtf8
<1>2. TextTypes' /\ FromUtf16Inv'
  BY <1>1 DEF TextTypes, FromUtf16Inv
<1>3. /\ memory \in Seq(Byte) /\ Len(memory) \in Nat /\ Len(text) \in Nat
      /\ Len(BytesOf(text, from)) \in Nat
      /\ Len(memory) = Len(BytesOf(text, from)) + 1
      /\ memory[Len(BytesOf(text, from)) + 1] = 0
      /\ \A n \in 1 .. Len(text) : \A k \in 1 .. Len(Code(text[n], from)) :
           memory[Len(BytesUpTo(text, from)[n - 1]) + k] = Code(text[n], from)[k]
  BY <1>1, MemoryHas
<1>4. written \in Seq(Byte) /\ place \in 1 .. Len(memory)
  BY <1>1 DEF FromUtf8Inv
<1> DEFINE taken == Taken(memory[place])
           last == place + taken - 1
           piece == SubSeq(memory, place, last)
<1>5. taken \in {1, 2, 3} /\ last \in Nat /\ place <= last
  BY <1>3, <1>4 DEF Taken
<1>6. IF last < Len(memory)
      THEN written' = written \o Bytes(Unit(piece), tolan) /\ place' = last + 1 /\ state' = state
      ELSE state' = "overrun" /\ written' = written
  BY DEF FromUtf8
<1> HIDE DEF taken
<1>7. last < Len(memory) => /\ piece \in Seq(Byte) /\ Len(piece) = taken
                            /\ \A k \in 1 .. taken : piece[k] = memory[place + k - 1]
  <2> SUFFICES ASSUME last < Len(memory)
               PROVE  /\ piece \in Seq(Byte) /\ Len(piece) = taken
                      /\ \A k \in 1 .. taken : piece[k] = memory[place + k - 1]
    OBVIOUS
  <2>1. \A i \in place .. last : memory[i] \in Byte
    <3>1. \A i \in 1 .. Len(memory) : memory[i] \in Byte
      BY <1>3, NodesOf
    <3>2. \A i \in place .. last : i \in 1 .. Len(memory)
      BY <1>3, <1>4, <1>5
    <3> QED
      BY <3>1, <3>2
  <2>2. place \in Int /\ last \in Int
    BY <1>4, <1>5
  <2> HIDE DEF last
  <2>3. /\ piece \in Seq(Byte) /\ Len(piece) = IF place <= last THEN last - place + 1 ELSE 0
        /\ \A k \in 1 .. last - place + 1 : piece[k] = memory[place + k - 1]
    BY <2>1, <2>2, SubSeqProperties
  <2>4. last - place + 1 = taken
    BY <1>4, <1>5 DEF last
  <2> QED
    BY <1>5, <2>3, <2>4
<1>8. written' \in Seq(Byte) /\ Len(written) \in Nat /\ Len(written') \in Nat
      /\ Len(written') >= Len(written)
      /\ \A i \in Nat : 2 * i <= Len(written) =>
           \A n \in 1 .. i : UnitAt(written', 2 * n - 1, tolan) = UnitAt(written, 2 * n - 1, tolan)
  <2>1. CASE last < Len(memory)
    <3>1. Unit(piece) \in Word16
      BY <1>5, <1>7, <2>1, UnitTyped
    <3>2. PICK t \in Seq(Byte) : t = Bytes(Unit(piece), tolan)
      BY <3>1, BytesTyped
    <3>3. written' = written \o t
      BY <1>6, <2>1, <3>2
    <3>4. /\ written \o t \in Seq(Byte) /\ Len(written \o t) = Len(written) + Len(t)
          /\ Len(written) \in Nat /\ Len(t) \in Nat
      BY <1>4, Appends
    <3>5. Len(written \o t) \in Nat /\ Len(written \o t) >= Len(written)
      BY <3>4
    <3>6. \A i \in Nat : 2 * i <= Len(written) =>
            \A n \in 1 .. i :
              UnitAt(written \o t, 2 * n - 1, tolan) = UnitAt(written, 2 * n - 1, tolan)
      BY <1>4, UnitsStay
    <3> QED
      BY <3>3, <3>4, <3>5, <3>6
  <2>2. CASE ~(last < Len(memory))
    <3>1. written' = written
      BY <1>6, <2>2
    <3>2. Len(written) \in Nat
      BY <1>4, LenProperties
    <3> QED
      BY <1>4, <3>1, <3>2
  <2> QED
    BY <2>1, <2>2
<1>9. state' = "copies" => place' \in 1 .. Len(memory')
  <2>1. state' = "copies" => last < Len(memory) /\ place' = last + 1
    BY <1>6
  <2>2. last < Len(memory) => last + 1 \in 1 .. Len(memory)
    BY <1>3, <1>5
  <2> QED
    BY <1>1, <2>1, <2>2
<1>10. PICK m \in 0 .. Len(text) :
         /\ 2 * m <= Len(written)
         /\ \A n \in 1 .. m : /\ text[n] \in Word16
                              /\ UnitAt(written, 2 * n - 1, tolan) = text[n] <=> Kept(text[n])
         /\ \/ m < Len(text) /\ text[m + 1] \notin Word16
            \/ Len(written) = 2 * m /\ place = Len(BytesUpTo(text, from)[m]) + 1
  BY <1>1 DEF FromUtf8Inv
<1>11. /\ 2 * m <= Len(written')
       /\ \A n \in 1 .. m : /\ text[n] \in Word16
                            /\ UnitAt(written', 2 * n - 1, tolan) = text[n] <=> Kept(text[n])
  <2>1. m \in Nat
    BY <1>3
  <2>2. 2 * m <= Len(written')
    BY <1>8, <1>10, <2>1
  <2>3. \A n \in 1 .. m : UnitAt(written', 2 * n - 1, tolan) = UnitAt(written, 2 * n - 1, tolan)
    BY <1>8, <1>10, <2>1
  <2> QED
    BY <1>10, <2>2, <2>3
<1>12. CASE m < Len(text) /\ text[m + 1] \notin Word16
  <2>1. FromUtf8Inv'
    BY <1>1, <1>8, <1>9, <1>11, <1>12 DEF FromUtf8Inv
  <2> QED
    BY <1>2, <2>1 DEF TextInv
<1>13. CASE /\ ~(m < Len(text) /\ text[m + 1] \notin Word16)
            /\ Len(written) = 2 * m /\ place = Len(BytesUpTo(text, from)[m]) + 1
  <2>1. m < Len(text)
    <3>1. m = Len(text) => memory[place] = 0
      BY <1>3, <1>13 DEF BytesOf
    <3> QED
      BY <1>1, <1>3, <3>1
  <2> DEFINE c == text[m + 1]
  <2>2. m + 1 \in 1 .. Len(text) /\ (m + 1) - 1 = m
    BY <1>3, <2>1
  <2>3. /\ c \in Characters
        /\ Len(BytesUpTo(text, from)[m]) \in Nat
        /\ Len(BytesUpTo(text, from)[m + 1]) = Len(BytesUpTo(text, from)[m]) + Len(Code(c, from))
        /\ Len(BytesUpTo(text, from)[m + 1]) <= Len(BytesOf(text, from))
    <3>1. text \in Seq(Characters) /\ from \in Lans
      BY <1>1 DEF TextTypes
    <3> QED
      BY <2>2, <3>1, BytesOfParts
  <2>4. c \in Word16 /\ Code(c, from) = Utf8(c)
    BY <1>1, <1>13, <2>1 DEF Code
  <2> HIDE DEF c
  <2>5. /\ Utf8(c) \in Seq(Byte) /\ Len(Utf8(c)) \in {1, 2, 3}
        /\ Len(Utf8(c)) = Taken(Utf8(c)[1])
        /\ Unit(Utf8(c)) = c <=> Kept(c)
    BY <2>3, <2>4, Utf8Coded
  <2>6. \A k \in 1 .. Len(Utf8(c)) : memory[place + k - 1] = Utf8(c)[k]
    <3>1. \A k \in 1 .. Len(Utf8(c)) : memory[Len(BytesUpTo(text, from)[m]) + k] = Utf8(c)[k]
      BY <1>3, <2>2, <2>4 DEF c
    <3>2. \A k \in 1 .. Len(Utf8(c)) : place + k - 1 = Len(BytesUpTo(text, from)[m]) + k
      BY <1>13, <2>3, <2>5
    <3> QED
      BY <3>1, <3>2
  <2>7. taken = Len(Utf8(c))
    <3>1. place + 1 - 1 = place /\ 1 \in 1 .. Len(Utf8(c))
      BY <1>4, <2>5
    <3> QED
      BY <2>5, <2>6, <3>1 DEF taken
  <2>8. last = Len(BytesUpTo(text, from)[m + 1]) /\ last < Len(memory)
    <3>1. PICK a, b, d \in Nat : /\ a = Len(BytesUpTo(text, from)[m]) /\ b = Len(Utf8(c))
                                /\ d = Len(BytesOf(text, from))
      BY <1>3, <2>3, <2>5
    <3>2. place = a + 1 /\ taken = b /\ last = place + taken - 1 /\ Len(memory) = d + 1
      BY <1>3, <1>13, <2>7, <3>1
    <3>3. Len(BytesUpTo(text, from)[m + 1]) = a + b /\ a + b <= d
      BY <2>3, <2>4, <3>1
    <3> HIDE DEF last
    <3> QED
      BY <3>2, <3>3
  <2>9. piece = Utf8(c)
    <3> HIDE DEF piece
    <3>1. /\ piece \in Seq(Byte) /\ Len(piece) = Len(Utf8(c))
          /\ \A k \in 1 .. Len(Utf8(c)) : piece[k] = Utf8(c)[k]
      BY <1>7, <2>6, <2>7, <2>8
    <3> QED
      BY <2>5, <3>1, SeqEqual
  <2>10. Unit(Utf8(c)) \in Word16
    BY <2>5, UnitTyped
  <2>11. /\ written' = written \o Bytes(Unit(Utf8(c)), tolan)
         /\ place' = Len(BytesUpTo(text, from)[m + 1]) + 1 /\ state' = "copies"
    <3> HIDE DEF last, piece
    <3> QED
      BY <1>1, <1>6, <2>8, <2>9
  <2>12. Len(written') = 2 * (m + 1)
    <3>1. PICK t \in Seq(Byte) : t = Bytes(Unit(Utf8(c)), tolan) /\ Len(t) = 2
      BY <2>10, BytesTyped
    <3>2. Len(written \o t) = Len(written) + Len(t)
      BY <1>4, ConcatProperties
    <3> QED
      BY <1>13, <2>11, <3>1, <3>2
  <2>13. UnitAt(written', 2 * (m + 1) - 1, tolan) = Unit(Utf8(c))
    BY <1>4, <1>13, <2>10, <2>11, UnitAppended
  <2>14. ASSUME NEW n \in 1 .. m + 1
         PROVE  /\ text[n] \in Word16
                /\ UnitAt(written', 2 * n - 1, tolan) = text[n] <=> Kept(text[n])
    <3>1. CASE n = m + 1
      BY <2>4, <2>5, <2>13, <3>1 DEF c
    <3>2. CASE n # m + 1
      BY <1>11, <3>2
    <3> QED
      BY <3>1, <3>2
  <2>15. /\ 2 * (m + 1) <= Len(written') /\ m + 1 \in 0 .. Len(text)
    BY <1>8, <2>2, <2>12
  <2>16. FromUtf8Inv'
    <3>1. PICK i \in 0 .. Len(text) : i = m + 1
      BY <2>15
    <3> QED
      BY <1>1, <1>8, <1>9, <2>11, <2>12, <2>14, <2>15, <3>1 DEF FromUtf8Inv
  <2> QED
    BY <1>2, <2>16 DEF TextInv
<1> QED
  BY <1>10, <1>12, <1>13

-----------------------------------------------------------------------------
(* What is in memory where the copy from UTF-16 is. *)
LEMMA UnitHere ==
  ASSUME TextTypes, from # "utf8", \A n \in 1 .. Len(text) : text[n] \in Word16,
         NEW m \in 0 .. Len(text)
  PROVE  /\ m < Len(text) => UnitAt(memory, 2 * m + 1, from) = text[m + 1]
         /\ m = Len(text) => UnitAt(memory, 2 * m + 1, from) = 0
<1>1. from \in Lans /\ text \in Seq(Characters)
  BY DEF TextTypes
<1>2. /\ Len(text) \in Nat
      /\ memory[Len(BytesOf(text, from)) + 1] = 0 /\ memory[Len(BytesOf(text, from)) + 2] = 0
      /\ \A n \in 1 .. Len(text) : \A k \in 1 .. Len(Code(text[n], from)) :
           memory[Len(BytesUpTo(text, from)[n - 1]) + k] = Code(text[n], from)[k]
  BY MemoryHas
<1>3. Len(BytesUpTo(text, from)[m]) = 2 * m
  BY <1>1, UnitsUpTo
<1>4. m \in Nat /\ 2 * m + 1 + 1 = 2 * m + 2
  BY <1>2
<1>5. CASE m < Len(text)
  <2>1. m + 1 \in 1 .. Len(text) /\ (m + 1) - 1 = m
    BY <1>2, <1>5
  <2>2. PICK c \in Word16 : c = text[m + 1]
    BY <2>1
  <2>3. Code(c, from) = Bytes(c, from)
    BY DEF Code, Word16
  <2>4. PICK t \in Seq(Byte) : t = Bytes(c, from) /\ Len(t) = 2 /\ UnitAt(t, 1, from) = c
    BY BytesTyped
  <2>5. \A k \in 1 .. 2 : memory[2 * m + k] = t[k]
    <3>1. \A k \in 1 .. Len(Code(c, from)) :
            memory[Len(BytesUpTo(text, from)[m]) + k] = Code(c, from)[k]
      BY <1>2, <2>1, <2>2
    <3>2. Code(c, from) = t /\ Len(t) = 2
      BY <2>3, <2>4
    <3> QED
      BY <1>3, <3>1, <3>2
  <2>6. memory[2 * m + 1] = t[1] /\ memory[2 * m + 2] = t[2] /\ 1 + 1 = 2
    BY <2>5
  <2>7. UnitAt(memory, 2 * m + 1, from) = UnitAt(t, 1, from)
    BY <1>4, <2>6 DEF UnitAt
  <2> QED
    BY <1>5, <2>2, <2>4, <2>7
<1>6. CASE m = Len(text)
  <2>1. Len(BytesOf(text, from)) = 2 * m
    BY <1>3, <1>6 DEF BytesOf
  <2>2. memory[2 * m + 1] = 0 /\ memory[2 * m + 1 + 1] = 0
    BY <1>2, <1>4, <2>1
  <2> QED
    BY <1>6, <2>2 DEF UnitAt
<1> QED
  BY <1>2, <1>5, <1>6

(* Another character to UTF-8. *)
LEMMA FromUtf16Keeps ==
  ASSUME TextInv, FromUtf16 PROVE TextInv'
<1>1. /\ TextTypes /\ FromUtf16Inv /\ from # "utf8" /\ tolan = "utf8" /\ state = "copies"
      /\ UNCHANGED <<from, tolan, text, memory, state>>
      /\ UnitAt(memory, place, from) # 0
      /\ written' = written \o Utf8(UnitAt(memory, place, from)) /\ place' = place + 2
  BY DEF TextInv, FromUtf16
<1>2. TextTypes' /\ FromUtf8Inv'
  BY <1>1 DEF TextTypes, FromUtf8Inv
<1>3. ASSUME \A n \in 1 .. Len(text) : text[n] \in Word16
      PROVE  \E m \in 0 .. Len(text) :
               place' = 2 * m + 1 /\ written' = BytesUpTo(text, "utf8")[m]
  <2>1. PICK m \in 0 .. Len(text) : place = 2 * m + 1 /\ written = BytesUpTo(text, "utf8")[m]
    BY <1>1, <1>3 DEF FromUtf16Inv
  <2>2. Len(text) \in Nat /\ text \in Seq(Characters)
    BY <1>1, MemoryHas DEF TextTypes
  <2>3. m < Len(text) /\ UnitAt(memory, place, from) = text[m + 1]
    BY <1>1, <1>3, <2>1, <2>2, UnitHere
  <2>4. m + 1 \in 1 .. Len(text) /\ (m + 1) - 1 = m
    BY <2>2, <2>3
  <2>5. BytesUpTo(text, "utf8")[m + 1] = BytesUpTo(text, "utf8")[m] \o Code(text[m + 1], "utf8")
    BY <2>2, <2>4, UpToParts DEF Lans
  <2>6. written' = BytesUpTo(text, "utf8")[m + 1]
    <3>1. Code(text[m + 1], "utf8") = Utf8(text[m + 1])
      BY DEF Code
    <3> QED
      BY <1>1, <2>1, <2>3, <2>5, <3>1
  <2>7. place' = 2 * (m + 1) + 1 /\ m + 1 \in 0 .. Len(text)
    BY <1>1, <2>1, <2>2, <2>4
  <2> QED
    BY <2>6, <2>7
<1>4. FromUtf16Inv'
  BY <1>1, <1>3 DEF FromUtf16Inv
<1> QED
  BY <1>2, <1>4 DEF TextInv

(* The end of the text, which the terminator tells from characters. *)
LEMMA EndKeeps ==
  ASSUME TextInv, EndOfText PROVE TextInv'
<1>1. /\ TextTypes /\ FromUtf8Inv /\ FromUtf16Inv /\ state = "copies" /\ state' = "done"
      /\ UNCHANGED <<from, tolan, text, memory, place>>
      /\ written' = IF tolan = "utf8" THEN written ELSE written \o Terminator(tolan)
      /\ IF from = "utf8" THEN memory[place] = 0 ELSE UnitAt(memory, place, from) = 0
  BY DEF TextInv, EndOfText
<1>2. TextTypes'
  BY <1>1 DEF TextTypes
<1>3. FromUtf8Inv'
  <2> SUFFICES ASSUME from = "utf8" PROVE FromUtf8Inv'
    BY <1>1 DEF FromUtf8Inv
  <2>1. /\ written \in Seq(Byte) /\ tolan \in Lans /\ tolan # "utf8" /\ text \in Seq(Characters)
        /\ from \in Lans
    BY <1>1 DEF FromUtf8Inv, TextTypes
  <2>2. PICK m \in 0 .. Len(text) :
           /\ 2 * m <= Len(written)
           /\ \A n \in 1 .. m : /\ text[n] \in Word16
                                /\ UnitAt(written, 2 * n - 1, tolan) = text[n] <=> Kept(text[n])
           /\ \/ m < Len(text) /\ text[m + 1] \notin Word16
              \/ Len(written) = 2 * m /\ place = Len(BytesUpTo(text, from)[m]) + 1
    BY <1>1 DEF FromUtf8Inv
  <2>3. PICK t \in Seq(Byte) : t = Terminator(tolan)
    BY <2>1, TerminatorZero
  <2>4. written' = written \o t
    BY <1>1, <2>1, <2>3
  <2>5. /\ written \o t \in Seq(Byte) /\ Len(written) \in Nat /\ Len(t) \in Nat
        /\ Len(written \o t) = Len(written) + Len(t)
    BY <2>1, Appends
  <2>6. Len(text) \in Nat /\ m \in Nat /\ 2 * m <= Len(written \o t)
    <3>1. Len(text) \in Nat
      BY <1>1, MemoryHas
    <3> QED
      BY <2>2, <2>5, <3>1
  <2>7. \A n \in 1 .. m : /\ text[n] \in Word16
                          /\ UnitAt(written', 2 * n - 1, tolan) = text[n] <=> Kept(text[n])
    <3>1. \A n \in 1 .. m :
            UnitAt(written \o t, 2 * n - 1, tolan) = UnitAt(written, 2 * n - 1, tolan)
      BY <2>1, <2>2, <2>6, UnitsStay
    <3> QED
      BY <2>2, <2>4, <3>1
  <2>8. (m < Len(text) /\ text[m + 1] \notin Word16) \/ m = Len(text)
    <3> SUFFICES ASSUME m < Len(text), text[m + 1] \in Word16 PROVE FALSE
      BY <2>6
    <3> DEFINE c == text[m + 1]
    <3>1. place = Len(BytesUpTo(text, from)[m]) + 1
      BY <2>2
    <3>2. m + 1 \in 1 .. Len(text) /\ (m + 1) - 1 = m
      BY <2>6
    <3>3. c \in Characters
      BY <2>1, <3>2, NodesOf
    <3>4. Utf8(c)[1] # 0 /\ 1 \in 1 .. Len(Utf8(c))
      BY <3>3, Utf8Coded
    <3>5. Code(c, from) = Utf8(c)
      BY DEF Code
    <3>6. memory[Len(BytesUpTo(text, from)[m]) + 1] = Utf8(c)[1]
      <4>1. \A n \in 1 .. Len(text) : \A k \in 1 .. Len(Code(text[n], from)) :
              memory[Len(BytesUpTo(text, from)[n - 1]) + k] = Code(text[n], from)[k]
        BY <1>1, MemoryHas
      <4> QED
        BY <3>2, <3>4, <3>5, <4>1
    <3> QED
      BY <1>1, <3>1, <3>4, <3>6
  <2> QED
    BY <1>1, <2>4, <2>5, <2>6, <2>7, <2>8 DEF FromUtf8Inv
<1>4. FromUtf16Inv'
  <2> SUFFICES ASSUME from # "utf8", tolan = "utf8", \A n \in 1 .. Len(text) : text[n] \in Word16
               PROVE  FromUtf16Inv'
    BY <1>1 DEF FromUtf16Inv
  <2>1. PICK m \in 0 .. Len(text) : place = 2 * m + 1 /\ written = BytesUpTo(text, "utf8")[m]
    BY <1>1 DEF FromUtf16Inv
  <2>2. Len(text) \in Nat /\ \A c \in Characters : c # 0
    BY <1>1, MemoryHas, Ranges
  <2>3. m < Len(text) => text[m + 1] \in Characters
    <3>1. \A n \in 1 .. Len(text) : text[n] \in Characters
      BY <1>1, NodesOf DEF TextTypes
    <3>2. m < Len(text) => m + 1 \in 1 .. Len(text)
      BY <2>2
    <3> QED
      BY <3>1, <3>2
  <2>4. m = Len(text)
    <3>1. m < Len(text) => UnitAt(memory, place, from) = text[m + 1]
      BY <1>1, <2>1, UnitHere
    <3> QED
      BY <1>1, <2>2, <2>3, <3>1
  <2> QED
    BY <1>1, <2>1, <2>4 DEF FromUtf16Inv
<1> QED
  BY <1>2, <1>3, <1>4 DEF TextInv

LEMMA StepText == TextInv /\ [TextNext]_textVars => TextInv'
<1> SUFFICES ASSUME TextInv, [TextNext]_textVars PROVE TextInv'
  OBVIOUS
<1>1. CASE SwapOrder
  BY <1>1 DEF SwapOrder, TextInv, TextTypes, FromUtf8Inv, FromUtf16Inv
<1>2. CASE UNCHANGED textVars
  BY <1>2 DEF textVars, TextInv, TextTypes, FromUtf8Inv, FromUtf16Inv
<1> QED
  BY <1>1, <1>2, FromUtf8Keeps, FromUtf16Keeps, EndKeeps DEF TextNext

LEMMA PrefixUpTo ==
  ASSUME NEW chars \in Seq(Characters), NEW lan \in Lans, NEW m \in 0 .. Len(chars)
  PROVE  IsPrefix(BytesUpTo(chars, lan)[m], BytesOf(chars, lan))
<1>1. PICK s, t \in Seq(Byte) : s = BytesUpTo(chars, lan)[m] /\ t = BytesOf(chars, lan)
  BY UpToTyped, BytesOfParts
<1>2. Len(s) \in Nat /\ Len(t) \in Nat
  BY LenProperties
<1>3. Len(s) <= Len(t) /\ \A k \in 1 .. Len(s) : t[k] = s[k]
  <2>1. Len(chars) \in m .. Len(chars)
    BY LenProperties
  <2> QED
    BY <1>1, <2>1, UpToStays DEF BytesOf
<1>4. SubSeq(s, 1, Len(s)) = SubSeq(t, 1, Len(s))
  BY <1>2, <1>3
<1>5. IsPrefix(s, t)
  BY <1>3, <1>4 DEF IsPrefix
<1> QED
  BY <1>1, <1>5

(* What the invariant says of the result. *)
LEMMA TextInvKeeps == TextInv => ConversionsKeepText
<1> SUFFICES ASSUME TextInv PROVE ConversionsKeepText
  OBVIOUS
<1>1. TextTypes /\ FromUtf8Inv /\ FromUtf16Inv
  BY DEF TextInv
<1>2. /\ Len(text) \in Nat /\ memory \in Seq(Byte) /\ text \in Seq(Characters)
      /\ DOMAIN text = 1 .. Len(text)
      /\ \A n \in 1 .. Len(text) : text[n] \in Nat /\ (text[n] \in Word16 <=> text[n] < 65536)
  <2>1. text \in Seq(Characters) /\ memory \in Seq(Byte)
    BY <1>1, MemoryHas DEF TextTypes
  <2>2. \A n \in 1 .. Len(text) : text[n] \in Characters
    BY <2>1, NodesOf
  <2>3. \A c \in Characters : c \in Nat /\ (c \in Word16 <=> c < 65536)
    BY DEF Characters, Word16
  <2> QED
    BY <2>1, <2>2, <2>3, NodesOf
<1>3. ASSUME from = "utf8", NEW n \in 1 .. Len(written) \div 2, n <= Len(text),
             \A i \in 1 .. n : text[i] < 65536
      PROVE  UnitAt(written, 2 * n - 1, tolan) = text[n] <=> Kept(text[n])
  <2>1. PICK m \in 0 .. Len(text) :
           /\ \A i \in 1 .. m : UnitAt(written, 2 * i - 1, tolan) = text[i] <=> Kept(text[i])
           /\ \/ m < Len(text) /\ text[m + 1] \notin Word16
              \/ Len(written) = 2 * m
              \/ m = Len(text)
    BY <1>1, <1>3 DEF FromUtf8Inv
  <2>2. Len(written) \in Nat /\ m \in Nat /\ n \in Nat
    <3>1. written \in Seq(Byte)
      BY <1>1, <1>3 DEF FromUtf8Inv
    <3>2. Len(written) \in Nat
      BY <3>1, LenProperties
    <3> QED
      BY <1>2, <3>2
  <2>3. n <= m
    <3>1. CASE m < Len(text) /\ text[m + 1] \notin Word16
      <4>1. m + 1 \in 1 .. Len(text)
        BY <1>2, <2>2, <3>1
      <4>2. m + 1 \notin 1 .. n
        BY <1>2, <1>3, <3>1, <4>1
      <4> QED
        BY <2>2, <4>2
    <3>2. CASE Len(written) = 2 * m
      BY <2>2, <3>2
    <3>3. CASE m = Len(text)
      BY <1>3, <3>3
    <3> QED
      BY <2>1, <3>1, <3>2, <3>3
  <2>4. n \in 1 .. m
    BY <2>2, <2>3
  <2> QED
    BY <2>1, <2>4
<1>4. ASSUME state = "overrun"
      PROVE  \E n \in DOMAIN text : text[n] >= 65536
  <2>1. from = "utf8"
    BY <1>1, <1>4 DEF TextTypes
  <2>2. PICK m \in 0 .. Len(text) : m < Len(text) /\ text[m + 1] \notin Word16
    BY <1>1, <1>4, <2>1 DEF FromUtf8Inv
  <2>3. m + 1 \in 1 .. Len(text)
    BY <1>2, <2>2
  <2>4. text[m + 1] \in Nat /\ ~(text[m + 1] < 65536)
    BY <1>2, <2>2, <2>3
  <2>5. text[m + 1] >= 65536
    BY <2>4
  <2> QED
    BY <1>2, <2>3, <2>5
<1>5. ASSUME from # "utf8", tolan = "utf8", \A n \in DOMAIN text : text[n] < 65536
      PROVE  /\ IsPrefix(written, BytesOf(text, "utf8"))
             /\ state = "done" => written = BytesOf(text, "utf8")
  <2>1. \A n \in 1 .. Len(text) : text[n] \in Word16
    BY <1>2, <1>5
  <2>2. PICK m \in 0 .. Len(text) : /\ written = BytesUpTo(text, "utf8")[m]
                                    /\ state = "done" => m = Len(text)
    BY <1>1, <1>5, <2>1 DEF FromUtf16Inv
  <2>3. "utf8" \in Lans
    BY DEF Lans
  <2>4. IsPrefix(written, BytesOf(text, "utf8"))
    <3>1. IsPrefix(BytesUpTo(text, "utf8")[m], BytesOf(text, "utf8"))
      BY <1>2, <2>3, PrefixUpTo
    <3> QED
      BY <2>2, <3>1
  <2>5. state = "done" => written = BytesOf(text, "utf8")
    BY <2>2 DEF BytesOf
  <2> QED
    BY <2>4, <2>5
<1>6. \A prefix \in BOOLEAN :
        StringToHex(HexToString(memory, prefix), Len(memory), prefix) = memory
  BY <1>2, HexKeepsBytes
<1> QED
  BY <1>3, <1>4, <1>5, <1>6 DEF ConversionsKeepText, Kept

(* The conversions keep a text except where the shift in the copy from     *)
(* UTF-8 binds first, or where a character needs more than sixteen bits.   *)
THEOREM TextIsKept == TextSpec => []ConversionsKeepText
BY InitText, StepText, TextInvKeeps, PTL DEF TextSpec
=============================================================================
