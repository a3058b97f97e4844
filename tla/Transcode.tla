------------------------------ MODULE Transcode ------------------------------
(***************************************************************************)
(* The conversions of src/language.c: between UTF-8 and UTF-16 of either   *)
(* byte order, a character at a time, and between bytes and hexadecimal    *)
(* digits.  Texts are built from Unicode numbers the way the standard says *)
(* (Code); the conversions work on their bytes in memory.  Masks and       *)
(* shifts are written as % and \div.                                       *)
(***************************************************************************)
EXTENDS Integers, SequencesExt

CONSTANTS
  CodePoints,      \* the characters of texts
  MaxText          \* bound: their number

ASSUME CodePointsAssumption ==
  /\ \A c \in CodePoints : c \in Nat /\ 0 < c /\ c < 1114112
  /\ MaxText \in Nat

VARIABLES
  from,       \* the language of the source: "utf8", "utf16le" or "utf16be"
  tolan,      \* ... and of the result
  text,       \* the characters
  memory,     \* their bytes and the terminator
  place,      \* where the next character is read
  written,    \* the bytes written
  state       \* "copies", "done", "overrun" or "dangling"

textVars == <<from, tolan, text, memory, place, written, state>>

(* The standard: characters of one to four bytes, units of two. *)
Trail(bits) == 128 + (bits % 64)
Utf8(c) ==
  IF c < 128 THEN <<c>>
  ELSE IF c < 2048 THEN <<192 + (c \div 64), Trail(c)>>
  ELSE IF c < 65536 THEN <<224 + (c \div 4096), Trail(c \div 64), Trail(c)>>
  ELSE <<240 + (c \div 262144), Trail(c \div 4096), Trail(c \div 64), Trail(c)>>

(* A unit in memory, and from it. *)
Bytes(unit, lan) == IF lan = "utf16be" THEN <<unit \div 256, unit % 256>>
                    ELSE <<unit % 256, unit \div 256>>
UnitAt(bytes, n, lan) == IF lan = "utf16be" THEN bytes[n] * 256 + bytes[n + 1]
                         ELSE bytes[n] + bytes[n + 1] * 256

(* The bytes of a character, and of the first n characters.                *)
Code(c, lan) ==
  CASE lan = "utf8" -> Utf8(c)
    [] lan # "utf8" /\ c < 65536 -> Bytes(c, lan)
    [] OTHER -> Bytes(55296 + ((c - 65536) \div 1024), lan)
                \o Bytes(56320 + ((c - 65536) % 1024), lan)
BytesUpTo(chars, lan) ==
  LET upto[n \in 0 .. Len(chars)] ==
        IF n = 0 THEN << >> ELSE upto[n - 1] \o Code(chars[n], lan)
  IN upto
BytesOf(chars, lan) == BytesUpTo(chars, lan)[Len(chars)]
Terminator(lan) == IF lan = "utf8" THEN <<0>> ELSE <<0, 0>>

TextInit ==
  /\ from \in {"utf8", "utf16le", "utf16be"} /\ tolan \in {"utf8", "utf16le", "utf16be"} \ {from}
  /\ text \in UNION {[1 .. n -> CodePoints] : n \in 1 .. MaxText}
  /\ memory = BytesOf(text, from) \o Terminator(from)
  /\ place = 1 /\ written = << >> /\ state = "copies"

(* A character of UTF-8 in memory: every lead byte above 0xdf has two more. *)
WrongTaken(lead) == IF lead <= 127 THEN 1 ELSE IF lead < 223 THEN 2 ELSE 3

Taken(lead) == IF lead <= 127 THEN 1 ELSE IF lead <= 223 THEN 2 ELSE 3

(* Its unit: of the middle byte of three, sbyte & 0x3c >> 2 is the lowest  *)
(* four bits, where (sbyte & 0x3c) >> 2 would be those above the lowest    *)
(* two.                                                                    *)
Unit(bytes) ==
  CASE Len(bytes) = 1 -> bytes[1]
    [] Len(bytes) = 2 -> ((bytes[1] \div 4) % 8) * 256 + (bytes[1] % 4) * 64 + (bytes[2] % 64)
    [] Len(bytes) = 3 -> ((bytes[1] % 16) * 16 + (bytes[2] % 16)) * 256
                         + (bytes[2] % 4) * 64 + (bytes[3] % 64)

(* One turn of _lan_utf8_to_utf16le_copy or _lan_utf8_to_utf16be_copy; a   *)
(* character may be cut short by the end of the text.                      *)
FromUtf8 ==
  /\ state = "copies" /\ from = "utf8" /\ memory[place] # 0
  /\ LET last == place + Taken(memory[place]) - 1 IN
     IF last < Len(memory)
     THEN /\ written' = written \o Bytes(Unit(SubSeq(memory, place, last)), tolan)
          /\ place' = last + 1 /\ UNCHANGED state
     ELSE state' = "overrun" /\ UNCHANGED <<written, place>>
  /\ UNCHANGED <<from, tolan, text, memory>>

(* One turn of _lan_utf16le_to_utf8_copy or _lan_utf16be_to_utf8_copy: a   *)
(* surrogate is a character of three bytes.                                *)
FromUtf16 ==
  /\ state = "copies" /\ from # "utf8" /\ tolan = "utf8"
  /\ UnitAt(memory, place, from) # 0
  /\ written' = written \o Utf8(UnitAt(memory, place, from)) /\ place' = place + 2
  /\ UNCHANGED <<from, tolan, text, memory, state>>

(* The end of the text; the result has a terminator if it is UTF-16. *)
EndOfText ==
  /\ state = "copies" /\ (from = "utf8" \/ tolan = "utf8")
  /\ IF from = "utf8" THEN memory[place] = 0 ELSE UnitAt(memory, place, from) = 0
  /\ written' = IF tolan = "utf8" THEN written ELSE written \o Terminator(tolan)
  /\ state' = "done" /\ UNCHANGED <<from, tolan, text, memory, place>>

(* Between the byte orders: the copy refuses every buffer that is there,   *)
(* and the caller returns the buffer that it has freed.                    *)
SwapOrder ==
  /\ state = "copies" /\ from # "utf8" /\ tolan # "utf8"
  /\ state' = "dangling" /\ UNCHANGED <<from, tolan, text, memory, place, written>>

TextNext == FromUtf8 \/ FromUtf16 \/ EndOfText \/ SwapOrder

TextSpec == TextInit /\ [][TextNext]_textVars

(* _lan_convert_hex_to_string_copy to UTF-8: the last byte comes first. *)
Digit(nibble) == IF nibble > 9 THEN 87 + nibble ELSE 48 + nibble
Prefix(prefix) == IF prefix THEN <<48, 120>> ELSE << >>
HexToString(bytes, prefix) ==
  Prefix(prefix) \o [n \in 1 .. 2 * Len(bytes) |->
    LET byte == bytes[Len(bytes) - (n - 1) \div 2]
    IN Digit(IF n % 2 = 1 THEN byte \div 16 ELSE byte % 16)]

(* _lan_convert_string_to_hex of UTF-8 *)
Nibble(char) == IF char > 64 THEN (char % 16) + 9 ELSE char % 16
StringToHex(string, to_len, prefix) ==
  LET start == Len(Prefix(prefix)) IN
  [n \in 1 .. to_len |->
     Nibble(string[start + 2 * (to_len - n) + 1]) * 16 + Nibble(string[start + 2 * (to_len - n) + 2])]
-----------------------------------------------------------------------------
(* Properties *)

(* From UTF-8, characters below U+0800 come out right in either order, and *)
(* those up to U+FFFF only if the masking of their middle six bits changes *)
(* nothing; no loop runs past the end of a text without longer characters. *)
(* From UTF-16, everything but surrogates comes out right, and the bytes   *)
(* that require_length has counted leave no room for a terminator.  Bytes  *)
(* survive the way to digits and back.                                     *)
ConversionsKeepText ==
  /\ from = "utf8" =>
       \A n \in 1 .. Len(written) \div 2 :
         n <= Len(text) /\ (\A m \in 1 .. n : text[m] < 65536) =>
           (UnitAt(written, 2 * n - 1, tolan) = text[n]
              <=> text[n] < 2048 \/ (text[n] \div 64) % 64 \in {0, 21, 42, 63})
  /\ state = "overrun" => \E n \in DOMAIN text : text[n] >= 65536
  /\ from # "utf8" /\ tolan = "utf8" /\ (\A n \in DOMAIN text : text[n] < 65536) =>
       /\ IsPrefix(written, BytesOf(text, "utf8"))
       /\ state = "done" => written = BytesOf(text, "utf8")
  /\ \A prefix \in BOOLEAN :
       StringToHex(HexToString(memory, prefix), Len(memory), prefix) = memory
=============================================================================
