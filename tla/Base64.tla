------------------------------- MODULE Base64 -------------------------------
(***************************************************************************)
(* base64tools.hpp: what websocketclient does to every message it sends    *)
(* (encode) and receives (decode).                                         *)
(*                                                                         *)
(* A text is a sequence of bytes, a code a sequence of the values 0 .. 63  *)
(* that base64_alphabet and base64_suffix_map write as letters, of Pad (=) *)
(* and of Other, any character the map does not know.                      *)
(*                                                                         *)
(* Left out: characters of a code above 127, which index the map before    *)
(* its beginning.                                                          *)
(***************************************************************************)
EXTENDS Naturals, Sequences

CONSTANTS
  Values, \* the bytes of the texts
  MaxText \* bound: the longest text

ASSUME Base64Assumption == Values \subseteq 1 .. 255 /\ MaxText \in Nat

VARIABLE text  \* a message

Pad == 64
Other == 65

-----------------------------------------------------------------------------
\* Mutant of cmove_bits: as int, without the width of unsigned char.
cmove_bitsInt(src, lnum, rnum) == (src * 2 ^ lnum) \div 2 ^ rnum

cmove_bits(src, lnum, rnum) == ((src * 2 ^ lnum) % 256) \div 2 ^ rnum

\* The byte at i; after the last one C has a zero.
At(data, i) == IF i <= Len(data) THEN data[i] ELSE 0

Padnum(data) == IF Len(data) % 3 # 0 THEN 3 - (Len(data) % 3) ELSE 0

\* Mutant of Sextet: a group of two bytes is padded like one of one byte.
SextetTwoPads(data, m, k) ==
  CASE k = 0 -> cmove_bits(At(data, m + 1), 0, 2)
    [] k = 1 -> cmove_bits(At(data, m + 1), 6, 2) + cmove_bits(At(data, m + 2), 0, 4)
    [] k = 2 -> IF m + 3 > Len(data) THEN Pad
                ELSE cmove_bits(At(data, m + 2), 4, 2) + cmove_bits(At(data, m + 3), 0, 6)
    [] k = 3 -> IF m + 3 > Len(data) THEN Pad ELSE At(data, m + 3) % 64

\* Character k of the group of bytes after m.
Sextet(data, m, k) ==
  CASE k = 0 -> cmove_bits(At(data, m + 1), 0, 2)
    [] k = 1 -> cmove_bits(At(data, m + 1), 6, 2) + cmove_bits(At(data, m + 2), 0, 4)
    [] k = 2 -> IF m + 2 > Len(data) THEN Pad
                ELSE cmove_bits(At(data, m + 2), 4, 2) + cmove_bits(At(data, m + 3), 0, 6)
    [] k = 3 -> IF m + 3 > Len(data) THEN Pad ELSE At(data, m + 3) % 64

\* Of a text that is not empty: of the empty one encode makes a std::string of
\* NULL, which throws.
encode(data) ==
  [j \in 1 .. 4 * ((Len(data) + Padnum(data)) \div 3) |->
     Sextet(data, 3 * ((j - 1) \div 4), (j - 1) % 4)]

Suffix(c) == IF c < Pad THEN c ELSE 255

\* Byte k of the group of characters after m.
Octet(code, m, k) ==
  LET s(i) == Suffix(code[m + i])
  IN  CASE k = 0 -> (cmove_bits(s(1), 2, 0) + cmove_bits(s(2), 0, 4)) % 256
        [] k = 1 -> (cmove_bits(s(2), 4, 0) + cmove_bits(s(3), 0, 2)) % 256
        [] k = 2 -> (cmove_bits(s(3), 6, 0) + s(4)) % 256

PadsOf(code) ==
  IF code[Len(code)] # Pad THEN 0
  ELSE IF code[Len(code) - 1] = Pad THEN 2 ELSE 1

\* What decode writes, and the text that std::string makes of it: up to the
\* first zero.
Octets(code) ==
  [i \in 1 .. 3 * (Len(code) \div 4) - PadsOf(code) |->
     Octet(code, 4 * ((i - 1) \div 3), (i - 1) % 3)]

Terminated(s) ==
  IF \E i \in DOMAIN s : s[i] = 0
    THEN SubSeq(s, 1, (CHOOSE i \in DOMAIN s : s[i] = 0 /\ \A j \in 1 .. i - 1 : s[j] # 0) - 1)
    ELSE s

Valid(code) ==
  /\ code # <<>> /\ Len(code) % 4 = 0
  /\ \A i \in DOMAIN code : code[i] # Other

\* Of what is not a code decode throws, too.
Throws == <<"throws">>
decode(code) == IF Valid(code) THEN Terminated(Octets(code)) ELSE Throws

-----------------------------------------------------------------------------
NoText == text = <<>>

\* Every text of the bound is made, a byte at a time.
Grow == Len(text) < MaxText /\ \E b \in Values : text' = Append(text, b)

Texts == NoText /\ [][Grow]_text

-----------------------------------------------------------------------------
TextOK == text \in Seq(1 .. 255)

\* What one side encodes the other decodes to the same text, whatever its
\* length and bytes (base64_encode, base64_decode).
RoundTrip == text # <<>> => decode(encode(text)) = text

(* The definition of RFC 4648: the bits of the text, six at a time, zeros   *)
(* after the last, and pads up to a multiple of four characters.            *)
Bit(n) == (At(text, n \div 8 + 1) \div 2 ^ (7 - (n % 8))) % 2
Standard ==
  LET used == (8 * Len(text) + 5) \div 6
  IN  [j \in 1 .. 4 * ((used + 3) \div 4) |->
         IF j > used THEN Pad
         ELSE 32 * Bit(6 * j - 6) + 16 * Bit(6 * j - 5) + 8 * Bit(6 * j - 4)
              + 4 * Bit(6 * j - 3) + 2 * Bit(6 * j - 2) + Bit(6 * j - 1)]

\* The code is the one that every other implementation reads (encode).
EncodesStandard == text # <<>> => encode(text) = Standard
=============================================================================
