------------------------------- MODULE Codecs -------------------------------
(***************************************************************************)
(* The text encodings: base64 for signatures and tokens                    *)
(* (OzCommon/base64.cpp) and the encoding of URLs (OzCommon/urlcode.cpp).  *)
(*                                                                         *)
(* A string is the sequence of its bytes, without the terminating zero;    *)
(* a base64 character is its index in the alphabet, 0..63, or Pad.         *)
(***************************************************************************)
EXTENDS Integers, SequencesExt

Pad == 64

(* A byte of a string; behind its end is the terminating zero. *)
At(s, i) == IF i \in DOMAIN s THEN s[i] ELSE 0

-----------------------------------------------------------------------------
(* base64encode.                                                           *)

(* How many characters the group that starts at byte x gives. *)
Characters(data, x) ==
  CASE x + 2 <= Len(data) -> 4
    [] x + 1 = Len(data) -> 3
    [] x = Len(data) -> 2

(* The 24-bit number of a group, cut into four. *)
Group(data, x) ==
  LET n == At(data, x) * 65536 + At(data, x + 1) * 256 + At(data, x + 2)
  IN SubSeq(<<n \div 262144, (n \div 4096) % 64, (n \div 64) % 64, n % 64>>,
            1, Characters(data, x))

Padding(n) == [i \in 1..((3 - (n % 3)) % 3) |-> Pad]

Base64(data) ==
  FlattenSeq([g \in 1..((Len(data) + 2) \div 3) |-> Group(data, 3 * g - 2)])
    \o Padding(Len(data))

(* Mutation: the fourth character of a group is not tested. *)
FourthUntested(length, n) == n \in 0..length /\ n % 4 # 3

(* Is resultIndex tested before something is written to result[n]?  It is  *)
(* before each character of a group, of the padding and the final zero.    *)
Tested(length, n) == n \in 0..length

(* Where base64encode writes, until a test fails. *)
Written(data, resultSize) ==
  LET length == Len(Base64(data))
  IN {n \in 0..length : \A m \in 0..n : Tested(length, m) => m < resultSize}

(* The result of base64encode: 0 when a test fails. *)
base64encode(data, resultSize) ==
  LET length == Len(Base64(data))
  IN IF \E n \in 0..length : Tested(length, n) /\ n >= resultSize THEN 0 ELSE length

-----------------------------------------------------------------------------
(* create_basic_authrization: base64 again, one byte at a time, and apart  *)
(* from the loop for the last group when it is not full.                   *)

(* What byte n (from 0) adds in the loop. *)
Step(input, n) ==
  LET c == At(input, n + 1)  b == At(input, n)
  IN CASE n % 3 = 0 -> <<c \div 4>>
       [] n % 3 = 1 -> <<(b % 4) * 16 + c \div 16>>
       [] n % 3 = 2 -> <<(b % 16) * 4 + c \div 64, c % 64>>

(* Mutation: the loop takes every byte. *)
StopLate(len) == len

(* Where the loop stops: before the last group, if that is not full and    *)
(* not the first.                                                          *)
Stop(len) == IF len % 3 # 0 /\ len > 3 THEN len - (len % 3) ELSE len

(* What follows the loop, for the bytes from n on. *)
LastGroup(input, n) ==
  LET c == At(input, n + 1)  d == At(input, n + 2)
  IN CASE Len(input) % 3 = 0 -> <<>>
       [] Len(input) % 3 = 1 -> <<c \div 4, (c % 4) * 16>>
       [] Len(input) % 3 = 2 -> <<c \div 4, (c % 4) * 16 + d \div 16, (d % 16) * 4>>

create_basic_authrization(input) ==
  LET len == Len(input)
      x == FlattenSeq([n \in 1..Stop(len) |-> Step(input, n - 1)]) \o LastGroup(input, Stop(len))
      padding == Padding(len)
      kept == (len \div 3) * 4 + (IF padding = <<>> THEN 0 ELSE 4 - Len(padding))
  IN SubSeq(x, 1, kept) \o padding

-----------------------------------------------------------------------------
(* UrlEncode, UrlDecode.                                                   *)

Digits == 48..57
Upper == 65..90
Lower == 97..122
Unreserved == Digits \cup Upper \cup Lower \cup {45, 46, 95, 126}
Space == 32
Plus == 43
Percent == 37

ToHex(d) == IF d < 10 THEN 48 + d ELSE 55 + d

(* tolower is the identity on what is not an upper-case letter. *)
FromHex(ch) ==
  CASE ch \in Digits -> ch - 48
    [] ch \in Upper -> ch - 55
    [] OTHER -> ch - 87

(* Mutation: a plus sign is taken for one that stands for itself. *)
PlusKept(c) ==
  CASE c \in Unreserved \cup {Plus} -> <<c>>
    [] c = Space -> <<Plus>>
    [] OTHER -> <<Percent, ToHex(c \div 16), ToHex(c % 16)>>

UrlEncodeByte(c) ==
  CASE c \in Unreserved -> <<c>>
    [] c = Space -> <<Plus>>
    [] OTHER -> <<Percent, ToHex(c \div 16), ToHex(c % 16)>>

UrlEncode(str) == FlattenSeq([i \in DOMAIN str |-> UrlEncodeByte(str[i])])

(* Is str[i] one of the two digits of an escape?  A percent sign begins    *)
(* one unless it is inside one or fewer than two bytes follow it.          *)
InEscape(str) ==
  LET inside[i \in DOMAIN str] ==
        \E k \in {i - 1, i - 2} : k >= 1 /\ str[k] = Percent /\ k + 2 <= Len(str) /\ ~inside[k]
  IN inside

(* The bitwise or of two numbers of four bits. *)
OrNibble(a, b) ==
  LET bit(k) == IF (a \div k) % 2 = 1 \/ (b \div k) % 2 = 1 THEN k ELSE 0
  IN bit(8) + bit(4) + bit(2) + bit(1)

(* high << 4 | low, as a byte, for any two numbers. *)
Combined(high, low) == OrNibble(high % 16, (low \div 16) % 16) * 16 + (low % 16)

(* The byte of the escape that begins at i, whose two characters need not  *)
(* be hexadecimal digits.                                                  *)
EscapeByte(str, i) == Combined(FromHex(str[i + 1]), FromHex(str[i + 2]))

(* Mutation: a percent sign near the end is kept. *)
PercentKept(str, i) ==
  IF InEscape(str)[i] THEN <<>>
  ELSE CASE str[i] = Percent /\ i + 2 <= Len(str) -> <<EscapeByte(str, i)>>
         [] str[i] = Plus -> <<Space>>
         [] OTHER -> <<str[i]>>

(* A percent sign that fewer than two bytes follow is left out. *)
UrlDecodeByte(str, i) ==
  IF InEscape(str)[i] THEN <<>>
  ELSE CASE str[i] = Percent /\ i + 2 <= Len(str) -> <<EscapeByte(str, i)>>
         [] str[i] = Percent /\ i + 2 > Len(str) -> <<>>
         [] str[i] = Plus -> <<Space>>
         [] OTHER -> <<str[i]>>

UrlDecode(str) == FlattenSeq([i \in DOMAIN str |-> UrlDecodeByte(str, i)])
=============================================================================
