----------------------------- MODULE CodecText ------------------------------
(***************************************************************************)
(* What the encodings (Codecs) promise, for every string an application    *)
(* may give them: the string grows byte by byte, and every state is one    *)
(* more input of the functions.                                            *)
(***************************************************************************)
EXTENDS Codecs

CONSTANTS
  Bytes,    \* the bytes of a string
  MaxBytes  \* bound on their number

ASSUME BytesType == Bytes \subseteq 0..255
ASSUME MaxBytesType == MaxBytes \in Nat

VARIABLES
  bytes  \* the string

InitBytes == bytes = <<>>

AddByte ==
  /\ Len(bytes) < MaxBytes
  /\ \E b \in Bytes : bytes' = Append(bytes, b)

Strings == InitBytes /\ [][AddByte]_bytes

-----------------------------------------------------------------------------
(* Properties.                                                             *)

(* A byte of zero ends a string of C. *)
IsString(s) == 0 \notin ToSet(s)

(* Bit i of a byte, from the lowest, 1, to the highest, 8. *)
BitOf(n, i) == (n \div <<1, 2, 4, 8, 16, 32, 64, 128>>[i]) % 2

(* Bit k of a sequence of numbers of so many bits each, from the highest   *)
(* of the first to the lowest of the last.                                 *)
Bit(s, width, k) == BitOf(s[((k - 1) \div width) + 1], width - ((k - 1) % width))

(* base64encode gives the bits of the data, six in a character, filled up  *)
(* with zeros and padded to groups of four.  In a buffer of any size it    *)
(* writes no place behind the end, and succeeds only when the terminating  *)
(* zero fits too.                                                          *)
Base64Correct ==
  LET code == Base64(bytes)
      size == 8 * Len(bytes)
      chars == SubSeq(code, 1, (size + 5) \div 6)
  IN /\ Len(code) = 4 * ((Len(bytes) + 2) \div 3)
     /\ ToSet(chars) \subseteq 0..63
     /\ \A i \in (Len(chars) + 1) .. Len(code) : code[i] = Pad
     /\ \A k \in 1 .. 6 * Len(chars) :
          Bit(chars, 6, k) = IF k <= size THEN Bit(bytes, 8, k) ELSE 0
     /\ \A room \in 0 .. Len(code) + 1 :
          /\ base64encode(bytes, room) = IF room = Len(code) + 1 THEN Len(code) ELSE 0
          /\ Written(bytes, room) = {n \in 0 .. Len(code) : n < room}

(* The two base64 encoders agree, for ASCII strings of three bytes and     *)
(* more.  (For shorter ones create_basic_authrization is wrong.)           *)
SameEncoding ==
  IsString(bytes) /\ (\A i \in DOMAIN bytes : bytes[i] < 128) /\ Len(bytes) > 2 =>
    create_basic_authrization(bytes) = Base64(bytes)

(* UrlDecode gives back what UrlEncode was given, whatever bytes it has;   *)
(* the encoded form has no other characters than those of a URL, and       *)
(* neither function writes past the buffer that it allocates.              *)
UrlRoundTrip ==
  IsString(bytes) =>
    /\ UrlDecode(UrlEncode(bytes)) = bytes
    /\ ToSet(UrlEncode(bytes)) \subseteq Unreserved \cup {Plus, Percent}
    /\ Len(UrlEncode(bytes)) <= 3 * Len(bytes) /\ Len(UrlDecode(bytes)) <= Len(bytes)

(* An encoded string that was cut off decodes to the beginning of the      *)
(* original, with the first digit of an escape behind it at most.          *)
CutEscape ==
  LET code == UrlEncode(bytes) IN
  IsString(bytes) =>
    \A n \in DOMAIN code :
      LET cut == UrlDecode(SubSeq(code, 1, n)) IN
      \/ IsPrefix(cut, bytes)
      \/ /\ n > 1 /\ cut # <<>>
         /\ code[n - 1] = Percent /\ Last(cut) = code[n] /\ IsPrefix(Front(cut), bytes)
=============================================================================
