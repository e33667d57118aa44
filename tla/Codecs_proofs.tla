---------------------------- MODULE Codecs_proofs ---------------------------
(***************************************************************************)
(* The encodings keep the promises of CodecText, for strings of every      *)
(* length and of all bytes.  Induction is over sets of natural numbers:    *)
(* the lemma Induction follows from the least-number principle.            *)
(***************************************************************************)
EXTENDS CodecText, SequenceTheorems, WellFoundedInduction, TLAPS

-----------------------------------------------------------------------------
(* Induction over the natural numbers, from the least-number principle.    *)

LEMMA LeastNumber ==
  ASSUME NEW T \in SUBSET Nat, T # {}
  PROVE  \E m \in T : \A k \in T : m <= k
  <1> DEFINE R == OpToRel(<, Nat)
  <1>1. \A x, y \in Nat : y < x => <<y, x>> \in R
    BY DEF OpToRel
  <1>2. PICK x \in T : \A y \in T : <<y, x>> \notin R
    <2>1. IsWellFoundedOn(R, Nat)
      BY NatLessThanWellFounded
    <2> HIDE DEF R
    <2> QED BY <2>1, WFMin
  <1> HIDE DEF R
  <1>3. ASSUME NEW k \in T PROVE x <= k
    <2>1. x \in Nat /\ k \in Nat /\ ~(k < x)
      BY <1>1, <1>2
    <2> QED BY <2>1
  <1> QED BY <1>3

LEMMA Induction ==
  ASSUME NEW T, 0 \in T, \A n \in Nat : n \in T => n + 1 \in T
  PROVE  \A n \in Nat : n \in T
  <1> DEFINE S == Nat \ T
  <1> SUFFICES ASSUME S # {} PROVE FALSE
    OBVIOUS
  <1>1. PICK m \in S : \A k \in S : m <= k
    BY LeastNumber
  <1>2. m # 0 /\ m - 1 \in Nat /\ m - 1 \notin S
    BY <1>1
  <1> QED BY <1>2

-----------------------------------------------------------------------------
(* FlattenSeq.                                                             *)

(* The concatenations of the first sequences in s, one after the other. *)
Flat(A, s, n) ==
  {g \in [1..n -> Seq(A)] : \A i \in 1..n : g[i] = IF i = 1 THEN s[i] ELSE g[i - 1] \o s[i]}

LEMMA FlatStep ==
  ASSUME NEW A, NEW s \in Seq(Seq(A)), NEW n \in Nat \ {0}, n + 1 <= Len(s),
         NEW g \in Flat(A, s, n)
  PROVE  [i \in 1..(n + 1) |-> IF i <= n THEN g[i] ELSE g[n] \o s[n + 1]] \in Flat(A, s, n + 1)
  <1> DEFINE h == [i \in 1..(n + 1) |-> IF i <= n THEN g[i] ELSE g[n] \o s[n + 1]]
  <1>1. g[n] \in Seq(A) /\ s[n + 1] \in Seq(A)
    BY DEF Flat
  <1>2. g[n] \o s[n + 1] \in Seq(A)
    BY <1>1, ConcatProperties
  <1>3. h \in [1..(n + 1) -> Seq(A)]
    BY <1>2 DEF Flat
  <1>4. ASSUME NEW i \in 1..(n + 1)
        PROVE  h[i] = IF i = 1 THEN s[i] ELSE h[i - 1] \o s[i]
    <2>0. \A j \in 1..n : g[j] = IF j = 1 THEN s[j] ELSE g[j - 1] \o s[j]
      BY DEF Flat
    <2>1. CASE i = 1
      <3>1. 1 \in 1..n /\ 1 <= n
        OBVIOUS
      <3> QED BY <2>0, <2>1, <3>1
    <2>2. CASE i > 1 /\ i <= n
      <3> DEFINE j == i - 1
      <3>1. i \in 1..n /\ i # 1 /\ j \in 1..(n + 1) /\ j <= n
        BY <2>2
      <3>2. h[i] = g[i]
        BY <3>1
      <3>3. h[j] = g[j]
        <4> HIDE DEF j
        <4> QED BY <3>1
      <3>4. g[i] = g[j] \o s[i]
        BY <2>0, <3>1
      <3> HIDE DEF h
      <3>5. h[i] = h[j] \o s[i]
        BY <3>2, <3>3, <3>4
      <3> QED BY <3>1, <3>5
    <2>3. CASE i = n + 1
      BY <2>3
    <2> QED BY <2>1, <2>2, <2>3
  <1> HIDE DEF h
  <1>5. h \in Flat(A, s, n + 1)
    BY <1>3, <1>4 DEF Flat
  <1> QED BY <1>5 DEF h

LEMMA FlatExists ==
  ASSUME NEW A, NEW s \in Seq(Seq(A)), s # <<>>
  PROVE  \E g : g \in Flat(A, s, Len(s))
  <1> DEFINE T == {n \in Nat : n + 1 <= Len(s) => Flat(A, s, n + 1) # {}}
  <1>0. Len(s) \in Nat /\ Len(s) >= 1 /\ Len(s) - 1 \in Nat /\ s[1] \in Seq(A)
    OBVIOUS
  <1>1. 0 \in T
    <2> DEFINE g == [i \in 1..1 |-> s[1]]
    <2>1. g \in [1..1 -> Seq(A)] /\ \A i \in 1..1 : g[i] = s[i] /\ i = 1
      BY <1>0
    <2> HIDE DEF g
    <2>2. g \in Flat(A, s, 1)
      BY <2>1 DEF Flat
    <2> QED BY <2>2
  <1>2. ASSUME NEW n \in Nat, n \in T PROVE n + 1 \in T
    <2> SUFFICES ASSUME n + 2 <= Len(s) PROVE Flat(A, s, n + 2) # {}
      OBVIOUS
    <2>0. n + 1 \in Nat \ {0} /\ (n + 1) + 1 = n + 2 /\ n + 1 <= Len(s)
      BY <1>0
    <2>1. PICK g : g \in Flat(A, s, n + 1)
      BY <1>2, <2>0
    <2> HIDE DEF T
    <2> DEFINE h == [i \in 1..(n + 2) |-> IF i <= n + 1 THEN g[i] ELSE g[n + 1] \o s[n + 2]]
    <2>2. h \in Flat(A, s, n + 2)
      BY <2>0, <2>1, FlatStep
    <2> QED BY <2>2
  <1> HIDE DEF T
  <1>3. Len(s) - 1 \in T
    BY <1>0, <1>1, <1>2, Induction
  <1>4. Len(s) - 1 + 1 = Len(s)
    BY <1>0
  <1> QED BY <1>0, <1>3, <1>4 DEF T

LEMMA FlattenIs ==
  ASSUME NEW A, NEW s \in Seq(Seq(A)), s # <<>>, NEW g \in Flat(A, s, Len(s))
  PROVE  FlattenSeq(s) = g[Len(s)]
  <1> DEFINE N == Len(s)
             Def(f) == [i \in 1..N |-> IF i = 1 THEN s[i] ELSE f[i - 1] \o s[i]]
             c == CHOOSE f : f = Def(f)
  <1>1. FlattenSeq(s) = c[N] /\ N \in Nat /\ N > 0
    BY DEF FlattenSeq
  <1>2. g = Def(g)
    BY DEF Flat
  <1>3. c = Def(c)
    <2> HIDE DEF Def
    <2> QED BY <1>2
  <1>4. \A i \in 1..N : c[i] = IF i = 1 THEN s[i] ELSE c[i - 1] \o s[i]
    <2> HIDE DEF c
    <2> QED BY <1>3
  <1>5. \A i \in 1..N : g[i] = IF i = 1 THEN s[i] ELSE g[i - 1] \o s[i]
    BY DEF Flat
  <1> DEFINE T == {n \in Nat : n + 1 <= N => c[n + 1] = g[n + 1]}
  <1> HIDE DEF c, N
  <1>6. 0 \in T
    <2>1. 1 \in 1..N
      BY <1>1
    <2> QED BY <1>4, <1>5, <2>1
  <1>7. ASSUME NEW n \in Nat, n \in T PROVE n + 1 \in T
    <2> SUFFICES ASSUME n + 2 <= N PROVE c[n + 2] = g[n + 2]
      OBVIOUS
    <2>1. n + 2 \in 1..N /\ n + 2 # 1 /\ n + 1 <= N
      BY <1>1
    <2>2. c[n + 2] = c[(n + 2) - 1] \o s[n + 2] /\ g[n + 2] = g[(n + 2) - 1] \o s[n + 2]
      <3> DEFINE i == n + 2
      <3> HIDE DEF i
      <3>1. i \in 1..N /\ i # 1
        BY <2>1 DEF i
      <3>2. c[i] = c[i - 1] \o s[i] /\ g[i] = g[i - 1] \o s[i]
        BY <1>4, <1>5, <3>1
      <3> QED BY <3>2 DEF i
    <2>3. (n + 2) - 1 = n + 1
      OBVIOUS
    <2>4. c[n + 1] = g[n + 1]
      BY <1>7, <2>1
    <2> QED BY <2>2, <2>3, <2>4
  <1> HIDE DEF T
  <1>8. N - 1 \in T /\ N - 1 \in Nat /\ N - 1 + 1 = N
    <2>1. \A n \in Nat : n \in T
      BY <1>6, <1>7, Induction
    <2>2. N - 1 \in Nat /\ N - 1 + 1 = N
      BY <1>1
    <2> QED BY <2>1, <2>2
  <1>9. c[N] = g[N]
    BY <1>1, <1>8 DEF T
  <1> QED BY <1>1, <1>9 DEF N

(* What FlattenSeq gives, one sequence at a time. *)
LEMMA FlattenEmpty == FlattenSeq(<<>>) = <<>>
  BY DEF FlattenSeq

LEMMA FlattenType ==
  ASSUME NEW A, NEW s \in Seq(Seq(A))
  PROVE  FlattenSeq(s) \in Seq(A)
  <1>1. CASE s = <<>>
    <2>1. FlattenSeq(s) = <<>>
      BY <1>1, FlattenEmpty
    <2> QED BY <2>1
  <1>2. CASE s # <<>>
    <2>1. PICK g : g \in Flat(A, s, Len(s))
      BY <1>2, FlatExists
    <2>2. FlattenSeq(s) = g[Len(s)]
      BY <1>2, <2>1, FlattenIs
    <2>3. Len(s) \in 1..Len(s)
      BY <1>2
    <2> QED BY <2>1, <2>2, <2>3 DEF Flat
  <1> QED BY <1>1, <1>2

LEMMA FlattenAppend ==
  ASSUME NEW A, NEW s \in Seq(Seq(A)), NEW x \in Seq(A)
  PROVE  FlattenSeq(Append(s, x)) = FlattenSeq(s) \o x
  <1> DEFINE t == Append(s, x)
             n == Len(s)
  <1>1. /\ t \in Seq(Seq(A)) /\ Len(t) = n + 1 /\ t # <<>> /\ t[n + 1] = x
        /\ n \in Nat /\ \A i \in 1..n : t[i] = s[i]
    BY AppendProperties
  <1> HIDE DEF t
  <1>2. CASE s = <<>>
    <2>0. Len(t) = 1 /\ 1 \in 1..1 /\ t[1] = x
      BY <1>1, <1>2
    <2>1. PICK g : g \in Flat(A, t, 1)
      BY <1>1, <2>0, FlatExists
    <2>2. FlattenSeq(t) = g[1]
      BY <1>1, <2>0, <2>1, FlattenIs
    <2>3. g[1] = x
      BY <2>0, <2>1 DEF Flat
    <2>4. <<>> \o x = x
      OBVIOUS
    <2> QED BY <1>2, <2>2, <2>3, <2>4, FlattenEmpty DEF t
  <1>3. CASE s # <<>>
    <2>0. n \in Nat \ {0}
      BY <1>3
    <2>1. PICK g : g \in Flat(A, s, n)
      BY <1>3, FlatExists
    <2>2. FlattenSeq(s) = g[n]
      BY <1>3, <2>1, FlattenIs
    <2>3. g \in Flat(A, t, n)
      BY <1>1, <2>1 DEF Flat
    <2> DEFINE h == [i \in 1..(n + 1) |-> IF i <= n THEN g[i] ELSE g[n] \o t[n + 1]]
    <2> HIDE DEF n
    <2>7. n + 1 <= Len(t) /\ n + 1 \in 1..(n + 1) /\ ~(n + 1 <= n)
      BY <1>1, <2>0
    <2>4. h \in Flat(A, t, n + 1)
      BY <1>1, <2>0, <2>3, <2>7, FlatStep
    <2>5. FlattenSeq(t) = h[n + 1]
      <3> HIDE DEF h
      <3> QED BY <1>1, <2>4, FlattenIs
    <2>6. h[n + 1] = g[n] \o x
      BY <1>1, <2>7
    <2> QED BY <2>2, <2>5, <2>6 DEF t
  <1> QED BY <1>2, <1>3

(* The same for the beginnings of a sequence. *)
Flattened(s, n) == FlattenSeq(SubSeq(s, 1, n))

LEMMA FlattenPrefixes ==
  ASSUME NEW A, NEW s \in Seq(Seq(A))
  PROVE  /\ Flattened(s, 0) = <<>> /\ Flattened(s, Len(s)) = FlattenSeq(s)
         /\ \A n \in 0..Len(s) : Flattened(s, n) \in Seq(A)
         /\ \A n \in Nat : n < Len(s) => Flattened(s, n + 1) = Flattened(s, n) \o s[n + 1]
  <1>1. Len(s) \in Nat /\ \A i \in 1..Len(s) : s[i] \in Seq(A)
    BY LenProperties, ElementOfSeq
  <1>2. \A n \in 0..Len(s) : /\ SubSeq(s, 1, n) \in Seq(Seq(A)) /\ Len(SubSeq(s, 1, n)) = n
                             /\ \A i \in 1..n : SubSeq(s, 1, n)[i] = s[i]
    BY <1>1
  <1>3. Flattened(s, 0) = <<>>
    <2>1. SubSeq(s, 1, 0) = <<>>
      BY SubSeqEmpty
    <2> QED BY <2>1, FlattenEmpty DEF Flattened
  <1>4. Flattened(s, Len(s)) = FlattenSeq(s)
    BY SubSeqFull DEF Flattened
  <1>5. \A n \in 0..Len(s) : Flattened(s, n) \in Seq(A)
    BY <1>2, FlattenType DEF Flattened
  <1>6. ASSUME NEW n \in Nat, n < Len(s)
        PROVE  Flattened(s, n + 1) = Flattened(s, n) \o s[n + 1]
    <2> DEFINE t == SubSeq(s, 1, n)
               u == SubSeq(s, 1, n + 1)
    <2>1. n \in 0..Len(s) /\ n + 1 \in 0..Len(s) /\ n + 1 \in 1..Len(s)
      BY <1>1, <1>6
    <2>2. /\ t \in Seq(Seq(A)) /\ Len(t) = n /\ u \in Seq(Seq(A)) /\ Len(u) = n + 1
          /\ s[n + 1] \in Seq(A)
          /\ \A i \in 1..n : t[i] = s[i]
          /\ \A i \in 1..(n + 1) : u[i] = s[i]
      BY <1>1, <1>2, <2>1
    <2> HIDE DEF t, u
    <2>3. /\ Append(t, s[n + 1]) \in Seq(Seq(A)) /\ Len(Append(t, s[n + 1])) = n + 1
          /\ \A i \in 1..(n + 1) : Append(t, s[n + 1])[i] = u[i]
      BY <2>2
    <2>4. u = Append(t, s[n + 1])
      BY <2>2, <2>3, SeqEqual
    <2>5. FlattenSeq(u) = FlattenSeq(t) \o s[n + 1]
      BY <2>2, <2>4, FlattenAppend
    <2> QED BY <2>5 DEF t, u, Flattened
  <1>7. \A n \in Nat : n < Len(s) => Flattened(s, n + 1) = Flattened(s, n) \o s[n + 1]
    BY <1>6
  <1> QED BY <1>3, <1>4, <1>5, <1>7

-----------------------------------------------------------------------------
(* The escapes of UrlDecode.                                               *)

(* Does a percent sign at k have two bytes behind it? *)
Full(str, k) == k >= 1 /\ k + 2 <= Len(str) /\ str[k] = Percent

Inside(str, f, i) ==
  \/ Full(str, i - 1) /\ ~f[i - 1]
  \/ Full(str, i - 2) /\ ~f[i - 2]

Escapes(str, n) == {f \in [1..n -> BOOLEAN] : \A i \in 1..n : f[i] = Inside(str, f, i)}

LEMMA EscapesExist ==
  ASSUME NEW str \in Seq(Int), NEW n \in Nat
  PROVE  Escapes(str, n) # {}
  <1> DEFINE T == {m \in Nat : Escapes(str, m) # {}}
  <1>1. 0 \in T
    <2> DEFINE f == [i \in 1..0 |-> TRUE]
    <2>1. f \in [1..0 -> BOOLEAN] /\ \A i \in 1..0 : FALSE
      OBVIOUS
    <2> HIDE DEF f
    <2>2. f \in Escapes(str, 0)
      BY <2>1 DEF Escapes
    <2> QED BY <2>2
  <1>2. ASSUME NEW m \in Nat, m \in T PROVE m + 1 \in T
    <2>1. PICK f : f \in Escapes(str, m)
      BY <1>2
    <2>2. f \in [1..m -> BOOLEAN] /\ \A i \in 1..m : f[i] = Inside(str, f, i)
      BY <2>1 DEF Escapes
    <2> DEFINE h == [i \in 1..(m + 1) |-> IF i <= m THEN f[i] ELSE Inside(str, f, i)]
    <2>3. h \in [1..(m + 1) -> BOOLEAN]
      <3>1. \A i \in 1..(m + 1) : Inside(str, f, i) \in BOOLEAN
        BY DEF Inside
      <3> QED BY <2>2, <3>1
    <2>4. \A i \in 1..m : h[i] = f[i]
      OBVIOUS
    <2>5. h[m + 1] = Inside(str, f, m + 1)
      OBVIOUS
    <2> HIDE DEF h
    <2>6. \A i \in 1..(m + 1) : Inside(str, h, i) = Inside(str, f, i)
      <3> TAKE i \in 1..(m + 1)
      <3>1. Full(str, i - 1) => i - 1 \in 1..m
        BY DEF Full
      <3>2. Full(str, i - 2) => i - 2 \in 1..m
        BY DEF Full
      <3>3. Full(str, i - 1) => h[i - 1] = f[i - 1]
        BY <2>4, <3>1
      <3>4. Full(str, i - 2) => h[i - 2] = f[i - 2]
        BY <2>4, <3>2
      <3> QED BY <3>3, <3>4 DEF Inside
    <2>7. \A i \in 1..(m + 1) : h[i] = Inside(str, h, i)
      <3> TAKE i \in 1..(m + 1)
      <3>1. CASE i \in 1..m
        BY <2>2, <2>4, <2>6, <3>1
      <3>2. CASE i = m + 1
        BY <2>5, <2>6, <3>2
      <3>3. i \in 1..m \/ i = m + 1
        OBVIOUS
      <3> QED BY <3>1, <3>2, <3>3
    <2>8. h \in Escapes(str, m + 1)
      BY <2>3, <2>7 DEF Escapes
    <2> QED BY <2>8
  <1> HIDE DEF T
  <1>3. n \in T
    BY <1>1, <1>2, Induction
  <1> QED BY <1>3 DEF T

(* InEscape is what its definition says. *)
LEMMA InEscapeIs ==
  ASSUME NEW str \in Seq(Int)
  PROVE  \A i \in 1..Len(str) : /\ InEscape(str)[i] \in BOOLEAN
                                /\ InEscape(str)[i] = Inside(str, InEscape(str), i)
  <1> DEFINE D == DOMAIN str
             Def(f) == [i \in D |->
                          \E k \in {i - 1, i - 2} :
                            k >= 1 /\ str[k] = Percent /\ k + 2 <= Len(str) /\ ~f[k]]
             c == CHOOSE f : f = Def(f)
  <1>1. InEscape(str) = c
    BY DEF InEscape
  <1>2. D = 1..Len(str) /\ Len(str) \in Nat
    OBVIOUS
  <1>3. PICK g : g \in Escapes(str, Len(str))
    BY <1>2, EscapesExist
  <1>4. ASSUME NEW f, NEW i \in D PROVE Def(f)[i] = Inside(str, f, i)
    BY DEF Inside, Full
  <1>5. g = Def(g)
    <2>1. g \in [D -> BOOLEAN] /\ \A i \in D : g[i] = Inside(str, g, i)
      BY <1>2, <1>3 DEF Escapes
    <2>2. \A i \in D : g[i] = Def(g)[i]
      <3> HIDE DEF Def, D
      <3> QED BY <2>1, <1>4
    <2> QED BY <2>1, <2>2
  <1>6. c = Def(c)
    <2> HIDE DEF Def
    <2> QED BY <1>5
  <1>7. ASSUME NEW i \in D PROVE c[i] = Inside(str, c, i)
    <2> HIDE DEF c
    <2>1. c[i] = Def(c)[i]
      <3> HIDE DEF Def
      <3> QED BY <1>6
    <2> HIDE DEF Def
    <2> QED BY <1>4, <2>1
  <1>8. ASSUME NEW i \in D PROVE Inside(str, c, i) \in BOOLEAN
    BY DEF Inside
  <1> HIDE DEF c, D
  <1> QED BY <1>1, <1>2, <1>7, <1>8

-----------------------------------------------------------------------------
(* UrlDecode, of a string that is put together from two.                   *)

(* No escape of c is cut off. *)
Complete(c) == \A k \in 1..Len(c) : c[k] = Percent => k + 2 <= Len(c)

Decoded(str) == [i \in DOMAIN str |-> UrlDecodeByte(str, i)]

LEMMA HexType == \A x \in Int : FromHex(x) \in Int
  <1> TAKE x \in Int
  <1>1. FromHex(x) = x - 48 \/ FromHex(x) = x - 55 \/ FromHex(x) = x - 87
    BY DEF FromHex
  <1> QED BY <1>1

LEMMA CombinedType == \A a, b \in Int : Combined(a, b) \in Int
  BY DEF Combined, OrNibble

(* Two digits of four bits make the byte that has them as its halves. *)
LEMMA CombinedDigits == \A a, b \in 0..15 : Combined(a, b) = a * 16 + b
  <1> TAKE a, b \in 0..15
  <1>1. OrNibble(a, 0) = a
    BY DEF OrNibble
  <1>2. (b \div 16) % 16 = 0 /\ b % 16 = b /\ a % 16 = a
    OBVIOUS
  <1>3. Combined(a, b) = OrNibble(a % 16, (b \div 16) % 16) * 16 + (b % 16)
    BY DEF Combined
  <1> QED BY <1>1, <1>2, <1>3

LEMMA ShortSeqs ==
  /\ <<>> \in Seq(Int) /\ Len(<<>>) <= 1
  /\ \A x \in Int : <<x>> \in Seq(Int) /\ Len(<<x>>) = 1 /\ Len(<<x>>) <= 1 /\ <<x>>[1] = x
  /\ 32 \in Int
  OBVIOUS

LEMMA DecodedType ==
  ASSUME NEW str \in Seq(Int)
  PROVE  /\ Decoded(str) \in Seq(Seq(Int)) /\ Len(Decoded(str)) = Len(str)
         /\ \A i \in 1..Len(str) : /\ Decoded(str)[i] = UrlDecodeByte(str, i)
                                   /\ Decoded(str)[i] \in Seq(Int) /\ Len(Decoded(str)[i]) <= 1
         /\ UrlDecode(str) = FlattenSeq(Decoded(str))
  <1>1. DOMAIN str = 1..Len(str) /\ Len(str) \in Nat /\ \A i \in 1..Len(str) : str[i] \in Int
    OBVIOUS
  <1>3. ASSUME NEW i \in 1..Len(str), i + 2 <= Len(str) PROVE EscapeByte(str, i) \in Int
    <2>1. i + 1 \in 1..Len(str) /\ i + 2 \in 1..Len(str)
      BY <1>1, <1>3
    <2>2. FromHex(str[i + 1]) \in Int /\ FromHex(str[i + 2]) \in Int
      BY <1>1, HexType, <2>1
    <2> QED BY <2>2, CombinedType DEF EscapeByte
  <1>4. ASSUME NEW i \in 1..Len(str)
        PROVE  UrlDecodeByte(str, i) \in Seq(Int) /\ Len(UrlDecodeByte(str, i)) <= 1
    <2>1. CASE str[i] = Percent /\ i + 2 <= Len(str)
      <3>1. EscapeByte(str, i) \in Int
        BY <1>3, <2>1
      <3>2. UrlDecodeByte(str, i) = <<>> \/ UrlDecodeByte(str, i) = <<EscapeByte(str, i)>>
        BY <1>1, <2>1 DEF UrlDecodeByte, Percent, Plus
      <3> QED BY <3>1, <3>2, ShortSeqs
    <2>2. CASE ~(str[i] = Percent /\ i + 2 <= Len(str))
      <3>1. \/ UrlDecodeByte(str, i) = <<>> \/ UrlDecodeByte(str, i) = <<32>>
            \/ UrlDecodeByte(str, i) = <<str[i]>>
        BY <1>1, <2>2 DEF UrlDecodeByte, Space
      <3> QED BY <1>1, <3>1, ShortSeqs
    <2> QED BY <2>1, <2>2
  <1> HIDE DEF UrlDecodeByte
  <1>5. UrlDecode(str) = FlattenSeq(Decoded(str))
    BY DEF UrlDecode, Decoded
  <1> QED BY <1>1, <1>4, <1>5 DEF Decoded

LEMMA DecodedShort ==
  ASSUME NEW str \in Seq(Int)
  PROVE  UrlDecode(str) \in Seq(Int) /\ Len(UrlDecode(str)) <= Len(str)
  <1> DEFINE d == Decoded(str)
             T == {n \in Nat : n <= Len(str) => Len(Flattened(d, n)) <= n}
  <1>1. d \in Seq(Seq(Int)) /\ Len(d) = Len(str) /\ UrlDecode(str) = FlattenSeq(d)
    BY DecodedType
  <1>2. \A i \in 1..Len(str) : d[i] \in Seq(Int) /\ Len(d[i]) <= 1
    BY DecodedType
  <1>3. Len(str) \in Nat
    OBVIOUS
  <1> HIDE DEF d
  <1>4. Flattened(d, 0) = <<>> /\ Flattened(d, Len(str)) = FlattenSeq(d)
    BY <1>1, FlattenPrefixes
  <1>5. \A n \in 0..Len(str) : Flattened(d, n) \in Seq(Int)
    BY <1>1, FlattenPrefixes
  <1>6. \A n \in Nat : n < Len(str) => Flattened(d, n + 1) = Flattened(d, n) \o d[n + 1]
    BY <1>1, FlattenPrefixes
  <1>7. 0 \in T
    BY <1>4
  <1>8. ASSUME NEW n \in Nat, n \in T PROVE n + 1 \in T
    <2> SUFFICES ASSUME n + 1 <= Len(str) PROVE Len(Flattened(d, n + 1)) <= n + 1
      OBVIOUS
    <2>1. n \in 0..Len(str) /\ n + 1 \in 1..Len(str) /\ n < Len(str)
      BY <1>3
    <2>2. Flattened(d, n) \in Seq(Int) /\ Len(Flattened(d, n)) <= n
      BY <1>5, <1>8, <2>1
    <2>3. d[n + 1] \in Seq(Int) /\ Len(d[n + 1]) <= 1
      BY <1>2, <2>1
    <2>4. Len(Flattened(d, n) \o d[n + 1]) <= n + 1
      BY <2>2, <2>3
    <2> QED BY <1>6, <2>1, <2>4
  <1> HIDE DEF T
  <1>9. Len(str) \in T
    BY <1>3, <1>7, <1>8, Induction
  <1> QED BY <1>1, <1>3, <1>4, <1>5, <1>9 DEF T

(* The numbers just behind an interval. *)
LEMMA Ranges ==
  ASSUME NEW n \in Nat
  PROVE  /\ \A i \in 1..(n + 1) : i \in 1..n \/ i = n + 1
         /\ \A i \in 1..(n + 2) : i \in 1..n \/ i = n + 1 \/ i = n + 2
         /\ \A i \in 1..(n + 3) : i \in 1..n \/ i = n + 1 \/ i = n + 2 \/ i = n + 3
         /\ \A i \in 1..n : i \in 1..(n + 1) /\ i \in 1..(n + 2) /\ i \in 1..(n + 3)
  OBVIOUS

(* Two strings, one behind the other. *)
LEMMA JoinedLen ==
  ASSUME NEW c \in Seq(Int), NEW e \in Seq(Int)
  PROVE  /\ c \o e \in Seq(Int) /\ Len(c) \in Nat /\ Len(e) \in Nat
         /\ Len(c \o e) = Len(c) + Len(e)
  OBVIOUS

LEMMA JoinedBegin ==
  ASSUME NEW c \in Seq(Int), NEW e \in Seq(Int)
  PROVE  \A i \in 1..Len(c) : i \in 1..Len(c \o e) /\ (c \o e)[i] = c[i]
  <1>1. \A i \in 1..Len(c) : (c \o e)[i] = c[i]
    OBVIOUS
  <1>2. \A i \in 1..Len(c) : i \in 1..Len(c \o e)
    OBVIOUS
  <1> QED BY <1>1, <1>2

LEMMA JoinedAll ==
  ASSUME NEW c \in Seq(Int), NEW e \in Seq(Int)
  PROVE  \A k \in 1..(Len(c) + Len(e)) :
           (c \o e)[k] = IF k <= Len(c) THEN c[k] ELSE e[k - Len(c)]
  BY ConcatProperties

LEMMA JoinedEnd ==
  ASSUME NEW c \in Seq(Int), NEW e \in Seq(Int)
  PROVE  /\ Len(e) >= 1 => (c \o e)[Len(c) + 1] = e[1]
         /\ Len(e) >= 2 => (c \o e)[Len(c) + 2] = e[2]
         /\ Len(e) >= 3 => (c \o e)[Len(c) + 3] = e[3]
  <1> DEFINE L == Len(c)
             M == Len(e)
             s == c \o e
  <1>1. L \in Nat /\ M \in Nat
    OBVIOUS
  <1>2. \A i \in (L + 1)..(L + M) : s[i] = e[i - L]
    OBVIOUS
  <1> HIDE DEF s, L, M
  <1>3. ASSUME NEW k \in 1..3, M >= k PROVE s[L + k] = e[k]
    <2>1. L + k \in (L + 1)..(L + M) /\ (L + k) - L = k
      BY <1>1, <1>3
    <2> QED BY <1>2, <2>1
  <1>4. 1 \in 1..3 /\ 2 \in 1..3 /\ 3 \in 1..3
    OBVIOUS
  <1>5. M >= 1 => s[L + 1] = e[1]
    BY <1>3, <1>4
  <1>6. M >= 2 => s[L + 2] = e[2]
    BY <1>3, <1>4
  <1>7. M >= 3 => s[L + 3] = e[3]
    BY <1>3, <1>4
  <1> QED BY <1>5, <1>6, <1>7 DEF s, L, M

LEMMA BeginningOf ==
  ASSUME NEW a \in Seq(Int), a # <<>>, NEW b \in Seq(Int)
  PROVE  SubSeq(a \o b, 1, Len(a)) = a
  <1>1. 1 \in 1..Len(a) /\ Len(a) \in 1..Len(a)
    OBVIOUS
  <1>2. SubSeq(a \o b, 1, Len(a)) = SubSeq(a, 1, Len(a))
    BY <1>1, SubSeqOfConcat1
  <1>3. SubSeq(a, 1, Len(a)) = a
    BY SubSeqFull
  <1> QED BY <1>2, <1>3

(* What follows complete escapes does not change how they are decoded. *)
LEMMA SameEscapes ==
  ASSUME NEW c \in Seq(Int), NEW e \in Seq(Int), Complete(c)
  PROVE  \A i \in 1..Len(c) : InEscape(c \o e)[i] = InEscape(c)[i]
  <1> DEFINE s == c \o e
             T == {n \in Nat : \A i \in 1..n : i <= Len(c) => InEscape(s)[i] = InEscape(c)[i]}
  <1>1. /\ s \in Seq(Int) /\ Len(s) = Len(c) + Len(e) /\ Len(c) \in Nat /\ Len(e) \in Nat
    BY JoinedLen
  <1>a. \A i \in 1..Len(c) : s[i] = c[i] /\ i \in 1..Len(s)
    BY JoinedBegin
  <1> HIDE DEF s
  <1>2. ASSUME NEW k \in Int, k <= Len(c) PROVE Full(s, k) <=> Full(c, k)
    <2>1. CASE k >= 1
      <3>1. k \in 1..Len(c) /\ s[k] = c[k]
        BY <1>1, <1>a, <1>2, <2>1
      <3>2. c[k] = Percent => k + 2 <= Len(c)
        BY <3>1 DEF Complete
      <3>3. k + 2 <= Len(c) => k + 2 <= Len(s)
        BY <1>1
      <3> QED BY <3>1, <3>2, <3>3 DEF Full
    <2>2. CASE ~(k >= 1)
      BY <2>2 DEF Full
    <2> QED BY <2>1, <2>2
  <1>3. /\ \A i \in 1..Len(c) : InEscape(c)[i] = Inside(c, InEscape(c), i)
        /\ \A i \in 1..Len(s) : InEscape(s)[i] = Inside(s, InEscape(s), i)
    BY <1>1, InEscapeIs
  <1>4. 0 \in T
    OBVIOUS
  <1>5. ASSUME NEW n \in Nat, n \in T PROVE n + 1 \in T
    <2> SUFFICES ASSUME n + 1 <= Len(c) PROVE InEscape(s)[n + 1] = InEscape(c)[n + 1]
      <3>1. \A i \in 1..(n + 1) : i \in 1..n \/ i = n + 1
        OBVIOUS
      <3>2. \A i \in 1..(n + 1) : i <= Len(c) => InEscape(s)[i] = InEscape(c)[i]
        BY <1>5, <3>1
      <3> QED BY <3>2
    <2> DEFINE i == n + 1
    <2>1. /\ i - 1 \in Int /\ i - 2 \in Int /\ i - 1 <= Len(c) /\ i - 2 <= Len(c)
          /\ i \in 1..Len(c) /\ i \in 1..Len(s)
      BY <1>1
    <2>2. ASSUME NEW k \in Int, k <= n, Full(c, k) PROVE InEscape(s)[k] = InEscape(c)[k]
      <3>1. k \in 1..n /\ k <= Len(c)
        BY <1>1, <2>2 DEF Full
      <3> QED BY <1>5, <3>1
    <2>3. i - 1 <= n /\ i - 2 <= n
      OBVIOUS
    <2> HIDE DEF i, T
    <2>4. Inside(s, InEscape(s), i) = Inside(c, InEscape(c), i)
      <3>1. /\ Full(s, i - 1) <=> Full(c, i - 1)
            /\ Full(s, i - 2) <=> Full(c, i - 2)
        BY <1>2, <2>1
      <3>2. /\ Full(c, i - 1) => InEscape(s)[i - 1] = InEscape(c)[i - 1]
            /\ Full(c, i - 2) => InEscape(s)[i - 2] = InEscape(c)[i - 2]
        BY <2>1, <2>2, <2>3
      <3> QED BY <3>1, <3>2 DEF Inside
    <2>5. InEscape(s)[i] = InEscape(c)[i]
      BY <1>3, <2>1, <2>4
    <2> QED BY <2>5 DEF i
  <1> HIDE DEF T
  <1>6. Len(c) \in T
    BY <1>1, <1>4, <1>5, Induction
  <1> QED BY <1>1, <1>6 DEF T, s

LEMMA DecodeBehind ==
  ASSUME NEW c \in Seq(Int), NEW e \in Seq(Int), Complete(c)
  PROVE  /\ Flattened(Decoded(c \o e), Len(c)) = UrlDecode(c)
         /\ Len(e) >= 1 => ~InEscape(c \o e)[Len(c) + 1]
         /\ Len(e) >= 2 => InEscape(c \o e)[Len(c) + 2] = (e[1] = Percent /\ Len(e) >= 3)
         /\ Len(e) >= 3 /\ e[1] = Percent => InEscape(c \o e)[Len(c) + 3]
  <1> DEFINE s == c \o e
             L == Len(c)
  <1>1. /\ s \in Seq(Int) /\ Len(s) = L + Len(e) /\ L \in Nat /\ Len(e) \in Nat
    BY JoinedLen
  <1>a. \A i \in 1..L : s[i] = c[i] /\ i \in 1..Len(s)
    BY JoinedBegin
  <1>b. Len(e) >= 1 => s[L + 1] = e[1]
    BY JoinedEnd
  <1>2. \A i \in 1..L : InEscape(s)[i] = InEscape(c)[i]
    BY SameEscapes
  <1> HIDE DEF s
  <1>3. \A i \in 1..L : UrlDecodeByte(s, i) = UrlDecodeByte(c, i)
    <2> TAKE i \in 1..L
    <2>0. i \in Int /\ i >= 1 /\ L \in Int
      BY <1>1
    <2>1. s[i] = c[i] /\ InEscape(s)[i] = InEscape(c)[i]
      BY <1>a, <1>2
    <2>2. CASE c[i] = Percent
      <3>1. i + 2 <= L /\ i + 2 <= Len(s)
        <4>1. i + 2 <= L
          BY <2>2 DEF Complete
        <4> QED BY <1>1, <2>0, <4>1
      <3>2. i + 1 \in 1..L /\ i + 2 \in 1..L
        BY <2>0, <3>1
      <3>3. s[i + 1] = c[i + 1] /\ s[i + 2] = c[i + 2]
        BY <1>a, <3>2
      <3>4. EscapeByte(s, i) = EscapeByte(c, i)
        BY <3>3 DEF EscapeByte
      <3> QED BY <2>1, <2>2, <3>1, <3>4 DEF UrlDecodeByte
    <2>3. CASE c[i] # Percent
      BY <2>1, <2>3 DEF UrlDecodeByte
    <2> QED BY <2>2, <2>3
  <1>4. Flattened(Decoded(s), L) = UrlDecode(c)
    <2>1. /\ Decoded(s) \in Seq(Seq(Int)) /\ Len(Decoded(s)) = Len(s)
          /\ \A i \in 1..Len(s) : Decoded(s)[i] = UrlDecodeByte(s, i)
      BY <1>1, DecodedType
    <2>2. /\ Decoded(c) \in Seq(Seq(Int)) /\ Len(Decoded(c)) = L
          /\ \A i \in 1..L : Decoded(c)[i] = UrlDecodeByte(c, i)
          /\ UrlDecode(c) = FlattenSeq(Decoded(c))
      BY DecodedType
    <2>3. ASSUME NEW i \in 1..L PROVE Decoded(s)[i] = Decoded(c)[i]
      <3>1. Decoded(s)[i] = UrlDecodeByte(s, i)
        BY <1>a, <2>1
      <3>2. Decoded(c)[i] = UrlDecodeByte(c, i)
        BY <2>2
      <3> QED BY <1>3, <3>1, <3>2
    <2>4. /\ SubSeq(Decoded(s), 1, L) \in Seq(Seq(Int)) /\ Len(SubSeq(Decoded(s), 1, L)) = L
          /\ \A i \in 1..L : SubSeq(Decoded(s), 1, L)[i] = Decoded(s)[i]
      <3> DEFINE d == Decoded(s)
      <3>1. d \in Seq(Seq(Int)) /\ L \in 0..Len(d)
        BY <1>1, <2>1
      <3> HIDE DEF d, L
      <3>2. /\ SubSeq(d, 1, L) \in Seq(Seq(Int)) /\ Len(SubSeq(d, 1, L)) = L
            /\ \A i \in 1..L : SubSeq(d, 1, L)[i] = d[i]
        BY <3>1
      <3> QED BY <3>2 DEF d
    <2>5. SubSeq(Decoded(s), 1, L) = Decoded(c)
      <3>1. \A i \in 1..L : SubSeq(Decoded(s), 1, L)[i] = Decoded(c)[i]
        BY <2>3, <2>4
      <3> QED BY <2>2, <2>4, <3>1, SeqEqual
    <2> QED BY <2>2, <2>5 DEF Flattened
  <1>5. \A i \in 1..Len(s) : /\ InEscape(s)[i] = Inside(s, InEscape(s), i)
                             /\ InEscape(s)[i] \in BOOLEAN
    BY <1>1, InEscapeIs
  <1>6. ~Full(s, L) /\ ~Full(s, L - 1)
    <2>1. \A k \in 1..L : s[k] = Percent => k + 2 <= L
      BY <1>a DEF Complete
    <2>2. \A k \in 1..L : k >= L - 1 => s[k] # Percent
      BY <1>1, <2>1
    <2>3. (L >= 1 => L \in 1..L) /\ (L - 1 >= 1 => L - 1 \in 1..L) /\ L >= L - 1
      BY <1>1
    <2> QED BY <2>2, <2>3 DEF Full
  <1>7. Len(e) >= 1 => ~InEscape(s)[L + 1]
    <2> SUFFICES ASSUME Len(e) >= 1 PROVE ~InEscape(s)[L + 1]
      OBVIOUS
    <2>1. L + 1 \in 1..Len(s) /\ (L + 1) - 1 = L /\ (L + 1) - 2 = L - 1
      BY <1>1
    <2>2. ~Inside(s, InEscape(s), L + 1)
      <3>1. ~Full(s, (L + 1) - 1) /\ ~Full(s, (L + 1) - 2)
        BY <1>6, <2>1
      <3> QED BY <3>1 DEF Inside
    <2> QED BY <1>5, <2>1, <2>2
  <1>8. Len(e) >= 2 => InEscape(s)[L + 2] = (e[1] = Percent /\ Len(e) >= 3)
    <2> SUFFICES ASSUME Len(e) >= 2
                 PROVE  InEscape(s)[L + 2] = (e[1] = Percent /\ Len(e) >= 3)
      OBVIOUS
    <2>1. L + 2 \in 1..Len(s) /\ (L + 2) - 1 = L + 1 /\ (L + 2) - 2 = L
      BY <1>1
    <2>2. Inside(s, InEscape(s), L + 2) <=> Full(s, L + 1)
      <3>1. ~InEscape(s)[L + 1]
        BY <1>7
      <3> DEFINE j == L + 2
      <3> HIDE DEF j
      <3>2. Inside(s, InEscape(s), j) <=>
              \/ Full(s, j - 1) /\ ~InEscape(s)[j - 1]
              \/ Full(s, j - 2) /\ ~InEscape(s)[j - 2]
        BY DEF Inside
      <3>3. j - 1 = L + 1 /\ j - 2 = L
        BY <2>1 DEF j
      <3> QED BY <1>6, <3>1, <3>2, <3>3 DEF j
    <2>3. s[L + 1] = e[1]
      BY <1>b, <1>1
    <2>5. L + 1 >= 1 /\ (L + 1 + 2 <= Len(s) <=> Len(e) >= 3)
      BY <1>1
    <2>4. Full(s, L + 1) <=> (e[1] = Percent /\ Len(e) >= 3)
      BY <2>3, <2>5 DEF Full
    <2> QED BY <1>5, <2>1, <2>2, <2>4
  <1>9. Len(e) >= 3 /\ e[1] = Percent => InEscape(s)[L + 3]
    <2> SUFFICES ASSUME Len(e) >= 3, e[1] = Percent PROVE InEscape(s)[L + 3]
      OBVIOUS
    <2>1. L + 3 \in 1..Len(s) /\ (L + 3) - 2 = L + 1
      BY <1>1
    <2>4. s[L + 1] = e[1] /\ Len(e) >= 1
      BY <1>b, <1>1
    <2>5. L + 1 >= 1 /\ L + 1 + 2 <= Len(s)
      BY <1>1
    <2>2. Full(s, L + 1) /\ ~InEscape(s)[L + 1]
      BY <1>7, <2>4, <2>5 DEF Full
    <2>3. Inside(s, InEscape(s), L + 3)
      <3>1. Full(s, (L + 3) - 2) /\ ~InEscape(s)[(L + 3) - 2]
        BY <2>1, <2>2
      <3> QED BY <3>1 DEF Inside
    <2> QED BY <1>5, <2>1, <2>3
  <1> QED BY <1>4, <1>7, <1>8, <1>9 DEF s

LEMMA DecodeSteps ==
  ASSUME NEW c \in Seq(Int), NEW e \in Seq(Int), Complete(c)
  PROVE  LET d == Decoded(c \o e)
             L == Len(c)
         IN /\ UrlDecode(c \o e) = Flattened(d, L + Len(e))
            /\ Flattened(d, L) = UrlDecode(c)
            /\ Len(e) >= 1 =>
                 Flattened(d, L + 1) = Flattened(d, L) \o UrlDecodeByte(c \o e, L + 1)
            /\ Len(e) >= 2 =>
                 Flattened(d, L + 2) = Flattened(d, L + 1) \o UrlDecodeByte(c \o e, L + 2)
            /\ Len(e) >= 3 =>
                 Flattened(d, L + 3) = Flattened(d, L + 2) \o UrlDecodeByte(c \o e, L + 3)
  <1> DEFINE s == c \o e
             L == Len(c)
             d == Decoded(s)
  <1>1. /\ s \in Seq(Int) /\ Len(s) = L + Len(e) /\ L \in Nat /\ Len(e) \in Nat
    BY JoinedLen
  <1>2. Flattened(d, L) = UrlDecode(c)
    BY DecodeBehind
  <1> HIDE DEF s
  <1>3. /\ d \in Seq(Seq(Int)) /\ Len(d) = Len(s) /\ UrlDecode(s) = FlattenSeq(d)
        /\ \A i \in 1..Len(s) : d[i] = UrlDecodeByte(s, i)
    BY <1>1, DecodedType
  <1> HIDE DEF d, L
  <1>4. UrlDecode(s) = Flattened(d, L + Len(e))
    BY <1>1, <1>3, FlattenPrefixes
  <1>5. ASSUME NEW n \in Nat, n < Len(s)
        PROVE  Flattened(d, n + 1) = Flattened(d, n) \o UrlDecodeByte(s, n + 1)
    <2>1. n < Len(d) /\ n + 1 \in 1..Len(s)
      BY <1>1, <1>3, <1>5
    <2>2. Flattened(d, n + 1) = Flattened(d, n) \o d[n + 1]
      BY <1>3, <2>1, FlattenPrefixes
    <2> QED BY <1>3, <2>1, <2>2
  <1>6. Len(e) >= 1 => Flattened(d, L + 1) = Flattened(d, L) \o UrlDecodeByte(s, L + 1)
    <2> SUFFICES ASSUME Len(e) >= 1
                 PROVE  Flattened(d, L + 1) = Flattened(d, L) \o UrlDecodeByte(s, L + 1)
      OBVIOUS
    <2>1. L < Len(s)
      BY <1>1
    <2> QED BY <1>1, <1>5, <2>1
  <1>7. Len(e) >= 2 => Flattened(d, L + 2) = Flattened(d, L + 1) \o UrlDecodeByte(s, L + 2)
    <2> SUFFICES ASSUME Len(e) >= 2
                 PROVE  Flattened(d, L + 2) = Flattened(d, L + 1) \o UrlDecodeByte(s, L + 2)
      OBVIOUS
    <2>1. L + 1 \in Nat /\ L + 1 < Len(s) /\ (L + 1) + 1 = L + 2
      BY <1>1
    <2> QED BY <1>5, <2>1
  <1>8. Len(e) >= 3 => Flattened(d, L + 3) = Flattened(d, L + 2) \o UrlDecodeByte(s, L + 3)
    <2> SUFFICES ASSUME Len(e) >= 3
                 PROVE  Flattened(d, L + 3) = Flattened(d, L + 2) \o UrlDecodeByte(s, L + 3)
      OBVIOUS
    <2>1. L + 2 \in Nat /\ L + 2 < Len(s) /\ (L + 2) + 1 = L + 3
      BY <1>1
    <2> QED BY <1>5, <2>1
  <1> QED BY <1>2, <1>4, <1>6, <1>7, <1>8 DEF s, d, L

(* A byte that stands for itself, or for a space. *)
LEMMA DecodePlain ==
  ASSUME NEW c \in Seq(Int), Complete(c), NEW x \in Int, x # Percent
  PROVE  /\ UrlDecode(c \o <<x>>) = UrlDecode(c) \o <<IF x = Plus THEN Space ELSE x>>
         /\ Complete(c \o <<x>>)
  <1> DEFINE e == <<x>>
             s == c \o e
             L == Len(c)
  <1>1. e \in Seq(Int) /\ Len(e) = 1 /\ Len(e) >= 1 /\ e[1] = x /\ L \in Nat
    OBVIOUS
  <1> HIDE DEF e
  <1>2. s \in Seq(Int) /\ Len(s) = L + 1
    BY <1>1, JoinedLen
  <1>b. s[L + 1] = x
    BY <1>1, JoinedEnd
  <1>a. \A i \in 1..L : s[i] = c[i]
    BY <1>1, JoinedBegin
  <1> HIDE DEF s
  <1>3. Complete(s)
    <2> SUFFICES ASSUME NEW k \in 1..(L + 1), s[k] = Percent PROVE k + 2 <= L + 1
      BY <1>2 DEF Complete
    <2>1. k \in 1..L
      BY <1>1, <1>b, Ranges
    <2>2. c[k] = Percent
      BY <1>a, <2>1
    <2>3. k + 2 <= L
      BY <2>1, <2>2 DEF Complete
    <2> QED BY <1>1, <2>1, <2>3
  <1> USE DEF s
  <1>4. /\ UrlDecode(s) = Flattened(Decoded(s), L + 1)
        /\ Flattened(Decoded(s), L) = UrlDecode(c)
        /\ Flattened(Decoded(s), L + 1) = Flattened(Decoded(s), L) \o UrlDecodeByte(s, L + 1)
    BY <1>1, DecodeSteps
  <1>5. ~InEscape(s)[L + 1]
    BY <1>1, DecodeBehind
  <1> HIDE DEF s
  <1>6. UrlDecodeByte(s, L + 1) = <<IF x = Plus THEN Space ELSE x>>
    BY <1>b, <1>5 DEF UrlDecodeByte
  <1>7. UrlDecode(s) = UrlDecode(c) \o <<IF x = Plus THEN Space ELSE x>>
    BY <1>1, <1>4, <1>6
  <1> QED BY <1>3, <1>7 DEF s, e

(* An escape that was cut off. *)
LEMMA DecodeCut ==
  ASSUME NEW c \in Seq(Int), Complete(c)
  PROVE  /\ UrlDecode(c \o <<Percent>>) = UrlDecode(c)
         /\ \A h \in Int : h # Percent /\ h # Plus =>
              UrlDecode(c \o <<Percent, h>>) = UrlDecode(c) \o <<h>>
  <1> DEFINE L == Len(c)
  <1>0. L \in Nat /\ Percent \in Int /\ Percent # Plus
    BY DEF Percent, Plus
  <1>1. UrlDecode(c) \in Seq(Int) /\ UrlDecode(c) \o <<>> = UrlDecode(c)
    BY DecodedShort, ConcatEmptySeq
  <1>2. UrlDecode(c \o <<Percent>>) = UrlDecode(c)
    <2> DEFINE e == <<Percent>>
               s == c \o e
    <2>1. e \in Seq(Int) /\ Len(e) = 1 /\ Len(e) >= 1 /\ e[1] = Percent
      BY <1>0
    <2> HIDE DEF e
    <2>6. Len(s) = L + 1
      BY <2>1, JoinedLen
    <2>7. s[L + 1] = Percent
      BY <2>1, JoinedEnd
    <2>2. /\ UrlDecode(s) = Flattened(Decoded(s), L + 1)
          /\ Flattened(Decoded(s), L) = UrlDecode(c)
          /\ Flattened(Decoded(s), L + 1) =
               Flattened(Decoded(s), L) \o UrlDecodeByte(s, L + 1)
      BY <2>1, DecodeSteps
    <2>3. ~InEscape(s)[L + 1]
      BY <2>1, DecodeBehind
    <2> HIDE DEF s
    <2>4. UrlDecodeByte(s, L + 1) = <<>>
      BY <1>0, <2>3, <2>6, <2>7 DEF UrlDecodeByte
    <2>5. UrlDecode(s) = UrlDecode(c)
      BY <1>0, <1>1, <2>2, <2>4
    <2> QED BY <2>5 DEF s, e
  <1>3. ASSUME NEW h \in Int, h # Percent, h # Plus
        PROVE  UrlDecode(c \o <<Percent, h>>) = UrlDecode(c) \o <<h>>
    <2> DEFINE e == <<Percent, h>>
               s == c \o e
    <2>1. /\ e \in Seq(Int) /\ Len(e) = 2 /\ e[1] = Percent /\ e[2] = h
          /\ Len(e) >= 1 /\ Len(e) >= 2 /\ ~(Len(e) >= 3)
      BY <1>0
    <2> HIDE DEF e
    <2>6. Len(s) = L + 2
      BY <2>1, JoinedLen
    <2>7. s[L + 1] = Percent /\ s[L + 2] = h
      BY <2>1, JoinedEnd
    <2>2. /\ UrlDecode(s) = Flattened(Decoded(s), L + 2)
          /\ Flattened(Decoded(s), L) = UrlDecode(c)
          /\ Flattened(Decoded(s), L + 1) =
               Flattened(Decoded(s), L) \o UrlDecodeByte(s, L + 1)
          /\ Flattened(Decoded(s), L + 2) =
               Flattened(Decoded(s), L + 1) \o UrlDecodeByte(s, L + 2)
      BY <2>1, DecodeSteps
    <2>3. ~InEscape(s)[L + 1] /\ ~InEscape(s)[L + 2]
      BY <2>1, DecodeBehind
    <2> HIDE DEF s
    <2>4. UrlDecodeByte(s, L + 1) = <<>>
      BY <1>0, <2>3, <2>6, <2>7 DEF UrlDecodeByte
    <2>5. UrlDecodeByte(s, L + 2) = <<h>>
      BY <1>3, <2>3, <2>7 DEF UrlDecodeByte
    <2>8. UrlDecode(s) = UrlDecode(c) \o <<h>>
      BY <1>0, <1>1, <2>2, <2>4, <2>5
    <2> QED BY <2>8 DEF s, e
  <1> QED BY <1>2, <1>3

(* A whole escape behind c. *)
EscapeBehind(c, h, l) ==
  /\ UrlDecode(c \o <<Percent, h, l>>) =
       UrlDecode(c) \o <<Combined(FromHex(h), FromHex(l))>>
  /\ Complete(c \o <<Percent, h, l>>)

LEMMA DecodeEscape ==
  ASSUME NEW c \in Seq(Int), Complete(c), NEW h \in Int, h # Percent, NEW l \in Int, l # Percent
  PROVE  EscapeBehind(c, h, l)
  <1> DEFINE e == <<Percent, h, l>>
             s == c \o e
             L == Len(c)
             x == Combined(FromHex(h), FromHex(l))
  <1>0. L \in Nat /\ Percent \in Int /\ Percent # Plus
    BY DEF Percent, Plus
  <1>1. /\ e \in Seq(Int) /\ Len(e) = 3 /\ e[1] = Percent /\ e[2] = h /\ e[3] = l
        /\ Len(e) >= 1 /\ Len(e) >= 2 /\ Len(e) >= 3
    BY <1>0
  <1> HIDE DEF e
  <1>2. s \in Seq(Int) /\ Len(s) = L + 3
    BY <1>1, JoinedLen
  <1>b. s[L + 1] = Percent /\ s[L + 2] = h /\ s[L + 3] = l
    BY <1>1, JoinedEnd
  <1>a. \A i \in 1..L : s[i] = c[i]
    BY <1>1, JoinedBegin
  <1> HIDE DEF s
  <1>3. Complete(s)
    <2> SUFFICES ASSUME NEW k \in 1..(L + 3), s[k] = Percent PROVE k + 2 <= L + 3
      BY <1>2 DEF Complete
    <2>1. k \in 1..L \/ k = L + 1
      BY <1>0, <1>b, Ranges
    <2>2. CASE k \in 1..L
      <3>1. c[k] = Percent
        BY <1>a, <2>2
      <3>2. k + 2 <= L
        BY <2>2, <3>1 DEF Complete
      <3> QED BY <1>0, <2>2, <3>2
    <2>3. CASE k = L + 1
      BY <1>0, <2>3
    <2> QED BY <2>1, <2>2, <2>3
  <1> USE DEF s
  <1>4. /\ UrlDecode(s) = Flattened(Decoded(s), L + 3)
        /\ Flattened(Decoded(s), L) = UrlDecode(c)
        /\ Flattened(Decoded(s), L + 1) =
             Flattened(Decoded(s), L) \o UrlDecodeByte(s, L + 1)
        /\ Flattened(Decoded(s), L + 2) =
             Flattened(Decoded(s), L + 1) \o UrlDecodeByte(s, L + 2)
        /\ Flattened(Decoded(s), L + 3) =
             Flattened(Decoded(s), L + 2) \o UrlDecodeByte(s, L + 3)
    BY <1>1, DecodeSteps
  <1>5. ~InEscape(s)[L + 1] /\ InEscape(s)[L + 2] /\ InEscape(s)[L + 3]
    BY <1>1, DecodeBehind
  <1> HIDE DEF s, x
  <1>6. EscapeByte(s, L + 1) = x
    <2>1. (L + 1) + 1 = L + 2 /\ (L + 1) + 2 = L + 3
      BY <1>0
    <2> QED BY <1>b, <2>1 DEF EscapeByte, x
  <1>7. UrlDecodeByte(s, L + 1) = <<x>>
    BY <1>0, <1>2, <1>b, <1>5, <1>6 DEF UrlDecodeByte
  <1>8. UrlDecodeByte(s, L + 2) = <<>> /\ UrlDecodeByte(s, L + 3) = <<>>
    BY <1>5 DEF UrlDecodeByte
  <1>9. UrlDecode(s) = UrlDecode(c) \o <<x>>
    <2>1. UrlDecode(c) \in Seq(Int)
      BY DecodedShort
    <2>2. x \in Int
      <3>1. FromHex(h) \in Int /\ FromHex(l) \in Int
        BY HexType
      <3> QED BY <3>1, CombinedType DEF x
    <2>3. UrlDecode(c) \o <<x>> \in Seq(Int)
      BY <2>1, <2>2
    <2>4. (UrlDecode(c) \o <<x>>) \o <<>> = UrlDecode(c) \o <<x>>
      BY <2>3, ConcatEmptySeq
    <2> QED BY <1>0, <1>4, <1>7, <1>8, <2>4
  <1> QED BY <1>3, <1>9 DEF EscapeBehind, s, e, x

-----------------------------------------------------------------------------
(* UrlEncode.                                                              *)

Chars == Unreserved \cup {Plus, Percent}

(* A byte is encoded as a character that stands for it, or as an escape. *)
LEMMA EncodedByte ==
  ASSUME NEW b \in 0..255
  PROVE  \/ \E x \in Int : /\ UrlEncodeByte(b) = <<x>> /\ x # Percent /\ x \in Chars
                           /\ b = IF x = Plus THEN Space ELSE x
         \/ \E h, l \in Int :
              /\ UrlEncodeByte(b) = <<Percent, h, l>> /\ b = Combined(FromHex(h), FromHex(l))
              /\ {h, l} \subseteq Chars \ {Percent, Plus}
  <1> USE DEF Chars, Unreserved, Digits, Upper, Lower, Plus, Percent, Space
  <1>1. CASE b \in Unreserved
    <2>1. UrlEncodeByte(b) = <<b>>
      BY <1>1 DEF UrlEncodeByte
    <2>2. b \in Int /\ b # Percent /\ b # Plus /\ b \in Chars
      BY <1>1
    <2> QED BY <2>1, <2>2
  <1>2. CASE b = Space
    <2>1. UrlEncodeByte(b) = <<Plus>>
      BY <1>2 DEF UrlEncodeByte
    <2>2. Plus \in Int /\ Plus # Percent /\ Plus \in Chars
      OBVIOUS
    <2> QED BY <1>2, <2>1, <2>2
  <1>3. CASE b \notin Unreserved /\ b # Space
    <2> DEFINE h == ToHex(b \div 16)
               l == ToHex(b % 16)
    <2>1. UrlEncodeByte(b) = <<Percent, h, l>>
      BY <1>3 DEF UrlEncodeByte
    <2>2. \A d \in 0..15 : /\ ToHex(d) \in 48..57 \cup 65..70
                           /\ FromHex(ToHex(d)) = d
      BY DEF ToHex, FromHex
    <2>3. b \div 16 \in 0..15 /\ b % 16 \in 0..15 /\ b = (b \div 16) * 16 + (b % 16)
      OBVIOUS
    <2>4. /\ h \in 48..57 \cup 65..70 /\ l \in 48..57 \cup 65..70
          /\ FromHex(h) = b \div 16 /\ FromHex(l) = b % 16
      BY <2>2, <2>3
    <2> HIDE DEF h, l
    <2>5. b = Combined(FromHex(h), FromHex(l))
      BY <2>3, <2>4, CombinedDigits
    <2>6. h \in Int /\ l \in Int /\ {h, l} \subseteq Chars \ {Percent, Plus}
      BY <2>4
    <2> QED BY <2>1, <2>5, <2>6 DEF h, l
  <1> QED BY <1>1, <1>2, <1>3

(* The first n characters of code, an encoded beginning of str, decode to  *)
(* what CutEscape says.                                                    *)
CutAt(code, n, str) ==
  LET cut == UrlDecode(SubSeq(code, 1, n)) IN
  \/ IsPrefix(cut, str)
  \/ /\ n > 1 /\ cut # <<>>
     /\ code[n - 1] = Percent /\ Last(cut) = code[n] /\ IsPrefix(Front(cut), str)

(* What holds of the code c of the first n bytes of str. *)
EncodedSoFar(str, c, n) ==
  /\ c \in Seq(Int) /\ Complete(c) /\ Len(c) <= 3 * n
  /\ \A i \in 1..Len(c) : c[i] \in Chars
  /\ UrlDecode(c) = SubSeq(str, 1, n)
  /\ \A k \in 1..Len(c) : CutAt(c, k, str)

LEMMA PrefixOf ==
  ASSUME NEW s \in Seq(Int), NEW n \in 0..Len(s)
  PROVE  /\ SubSeq(s, 1, n) \in Seq(Int) /\ Len(SubSeq(s, 1, n)) = n
         /\ \A i \in 1..n : SubSeq(s, 1, n)[i] = s[i]
         /\ IsPrefix(SubSeq(s, 1, n), s)
         /\ n < Len(s) => SubSeq(s, 1, n + 1) = SubSeq(s, 1, n) \o <<s[n + 1]>>
  <1>1. /\ SubSeq(s, 1, n) \in Seq(Int) /\ Len(SubSeq(s, 1, n)) = n /\ n <= Len(s)
        /\ \A i \in 1..n : SubSeq(s, 1, n)[i] = s[i]
    OBVIOUS
  <1>2. SubSeq(SubSeq(s, 1, n), 1, n) = SubSeq(s, 1, n)
    BY <1>1, SubSeqFull
  <1>3. n < Len(s) => SubSeq(s, 1, n + 1) = SubSeq(s, 1, n) \o <<s[n + 1]>>
    <2> SUFFICES ASSUME n < Len(s)
                 PROVE  SubSeq(s, 1, n + 1) = SubSeq(s, 1, n) \o <<s[n + 1]>>
      OBVIOUS
    <2> DEFINE m == n + 1
    <2>1. 1 \in 1..Len(s) /\ m \in 1..Len(s) /\ m - 1 = n
      OBVIOUS
    <2> HIDE DEF m
    <2>2. SubSeq(s, 1, m) = SubSeq(s, 1, m - 1) \o <<s[m]>>
      BY <2>1, SubSeqRecursiveSecond
    <2> QED BY <2>1, <2>2 DEF m
  <1> QED BY <1>1, <1>2, <1>3 DEF IsPrefix

LEMMA BytesAreInt ==
  ASSUME NEW s \in Seq(0..255)
  PROVE  /\ s \in Seq(Int) /\ Len(s) \in Nat /\ DOMAIN s = 1..Len(s)
         /\ \A i \in 1..Len(s) : s[i] \in 0..255
  <1>1. 0..255 \subseteq Int
    OBVIOUS
  <1>2. s \in Seq(Int)
    BY <1>1, SeqMonotonic
  <1>3. Len(s) \in Nat /\ DOMAIN s = 1..Len(s)
    BY LenProperties
  <1>4. \A i \in 1..Len(s) : s[i] \in 0..255
    BY ElementOfSeq
  <1> QED BY <1>2, <1>3, <1>4

(* A cut within the code that was there before is a cut of that code. *)
LEMMA SameCut ==
  ASSUME NEW str \in Seq(Int), NEW c \in Seq(Int), NEW e \in Seq(Int),
         NEW k \in 1..Len(c), CutAt(c, k, str)
  PROVE  CutAt(c \o e, k, str)
  <1>1. SubSeq(c \o e, 1, k) = SubSeq(c, 1, k)
    BY SubSeqOfConcat1
  <1>2. (c \o e)[k] = c[k] /\ (k > 1 => (c \o e)[k - 1] = c[k - 1])
    <2>1. k > 1 => k - 1 \in 1..Len(c)
      OBVIOUS
    <2> QED BY <2>1, JoinedBegin
  <1> QED BY <1>1, <1>2 DEF CutAt

LEMMA PlainStep ==
  ASSUME NEW str \in Seq(Int), NEW n \in Nat, n < Len(str), NEW c, EncodedSoFar(str, c, n),
         NEW x \in Int, x # Percent, x \in Chars, str[n + 1] = IF x = Plus THEN Space ELSE x
  PROVE  EncodedSoFar(str, c \o <<x>>, n + 1)
  <1> DEFINE s == c \o <<x>>
             L == Len(c)
  <1>0. c \in Seq(Int) /\ Complete(c) /\ L <= 3 * n /\ L \in Nat
    BY DEF EncodedSoFar
  <1>a. \A i \in 1..L : c[i] \in Chars /\ CutAt(c, i, str)
    BY DEF EncodedSoFar
  <1>b. UrlDecode(c) = SubSeq(str, 1, n)
    BY DEF EncodedSoFar
  <1>e. <<x>> \in Seq(Int) /\ Len(<<x>>) = 1 /\ Len(<<x>>) >= 1 /\ <<x>>[1] = x
    OBVIOUS
  <1>1. s \in Seq(Int) /\ Len(s) = L + 1
    BY <1>0, <1>e, JoinedLen
  <1>d. s[L + 1] = x
    BY <1>0, <1>e, JoinedEnd
  <1>c. \A i \in 1..L : s[i] = c[i]
    BY <1>0, <1>e, JoinedBegin
  <1>2. n \in 0..Len(str) /\ n + 1 \in 0..Len(str)
    OBVIOUS
  <1>3. UrlDecode(s) = SubSeq(str, 1, n + 1) /\ Complete(s)
    <2>1. UrlDecode(s) = UrlDecode(c) \o <<IF x = Plus THEN Space ELSE x>> /\ Complete(s)
      BY <1>0, DecodePlain
    <2>2. SubSeq(str, 1, n + 1) = SubSeq(str, 1, n) \o <<str[n + 1]>>
      BY <1>2, PrefixOf
    <2> QED BY <1>b, <2>1, <2>2
  <1>4. \A k \in 1..L : CutAt(s, k, str)
    BY <1>0, <1>a, <1>e, SameCut
  <1> HIDE DEF s
  <1>5. CutAt(s, Len(s), str)
    <2>1. SubSeq(s, 1, Len(s)) = s
      BY <1>1, SubSeqFull
    <2>2. IsPrefix(SubSeq(str, 1, n + 1), str)
      BY <1>2, PrefixOf
    <2> QED BY <1>3, <2>1, <2>2 DEF CutAt
  <1>6. \A k \in 1..Len(s) : k \in 1..L \/ k = Len(s)
    BY <1>0, <1>1, Ranges
  <1>7. \A k \in 1..Len(s) : CutAt(s, k, str) /\ s[k] \in Chars
    <2> TAKE k \in 1..Len(s)
    <2>1. CASE k \in 1..L
      BY <1>4, <1>a, <1>c, <2>1
    <2>2. CASE k = Len(s)
      BY <1>1, <1>d, <1>5, <2>2
    <2> QED BY <1>6, <2>1, <2>2
  <1>8. Len(s) <= 3 * (n + 1)
    <2> HIDE DEF L
    <2> QED BY <1>0, <1>1
  <1> QED BY <1>1, <1>3, <1>7, <1>8 DEF EncodedSoFar, s

LEMMA ThreeOf ==
  ASSUME NEW t \in Seq(Int), Len(t) = 3, NEW x, NEW y, NEW z, t[1] = x, t[2] = y, t[3] = z
  PROVE  t = <<x, y, z>>
  OBVIOUS

LEMMA TuplesOfThree ==
  ASSUME NEW p \in Int, NEW h \in Int, NEW l \in Int
  PROVE  /\ <<p>> \o <<h, l>> = <<p, h, l>>
         /\ <<p, h>> \o <<l>> = <<p, h, l>>
  <1>1. <<p>> \o <<h, l>> = <<p, h, l>>
    <2> DEFINE a == <<p>>
               b == <<h, l>>
               t == a \o b
    <2>1. a \in Seq(Int) /\ Len(a) = 1 /\ 1 \in 1..Len(a) /\ a[1] = p
      OBVIOUS
    <2>2. b \in Seq(Int) /\ Len(b) = 2 /\ Len(b) >= 1 /\ Len(b) >= 2 /\ b[1] = h /\ b[2] = l
      OBVIOUS
    <2> HIDE DEF a, b
    <2>3. t[1] = p
      BY <2>1, <2>2, JoinedBegin
    <2>4. t[Len(a) + 1] = h /\ t[Len(a) + 2] = l
      BY <2>1, <2>2, JoinedEnd
    <2>5. t \in Seq(Int) /\ Len(t) = Len(a) + Len(b)
      BY <2>1, <2>2, JoinedLen
    <2> HIDE DEF t
    <2>6. Len(a) + 1 = 2 /\ Len(a) + 2 = 3 /\ Len(a) + Len(b) = 3
      BY <2>1, <2>2
    <2>7. t = <<p, h, l>>
      BY <2>3, <2>4, <2>5, <2>6, ThreeOf
    <2> QED BY <2>7 DEF a, b, t
  <1>2. <<p, h>> \o <<l>> = <<p, h, l>>
    <2> DEFINE a == <<p, h>>
               b == <<l>>
               t == a \o b
    <2>1. /\ a \in Seq(Int) /\ Len(a) = 2 /\ 1 \in 1..Len(a) /\ 2 \in 1..Len(a)
          /\ a[1] = p /\ a[2] = h
      OBVIOUS
    <2>2. b \in Seq(Int) /\ Len(b) = 1 /\ Len(b) >= 1 /\ b[1] = l
      OBVIOUS
    <2> HIDE DEF a, b
    <2>3. t[1] = p /\ t[2] = h
      BY <2>1, <2>2, JoinedBegin
    <2>4. t[Len(a) + 1] = l
      BY <2>1, <2>2, JoinedEnd
    <2>5. t \in Seq(Int) /\ Len(t) = Len(a) + Len(b)
      BY <2>1, <2>2, JoinedLen
    <2> HIDE DEF t
    <2>6. Len(a) + 1 = 3 /\ Len(a) + Len(b) = 3
      BY <2>1, <2>2
    <2>7. t = <<p, h, l>>
      BY <2>3, <2>4, <2>5, <2>6, ThreeOf
    <2> QED BY <2>7 DEF a, b, t
  <1> QED BY <1>1, <1>2

LEMMA Associative ==
  ASSUME NEW a \in Seq(Int), NEW b \in Seq(Int), NEW c \in Seq(Int)
  PROVE  (a \o b) \o c = a \o (b \o c)
  BY ConcatAssociative

LEMMA EscapeStep ==
  ASSUME NEW str \in Seq(Int), NEW n \in Nat, n < Len(str), NEW c, EncodedSoFar(str, c, n),
         NEW h \in Int, NEW l \in Int, {h, l} \subseteq Chars \ {Percent, Plus},
         str[n + 1] = Combined(FromHex(h), FromHex(l))
  PROVE  EncodedSoFar(str, c \o <<Percent, h, l>>, n + 1)
  <1> DEFINE e == <<Percent, h, l>>
             s == c \o e
             L == Len(c)
             P == SubSeq(str, 1, n)
  <1>0. c \in Seq(Int) /\ Complete(c) /\ L <= 3 * n /\ L \in Nat
    BY DEF EncodedSoFar
  <1>a. \A i \in 1..L : c[i] \in Chars /\ CutAt(c, i, str)
    BY DEF EncodedSoFar
  <1>b. UrlDecode(c) = P
    BY DEF EncodedSoFar
  <1>1. Percent \in Int /\ Percent \in Chars
    BY DEF Percent, Chars
  <1>e. /\ e \in Seq(Int) /\ Len(e) = 3 /\ e[1] = Percent /\ e[2] = h /\ e[3] = l
        /\ Len(e) >= 1 /\ Len(e) >= 2 /\ Len(e) >= 3
    BY <1>1
  <1> HIDE DEF e
  <1>2. s \in Seq(Int) /\ Len(s) = L + 3
    <2>1. s \in Seq(Int) /\ Len(s) = L + Len(e)
      BY <1>0, <1>e, JoinedLen
    <2> HIDE DEF s
    <2> QED BY <1>e, <2>1
  <1>d. s[L + 1] = Percent /\ s[L + 2] = h /\ s[L + 3] = l
    <2>1. s[L + 1] = e[1]
      BY <1>0, <1>e, JoinedEnd
    <2>2. s[L + 2] = e[2]
      BY <1>0, <1>e, JoinedEnd
    <2>3. s[L + 3] = e[3]
      BY <1>0, <1>e, JoinedEnd
    <2> HIDE DEF s
    <2> QED BY <1>e, <2>1, <2>2, <2>3
  <1>c. \A i \in 1..L : s[i] = c[i]
    BY <1>0, <1>e, JoinedBegin
  <1>3. n \in 0..Len(str) /\ n + 1 \in 0..Len(str)
    OBVIOUS
  <1>4. UrlDecode(s) = SubSeq(str, 1, n + 1) /\ Complete(s)
    <2>3. h # Percent /\ l # Percent
      OBVIOUS
    <2>1. /\ UrlDecode(s) = UrlDecode(c) \o <<Combined(FromHex(h), FromHex(l))>>
          /\ Complete(s)
      <3>1. EscapeBehind(c, h, l)
        BY <1>0, <2>3, DecodeEscape
      <3> QED BY <3>1 DEF EscapeBehind, e
    <2>2. SubSeq(str, 1, n + 1) = SubSeq(str, 1, n) \o <<str[n + 1]>>
      BY <1>3, PrefixOf
    <2> QED BY <1>b, <2>1, <2>2
  <1>5. P \in Seq(Int) /\ Len(P) = n /\ IsPrefix(P, str)
    BY <1>3, PrefixOf
  <1>6. \A k \in 1..L : CutAt(s, k, str)
    BY <1>0, <1>a, <1>e, SameCut
  <1>7. SubSeq(s, 1, L + 1) = c \o <<Percent>> /\ SubSeq(s, 1, L + 2) = c \o <<Percent, h>>
    <2> DEFINE x == c \o <<Percent>>
               y == c \o <<Percent, h>>
    <2>1. <<Percent>> \in Seq(Int) /\ <<h, l>> \in Seq(Int) /\ Len(<<Percent>>) = 1
      BY <1>1
    <2>2. <<Percent, h>> \in Seq(Int) /\ <<l>> \in Seq(Int) /\ Len(<<Percent, h>>) = 2
      BY <1>1
    <2>3. <<Percent>> \o <<h, l>> = e /\ <<Percent, h>> \o <<l>> = e
      BY <1>1, TuplesOfThree DEF e
    <2>4. (c \o <<Percent>>) \o <<h, l>> = c \o (<<Percent>> \o <<h, l>>)
      BY <1>0, <2>1, Associative
    <2>5. (c \o <<Percent, h>>) \o <<l>> = c \o (<<Percent, h>> \o <<l>>)
      BY <1>0, <2>2, Associative
    <2>b. s = x \o <<h, l>> /\ s = y \o <<l>>
      BY <2>3, <2>4, <2>5
    <2>6. x \in Seq(Int) /\ Len(x) = L + 1
      BY <1>0, <2>1, JoinedLen
    <2>7. y \in Seq(Int) /\ Len(y) = L + 2
      BY <1>0, <2>2, JoinedLen
    <2>a. x # <<>> /\ y # <<>>
      <3> HIDE DEF x, y, L
      <3> QED BY <1>0, <2>6, <2>7, EmptySeq
    <2> HIDE DEF s, x, y
    <2>8. SubSeq(s, 1, L + 1) = x
      BY <2>1, <2>b, <2>6, <2>a, BeginningOf
    <2>9. SubSeq(s, 1, L + 2) = y
      BY <2>2, <2>b, <2>7, <2>a, BeginningOf
    <2> QED BY <2>8, <2>9 DEF x, y
  <1> HIDE DEF s, P
  <1>8. CutAt(s, L + 1, str)
    <2>1. UrlDecode(SubSeq(s, 1, L + 1)) = P
      BY <1>0, <1>7, <1>b, DecodeCut
    <2> QED BY <1>5, <2>1 DEF CutAt
  <1>9. CutAt(s, L + 2, str)
    <2> DEFINE cut == P \o <<h>>
    <2>1. UrlDecode(SubSeq(s, 1, L + 2)) = cut
      BY <1>0, <1>7, <1>b, DecodeCut
    <2>2. <<h>> \in Seq(Int) /\ Len(<<h>>) = 1 /\ Len(<<h>>) >= 1 /\ <<h>>[1] = h
      OBVIOUS
    <2>6. cut \in Seq(Int) /\ Len(cut) = n + 1
      BY <1>5, <2>2, JoinedLen
    <2>7. cut[n + 1] = h
      BY <1>5, <2>2, JoinedEnd
    <2>3. cut # <<>> /\ Last(cut) = h
      <3> HIDE DEF cut
      <3> QED BY <2>6, <2>7, EmptySeq DEF Last
    <2>4. Front(cut) = P
      <3>1. SubSeq(cut, 1, n) = P
        <4>1. CASE n = 0
          <5>1. P = <<>>
            BY <1>5, <4>1, EmptySeq
          <5> QED BY <4>1, <5>1, SubSeqEmpty
        <4>2. CASE n > 0
          <5>1. P # <<>>
            BY <1>5, <4>2, EmptySeq
          <5> QED BY <1>5, <2>2, <5>1, BeginningOf
        <4> QED BY <4>1, <4>2
      <3>2. Len(cut) - 1 = n
        BY <2>6
      <3> QED BY <3>1, <3>2 DEF Front
    <2>5. L + 2 > 1 /\ (L + 2) - 1 = L + 1
      BY <1>0
    <2> HIDE DEF cut
    <2> QED BY <1>d, <1>5, <2>1, <2>3, <2>4, <2>5 DEF CutAt
  <1>10. CutAt(s, L + 3, str)
    <2>1. SubSeq(s, 1, L + 3) = s
      BY <1>2, SubSeqFull
    <2>2. IsPrefix(SubSeq(str, 1, n + 1), str)
      BY <1>3, PrefixOf
    <2> QED BY <1>4, <2>1, <2>2 DEF CutAt
  <1>11. \A k \in 1..Len(s) : k \in 1..L \/ k = L + 1 \/ k = L + 2 \/ k = L + 3
    BY <1>0, <1>2, Ranges
  <1>12. \A k \in 1..Len(s) : CutAt(s, k, str) /\ s[k] \in Chars
    <2> TAKE k \in 1..Len(s)
    <2>1. CASE k \in 1..L
      BY <1>6, <1>a, <1>c, <2>1
    <2>2. CASE k = L + 1
      BY <1>1, <1>d, <1>8, <2>2
    <2>3. CASE k = L + 2
      BY <1>d, <1>9, <2>3
    <2>4. CASE k = L + 3
      BY <1>d, <1>10, <2>4
    <2> QED BY <1>11, <2>1, <2>2, <2>3, <2>4
  <1>13. Len(s) <= 3 * (n + 1)
    <2>1. Len(s) = L + 3 /\ L <= 3 * n /\ L \in Nat
      BY <1>0, <1>2
    <2> HIDE DEF L
    <2> QED BY <2>1
  <1> QED BY <1>2, <1>4, <1>12, <1>13 DEF EncodedSoFar, s, e

LEMMA UrlEncoded ==
  ASSUME NEW str \in Seq(0..255)
  PROVE  EncodedSoFar(str, UrlEncode(str), Len(str))
  <1> DEFINE enc == [i \in DOMAIN str |-> UrlEncodeByte(str[i])]
             T == {n \in Nat : n <= Len(str) => EncodedSoFar(str, Flattened(enc, n), n)}
  <1>1. /\ str \in Seq(Int) /\ Len(str) \in Nat /\ DOMAIN str = 1..Len(str)
        /\ \A i \in 1..Len(str) : str[i] \in 0..255
    BY BytesAreInt
  <1>2. \A b \in 0..255 : UrlEncodeByte(b) \in Seq(Int)
    <2> TAKE b \in 0..255
    <2>1. CASE \E x \in Int : UrlEncodeByte(b) = <<x>>
      BY <2>1
    <2>2. CASE \E h, l \in Int : UrlEncodeByte(b) = <<Percent, h, l>>
      BY <2>2 DEF Percent
    <2> QED BY <2>1, <2>2, EncodedByte
  <1>3. /\ enc \in Seq(Seq(Int)) /\ Len(enc) = Len(str)
        /\ \A i \in 1..Len(str) : enc[i] = UrlEncodeByte(str[i])
    <2>1. enc \in [1..Len(str) -> Seq(Int)]
      BY <1>1, <1>2
    <2> QED BY <1>1, <2>1
  <1>4. UrlEncode(str) = FlattenSeq(enc)
    BY DEF UrlEncode
  <1> HIDE DEF enc
  <1>5. Flattened(enc, 0) = <<>> /\ Flattened(enc, Len(str)) = UrlEncode(str)
    BY <1>3, <1>4, FlattenPrefixes
  <1>6. \A n \in Nat : n < Len(str) => Flattened(enc, n + 1) = Flattened(enc, n) \o enc[n + 1]
    BY <1>3, FlattenPrefixes
  <1>7. 0 \in T
    <2>1. <<>> \in Seq(Int) /\ Len(<<>>) = 0 /\ Complete(<<>>)
      BY DEF Complete
    <2>2. UrlDecode(<<>>) = <<>>
      <3>1. UrlDecode(<<>>) \in Seq(Int) /\ Len(UrlDecode(<<>>)) <= 0
        BY <2>1, DecodedShort
      <3> QED BY <3>1
    <2>3. SubSeq(str, 1, 0) = <<>>
      BY SubSeqEmpty
    <2>4. EncodedSoFar(str, <<>>, 0)
      <3>1. 0 <= 3 * 0 /\ \A i \in 1..0 : FALSE
        OBVIOUS
      <3> QED BY <2>1, <2>2, <2>3, <3>1 DEF EncodedSoFar
    <2> QED BY <1>5, <2>4
  <1>8. ASSUME NEW n \in Nat, n \in T PROVE n + 1 \in T
    <2> SUFFICES ASSUME n + 1 <= Len(str) PROVE EncodedSoFar(str, Flattened(enc, n + 1), n + 1)
      OBVIOUS
    <2> DEFINE c == Flattened(enc, n)
               b == str[n + 1]
    <2>1. n < Len(str) /\ n + 1 \in 1..Len(str) /\ b \in 0..255
      BY <1>1
    <2>2. EncodedSoFar(str, c, n)
      BY <1>1, <1>8, <2>1
    <2>3. Flattened(enc, n + 1) = c \o UrlEncodeByte(b)
      BY <1>3, <1>6, <2>1
    <2> HIDE DEF c, T
    <2>6. b = str[n + 1]
      OBVIOUS
    <2> HIDE DEF b
    <2>4. CASE \E x \in Int : /\ UrlEncodeByte(b) = <<x>> /\ x # Percent /\ x \in Chars
                              /\ b = IF x = Plus THEN Space ELSE x
      <3>1. PICK x \in Int : /\ UrlEncodeByte(b) = <<x>> /\ x # Percent /\ x \in Chars
                             /\ b = IF x = Plus THEN Space ELSE x
        BY <2>4
      <3>2. EncodedSoFar(str, c \o <<x>>, n + 1)
        BY <1>1, <2>1, <2>2, <2>6, <3>1, PlainStep
      <3> QED BY <2>3, <3>1, <3>2
    <2>5. CASE \E h, l \in Int :
                 /\ UrlEncodeByte(b) = <<Percent, h, l>>
                 /\ b = Combined(FromHex(h), FromHex(l))
                 /\ {h, l} \subseteq Chars \ {Percent, Plus}
      <3>1. PICK h, l \in Int : /\ UrlEncodeByte(b) = <<Percent, h, l>>
                                /\ b = Combined(FromHex(h), FromHex(l))
                                /\ {h, l} \subseteq Chars \ {Percent, Plus}
        BY <2>5
      <3>2. EncodedSoFar(str, c \o <<Percent, h, l>>, n + 1)
        BY <1>1, <2>1, <2>2, <2>6, <3>1, EscapeStep
      <3> QED BY <2>3, <3>1, <3>2
    <2>7. \/ \E x \in Int : /\ UrlEncodeByte(b) = <<x>> /\ x # Percent /\ x \in Chars
                           /\ b = IF x = Plus THEN Space ELSE x
          \/ \E h, l \in Int :
               /\ UrlEncodeByte(b) = <<Percent, h, l>> /\ b = Combined(FromHex(h), FromHex(l))
               /\ {h, l} \subseteq Chars \ {Percent, Plus}
      BY <2>1, EncodedByte
    <2>8. EncodedSoFar(str, Flattened(enc, n + 1), n + 1)
      BY <2>4, <2>5, <2>7
    <2> QED BY <2>8
  <1> HIDE DEF T
  <1>9. Len(str) \in T
    BY <1>1, <1>7, <1>8, Induction
  <1> QED BY <1>1, <1>5, <1>9 DEF T

-----------------------------------------------------------------------------
(* The strings.                                                            *)

StringType == bytes \in Seq(0..255)

LEMMA StringsType == Strings => []StringType
  <1>1. InitBytes => StringType
    BY DEF InitBytes, StringType
  <1>2. StringType /\ [AddByte]_bytes => StringType'
    <2>1. \A s \in Seq(0..255), b \in 0..255 : Append(s, b) \in Seq(0..255)
      OBVIOUS
    <2> QED BY <2>1, BytesType DEF StringType, AddByte
  <1> QED BY <1>1, <1>2, PTL DEF Strings

(* UrlEncode and UrlDecode undo each other, keep within their buffers and  *)
(* to the characters of a URL: for strings of every length.                *)
THEOREM UrlRoundTripHolds == Strings => []UrlRoundTrip
  <1>1. StringType => UrlRoundTrip
    <2> SUFFICES ASSUME StringType PROVE UrlRoundTrip
      OBVIOUS
    <2> DEFINE code == UrlEncode(bytes)
    <2>1. bytes \in Seq(0..255) /\ bytes \in Seq(Int) /\ Len(bytes) \in Nat
      BY BytesAreInt DEF StringType
    <2>2. EncodedSoFar(bytes, code, Len(bytes))
      BY <2>1, UrlEncoded
    <2>3. UrlDecode(code) = bytes
      BY <2>1, <2>2, SubSeqFull DEF EncodedSoFar
    <2>4. ToSet(code) \subseteq Unreserved \cup {Plus, Percent}
      <3>1. code \in Seq(Int) /\ \A i \in 1..Len(code) : code[i] \in Chars
        BY <2>2 DEF EncodedSoFar
      <3> HIDE DEF code
      <3>2. \A i \in DOMAIN code : code[i] \in Chars
        BY <3>1
      <3> QED BY <3>2 DEF ToSet, Chars
    <2>5. Len(code) <= 3 * Len(bytes)
      BY <2>2 DEF EncodedSoFar
    <2>6. Len(UrlDecode(bytes)) <= Len(bytes)
      BY <2>1, DecodedShort
    <2> QED BY <2>3, <2>4, <2>5, <2>6 DEF UrlRoundTrip
  <1> QED BY <1>1, StringsType, PTL

(* Wherever an encoded string is cut off, it decodes to a beginning of the *)
(* original, but for one digit at most.                                    *)
THEOREM CutEscapeHolds == Strings => []CutEscape
  <1>1. StringType => CutEscape
    <2> SUFFICES ASSUME StringType PROVE CutEscape
      OBVIOUS
    <2> DEFINE code == UrlEncode(bytes)
    <2>1. EncodedSoFar(bytes, code, Len(bytes))
      BY UrlEncoded DEF StringType
    <2>2. code \in Seq(Int) /\ \A n \in 1..Len(code) : CutAt(code, n, bytes)
      BY <2>1 DEF EncodedSoFar
    <2> HIDE DEF code
    <2>3. \A n \in DOMAIN code : CutAt(code, n, bytes)
      BY <2>2
    <2> QED BY <2>3 DEF CutEscape, CutAt, code
  <1> QED BY <1>1, StringsType, PTL

-----------------------------------------------------------------------------
(* base64: the digits of a string.                                         *)

(* The four digits of the group that begins at byte x; behind the end of   *)
(* the string there are zeros.                                             *)
Quad(data, x) ==
  LET a == At(data, x)  b == At(data, x + 1)  c == At(data, x + 2)
  IN <<a \div 4, (a % 4) * 16 + b \div 16, (b % 16) * 4 + c \div 64, c % 64>>

Digit(data, k) == Quad(data, 3 * ((k - 1) \div 4) + 1)[((k - 1) % 4) + 1]

(* c has the first digits of data. *)
IsDigits(c, data) == c \in Seq(Int) /\ \A k \in 1..Len(c) : c[k] = Digit(data, k)

LEMMA AtType ==
  ASSUME NEW data \in Seq(0..255), NEW x \in Int
  PROVE  /\ At(data, x) \in 0..255
         /\ x > Len(data) => At(data, x) = 0
         /\ x \in 1..Len(data) => At(data, x) = data[x]
  <1>1. Len(data) \in Nat /\ \A i \in 1..Len(data) : data[i] \in 0..255
    BY BytesAreInt
  <1>2. CASE x \in 1..Len(data)
    BY <1>1, <1>2 DEF At
  <1>3. CASE x \notin 1..Len(data)
    BY <1>1, <1>3 DEF At
  <1> QED BY <1>2, <1>3

LEMMA BytesAt ==
  ASSUME NEW data \in Seq(0..255), NEW x \in Int
  PROVE  At(data, x) \in 0..255 /\ At(data, x + 1) \in 0..255 /\ At(data, x + 2) \in 0..255
  <1>1. x + 1 \in Int /\ x + 2 \in Int
    OBVIOUS
  <1> QED BY <1>1, AtType

LEMMA QuadType ==
  ASSUME NEW data \in Seq(0..255), NEW x \in Int
  PROVE  /\ Quad(data, x) \in Seq(Int) /\ Len(Quad(data, x)) = 4
         /\ \A j \in 1..4 : Quad(data, x)[j] \in 0..63
  <1> DEFINE a == At(data, x)
             b == At(data, x + 1)
             c == At(data, x + 2)
             q == <<a \div 4, (a % 4) * 16 + b \div 16, (b % 16) * 4 + c \div 64, c % 64>>
  <1>1. a \in 0..255 /\ b \in 0..255 /\ c \in 0..255
    BY BytesAt
  <1> HIDE DEF a, b, c
  <1>2. /\ a \div 4 \in 0..63 /\ (a % 4) * 16 + b \div 16 \in 0..63
        /\ (b % 16) * 4 + c \div 64 \in 0..63 /\ c % 64 \in 0..63
    BY <1>1
  <1>3. q \in Seq(Int) /\ Len(q) = 4 /\ \A j \in 1..4 : q[j] \in 0..63
    <2>1. \A w, y, z, v \in 0..63 :
            /\ <<w, y, z, v>> \in Seq(Int) /\ Len(<<w, y, z, v>>) = 4
            /\ \A j \in 1..4 : <<w, y, z, v>>[j] \in 0..63
      OBVIOUS
    <2> QED BY <1>2, <2>1
  <1>4. Quad(data, x) = q
    BY DEF Quad, a, b, c
  <1> HIDE DEF q
  <1> QED BY <1>3, <1>4

LEMMA DigitsAppend ==
  ASSUME NEW data \in Seq(0..255), NEW g \in Nat, NEW c, IsDigits(c, data), Len(c) = 4 * g,
         NEW e \in Seq(Int), Len(e) <= 4, \A j \in 1..Len(e) : e[j] = Quad(data, 3 * g + 1)[j]
  PROVE  IsDigits(c \o e, data) /\ Len(c \o e) = 4 * g + Len(e)
  <1>1. /\ c \in Seq(Int) /\ Len(e) \in Nat /\ \A k \in 1..Len(c) : c[k] = Digit(data, k)
    BY DEF IsDigits
  <1> DEFINE s == c \o e
  <1>2. /\ s \in Seq(Int) /\ Len(s) = 4 * g + Len(e)
        /\ \A k \in 1..(4 * g) : s[k] = c[k]
        /\ \A j \in 1..Len(e) : s[4 * g + j] = e[j]
    <2>1. \A k \in 1..(Len(c) + Len(e)) : s[k] = IF k <= Len(c) THEN c[k] ELSE e[k - Len(c)]
      BY <1>1, JoinedAll
    <2>4. s \in Seq(Int) /\ Len(s) = Len(c) + Len(e)
      BY <1>1, JoinedLen
    <2> HIDE DEF s
    <2>2. ASSUME NEW j \in 1..Len(e) PROVE s[4 * g + j] = e[j]
      <3> DEFINE k == 4 * g + j
      <3>1. k \in 1..(Len(c) + Len(e)) /\ ~(k <= Len(c)) /\ k - Len(c) = j
        <4> DEFINE E == Len(e)
        <4>1. E \in Nat /\ j \in 1..E /\ Len(c) = 4 * g
          BY <1>1
        <4> HIDE DEF E
        <4>2. k \in 1..(4 * g + E) /\ ~(k <= 4 * g) /\ k - 4 * g = j
          BY <4>1
        <4> QED BY <4>1, <4>2 DEF E
      <3> HIDE DEF k
      <3>2. s[k] = e[j]
        BY <2>1, <3>1
      <3> QED BY <3>2 DEF k
    <2>3. ASSUME NEW k \in 1..(4 * g) PROVE s[k] = c[k]
      <3>1. k \in 1..(Len(c) + Len(e)) /\ k <= Len(c)
        BY <1>1
      <3> QED BY <2>1, <3>1
    <2>5. Len(s) = 4 * g + Len(e)
      BY <2>4
    <2> QED BY <2>2, <2>3, <2>4, <2>5
  <1> HIDE DEF s
  <1>3. ASSUME NEW k \in 1..Len(s) PROVE s[k] = Digit(data, k)
    <2>1. CASE k <= 4 * g
      <3>1. k \in 1..(4 * g) /\ k \in 1..Len(c)
        BY <2>1
      <3> QED BY <1>1, <1>2, <3>1
    <2>2. CASE k > 4 * g
      <3> DEFINE j == k - 4 * g
      <3>1. j \in 1..Len(e) /\ j \in 1..4 /\ k = 4 * g + j
        BY <1>1, <1>2, <2>2
      <3>2. (k - 1) \div 4 = g /\ ((k - 1) % 4) + 1 = j
        <4> HIDE DEF j
        <4>1. j = 1 \/ j = 2 \/ j = 3 \/ j = 4
          BY <3>1
        <4>2. k = 4 * g + j
          BY <3>1
        <4>3. CASE j = 1
          BY <4>2, <4>3
        <4>4. CASE j = 2
          BY <4>2, <4>4
        <4>5. CASE j = 3
          BY <4>2, <4>5
        <4>6. CASE j = 4
          BY <4>2, <4>6
        <4> QED BY <4>1, <4>3, <4>4, <4>5, <4>6
      <3>3. s[k] = e[j] /\ e[j] = Quad(data, 3 * g + 1)[j]
        BY <1>2, <3>1
      <3> HIDE DEF j
      <3> QED BY <3>2, <3>3 DEF Digit
    <2> QED BY <2>1, <2>2, <1>2
  <1> QED BY <1>2, <1>3 DEF IsDigits, s

(* The characters of a string of n bytes, and the groups they are in. *)
Size(n) == (8 * n + 5) \div 6

LEMMA Sizes ==
  ASSUME NEW n \in Nat
  PROVE  LET m == n \div 3  G == (n + 2) \div 3
         IN /\ m \in Nat /\ G \in Nat /\ Size(n) \in Nat
            /\ \/ n = 3 * m /\ n % 3 = 0 /\ G = m /\ Size(n) = 4 * m
               \/ n = 3 * m + 1 /\ n % 3 = 1 /\ G = m + 1 /\ Size(n) = 4 * m + 2
               \/ n = 3 * m + 2 /\ n % 3 = 2 /\ G = m + 1 /\ Size(n) = 4 * m + 3
            /\ Padding(n) \in Seq(Int) /\ Len(Padding(n)) = 4 * G - Size(n)
            /\ \A i \in 1..Len(Padding(n)) : Padding(n)[i] = Pad
  <1> DEFINE m == n \div 3
             G == (n + 2) \div 3
             d == (3 - (n % 3)) % 3
  <1>1. /\ m \in Nat /\ G \in Nat /\ Size(n) \in Nat
        /\ \/ n = 3 * m /\ n % 3 = 0 /\ G = m /\ Size(n) = 4 * m
           \/ n = 3 * m + 1 /\ n % 3 = 1 /\ G = m + 1 /\ Size(n) = 4 * m + 2
           \/ n = 3 * m + 2 /\ n % 3 = 2 /\ G = m + 1 /\ Size(n) = 4 * m + 3
    BY DEF Size
  <1>2. d = 4 * G - Size(n) /\ d \in Nat
    <2> HIDE DEF m, G
    <2> QED BY <1>1
  <1>3. Padding(n) = [i \in 1..d |-> Pad]
    BY DEF Padding
  <1> HIDE DEF d
  <1>4. /\ Padding(n) \in Seq(Int) /\ Len(Padding(n)) = d
        /\ \A i \in 1..Len(Padding(n)) : Padding(n)[i] = Pad
    BY <1>2, <1>3 DEF Pad
  <1> QED BY <1>1, <1>2, <1>4

(* The number of a group cut in four has the digits of the group. *)
LEMMA GroupDigits ==
  ASSUME NEW data \in Seq(0..255), NEW x \in 1..Len(data)
  PROVE  LET n == Characters(data, x)
         IN /\ n = (IF x + 2 <= Len(data) THEN 4 ELSE IF x + 1 = Len(data) THEN 3 ELSE 2)
            /\ Group(data, x) \in Seq(Int) /\ Len(Group(data, x)) = n
            /\ \A j \in 1..n : Group(data, x)[j] = Quad(data, x)[j]
  <1> DEFINE a == At(data, x)
             b == At(data, x + 1)
             c == At(data, x + 2)
             n == a * 65536 + b * 256 + c
             k == Characters(data, x)
  <1>1. a \in 0..255 /\ b \in 0..255 /\ c \in 0..255
    BY BytesAt
  <1>2. k = (IF x + 2 <= Len(data) THEN 4 ELSE IF x + 1 = Len(data) THEN 3 ELSE 2) /\ k \in 2..4
    <2>1. Len(data) \in Nat
      BY BytesAreInt
    <2>2. CASE x + 2 <= Len(data)
      BY <2>1, <2>2 DEF Characters
    <2>3. CASE x + 1 = Len(data)
      BY <2>1, <2>3 DEF Characters
    <2>4. CASE x = Len(data)
      BY <2>1, <2>4 DEF Characters
    <2> QED BY <2>1, <2>2, <2>3, <2>4
  <1>3. /\ n \div 262144 = a \div 4
        /\ (n \div 4096) % 64 = (a % 4) * 16 + b \div 16
        /\ (n \div 64) % 64 = (b % 16) * 4 + c \div 64
        /\ n % 64 = c % 64
    <2> HIDE DEF a, b, c
    <2>1. n \div 262144 = a \div 4
      BY <1>1
    <2>2. n \div 4096 = a * 16 + b \div 16
      BY <1>1
    <2>3. n \div 64 = a * 1024 + b * 4 + c \div 64
      BY <1>1
    <2>4. (a * 16 + b \div 16) % 64 = (a % 4) * 16 + b \div 16
      BY <1>1
    <2>5. (a * 1024 + b * 4 + c \div 64) % 64 = (b % 16) * 4 + c \div 64
      BY <1>1
    <2>6. n % 64 = c % 64
      BY <1>1
    <2> HIDE DEF n
    <2> QED BY <2>1, <2>2, <2>3, <2>4, <2>5, <2>6
  <1>4. Group(data, x) = SubSeq(Quad(data, x), 1, k)
    <2> DEFINE p == <<n \div 262144, (n \div 4096) % 64, (n \div 64) % 64, n % 64>>
               q == <<a \div 4, (a % 4) * 16 + b \div 16, (b % 16) * 4 + c \div 64, c % 64>>
    <2>1. Group(data, x) = SubSeq(p, 1, k) /\ Quad(data, x) = q
      BY DEF Group, Quad
    <2> HIDE DEF n, a, b, c, k
    <2>2. p = q
      BY <1>3
    <2> HIDE DEF p, q
    <2> QED BY <2>1, <2>2
  <1>5. /\ SubSeq(Quad(data, x), 1, k) \in Seq(Int) /\ Len(SubSeq(Quad(data, x), 1, k)) = k
        /\ \A j \in 1..k : SubSeq(Quad(data, x), 1, k)[j] = Quad(data, x)[j]
    <2>0. k \in 0..4
      <3> HIDE DEF k
      <3> QED BY <1>2
    <2>1. Quad(data, x) \in Seq(Int) /\ k \in 0..Len(Quad(data, x))
      <3> HIDE DEF k
      <3>1. x \in Int
        OBVIOUS
      <3>2. Quad(data, x) \in Seq(Int) /\ Len(Quad(data, x)) = 4
        BY <3>1, QuadType
      <3> QED BY <2>0, <3>2
    <2> HIDE DEF k
    <2> QED BY <2>1, PrefixOf
  <1> QED BY <1>2, <1>4, <1>5

(* base64encode: the digits, and the padding. *)
LEMMA Base64Digits ==
  ASSUME NEW data \in Seq(0..255)
  PROVE  \E f : /\ IsDigits(f, data) /\ Len(f) = Size(Len(data))
                /\ Base64(data) = f \o Padding(Len(data))
  <1> DEFINE N == Len(data)
             G == (N + 2) \div 3
             s == [g \in 1..G |-> Group(data, 3 * g - 2)]
             T == {g \in Nat : g <= G =>
                     /\ IsDigits(Flattened(s, g), data)
                     /\ Len(Flattened(s, g)) = IF g = G THEN Size(N) ELSE 4 * g}
  <1>0. N \in Nat
    BY BytesAreInt
  <1>1. /\ G \in Nat /\ Size(N) \in Nat /\ (G = 0 => Size(N) = 0)
        /\ \A g \in 1..G : 3 * g - 2 \in 1..N
        /\ \A g \in Nat : g + 1 = G =>
             Size(N) = 4 * g + (IF 3 * g + 3 <= N THEN 4 ELSE IF 3 * g + 2 = N THEN 3 ELSE 2)
        /\ \A g \in Nat : g + 1 < G => 3 * g + 3 <= N
    <2> DEFINE m == N \div 3
    <2>1. /\ m \in Nat /\ G \in Nat /\ Size(N) \in Nat
          /\ \/ N = 3 * m /\ G = m /\ Size(N) = 4 * m
             \/ N = 3 * m + 1 /\ G = m + 1 /\ Size(N) = 4 * m + 2
             \/ N = 3 * m + 2 /\ G = m + 1 /\ Size(N) = 4 * m + 3
      BY <1>0, Sizes
    <2> HIDE DEF m, G, N
    <2>2. G = 0 => Size(N) = 0
      BY <1>0, <2>1
    <2>3. \A g \in 1..G : 3 * g - 2 \in 1..N
      BY <1>0, <2>1
    <2>4. ASSUME NEW g \in Nat, g + 1 = G
          PROVE  Size(N) = 4 * g + (IF 3 * g + 3 <= N THEN 4 ELSE IF 3 * g + 2 = N THEN 3 ELSE 2)
      <3>1. CASE N = 3 * m /\ G = m /\ Size(N) = 4 * m
        <4>1. 3 * g + 3 <= N /\ Size(N) = 4 * g + 4
          BY <1>0, <2>1, <2>4, <3>1
        <4> QED BY <4>1
      <3>2. CASE N = 3 * m + 1 /\ G = m + 1 /\ Size(N) = 4 * m + 2
        <4>1. ~(3 * g + 3 <= N) /\ 3 * g + 2 # N /\ Size(N) = 4 * g + 2
          BY <1>0, <2>1, <2>4, <3>2
        <4> QED BY <4>1
      <3>3. CASE N = 3 * m + 2 /\ G = m + 1 /\ Size(N) = 4 * m + 3
        <4>1. ~(3 * g + 3 <= N) /\ 3 * g + 2 = N /\ Size(N) = 4 * g + 3
          BY <1>0, <2>1, <2>4, <3>3
        <4> QED BY <4>1
      <3> QED BY <2>1, <3>1, <3>2, <3>3
    <2>5. \A g \in Nat : g + 1 < G => 3 * g + 3 <= N
      BY <1>0, <2>1
    <2> QED BY <2>1, <2>2, <2>3, <2>4, <2>5
  <1> HIDE DEF N, G
  <1>2. ASSUME NEW g \in 1..G
        PROVE  Group(data, 3 * g - 2) \in Seq(Int)
    <2>1. 3 * g - 2 \in 1..Len(data)
      BY <1>1 DEF N
    <2> QED BY <2>1, GroupDigits
  <1>3. s \in Seq(Seq(Int)) /\ Len(s) = G /\ \A g \in 1..G : s[g] = Group(data, 3 * g - 2)
    <2>1. s \in [1..G -> Seq(Int)]
      BY <1>2
    <2> QED BY <1>1, <2>1
  <1>4. Base64(data) = FlattenSeq(s) \o Padding(N)
    BY DEF Base64, N, G
  <1> HIDE DEF s
  <1>5. /\ Flattened(s, 0) = <<>> /\ Flattened(s, G) = FlattenSeq(s)
        /\ \A g \in Nat : g < G => Flattened(s, g + 1) = Flattened(s, g) \o s[g + 1]
    BY <1>3, FlattenPrefixes
  <1>6. 0 \in T
    <2>1. IsDigits(<<>>, data) /\ Len(<<>>) = 0
      BY DEF IsDigits
    <2> QED BY <1>1, <1>5, <2>1
  <1>7. ASSUME NEW g \in Nat, g \in T PROVE g + 1 \in T
    <2> SUFFICES ASSUME g + 1 <= G
                 PROVE  /\ IsDigits(Flattened(s, g + 1), data)
                        /\ Len(Flattened(s, g + 1)) = IF g + 1 = G THEN Size(N) ELSE 4 * (g + 1)
      OBVIOUS
    <2> DEFINE c == Flattened(s, g)
               e == Group(data, 3 * g + 1)
    <2>1. g < G /\ g <= G /\ g # G /\ g + 1 \in 1..G
      BY <1>1
    <2>2. IsDigits(c, data) /\ Len(c) = 4 * g
      BY <1>7, <2>1
    <2>3. 3 * (g + 1) - 2 = 3 * g + 1 /\ (3 * g + 1) + 2 = 3 * g + 3 /\ (3 * g + 1) + 1 = 3 * g + 2
      OBVIOUS
    <2>4. Flattened(s, g + 1) = c \o e
      BY <1>3, <1>5, <2>1, <2>3
    <2>5. 3 * g + 1 \in 1..Len(data)
      BY <1>1, <2>1, <2>3 DEF N
    <2> HIDE DEF c, e, T
    <2>6. /\ Len(e) = (IF 3 * g + 3 <= N THEN 4 ELSE IF 3 * g + 2 = N THEN 3 ELSE 2)
          /\ e \in Seq(Int) /\ \A j \in 1..Len(e) : e[j] = Quad(data, 3 * g + 1)[j]
      BY <2>3, <2>5, GroupDigits DEF e, N
    <2>7. Len(e) <= 4
      BY <2>6
    <2>8. IsDigits(c \o e, data) /\ Len(c \o e) = 4 * g + Len(e)
      BY <2>2, <2>6, <2>7, DigitsAppend
    <2>9. 4 * g + Len(e) = IF g + 1 = G THEN Size(N) ELSE 4 * (g + 1)
      <3>1. CASE g + 1 = G
        BY <1>1, <2>6, <3>1
      <3>2. CASE g + 1 # G
        <4>1. g + 1 < G
          BY <1>1, <2>1, <3>2
        <4>2. Len(e) = 4
          BY <1>1, <2>6, <4>1
        <4> QED BY <3>2, <4>2
      <3> QED BY <3>1, <3>2
    <2> QED BY <2>4, <2>8, <2>9
  <1> HIDE DEF T
  <1>8. G \in T
    BY <1>1, <1>6, <1>7, Induction
  <1>9. IsDigits(FlattenSeq(s), data) /\ Len(FlattenSeq(s)) = Size(N)
    BY <1>1, <1>5, <1>8 DEF T
  <1> QED BY <1>4, <1>9 DEF N

-----------------------------------------------------------------------------
(* base64: the bits of a string.                                           *)

Binary(n, p) == (n \div p) % 2

LEMMA Bits ==
  \A n : /\ BitOf(n, 1) = Binary(n, 1) /\ BitOf(n, 2) = Binary(n, 2)
        /\ BitOf(n, 3) = Binary(n, 4) /\ BitOf(n, 4) = Binary(n, 8)
        /\ BitOf(n, 5) = Binary(n, 16) /\ BitOf(n, 6) = Binary(n, 32)
        /\ BitOf(n, 7) = Binary(n, 64) /\ BitOf(n, 8) = Binary(n, 128)
  BY DEF Binary, BitOf

(* The bits of four digits are those of three bytes. *)
SameBits(d1, d2, d3, d4, a, b, c) ==
  /\ \A j \in 0..5 : BitOf(d1, 6 - j) = BitOf(a, 8 - j)
  /\ \A j \in 0..1 : BitOf(d2, 6 - j) = BitOf(a, 2 - j)
  /\ \A j \in 2..5 : BitOf(d2, 6 - j) = BitOf(b, 10 - j)
  /\ \A j \in 0..3 : BitOf(d3, 6 - j) = BitOf(b, 4 - j)
  /\ \A j \in 4..5 : BitOf(d3, 6 - j) = BitOf(c, 12 - j)
  /\ \A j \in 0..5 : BitOf(d4, 6 - j) = BitOf(c, 6 - j)

LEMMA DigitBits ==
  ASSUME NEW a \in 0..255, NEW b \in 0..255, NEW c \in 0..255
  PROVE  SameBits(a \div 4, (a % 4) * 16 + b \div 16, (b % 16) * 4 + c \div 64, c % 64, a, b, c)
  <1> DEFINE d1 == a \div 4
             d2 == (a % 4) * 16 + b \div 16
             d3 == (b % 16) * 4 + c \div 64
             d4 == c % 64
  <1>0. /\ a \in Nat /\ b \in Nat /\ c \in Nat
        /\ d1 \in Nat /\ d2 \in Nat /\ d3 \in Nat /\ d4 \in Nat
    OBVIOUS
  <1>1. /\ Binary(d1, 32) = Binary(a, 128) /\ Binary(d1, 16) = Binary(a, 64)
        /\ Binary(d1, 8) = Binary(a, 32) /\ Binary(d1, 4) = Binary(a, 16)
        /\ Binary(d1, 2) = Binary(a, 8) /\ Binary(d1, 1) = Binary(a, 4)
    <2>1. Binary(d1, 32) = Binary(a, 128)
      BY DEF Binary
    <2>2. Binary(d1, 16) = Binary(a, 64)
      BY DEF Binary
    <2>3. Binary(d1, 8) = Binary(a, 32)
      BY DEF Binary
    <2>4. Binary(d1, 4) = Binary(a, 16)
      BY DEF Binary
    <2>5. Binary(d1, 2) = Binary(a, 8)
      BY DEF Binary
    <2>6. Binary(d1, 1) = Binary(a, 4)
      BY DEF Binary
    <2> HIDE DEF d1, d2, d3, d4
    <2> QED BY <2>1, <2>2, <2>3, <2>4, <2>5, <2>6
  <1>2. /\ BitOf(d1, 6) = BitOf(a, 8) /\ BitOf(d1, 5) = BitOf(a, 7)
        /\ BitOf(d1, 4) = BitOf(a, 6) /\ BitOf(d1, 3) = BitOf(a, 5)
        /\ BitOf(d1, 2) = BitOf(a, 4) /\ BitOf(d1, 1) = BitOf(a, 3)
    <2> HIDE DEF d1, d2, d3, d4
    <2> QED BY <1>1, Bits
  <1>3. /\ Binary(d2, 32) = Binary(a, 2) /\ Binary(d2, 16) = Binary(a, 1)
        /\ Binary(d2, 8) = Binary(b, 128) /\ Binary(d2, 4) = Binary(b, 64)
        /\ Binary(d2, 2) = Binary(b, 32) /\ Binary(d2, 1) = Binary(b, 16)
    <2>1. Binary(d2, 32) = Binary(a, 2)
      BY DEF Binary
    <2>2. Binary(d2, 16) = Binary(a, 1)
      BY DEF Binary
    <2>3. Binary(d2, 8) = Binary(b, 128)
      BY DEF Binary
    <2>4. Binary(d2, 4) = Binary(b, 64)
      BY DEF Binary
    <2>5. Binary(d2, 2) = Binary(b, 32)
      BY DEF Binary
    <2>6. Binary(d2, 1) = Binary(b, 16)
      BY DEF Binary
    <2> HIDE DEF d1, d2, d3, d4
    <2> QED BY <2>1, <2>2, <2>3, <2>4, <2>5, <2>6
  <1>4. /\ BitOf(d2, 6) = BitOf(a, 2) /\ BitOf(d2, 5) = BitOf(a, 1)
        /\ BitOf(d2, 4) = BitOf(b, 8) /\ BitOf(d2, 3) = BitOf(b, 7)
        /\ BitOf(d2, 2) = BitOf(b, 6) /\ BitOf(d2, 1) = BitOf(b, 5)
    <2> HIDE DEF d1, d2, d3, d4
    <2> QED BY <1>3, Bits
  <1>5. /\ Binary(d3, 32) = Binary(b, 8) /\ Binary(d3, 16) = Binary(b, 4)
        /\ Binary(d3, 8) = Binary(b, 2) /\ Binary(d3, 4) = Binary(b, 1)
        /\ Binary(d3, 2) = Binary(c, 128) /\ Binary(d3, 1) = Binary(c, 64)
    <2>1. Binary(d3, 32) = Binary(b, 8)
      BY DEF Binary
    <2>2. Binary(d3, 16) = Binary(b, 4)
      BY DEF Binary
    <2>3. Binary(d3, 8) = Binary(b, 2)
      BY DEF Binary
    <2>4. Binary(d3, 4) = Binary(b, 1)
      BY DEF Binary
    <2>5. Binary(d3, 2) = Binary(c, 128)
      BY DEF Binary
    <2>6. Binary(d3, 1) = Binary(c, 64)
      BY DEF Binary
    <2> HIDE DEF d1, d2, d3, d4
    <2> QED BY <2>1, <2>2, <2>3, <2>4, <2>5, <2>6
  <1>6. /\ BitOf(d3, 6) = BitOf(b, 4) /\ BitOf(d3, 5) = BitOf(b, 3)
        /\ BitOf(d3, 4) = BitOf(b, 2) /\ BitOf(d3, 3) = BitOf(b, 1)
        /\ BitOf(d3, 2) = BitOf(c, 8) /\ BitOf(d3, 1) = BitOf(c, 7)
    <2> HIDE DEF d1, d2, d3, d4
    <2> QED BY <1>5, Bits
  <1>7. /\ Binary(d4, 32) = Binary(c, 32) /\ Binary(d4, 16) = Binary(c, 16)
        /\ Binary(d4, 8) = Binary(c, 8) /\ Binary(d4, 4) = Binary(c, 4)
        /\ Binary(d4, 2) = Binary(c, 2) /\ Binary(d4, 1) = Binary(c, 1)
    <2>1. Binary(d4, 32) = Binary(c, 32)
      BY DEF Binary
    <2>2. Binary(d4, 16) = Binary(c, 16)
      BY DEF Binary
    <2>3. Binary(d4, 8) = Binary(c, 8)
      BY DEF Binary
    <2>4. Binary(d4, 4) = Binary(c, 4)
      BY DEF Binary
    <2>5. Binary(d4, 2) = Binary(c, 2)
      BY DEF Binary
    <2>6. Binary(d4, 1) = Binary(c, 1)
      BY DEF Binary
    <2> HIDE DEF d1, d2, d3, d4
    <2> QED BY <2>1, <2>2, <2>3, <2>4, <2>5, <2>6
  <1>8. /\ BitOf(d4, 6) = BitOf(c, 6) /\ BitOf(d4, 5) = BitOf(c, 5)
        /\ BitOf(d4, 4) = BitOf(c, 4) /\ BitOf(d4, 3) = BitOf(c, 3)
        /\ BitOf(d4, 2) = BitOf(c, 2) /\ BitOf(d4, 1) = BitOf(c, 1)
    <2> HIDE DEF d1, d2, d3, d4
    <2> QED BY <1>7, Bits
  <1> HIDE DEF d1, d2, d3, d4
  <1>9. \A j \in 0..5 : BitOf(d1, 6 - j) = BitOf(a, 8 - j)
    BY <1>2
  <1>10. /\ \A j \in 0..1 : BitOf(d2, 6 - j) = BitOf(a, 2 - j)
         /\ \A j \in 2..5 : BitOf(d2, 6 - j) = BitOf(b, 10 - j)
    BY <1>4
  <1>11. /\ \A j \in 0..3 : BitOf(d3, 6 - j) = BitOf(b, 4 - j)
         /\ \A j \in 4..5 : BitOf(d3, 6 - j) = BitOf(c, 12 - j)
    BY <1>6
  <1>12. \A j \in 0..5 : BitOf(d4, 6 - j) = BitOf(c, 6 - j)
    BY <1>8
  <1>13. SameBits(d1, d2, d3, d4, a, b, c)
    BY <1>9, <1>10, <1>11, <1>12 DEF SameBits
  <1> QED BY <1>13 DEF d1, d2, d3, d4

LEMMA QuadBits ==
  ASSUME NEW data \in Seq(0..255), NEW x \in Int, NEW r \in 0..23
  PROVE  BitOf(Quad(data, x)[(r \div 6) + 1], 6 - (r % 6))
           = BitOf(At(data, x + r \div 8), 8 - (r % 8))
  <1> DEFINE a == At(data, x)
             b == At(data, x + 1)
             c == At(data, x + 2)
             q == Quad(data, x)
             i == (r \div 6) + 1
             j == r % 6
             n == x + r \div 8
             k == 8 - (r % 8)
  <1>1. a \in 0..255 /\ b \in 0..255 /\ c \in 0..255
    BY BytesAt
  <1>2. /\ q[1] = a \div 4 /\ q[2] = (a % 4) * 16 + b \div 16
        /\ q[3] = (b % 16) * 4 + c \div 64 /\ q[4] = c % 64
    BY DEF Quad
  <1>3. \/ i = 1 /\ j \in 0..5 /\ n = x /\ k = 8 - j
        \/ i = 2 /\ j \in 0..1 /\ n = x /\ k = 2 - j
        \/ i = 2 /\ j \in 2..5 /\ n = x + 1 /\ k = 10 - j
        \/ i = 3 /\ j \in 0..3 /\ n = x + 1 /\ k = 4 - j
        \/ i = 3 /\ j \in 4..5 /\ n = x + 2 /\ k = 12 - j
        \/ i = 4 /\ j \in 0..5 /\ n = x + 2 /\ k = 6 - j
    OBVIOUS
  <1>4. SameBits(q[1], q[2], q[3], q[4], a, b, c)
    <2> HIDE DEF a, b, c, q
    <2>1. SameBits(a \div 4, (a % 4) * 16 + b \div 16, (b % 16) * 4 + c \div 64, c % 64, a, b, c)
      BY <1>1, DigitBits
    <2> QED BY <1>2, <2>1
  <1> HIDE DEF i, j, k, n, q
  <1>5. BitOf(q[i], 6 - j) = BitOf(At(data, n), k)
    BY <1>3, <1>4 DEF SameBits
  <1> QED BY <1>5 DEF i, j, k, n, q

(* Where bit k of the digits of data is, among the bits of data. *)
LEMMA DigitsBit ==
  ASSUME NEW data \in Seq(0..255), NEW f, IsDigits(f, data), NEW k \in 1..(6 * Len(f))
  PROVE  Bit(f, 6, k) = BitOf(At(data, ((k - 1) \div 8) + 1), 8 - ((k - 1) % 8))
  <1> DEFINE g == (k - 1) \div 24
             r == (k - 1) % 24
             i == (k - 1) \div 6
             n == (k - 1) \div 8
  <1>0. f \in Seq(Int) /\ Len(f) \in Nat /\ \A j \in 1..Len(f) : f[j] = Digit(data, j)
    BY DEF IsDigits
  <1>1. k - 1 = 24 * g + r /\ g \in Nat /\ r \in 0..23
    <2>1. k - 1 \in Nat
      BY <1>0
    <2>2. \A h \in Nat : h = 24 * (h \div 24) + (h % 24) /\ h \div 24 \in Nat /\ h % 24 \in 0..23
      OBVIOUS
    <2> QED BY <2>1, <2>2
  <1>2. /\ i = 4 * g + r \div 6 /\ r \div 6 \in 0..3 /\ (k - 1) % 6 = r % 6
        /\ n = 3 * g + r \div 8 /\ (k - 1) % 8 = r % 8
    <2> HIDE DEF g, r
    <2> QED BY <1>1
  <1>3. i + 1 \in 1..Len(f)
    BY <1>0
  <1>4. i \div 4 = g /\ i % 4 = r \div 6
    <2> DEFINE h == r \div 6
    <2>1. i = 4 * g + h /\ h \in 0..3 /\ g \in Nat
      BY <1>1, <1>2
    <2> HIDE DEF i, g, h
    <2>2. h = 0 \/ h = 1 \/ h = 2 \/ h = 3
      BY <2>1
    <2>3. \A y \in Nat : /\ (4 * y + 0) \div 4 = y /\ (4 * y + 0) % 4 = 0
                          /\ (4 * y + 1) \div 4 = y /\ (4 * y + 1) % 4 = 1
                          /\ (4 * y + 2) \div 4 = y /\ (4 * y + 2) % 4 = 2
                          /\ (4 * y + 3) \div 4 = y /\ (4 * y + 3) % 4 = 3
      OBVIOUS
    <2>4. (4 * g + h) \div 4 = g /\ (4 * g + h) % 4 = h
      BY <2>1, <2>2, <2>3
    <2>5. i \div 4 = g /\ i % 4 = h
      BY <2>1, <2>4
    <2> QED BY <2>5 DEF h
  <1> HIDE DEF i, g, r, n
  <1>5. f[i + 1] = Quad(data, 3 * g + 1)[(r \div 6) + 1]
    <2>1. f[i + 1] = Digit(data, i + 1) /\ (i + 1) - 1 = i
      BY <1>0, <1>2, <1>3, <1>1
    <2> QED BY <2>1, <1>4 DEF Digit
  <1>6. n + 1 = (3 * g + 1) + r \div 8 /\ 3 * g + 1 \in Int
    BY <1>1, <1>2
  <1>7. BitOf(f[i + 1], 6 - (r % 6)) = BitOf(At(data, n + 1), 8 - (r % 8))
    BY <1>1, <1>5, <1>6, QuadBits
  <1>8. Bit(f, 6, k) = BitOf(f[i + 1], 6 - ((k - 1) % 6))
    BY DEF Bit, i
  <1>9. BitOf(f[i + 1], 6 - ((k - 1) % 6)) = BitOf(At(data, n + 1), 8 - ((k - 1) % 8))
    BY <1>2, <1>7
  <1> QED BY <1>8, <1>9 DEF n

(* base64encode gives the bits of the data, for strings of every length    *)
(* and whatever their bytes, and writes nothing but what fits its buffer.  *)
THEOREM Base64CorrectHolds == Strings => []Base64Correct
  <1>1. StringType => Base64Correct
    <2> SUFFICES ASSUME StringType PROVE Base64Correct
      OBVIOUS
    <2> DEFINE n == Len(bytes)
               G == (n + 2) \div 3
               code == Base64(bytes)
               M == (8 * n + 5) \div 6
    <2>1. bytes \in Seq(0..255) /\ n \in Nat /\ DOMAIN bytes = 1..n
      BY BytesAreInt DEF StringType
    <2>2. PICK f : IsDigits(f, bytes) /\ Len(f) = M /\ code = f \o Padding(n)
      BY <2>1, Base64Digits DEF Size
    <2>3. f \in Seq(Int) /\ \A k \in 1..M : f[k] = Digit(bytes, k)
      BY <2>2 DEF IsDigits
    <2>4. /\ M \in Nat /\ G \in Nat /\ Padding(n) \in Seq(Int)
          /\ Len(Padding(n)) = 4 * G - M /\ 4 * G - M \in Nat
          /\ \A i \in 1..Len(Padding(n)) : Padding(n)[i] = Pad
          /\ 8 * n <= 6 * M
      <3>1. /\ M \in Nat /\ G \in Nat /\ Padding(n) \in Seq(Int) /\ Len(Padding(n)) = 4 * G - M
            /\ \A i \in 1..Len(Padding(n)) : Padding(n)[i] = Pad
        BY <2>1, Sizes DEF Size
      <3>2. 8 * n <= 6 * M
        <4> HIDE DEF n
        <4> QED BY <2>1
      <3>3. Len(Padding(n)) \in Nat
        BY <3>1
      <3> HIDE DEF M, G, n
      <3> QED BY <3>1, <3>2, <3>3
    <2> HIDE DEF M, G, code
    <2>5. /\ code \in Seq(Int) /\ Len(code) = 4 * G
          /\ \A k \in 1..M : code[k] = f[k]
          /\ \A i \in (M + 1)..(4 * G) : code[i] = Pad
      <3> DEFINE p == Padding(n)
      <3>1. /\ f \o p \in Seq(Int) /\ Len(f \o p) = Len(f) + Len(p)
            /\ \A i \in 1..(Len(f) + Len(p)) :
                 (f \o p)[i] = IF i <= Len(f) THEN f[i] ELSE p[i - Len(f)]
        <4>1. f \in Seq(Int) /\ p \in Seq(Int)
          BY <2>3, <2>4
        <4> HIDE DEF p
        <4> QED BY <4>1, JoinedLen, JoinedAll
      <3>2. Len(f) + Len(p) = 4 * G /\ M <= 4 * G
        BY <2>2, <2>4
      <3>3. \A i \in (M + 1)..(4 * G) : i - M \in 1..Len(p) /\ ~(i <= M) /\ i \in 1..(4 * G)
        BY <2>4, <3>2
      <3>4. \A i \in 1..M : i <= M /\ i \in 1..(4 * G)
        BY <2>4, <3>2
      <3> HIDE DEF p
      <3> QED BY <2>2, <2>4, <3>1, <3>2, <3>3, <3>4 DEF p
    <2> DEFINE chars == SubSeq(code, 1, M)
    <2>6. chars = f
      <3>1. M \in 0..Len(code)
        BY <2>4, <2>5
      <3>2. chars \in Seq(Int) /\ Len(chars) = M /\ \A i \in 1..M : chars[i] = code[i]
        BY <2>5, <3>1, PrefixOf
      <3> HIDE DEF chars
      <3> QED BY <2>2, <2>3, <2>5, <3>2, SeqEqual
    <2>7. ToSet(f) \subseteq 0..63
      <3>1. ASSUME NEW k \in 1..M PROVE f[k] \in 0..63
        <4> DEFINE x == 3 * ((k - 1) \div 4) + 1
                   j == ((k - 1) % 4) + 1
        <4>1. x \in Int /\ j \in 1..4
          BY <2>4
        <4>2. f[k] = Quad(bytes, x)[j]
          BY <2>3 DEF Digit
        <4> HIDE DEF x, j
        <4> QED BY <2>1, <4>1, <4>2, QuadType
      <3>2. DOMAIN f = 1..M
        BY <2>2, <2>3
      <3> QED BY <3>1, <3>2 DEF ToSet
    <2>8. ASSUME NEW k \in 1..(6 * M)
          PROVE  Bit(f, 6, k) = IF k <= 8 * n THEN Bit(bytes, 8, k) ELSE 0
      <3> DEFINE x == ((k - 1) \div 8) + 1
                 j == 8 - ((k - 1) % 8)
      <3>1. Bit(f, 6, k) = BitOf(At(bytes, x), j)
        BY <2>1, <2>2, DigitsBit
      <3>2. x \in Int /\ j \in 1..8 /\ (k <= 8 * n <=> x \in 1..n) /\ (k > 8 * n <=> x > n)
        <4> HIDE DEF n
        <4> QED BY <2>1, <2>4
      <3>3. Bit(bytes, 8, k) = BitOf(bytes[x], j)
        BY DEF Bit
      <3> HIDE DEF x, j
      <3>4. CASE k <= 8 * n
        BY <2>1, <3>1, <3>2, <3>3, <3>4, AtType
      <3>5. CASE k > 8 * n
        <4>1. At(bytes, x) = 0
          BY <2>1, <3>2, <3>5, AtType
        <4>2. BitOf(0, j) = 0
          BY <3>2 DEF BitOf
        <4>3. ~(k <= 8 * n)
          BY <2>1, <2>4, <3>5
        <4> QED BY <3>1, <4>1, <4>2, <4>3
      <3>6. k <= 8 * n \/ k > 8 * n
        BY <2>1, <2>4
      <3> QED BY <3>4, <3>5, <3>6
    <2>9. \A room \in 0..Len(code) + 1 :
            /\ base64encode(bytes, room) = IF room = Len(code) + 1 THEN Len(code) ELSE 0
            /\ Written(bytes, room) = {k \in 0..Len(code) : k < room}
      <3> TAKE room \in 0..Len(code) + 1
      <3>1. Len(code) \in Nat
        BY <2>4, <2>5
      <3>2. \A k \in 0..Len(code) : Tested(Len(code), k)
        BY DEF Tested
      <3>3. base64encode(bytes, room) =
              IF \E k \in 0..Len(code) : k >= room THEN 0 ELSE Len(code)
        BY <3>2 DEF base64encode, code
      <3>4. (\E k \in 0..Len(code) : k >= room) <=> room # Len(code) + 1
        BY <3>1
      <3>5. ASSUME NEW k \in 0..Len(code)
            PROVE  (\A m \in 0..k : Tested(Len(code), m) => m < room) <=> k < room
        <4>1. \A m \in 0..k : Tested(Len(code), m)
          BY <3>1, <3>2
        <4> QED BY <3>1, <4>1
      <3>6. Written(bytes, room) = {k \in 0..Len(code) : k < room}
        BY <3>5 DEF Written, code
      <3> QED BY <3>3, <3>4, <3>6
    <2>10. /\ Len(code) = 4 * G /\ ToSet(chars) \subseteq 0..63
           /\ \A i \in (Len(chars) + 1)..Len(code) : code[i] = Pad
           /\ \A k \in 1..(6 * Len(chars)) :
                Bit(chars, 6, k) = IF k <= 8 * n THEN Bit(bytes, 8, k) ELSE 0
      <3> HIDE DEF chars
      <3> QED BY <2>2, <2>5, <2>6, <2>7, <2>8
    <2> QED BY <2>9, <2>10 DEF Base64Correct, code, M, G
  <1> QED BY <1>1, StringsType, PTL

-----------------------------------------------------------------------------
(* create_basic_authrization.                                              *)

LEMMA TupleOfFour ==
  ASSUME NEW p \in Int, NEW q \in Int, NEW r \in Int, NEW s \in Int
  PROVE  <<p>> \o <<q, r, s>> = <<p, q, r, s>>
  <1> DEFINE a == <<p>>
             b == <<q, r, s>>
             t == a \o b
  <1>1. a \in Seq(Int) /\ Len(a) = 1 /\ 1 \in 1..Len(a) /\ a[1] = p
    OBVIOUS
  <1>2. b \in Seq(Int) /\ Len(b) = 3 /\ b[1] = q /\ b[2] = r /\ b[3] = s
    OBVIOUS
  <1>3. Len(b) >= 1 /\ Len(b) >= 2 /\ Len(b) >= 3
    BY <1>2
  <1> HIDE DEF a, b
  <1>4. t[1] = p
    BY <1>1, <1>2, JoinedBegin
  <1>5. t[Len(a) + 1] = q /\ t[Len(a) + 2] = r /\ t[Len(a) + 3] = s
    BY <1>1, <1>2, <1>3, JoinedEnd
  <1>6. t \in Seq(Int) /\ Len(t) = Len(a) + Len(b)
    BY <1>1, <1>2, JoinedLen
  <1> HIDE DEF t
  <1>7. Len(a) + 1 = 2 /\ Len(a) + 2 = 3 /\ Len(a) + 3 = 4 /\ Len(a) + Len(b) = 4
    BY <1>1, <1>2
  <1>8. t[1] = p /\ t[2] = q /\ t[3] = r /\ t[4] = s /\ t \in Seq(Int) /\ Len(t) = 4
    BY <1>4, <1>5, <1>6, <1>7
  <1>9. t = <<p, q, r, s>>
    BY <1>8
  <1> QED BY <1>9 DEF a, b, t

OneByOne(c, p, q, r, s) == ((c \o <<p>>) \o <<q>>) \o <<r, s>> = c \o <<p, q, r, s>>

LEMMA JoinTuples ==
  ASSUME NEW c \in Seq(Int), NEW p \in Int, NEW q \in Int, NEW r \in Int, NEW s \in Int
  PROVE  OneByOne(c, p, q, r, s)
  <1> DEFINE a == <<p>>
             b == <<q>>
             d == <<r, s>>
  <1>1. a \in Seq(Int) /\ b \in Seq(Int) /\ d \in Seq(Int)
    OBVIOUS
  <1>2. b \o d = <<q, r, s>> /\ a \o <<q, r, s>> = <<p, q, r, s>>
    <2>1. b \o d = <<q, r, s>>
      BY TuplesOfThree
    <2>2. a \o <<q, r, s>> = <<p, q, r, s>>
      BY TupleOfFour
    <2> QED BY <2>1, <2>2
  <1> HIDE DEF a, b, d
  <1>3. c \o a \in Seq(Int) /\ b \o d \in Seq(Int)
    BY <1>1, JoinedLen
  <1>4. ((c \o a) \o b) \o d = (c \o a) \o (b \o d)
    <2> DEFINE u == c \o a
    <2>1. u \in Seq(Int)
      BY <1>3
    <2> HIDE DEF u
    <2>2. (u \o b) \o d = u \o (b \o d)
      BY <1>1, <2>1, Associative
    <2> QED BY <2>2 DEF u
  <1>5. (c \o a) \o (b \o d) = c \o (a \o (b \o d))
    BY <1>1, <1>3, Associative
  <1>6. ((c \o a) \o b) \o d = c \o <<p, q, r, s>>
    BY <1>2, <1>4, <1>5
  <1> QED BY <1>6 DEF OneByOne, a, b, d

(* Three turns of the loop give the four digits of a group. *)
LEMMA StepDigits ==
  ASSUME NEW data \in Seq(0..255), NEW g \in Nat, NEW c \in Seq(Int)
  PROVE  ((c \o Step(data, 3 * g)) \o Step(data, 3 * g + 1)) \o Step(data, 3 * g + 2)
           = c \o Quad(data, 3 * g + 1)
  <1> DEFINE x == 3 * g + 1
             a == At(data, x)
             b == At(data, x + 1)
             d == At(data, x + 2)
             p == a \div 4
             q == (a % 4) * 16 + b \div 16
             r == (b % 16) * 4 + d \div 64
             s == d % 64
  <1>1. a \in 0..255 /\ b \in 0..255 /\ d \in 0..255
    <2>1. x \in Int
      OBVIOUS
    <2> HIDE DEF x
    <2> QED BY <2>1, BytesAt
  <1>2. /\ (3 * g) % 3 = 0 /\ (3 * g + 1) % 3 = 1 /\ (3 * g + 2) % 3 = 2
        /\ (3 * g + 1) + 1 = x + 1 /\ (3 * g + 2) + 1 = x + 2
        /\ 3 * g + 1 = x /\ 3 * g + 2 = x + 1
    OBVIOUS
  <1>3. /\ Step(data, 3 * g) = <<p>> /\ Step(data, 3 * g + 1) = <<q>>
        /\ Step(data, 3 * g + 2) = <<r, s>>
    <2>1. Step(data, 3 * g) = <<At(data, 3 * g + 1) \div 4>>
      BY <1>2 DEF Step
    <2>2. Step(data, 3 * g + 1) =
            <<(At(data, 3 * g + 1) % 4) * 16 + At(data, (3 * g + 1) + 1) \div 16>>
      BY <1>2 DEF Step
    <2>3. Step(data, 3 * g + 2) =
            <<(At(data, 3 * g + 2) % 16) * 4 + At(data, (3 * g + 2) + 1) \div 64,
              At(data, (3 * g + 2) + 1) % 64>>
      BY <1>2 DEF Step
    <2>4. At(data, 3 * g + 2) = b /\ At(data, (3 * g + 2) + 1) = d
      BY <1>2
    <2> QED BY <2>1, <2>2, <2>3, <2>4
  <1>4. Quad(data, x) = <<p, q, r, s>>
    BY DEF Quad
  <1>5. p \in Int /\ q \in Int /\ r \in Int /\ s \in Int
    <2> HIDE DEF a, b, d
    <2> QED BY <1>1
  <1> HIDE DEF x, p, q, r, s
  <1>6. ((c \o <<p>>) \o <<q>>) \o <<r, s>> = c \o <<p, q, r, s>>
    <2>1. OneByOne(c, p, q, r, s)
      BY <1>5, JoinTuples
    <2> QED BY <2>1 DEF OneByOne
  <1> QED BY <1>3, <1>4, <1>6 DEF x

LEMMA StepType ==
  ASSUME NEW data \in Seq(0..255), NEW n \in Nat
  PROVE  Step(data, n) \in Seq(Int)
  <1> DEFINE c == At(data, n + 1)
             b == At(data, n)
  <1>1. b \in 0..255 /\ c \in 0..255
    <2>1. n \in Int /\ n + 1 \in Int
      OBVIOUS
    <2> QED BY <2>1, AtType
  <1>2. n % 3 = 0 \/ n % 3 = 1 \/ n % 3 = 2
    OBVIOUS
  <1>3. /\ n % 3 = 0 => Step(data, n) = <<c \div 4>>
        /\ n % 3 = 1 => Step(data, n) = <<(b % 4) * 16 + c \div 16>>
        /\ n % 3 = 2 => Step(data, n) = <<(b % 16) * 4 + c \div 64, c % 64>>
    BY DEF Step
  <1> HIDE DEF b, c
  <1>4. /\ c \div 4 \in Int /\ (b % 4) * 16 + c \div 16 \in Int
        /\ (b % 16) * 4 + c \div 64 \in Int /\ c % 64 \in Int
    BY <1>1
  <1>5. /\ <<c \div 4>> \in Seq(Int)
        /\ <<(b % 4) * 16 + c \div 16>> \in Seq(Int)
        /\ <<(b % 16) * 4 + c \div 64, c % 64>> \in Seq(Int)
    <2>1. \A x \in Int : <<x>> \in Seq(Int)
      OBVIOUS
    <2>2. \A x, y \in Int : <<x, y>> \in Seq(Int)
      OBVIOUS
    <2>3. <<c \div 4>> \in Seq(Int) /\ <<(b % 4) * 16 + c \div 16>> \in Seq(Int)
      BY <1>4, <2>1
    <2>4. <<(b % 16) * 4 + c \div 64, c % 64>> \in Seq(Int)
      BY <1>4, <2>2
    <2> QED BY <2>3, <2>4
  <1>6. CASE n % 3 = 0
    BY <1>3, <1>5, <1>6
  <1>7. CASE n % 3 = 1
    BY <1>3, <1>5, <1>7
  <1>8. CASE n % 3 = 2
    BY <1>3, <1>5, <1>8
  <1> QED BY <1>2, <1>6, <1>7, <1>8

(* The loop gives the digits of the groups that are full. *)
LEMMA LoopDigits ==
  ASSUME NEW data \in Seq(0..255), NEW m \in Nat
  PROVE  LET x == FlattenSeq([n \in 1..(3 * m) |-> Step(data, n - 1)])
         IN IsDigits(x, data) /\ Len(x) = 4 * m
  <1> DEFINE s == [n \in 1..(3 * m) |-> Step(data, n - 1)]
             T == {g \in Nat : g <= m =>
                     IsDigits(Flattened(s, 3 * g), data) /\ Len(Flattened(s, 3 * g)) = 4 * g}
  <1>1. s \in Seq(Seq(Int)) /\ Len(s) = 3 * m /\ \A n \in 1..(3 * m) : s[n] = Step(data, n - 1)
    <2>1. \A n \in 1..(3 * m) : n - 1 \in Nat
      OBVIOUS
    <2>2. s \in [1..(3 * m) -> Seq(Int)]
      BY <2>1, StepType
    <2>3. 3 * m \in Nat
      OBVIOUS
    <2> QED BY <2>2, <2>3
  <1> HIDE DEF s
  <1>2. /\ Flattened(s, 0) = <<>> /\ Flattened(s, 3 * m) = FlattenSeq(s)
        /\ \A n \in Nat : n < 3 * m => Flattened(s, n + 1) = Flattened(s, n) \o s[n + 1]
    BY <1>1, FlattenPrefixes
  <1>3. 0 \in T
    <2>1. IsDigits(<<>>, data) /\ Len(<<>>) = 4 * 0 /\ 3 * 0 = 0
      BY DEF IsDigits
    <2> QED BY <1>2, <2>1
  <1>4. ASSUME NEW g \in Nat, g \in T PROVE g + 1 \in T
    <2> SUFFICES ASSUME g + 1 <= m
                 PROVE  /\ IsDigits(Flattened(s, 3 * (g + 1)), data)
                        /\ Len(Flattened(s, 3 * (g + 1))) = 4 * (g + 1)
      OBVIOUS
    <2> DEFINE c == Flattened(s, 3 * g)
               e == Quad(data, 3 * g + 1)
    <2>1. IsDigits(c, data) /\ Len(c) = 4 * g /\ c \in Seq(Int)
      BY <1>4 DEF IsDigits
    <2>2. /\ 3 * g \in Nat /\ 3 * g < 3 * m /\ 3 * g + 1 \in Nat /\ 3 * g + 1 < 3 * m
          /\ 3 * g + 2 \in Nat /\ 3 * g + 2 < 3 * m
          /\ (3 * g + 1) + 1 = 3 * g + 2 /\ (3 * g + 2) + 1 = 3 * (g + 1)
      OBVIOUS
    <2>3. /\ s[3 * g + 1] = Step(data, 3 * g) /\ s[3 * g + 2] = Step(data, 3 * g + 1)
          /\ s[3 * (g + 1)] = Step(data, 3 * g + 2)
      <3>1. /\ 3 * g + 1 \in 1..(3 * m) /\ (3 * g + 1) - 1 = 3 * g
            /\ 3 * g + 2 \in 1..(3 * m) /\ (3 * g + 2) - 1 = 3 * g + 1
            /\ 3 * (g + 1) \in 1..(3 * m) /\ 3 * (g + 1) - 1 = 3 * g + 2
        OBVIOUS
      <3> QED BY <1>1, <3>1
    <2> HIDE DEF T, c
    <2>4. Flattened(s, 3 * g + 1) = c \o Step(data, 3 * g)
      BY <1>2, <2>2, <2>3 DEF c
    <2>5. Flattened(s, 3 * g + 2) = Flattened(s, 3 * g + 1) \o Step(data, 3 * g + 1)
      BY <1>2, <2>2, <2>3
    <2>6. Flattened(s, 3 * (g + 1)) = Flattened(s, 3 * g + 2) \o Step(data, 3 * g + 2)
      BY <1>2, <2>2, <2>3
    <2>7. Flattened(s, 3 * (g + 1)) = c \o e
      BY <2>1, <2>4, <2>5, <2>6, StepDigits
    <2>8. e \in Seq(Int) /\ Len(e) = 4 /\ e = Quad(data, 3 * g + 1)
      <3>1. 3 * g + 1 \in Int
        OBVIOUS
      <3> QED BY <3>1, QuadType
    <2> HIDE DEF e
    <2>9. Len(e) <= 4 /\ \A j \in 1..Len(e) : e[j] = Quad(data, 3 * g + 1)[j]
      BY <2>8
    <2>10. IsDigits(c \o e, data) /\ Len(c \o e) = 4 * g + Len(e)
      BY <2>1, <2>8, <2>9, DigitsAppend
    <2>11. 4 * g + Len(e) = 4 * (g + 1)
      BY <2>8
    <2> QED BY <2>7, <2>10, <2>11
  <1> HIDE DEF T
  <1>5. m \in T
    BY <1>3, <1>4, Induction
  <1> QED BY <1>2, <1>5 DEF T, s

(* The last group, when it is not full. *)
LEMMA LastDigits ==
  ASSUME NEW data \in Seq(0..255), NEW m \in Nat, m = Len(data) \div 3
  PROVE  LET e == LastGroup(data, 3 * m)
         IN /\ e \in Seq(Int) /\ Len(e) <= 4 /\ 4 * m + Len(e) = Size(Len(data))
            /\ \A j \in 1..Len(e) : e[j] = Quad(data, 3 * m + 1)[j]
  <1> DEFINE n == Len(data)
             x == 3 * m + 1
             e == LastGroup(data, 3 * m)
             c == At(data, x)
             d == At(data, x + 1)
             z == At(data, x + 2)
             q == Quad(data, x)
  <1>1. n \in Nat /\ c \in 0..255 /\ d \in 0..255 /\ z \in 0..255
    <2>1. n \in Nat
      BY BytesAreInt
    <2>2. x \in Int
      OBVIOUS
    <2>3. c \in 0..255 /\ d \in 0..255 /\ z \in 0..255
      BY <2>2, BytesAt
    <2> QED BY <2>1, <2>3
  <1>2. \/ n = 3 * m /\ n % 3 = 0 /\ Size(n) = 4 * m
        \/ n = 3 * m + 1 /\ n % 3 = 1 /\ Size(n) = 4 * m + 2
        \/ n = 3 * m + 2 /\ n % 3 = 2 /\ Size(n) = 4 * m + 3
    <2> DEFINE k == n \div 3
    <2>0. n \in Nat
      BY <1>1
    <2>1. \/ n = 3 * k /\ n % 3 = 0 /\ Size(n) = 4 * k
          \/ n = 3 * k + 1 /\ n % 3 = 1 /\ Size(n) = 4 * k + 2
          \/ n = 3 * k + 2 /\ n % 3 = 2 /\ Size(n) = 4 * k + 3
      <3> HIDE DEF n
      <3> QED BY <2>0, Sizes
    <2>2. k = m
      OBVIOUS
    <2> HIDE DEF k, n
    <2> QED BY <2>1, <2>2
  <1>3. /\ q[1] = c \div 4 /\ q[2] = (c % 4) * 16 + d \div 16
        /\ q[3] = (d % 16) * 4 + z \div 64
    BY DEF Quad
  <1>4. CASE n = 3 * m /\ n % 3 = 0 /\ Size(n) = 4 * m
    <2>1. e = <<>>
      BY <1>4 DEF LastGroup
    <2> HIDE DEF e, n, q
    <2>2. e \in Seq(Int) /\ Len(e) = 0
      BY <2>1
    <2>3. \A j \in 1..Len(e) : e[j] = q[j]
      BY <2>2
    <2>4. Len(e) <= 4 /\ 4 * m + Len(e) = Size(n)
      BY <1>4, <2>2
    <2> QED BY <2>2, <2>3, <2>4 DEF n, e, q
  <1>5. CASE n = 3 * m + 1 /\ n % 3 = 1 /\ Size(n) = 4 * m + 2
    <2>1. e = <<c \div 4, (c % 4) * 16>>
      BY <1>5 DEF LastGroup
    <2>2. d = 0
      <3>1. x + 1 \in Int /\ x + 1 > n
        BY <1>5
      <3> QED BY <3>1, AtType
    <2> HIDE DEF c, d, z, q, e, n
    <2>3. c \div 4 \in Int /\ (c % 4) * 16 \in Int /\ (c % 4) * 16 = (c % 4) * 16 + 0 \div 16
      BY <1>1
    <2>4. e \in Seq(Int) /\ Len(e) = 2 /\ e[1] = q[1] /\ e[2] = q[2]
      BY <1>3, <2>1, <2>2, <2>3
    <2>5. \A j \in 1..Len(e) : e[j] = q[j]
      <3>1. \A j \in 1..2 : j = 1 \/ j = 2
        OBVIOUS
      <3> QED BY <2>4, <3>1
    <2>6. Len(e) <= 4 /\ 4 * m + Len(e) = Size(n)
      BY <1>5, <2>4
    <2> QED BY <2>4, <2>5, <2>6 DEF n, e, q
  <1>6. CASE n = 3 * m + 2 /\ n % 3 = 2 /\ Size(n) = 4 * m + 3
    <2>1. e = <<c \div 4, (c % 4) * 16 + d \div 16, (d % 16) * 4>>
      <3>1. (3 * m) + 1 = x /\ (3 * m) + 2 = x + 1
        OBVIOUS
      <3> QED BY <1>6, <3>1 DEF LastGroup
    <2>2. z = 0
      <3>1. x + 2 \in Int /\ x + 2 > n
        BY <1>6
      <3> QED BY <3>1, AtType
    <2> HIDE DEF c, d, z, q, e, n
    <2>3. /\ c \div 4 \in Int /\ (c % 4) * 16 + d \div 16 \in Int
          /\ (d % 16) * 4 \in Int /\ (d % 16) * 4 = (d % 16) * 4 + 0 \div 64
      BY <1>1
    <2>4. e \in Seq(Int) /\ Len(e) = 3 /\ e[1] = q[1] /\ e[2] = q[2] /\ e[3] = q[3]
      BY <1>3, <2>1, <2>2, <2>3
    <2>5. \A j \in 1..Len(e) : e[j] = q[j]
      <3>1. \A j \in 1..3 : j = 1 \/ j = 2 \/ j = 3
        OBVIOUS
      <3> QED BY <2>4, <3>1
    <2>6. Len(e) <= 4 /\ 4 * m + Len(e) = Size(n)
      BY <1>6, <2>4
    <2> QED BY <2>4, <2>5, <2>6 DEF n, e, q
  <1> QED BY <1>2, <1>4, <1>5, <1>6

(* The two encoders of base64 agree, for strings of every length.          *)
THEOREM SameEncodingHolds == Strings => []SameEncoding
  <1>1. StringType => SameEncoding
    <2> SUFFICES ASSUME StringType, Len(bytes) > 2
                 PROVE  create_basic_authrization(bytes) = Base64(bytes)
      BY DEF SameEncoding
    <2> DEFINE n == Len(bytes)
               m == n \div 3
               M == Size(n)
               loop == FlattenSeq([i \in 1..(3 * m) |-> Step(bytes, i - 1)])
               e == LastGroup(bytes, 3 * m)
               x == loop \o e
               padding == Padding(n)
    <2>1. bytes \in Seq(0..255) /\ n \in Nat
      BY BytesAreInt DEF StringType
    <2>2. /\ m \in Nat /\ M \in Nat
          /\ \/ n = 3 * m /\ n % 3 = 0 /\ M = 4 * m
             \/ n = 3 * m + 1 /\ n % 3 = 1 /\ M = 4 * m + 2
             \/ n = 3 * m + 2 /\ n % 3 = 2 /\ M = 4 * m + 3
      BY <2>1, Sizes
    <2>3. IsDigits(loop, bytes) /\ Len(loop) = 4 * m
      BY <2>1, <2>2, LoopDigits
    <2>4. /\ e \in Seq(Int) /\ Len(e) <= 4 /\ 4 * m + Len(e) = M
          /\ \A j \in 1..Len(e) : e[j] = Quad(bytes, 3 * m + 1)[j]
      BY <2>1, <2>2, LastDigits
    <2>5. IsDigits(x, bytes) /\ Len(x) = M
      <3> HIDE DEF loop, e, m
      <3> QED BY <2>1, <2>2, <2>3, <2>4, DigitsAppend
    <2>6. Stop(n) = 3 * m
      <3> HIDE DEF m, n
      <3>1. n > 2
        BY DEF n
      <3> QED BY <2>1, <2>2, <3>1 DEF Stop
    <2>7. m * 4 + (IF padding = <<>> THEN 0 ELSE 4 - Len(padding)) = M
      <3> DEFINE w == (3 - (n % 3)) % 3
      <3>1. padding = [i \in 1..w |-> Pad]
        BY DEF Padding
      <3>2. \/ M = 4 * m /\ w = 0
            \/ M = 4 * m + 2 /\ w = 2
            \/ M = 4 * m + 3 /\ w = 1
        <4> HIDE DEF m, n, M
        <4> QED BY <2>1, <2>2
      <3>3. Len(padding) = w /\ (padding = <<>> <=> w = 0)
        <4> HIDE DEF w, m, M
        <4>1. w \in Nat
          BY <3>2
        <4> QED BY <3>1, <4>1
      <3> HIDE DEF w, m, M, padding
      <3> QED BY <2>2, <3>2, <3>3
    <2>8. create_basic_authrization(bytes) = SubSeq(x, 1, M) \o padding
      <3>1. create_basic_authrization(bytes) =
              SubSeq(x, 1, m * 4 + (IF padding = <<>> THEN 0 ELSE 4 - Len(padding))) \o padding
        <4> HIDE DEF padding
        <4> QED BY <2>6 DEF create_basic_authrization, padding
      <3> HIDE DEF x, padding, M, m
      <3> QED BY <2>7, <3>1
    <2>9. SubSeq(x, 1, M) = x
      <3> HIDE DEF x, M
      <3>1. x \in Seq(Int)
        BY <2>5 DEF IsDigits
      <3> QED BY <2>5, <3>1, SubSeqFull
    <2>10. PICK f : IsDigits(f, bytes) /\ Len(f) = M /\ Base64(bytes) = f \o padding
      BY <2>1, Base64Digits
    <2>11. x = f
      <3> HIDE DEF x, M
      <3>1. x \in Seq(Int) /\ f \in Seq(Int) /\ \A i \in 1..Len(x) : x[i] = f[i]
        BY <2>5, <2>10 DEF IsDigits
      <3> QED BY <2>5, <2>10, <3>1, SeqEqual
    <2> QED BY <2>8, <2>9, <2>10, <2>11
  <1> QED BY <1>1, StringsType, PTL
=============================================================================
