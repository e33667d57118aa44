--------------------------- MODULE LogPrint_proofs ---------------------------
(***************************************************************************)
(* Theorems about LogPrint, for any number of threads and translation      *)
(* units and any size of the buffers and lines.                            *)
(***************************************************************************)
EXTENDS LogPrint, SequenceTheorems, WellFoundedInduction, TLAPS

Busy == {"head", "text", "print", "call"}

(* How many bytes of its line a thread puts in the buffer, as far as it is. *)
Written(t) ==
  line[t].head + (IF pc[t] = "head" THEN 0 ELSE Least(line[t].text, Room(line[t])))

(* What a thread writes at place n of the buffer.                          *)
Byte(t, n) == IF n <= Written(t) THEN t ELSE NULL

(* What a thread has still to write fits, and ends with a zero.            *)
ToWrite(t) ==
  /\ pos[t] + Len(todo[t]) = Written(t) + 2
  /\ \A j \in 1..Len(todo[t]) : todo[t][j] = Byte(t, pos[t] + j - 1)

LineOf(t) ==
  /\ pc[t] \in Busy => ToWrite(t)
  /\ pc[t] \notin {"head", "text"} => todo[t] = <<>>
  /\ pc[t] \in {"idle", "register"} => pos[t] = 1
  /\ pc[t] # "done" => got[t] = <<>>

LineInv == \A t \in Threads : LineOf(t)

TypeInv == TypeOK /\ LineInv

(* Every buffer ends with a zero.                                          *)
EndInv == \A u \in Units : buff[u][Size] = NULL

-----------------------------------------------------------------------------
(* The sequences.                                                          *)

LEMMA LeastIsLeast ==
  ASSUME NEW m \in Nat, NEW n \in Nat
  PROVE  Least(m, n) \in Nat /\ Least(m, n) <= m /\ Least(m, n) <= n
  BY DEF Least

LEMMA TextBytes ==
  ASSUME NEW t \in Threads, NEW k \in Nat
  PROVE  /\ Bytes(t, k) \o <<NULL>> \in Seq(Threads \cup {NULL})
         /\ Len(Bytes(t, k) \o <<NULL>>) = k + 1
         /\ \A j \in 1..k+1 :
              (Bytes(t, k) \o <<NULL>>)[j] = IF j <= k THEN t ELSE NULL
  <1> DEFINE S == Threads \cup {NULL}
  <1>1. Bytes(t, k) \in Seq(S) /\ Len(Bytes(t, k)) = k /\ \A j \in 1..k : Bytes(t, k)[j] = t
    BY DEF Bytes
  <1>2. <<NULL>> \in Seq(S) /\ Len(<<NULL>>) = 1 /\ <<NULL>>[1] = NULL
    OBVIOUS
  <1> HIDE DEF S
  <1> QED BY <1>1, <1>2, ConcatProperties DEF S

LEMMA TailBytes ==
  ASSUME NEW S, NEW s \in Seq(S), s # <<>>
  PROVE  /\ Tail(s) \in Seq(S) /\ Head(s) \in S /\ Head(s) = s[1]
         /\ Len(s) \in Nat /\ Len(s) >= 1 /\ Len(Tail(s)) = Len(s) - 1
         /\ \A j \in 1..Len(s)-1 : Tail(s)[j] = s[j + 1]
  BY HeadTailProperties, EmptySeq, LenProperties

LEMMA LengthType ==
  ASSUME TypeOK, NEW t \in Threads
  PROVE  /\ Written(t) \in Nat /\ Written(t) <= Size - 1
         /\ line[t].head \in Nat /\ 1 <= line[t].head /\ line[t].head <= Written(t)
         /\ Least(line[t].text, Room(line[t])) \in Nat
         /\ line[t].head + Least(line[t].text, Room(line[t])) <= Size - 1
  <1>1. /\ line[t].text \in Nat /\ line[t].head \in Nat /\ 1 <= line[t].head
        /\ Room(line[t]) \in Nat /\ line[t].head + Room(line[t]) = Size - 1
    BY SizesType DEF TypeOK, Lines, Room
  <1>2. /\ Least(line[t].text, Room(line[t])) \in Nat
        /\ Least(line[t].text, Room(line[t])) <= Room(line[t])
    BY <1>1, LeastIsLeast
  <1> HIDE DEF Room
  <1> QED BY <1>1, <1>2, SizesType DEF Written

Buffers == [1..Size -> Threads \cup {NULL}]

IsEnd(b, e) == b[e] = NULL /\ \A m \in 1..e-1 : b[m] # NULL

LEMMA FirstZero ==
  ASSUME NEW b \in Buffers, NEW n \in 1..Size, b[n] = NULL
  PROVE  \E e \in 1..Size : IsEnd(b, e)
  <1> DEFINE Z == {m \in 1..Size : b[m] = NULL}
  <1>1. Z \subseteq Nat /\ Z # {}
    BY SizesType
  <1>2. PICK e \in Z : \A m \in Z : <<m, e>> \notin OpToRel(<, Nat)
    BY <1>1, WFMin, NatLessThanWellFounded
  <1>3. \A m \in Z : ~(m < e)
    BY <1>1, <1>2 DEF OpToRel
  <1> QED BY <1>3, SizesType DEF IsEnd

(* A string that is read in a buffer with a zero in it.                    *)
LEMMA StringOfBuffer ==
  ASSUME NEW b \in Buffers, NEW n \in 1..Size, b[n] = NULL
  PROVE  /\ String(b) \in Seq(Threads)
         /\ IsEnd(b, n) => /\ Len(String(b)) = n - 1
                           /\ \A m \in 1..n-1 : String(b)[m] = b[m]
  <1> DEFINE e == CHOOSE e \in 1..Size : b[e] = NULL /\ \A m \in 1..e-1 : b[m] # NULL
  <1>1. e \in 1..Size /\ IsEnd(b, e)
    BY FirstZero DEF IsEnd
  <1>2. String(b) = SubSeq(b, 1, e - 1)
    BY DEF String
  <1> HIDE DEF e
  <1>3. \A m \in 1..e-1 : b[m] \in Threads
    BY <1>1, SizesType DEF IsEnd, Buffers
  <1>4. IsEnd(b, n) => e = n
    BY <1>1, SizesType DEF IsEnd
  <1>5. /\ SubSeq(b, 1, e - 1) \in Seq(Threads)
        /\ Len(SubSeq(b, 1, e - 1)) = e - 1
        /\ \A m \in 1..e-1 : SubSeq(b, 1, e - 1)[m] = b[m]
    <2>1. e \in Int /\ e >= 1 /\ 1 \in Int /\ e - 1 \in Int
      BY <1>1, SizesType
    <2>2. /\ SubSeq(b, 1, e - 1) \in Seq(Threads)
          /\ Len(SubSeq(b, 1, e - 1)) = IF 1 <= e - 1 THEN e - 1 - 1 + 1 ELSE 0
          /\ \A m \in 1..e-1-1+1 : SubSeq(b, 1, e - 1)[m] = b[1 + m - 1]
      BY <1>3, <2>1, SubSeqProperties
    <2> QED BY <2>1, <2>2
  <1> QED BY <1>2, <1>4, <1>5

-----------------------------------------------------------------------------
(* Type correctness, and what the threads write.                           *)

LEMMA InitTypeInv == Init => TypeInv
  <1>1. <<>> \in Seq(Threads \cup {NULL}) /\ <<>> \in Seq(Threads) /\ Len(<<>>) = 0
    BY EmptySeq
  <1> SUFFICES ASSUME Init PROVE TypeInv
    OBVIOUS
  <1>2. /\ level \in [Units -> Levels] /\ buff \in [Units -> [1..Size -> Threads \cup {NULL}]]
        /\ pos \in [Threads -> 1..Size+1]
    BY SizesType DEF Init, Levels, Info
  <1>3. NoLine \in Lines
    BY SizesType DEF NoLine, Lines, Levels, Info
  <1>6. todo \in [Threads -> Seq(Threads \cup {NULL})] /\ got \in [Threads -> Seq(Threads)]
    BY <1>1 DEF Init
  <1>7. \A t \in Threads : Len(todo[t]) <= Size
    <2>1. \A t \in Threads : Len(todo[t]) = 0
      BY <1>1, Zenon DEF Init
    <2>2. 0 <= Size
      BY SizesType
    <2> QED BY <2>1, <2>2, Zenon
  <1>4. TypeOK
    BY <1>6, <1>7, <1>2, <1>3, SizesType, UnitsType DEF Init, TypeOK
  <1>5. LineInv
    BY DEF Init, LineInv, LineOf, Busy
  <1> QED BY <1>4, <1>5 DEF TypeInv

(* What one thread does leaves what the others write.                      *)
Elsewhere(t) ==
  \A s \in Threads \ {t} :
    /\ pc'[s] = pc[s] /\ line'[s] = line[s] /\ todo'[s] = todo[s]
    /\ pos'[s] = pos[s] /\ got'[s] = got[s]

LEMMA OtherLines ==
  ASSUME LineInv, NEW t \in Threads, Elsewhere(t), LineOf(t)'
  PROVE  LineInv'
  <1> SUFFICES ASSUME NEW s \in Threads \ {t} PROVE LineOf(s)'
    BY DEF LineInv
  <1>1. Written(s)' = Written(s)
    BY DEF Written, Elsewhere
  <1>2. ToWrite(s)' <=> ToWrite(s)
    BY <1>1 DEF ToWrite, Byte, Elsewhere
  <1> QED BY <1>2 DEF LineInv, LineOf, Elsewhere

LEMMA NextTypeInv == TypeInv /\ EndInv /\ [Next]_vars => TypeInv'
  <1> SUFFICES ASSUME TypeInv, EndInv, [Next]_vars PROVE TypeInv'
    OBVIOUS
  <1> DEFINE Steps == {"idle", "head", "text", "print", "call", "done", "register"}
  <1>1. ASSUME NEW t \in Threads, Begin(t) PROVE TypeInv'
    <2>1. PICK u \in Units, l \in Lines :
            /\ Goto(t, "idle", "head")
            /\ unit' = [unit EXCEPT ![t] = u]
            /\ line' = [line EXCEPT ![t] = l]
            /\ todo' = [todo EXCEPT ![t] = Bytes(t, l.head) \o <<NULL>>]
            /\ UNCHANGED <<statics, pos, got>>
      BY <1>1 DEF Begin
    <2>2. alone' \in [Threads -> BOOLEAN]
      BY <1>1, ZenonT(40) DEF Begin, TypeInv, TypeOK
    <2> DEFINE k == l.head
               new == Bytes(t, k) \o <<NULL>>
    <2>8. k \in Nat /\ k <= Size - 1
      BY SizesType DEF Lines
    <2>3. /\ new \in Seq(Threads \cup {NULL}) /\ Len(new) = k + 1
          /\ \A j \in 1..k+1 : new[j] = IF j <= k THEN t ELSE NULL
      BY <2>8, TextBytes
    <2>4. /\ todo' = [todo EXCEPT ![t] = new] /\ line'[t].head = k
          /\ pc[t] = "idle" /\ pc' = [pc EXCEPT ![t] = "head"]
      BY <2>1 DEF Goto, TypeInv, TypeOK
    <2> HIDE DEF k, new
    <2>5. TypeOK'
      <3>1. /\ todo' \in [Threads -> Seq(Threads \cup {NULL})]
            /\ \A s \in Threads : Len(todo'[s]) <= Size
        BY <2>3, <2>4, <2>8, SizesType DEF TypeInv, TypeOK
      <3>2. line' \in [Threads -> Lines] /\ unit' \in [Threads -> Units]
        BY <2>1 DEF TypeInv, TypeOK
      <3>3. pc' \in [Threads -> Steps]
        BY <2>4 DEF TypeInv, TypeOK
      <3> QED BY <2>1, <2>2, <3>1, <3>2, <3>3 DEF TypeInv, TypeOK, statics
    <2>6. LineOf(t)'
      <3>1. /\ pc'[t] = "head" /\ todo'[t] = new
            /\ pos'[t] = 1 /\ got'[t] = <<>>
        BY <2>1, <2>4 DEF TypeInv, TypeOK, LineInv, LineOf
      <3>2. Written(t)' = k
        BY <2>4, <2>8, <3>1 DEF Written
      <3> QED BY <2>3, <2>8, <3>1, <3>2 DEF LineOf, ToWrite, Byte
    <2>7. Elsewhere(t)
      BY <2>1 DEF Goto, Elsewhere
    <2> QED BY <2>5, <2>6, <2>7, OtherLines DEF TypeInv
  <1>2. ASSUME NEW t \in Threads, Put(t) PROVE TypeInv'
    <2> DEFINE S == Threads \cup {NULL}
    <2>1. /\ Tail(todo[t]) \in Seq(S) /\ Head(todo[t]) \in S
          /\ Len(todo[t]) \in Nat /\ Len(todo[t]) >= 1 /\ Len(Tail(todo[t])) = Len(todo[t]) - 1
          /\ \A j \in 1..Len(todo[t])-1 : Tail(todo[t])[j] = todo[t][j + 1]
      BY <1>2, TailBytes DEF Put, TypeInv, TypeOK
    <2>2. pos[t] \in Nat /\ pos[t] + 1 \in 1..Size+1
      <3>1. ToWrite(t) /\ pos[t] \in 1..Size+1
        BY <1>2 DEF Put, TypeInv, TypeOK, LineInv, LineOf, Busy
      <3>2. Written(t) \in Nat /\ Written(t) <= Size - 1
        BY LengthType DEF TypeInv
      <3>3. pos[t] + Len(todo[t]) = Written(t) + 2
        BY <3>1 DEF ToWrite
      <3> QED BY <2>1, <3>1, <3>2, <3>3, SizesType
    <2>3. TypeOK'
      <3>1. buff' \in [Units -> [1..Size -> S]]
        BY <1>2, <2>1, ZenonT(40) DEF Put, TypeInv, TypeOK
      <3>2. todo' = [todo EXCEPT ![t] = Tail(todo[t])] /\ pos' = [pos EXCEPT ![t] = pos[t] + 1]
        BY <1>2 DEF Put
      <3>3. todo' \in [Threads -> Seq(S)] /\ \A s \in Threads : Len(todo'[s]) <= Size
        BY <2>1, <3>2, SizesType DEF TypeInv, TypeOK
      <3>4. pos' \in [Threads -> 1..Size+1]
        BY <2>2, <3>2 DEF TypeInv, TypeOK
      <3> QED BY <1>2, <3>1, <3>3, <3>4 DEF Put, TypeInv, TypeOK
    <2>4. LineOf(t)'
      <3>1. /\ pos'[t] = pos[t] + 1 /\ todo'[t] = Tail(todo[t])
            /\ pc'[t] = pc[t] /\ pc[t] \in {"head", "text"} /\ got'[t] = got[t]
        BY <1>2 DEF Put, TypeInv, TypeOK
      <3>2. Written(t)' = Written(t)
        BY <1>2 DEF Put, Written
      <3>3. ToWrite(t) /\ got[t] = <<>>
        BY <3>1 DEF TypeInv, LineInv, LineOf, Busy
      <3>4. Written(t) \in Nat
        BY LengthType DEF TypeInv
      <3>5. pos'[t] + Len(todo'[t]) = Written(t)' + 2
        <4>1. pos[t] + Len(todo[t]) = Written(t) + 2
          BY <3>3 DEF ToWrite
        <4>2. Len(todo'[t]) = Len(todo[t]) - 1 /\ Len(todo[t]) \in Nat
          BY <2>1, <3>1
        <4>3. pos'[t] = pos[t] + 1 /\ pos[t] \in Nat
          BY <2>2, <3>1
        <4>4. \A a, b, c \in Nat : a + b = c + 2 => (a + 1) + (b - 1) = c + 2
          OBVIOUS
        <4>5. (pos[t] + 1) + (Len(todo[t]) - 1) = Written(t) + 2
          BY <3>4, <4>1, <4>2, <4>3, <4>4, Zenon
        <4> QED BY <3>2, <4>2, <4>3, <4>5, Zenon
      <3>6. ASSUME NEW j \in 1..Len(todo'[t]) PROVE todo'[t][j] = Byte(t, pos[t] + j - 1)'
        <4>1. todo'[t][j] = todo[t][j + 1] /\ j + 1 \in 1..Len(todo[t])
          BY <2>1, <3>1
        <4>2. todo[t][j + 1] = Byte(t, pos[t] + (j + 1) - 1)
          BY <3>3, <4>1 DEF ToWrite
        <4>3. pos'[t] + j - 1 = pos[t] + (j + 1) - 1
          BY <2>2, <3>1
        <4>4. Byte(t, pos[t] + j - 1)' = Byte(t, pos[t] + (j + 1) - 1)
          BY <3>2, <4>3 DEF Byte
        <4> QED BY <4>1, <4>2, <4>4
      <3>7. ToWrite(t)'
        BY <3>5, <3>6 DEF ToWrite
      <3> QED BY <3>1, <3>3, <3>7 DEF LineOf
    <2>5. Elsewhere(t)
      BY <1>2 DEF Put, Elsewhere
    <2> QED BY <2>3, <2>4, <2>5, OtherLines DEF TypeInv
  <1>3. ASSUME NEW t \in Threads, BeginText(t) PROVE TypeInv'
    <2> DEFINE h == line[t].head
               k == Least(line[t].text, Room(line[t]))
               new == Bytes(t, k) \o <<NULL>>
    <2>1. k \in Nat /\ h \in Nat /\ 1 <= h /\ h + k <= Size - 1
      BY LengthType DEF TypeInv
    <2>2. /\ new \in Seq(Threads \cup {NULL}) /\ Len(new) = k + 1
          /\ \A j \in 1..k+1 : new[j] = IF j <= k THEN t ELSE NULL
      BY <2>1, TextBytes
    <2>3. /\ todo' = [todo EXCEPT ![t] = new] /\ pos' = [pos EXCEPT ![t] = pos[t] - 1]
          /\ pc[t] = "head" /\ pc' = [pc EXCEPT ![t] = "text"] /\ todo[t] = <<>>
          /\ UNCHANGED <<statics, unit, line, alone, got>>
      BY <1>3 DEF BeginText, Goto
    <2>8. (pc'[t] = "text" => Written(t)' = h + k) /\ (pc[t] = "head" => Written(t) = h)
      BY <2>1, <2>3 DEF Written, Room
    <2> HIDE DEF h, k, new
    <2>4. pos[t] = h + 2
      <3>1. ToWrite(t) /\ Written(t) = h /\ Len(todo[t]) = 0 /\ pos[t] \in Int
        BY <2>3, <2>8 DEF TypeInv, TypeOK, LineInv, LineOf, Busy
      <3> QED BY <2>1, <3>1 DEF ToWrite
    <2>5. TypeOK'
      BY <2>1, <2>2, <2>3, <2>4, SizesType DEF TypeInv, TypeOK, statics
    <2>6. LineOf(t)'
      <3>1. todo'[t] = new /\ pos'[t] = h + 1 /\ pc'[t] = "text" /\ got'[t] = <<>>
        BY <2>1, <2>3, <2>4 DEF TypeInv, TypeOK, LineInv, LineOf
      <3>2. Written(t)' = h + k
        BY <2>8, <3>1
      <3> QED BY <2>1, <2>2, <3>1, <3>2 DEF LineOf, ToWrite, Byte
    <2>7. Elsewhere(t)
      BY <2>3 DEF Elsewhere
    <2> QED BY <2>5, <2>6, <2>7, OtherLines DEF TypeInv
  <1>4. ASSUME NEW t \in Threads, Output(t) PROVE TypeInv'
    <2>1. /\ pc[t] = "text" /\ pc' = [pc EXCEPT ![t] = "print"] /\ todo[t] = <<>>
          /\ UNCHANGED <<statics, locals>>
      BY <1>4 DEF Output, Goto
    <2>2. pc' \in [Threads -> Steps]
      BY <2>1 DEF TypeInv, TypeOK
    <2>3. TypeOK'
      BY <2>1, <2>2 DEF TypeInv, TypeOK, statics, locals
    <2>4. pc'[t] = "print" /\ Written(t)' = Written(t)
      BY <2>1 DEF TypeInv, TypeOK, Written, locals
    <2>5. ToWrite(t) /\ got[t] = <<>>
      BY <2>1 DEF TypeInv, LineInv, LineOf, Busy
    <2>6. ToWrite(t)'
      BY <2>1, <2>4, <2>5 DEF ToWrite, Byte, locals
    <2>7. LineOf(t)' /\ Elsewhere(t)
      BY <2>1, <2>4, <2>5, <2>6 DEF LineOf, Elsewhere, locals
    <2> QED BY <2>3, <2>7, OtherLines DEF TypeInv
  <1>5. ASSUME NEW t \in Threads, TestCallback(t) PROVE TypeInv'
    <2> DEFINE to == IF HasCallback THEN "call" ELSE "done"
    <2>1. /\ pc[t] = "print" /\ pc' = [pc EXCEPT ![t] = to] /\ to \in {"call", "done"}
          /\ UNCHANGED <<statics, locals>>
      BY <1>5 DEF TestCallback, Goto
    <2> HIDE DEF to
    <2>2. pc' \in [Threads -> Steps] /\ pc'[t] = to
      BY <2>1 DEF TypeInv, TypeOK
    <2>3. TypeOK'
      BY <2>1, <2>2 DEF TypeInv, TypeOK, statics, locals
    <2>4. Written(t)' = Written(t)
      BY <2>1, <2>2 DEF Written, locals
    <2>5. ToWrite(t) /\ got[t] = <<>> /\ todo[t] = <<>>
      BY <2>1 DEF TypeInv, LineInv, LineOf, Busy
    <2>6. ToWrite(t)'
      BY <2>1, <2>4, <2>5 DEF ToWrite, Byte, locals
    <2>7. LineOf(t)' /\ Elsewhere(t)
      BY <2>1, <2>2, <2>5, <2>6 DEF LineOf, Elsewhere, locals
    <2> QED BY <2>3, <2>7, OtherLines DEF TypeInv
  <1>6. ASSUME NEW t \in Threads, CallBack(t) PROVE TypeInv'
    <2> DEFINE new == String(buff[Buffer(t)])
    <2>1. new \in Seq(Threads)
      <3>1. Buffer(t) \in Units /\ buff[Buffer(t)] \in Buffers /\ buff[Buffer(t)][Size] = NULL
        BY DEF TypeInv, TypeOK, EndInv, Buffer, Buffers
      <3> QED BY <3>1, SizesType, StringOfBuffer
    <2>2. /\ pc[t] = "call" /\ pc' = [pc EXCEPT ![t] = "done"]
          /\ got' = [got EXCEPT ![t] = new]
          /\ crashed' \in BOOLEAN
          /\ UNCHANGED <<level, buff, callback, unit, line, todo, pos, alone>>
      BY <1>6 DEF CallBack, Goto
    <2> HIDE DEF new
    <2>3. TypeOK'
      BY <2>1, <2>2 DEF TypeInv, TypeOK
    <2>4. pc'[t] = "done"
      BY <2>2 DEF TypeInv, TypeOK
    <2>5. LineOf(t)' /\ Elsewhere(t)
      BY <2>2, <2>4 DEF LineOf, Elsewhere, TypeInv, LineInv, Busy
    <2> QED BY <2>3, <2>5, OtherLines DEF TypeInv
  <1>7. ASSUME NEW t \in Threads, Return(t) PROVE TypeInv'
    <2>1. /\ pc[t] = "done" /\ pc' = [pc EXCEPT ![t] = "idle"]
          /\ unit' = [unit EXCEPT ![t] = OzUtils] /\ line' = [line EXCEPT ![t] = NoLine]
          /\ pos' = [pos EXCEPT ![t] = 1]
          /\ alone' = [alone EXCEPT ![t] = FALSE]
          /\ got' = [got EXCEPT ![t] = <<>>]
          /\ UNCHANGED <<statics, todo>>
      BY <1>7 DEF Return, Goto
    <2>2. NoLine \in Lines /\ 1 \in 1..Size+1 /\ <<>> \in Seq(Threads)
      BY SizesType, EmptySeq DEF NoLine, Lines, Levels, Info
    <2>3. TypeOK'
      BY <2>1, <2>2, UnitsType DEF TypeInv, TypeOK, statics
    <2>4. pc'[t] = "idle" /\ pos'[t] = 1 /\ got'[t] = <<>>
      BY <2>1 DEF TypeInv, TypeOK
    <2>5. LineOf(t)' /\ Elsewhere(t)
      BY <2>1, <2>4 DEF LineOf, Elsewhere, TypeInv, LineInv, Busy
    <2> QED BY <2>3, <2>5, OtherLines DEF TypeInv
  <1>8. ASSUME NEW t \in Threads, Register(t) PROVE TypeInv'
    <2>1. PICK l \in Levels : level' = [level EXCEPT ![OzUtils] = l]
      BY <1>8 DEF Register
    <2>2. /\ pc[t] = "idle" /\ pc' = [pc EXCEPT ![t] = "register"]
          /\ UNCHANGED <<buff, callback, crashed, unit, line, todo, pos, alone, got>>
      BY <1>8 DEF Register, Goto
    <2>3. TypeOK'
      BY <2>1, <2>2 DEF TypeInv, TypeOK
    <2>4. pc'[t] = "register"
      BY <2>2 DEF TypeInv, TypeOK
    <2>5. LineOf(t)' /\ Elsewhere(t)
      BY <2>2, <2>4 DEF LineOf, Elsewhere, TypeInv, LineInv, Busy
    <2> QED BY <2>3, <2>5, OtherLines DEF TypeInv
  <1>9. ASSUME NEW t \in Threads, SetCallback(t) PROVE TypeInv'
    <2>1. /\ pc[t] = "register" /\ pc' = [pc EXCEPT ![t] = "idle"]
          /\ callback' \in Callbacks \cup {NULL}
          /\ UNCHANGED <<level, buff, crashed, locals>>
      BY <1>9 DEF SetCallback, Goto
    <2>2. TypeOK'
      BY <2>1 DEF TypeInv, TypeOK, locals
    <2>3. pc'[t] = "idle"
      BY <2>1 DEF TypeInv, TypeOK
    <2>4. LineOf(t)' /\ Elsewhere(t)
      BY <2>1, <2>3 DEF LineOf, Elsewhere, TypeInv, LineInv, Busy, locals
    <2> QED BY <2>2, <2>4, OtherLines DEF TypeInv
  <1>10. CASE UNCHANGED vars
    BY <1>10 DEF vars, statics, locals, TypeInv, TypeOK, LineInv, LineOf, ToWrite, Byte, Written
  <1> QED BY <1>1, <1>2, <1>3, <1>4, <1>5, <1>6, <1>7, <1>8, <1>9, <1>10 DEF Next

-----------------------------------------------------------------------------
(* What is read ends inside the buffer, and NULL is not called.            *)

CallInv ==
  /\ ~crashed
  /\ \A t \in Threads : pc[t] = "call" => callback # NULL

SafeInv == EndInv /\ CallInv

LEMMA InitSafeInv == Init => SafeInv
  BY SizesType DEF Init, SafeInv, EndInv, CallInv

LEMMA NextSafeInv == TypeInv /\ SafeInv /\ [Next]_vars => SafeInv'
  <1> SUFFICES ASSUME TypeInv, SafeInv, [Next]_vars PROVE SafeInv'
    OBVIOUS
  <1> USE DEF SafeInv, EndInv, CallInv
  <1>1. ASSUME NEW t \in Threads, Begin(t) PROVE SafeInv'
    BY <1>1 DEF Begin, Goto, TypeInv, TypeOK, statics
  <1>2. ASSUME NEW t \in Threads, Put(t) PROVE SafeInv'
    <2>1. pos[t] = Size => Head(todo[t]) = NULL
      <3> SUFFICES ASSUME pos[t] = Size PROVE Head(todo[t]) = NULL
        OBVIOUS
      <3>1. ToWrite(t) /\ Written(t) \in Nat /\ Written(t) <= Size - 1
        BY <1>2, LengthType DEF Put, TypeInv, LineInv, LineOf, Busy
      <3>2. Head(todo[t]) = todo[t][1] /\ Len(todo[t]) \in Nat /\ Len(todo[t]) >= 1
        BY <1>2, TailBytes DEF Put, TypeInv, TypeOK
      <3>3. todo[t][1] = Byte(t, pos[t] + 1 - 1)
        BY <3>1, <3>2 DEF ToWrite
      <3>4. ~(pos[t] + 1 - 1 <= Written(t))
        BY <3>1, SizesType
      <3> QED BY <3>2, <3>3, <3>4 DEF Byte
    <2>2. \A u \in Units : buff'[u][Size] = NULL
      BY <1>2, <2>1, SizesType DEF Put, TypeInv, TypeOK
    <2> QED BY <1>2, <2>2 DEF Put
  <1>3. ASSUME NEW t \in Threads, BeginText(t) PROVE SafeInv'
    BY <1>3 DEF BeginText, Goto, TypeInv, TypeOK, statics
  <1>4. ASSUME NEW t \in Threads, Output(t) PROVE SafeInv'
    BY <1>4 DEF Output, Goto, TypeInv, TypeOK, statics
  <1>5. ASSUME NEW t \in Threads, TestCallback(t) PROVE SafeInv'
    BY <1>5 DEF TestCallback, HasCallback, Goto, TypeInv, TypeOK, statics
  <1>6. ASSUME NEW t \in Threads, CallBack(t) PROVE SafeInv'
    BY <1>6 DEF CallBack, Goto, TypeInv, TypeOK
  <1>7. ASSUME NEW t \in Threads, Return(t) PROVE SafeInv'
    BY <1>7 DEF Return, Goto, TypeInv, TypeOK, statics
  <1>8. ASSUME NEW t \in Threads, Register(t) PROVE SafeInv'
    BY <1>8 DEF Register, Goto, TypeInv, TypeOK
  <1>9. ASSUME NEW t \in Threads, SetCallback(t) PROVE SafeInv'
    <2>1. callback' = NULL => \A s \in Threads : pc[s] # "call"
      BY <1>9 DEF SetCallback, Printing, TypeInv, TypeOK
    <2> QED BY <1>9, <2>1 DEF SetCallback, Goto, TypeInv, TypeOK
  <1>10. CASE UNCHANGED vars
    BY <1>10 DEF vars, statics
  <1> QED BY <1>1, <1>2, <1>3, <1>4, <1>5, <1>6, <1>7, <1>8, <1>9, <1>10 DEF Next

-----------------------------------------------------------------------------
(* A thread that has its unit for itself.                                  *)

(* What it wrote is still there, and nobody else writes there.             *)
Undisturbed(t) ==
  /\ \A s \in Printing(unit[t]) : s = t
  /\ \A n \in 1..pos[t]-1 : buff[unit[t]][n] = Byte(t, n)

AloneInv == \A t \in Threads : alone[t] /\ pc[t] \in Busy => Undisturbed(t)

LEMMA InitAloneInv == Init => AloneInv
  BY DEF Init, AloneInv, Busy

(* A step that keeps where a thread is, what it prints and its buffer, and *)
(* lets nobody into its unit.                                              *)
LEMMA StillUndisturbed ==
  ASSUME NEW t \in Threads, Undisturbed(t),
         Written(t)' = Written(t), pos'[t] = pos[t], unit'[t] = unit[t],
         buff'[unit[t]] = buff[unit[t]],
         Printing(unit[t])' \subseteq Printing(unit[t])
  PROVE  Undisturbed(t)'
  <1>1. \A s \in Printing(unit[t])' : s = t
    BY DEF Undisturbed
  <1>2. \A n \in 1..pos'[t]-1 : buff'[unit'[t]][n] = Byte(t, n)'
    BY DEF Undisturbed, Byte
  <1> QED BY <1>1, <1>2 DEF Undisturbed

LEMMA NextAloneInv == TypeInv /\ AloneInv /\ [Next]_vars => AloneInv'
  <1> SUFFICES ASSUME TypeInv, AloneInv, [Next]_vars,
                      NEW s \in Threads, alone'[s], pc'[s] \in Busy
               PROVE  Undisturbed(s)'
    BY DEF AloneInv
  <1>1. ASSUME NEW t \in Threads, Begin(t) PROVE Undisturbed(s)'
    <2>1. PICK u \in Units, l \in Lines :
            /\ Goto(t, "idle", "head")
            /\ unit' = [unit EXCEPT ![t] = u]
            /\ line' = [line EXCEPT ![t] = l]
            /\ alone' = [r \in Threads |->
                           IF r = t THEN Printing(u) = {} ELSE alone[r] /\ r \notin Printing(u)]
            /\ UNCHANGED <<statics, pos, got>>
      BY <1>1 DEF Begin
    <2>2. CASE s = t
      <3>1. unit'[t] = u /\ Printing(u) = {} /\ pos'[t] = 1
        BY <2>1, <2>2 DEF Goto, TypeInv, TypeOK, LineInv, LineOf
      <3>2. \A r \in Printing(u)' : r = t
        <4> SUFFICES ASSUME NEW r \in Threads, r # t PROVE ~(r \in Printing(u)')
          BY DEF Printing
        <4>1. pc'[r] = pc[r] /\ unit'[r] = unit[r]
          BY <2>1 DEF Goto
        <4> QED BY <3>1, <4>1 DEF Printing
      <3> QED BY <2>2, <3>1, <3>2 DEF Undisturbed
    <2>3. CASE s # t
      <3>1. alone[s] /\ s \notin Printing(u) /\ pc[s] = pc'[s]
        BY <2>1, <2>3 DEF Goto, TypeInv, TypeOK
      <3>2. unit[s] # u
        BY <3>1 DEF Printing, Busy
      <3>3. Undisturbed(s)
        BY <3>1 DEF AloneInv
      <3>4. Printing(unit[s])' \subseteq Printing(unit[s])
        <4> SUFFICES ASSUME NEW r \in Threads, r \in Printing(unit[s])'
                     PROVE  r \in Printing(unit[s])
          BY DEF Printing
        <4>1. unit'[s] = unit[s] /\ unit'[t] = u
          BY <2>1, <2>3 DEF TypeInv, TypeOK
        <4>2. r # t
          BY <3>2, <4>1 DEF Printing
        <4>3. pc'[r] = pc[r] /\ unit'[r] = unit[r]
          BY <2>1, <4>2 DEF Goto
        <4> QED BY <4>1, <4>3 DEF Printing
      <3>5. unit'[s] = unit[s] /\ pos'[s] = pos[s] /\ buff' = buff
        BY <2>1, <2>3 DEF TypeInv, TypeOK, statics
      <3>6. Written(s)' = Written(s)
        BY <2>1, <2>3, <3>1 DEF Written
      <3> QED BY <3>3, <3>4, <3>5, <3>6, StillUndisturbed
    <2> QED BY <2>2, <2>3
  <1>2. ASSUME NEW t \in Threads, Put(t) PROVE Undisturbed(s)'
    <2>1. Undisturbed(s)
      BY <1>2 DEF Put, AloneInv
    <2>2. /\ pc' = pc /\ line' = line /\ unit' = unit /\ pc[t] \in {"head", "text"}
          /\ Printing(unit[s])' = Printing(unit[s]) /\ Written(s)' = Written(s)
      BY <1>2 DEF Put, Printing, Written
    <2>3. CASE s = t
      <3>1. Head(todo[t]) = Byte(t, pos[t]) /\ pos[t] \in 1..Size
        <4>1. ToWrite(t) /\ Written(t) \in Nat /\ Written(t) <= Size - 1
          BY <1>2, LengthType DEF Put, TypeInv, LineInv, LineOf, Busy
        <4>2. Head(todo[t]) = todo[t][1] /\ Len(todo[t]) \in Nat /\ Len(todo[t]) >= 1
          BY <1>2, TailBytes DEF Put, TypeInv, TypeOK
        <4>3. todo[t][1] = Byte(t, pos[t] + 1 - 1)
          BY <4>1, <4>2 DEF ToWrite
        <4>4. pos[t] \in 1..Size+1 /\ pos[t] + Len(todo[t]) = Written(t) + 2
          BY <4>1 DEF ToWrite, TypeInv, TypeOK
        <4>5. pos[t] + 1 - 1 = pos[t] /\ pos[t] \in 1..Size
          BY <4>1, <4>2, <4>4, SizesType
        <4> QED BY <4>2, <4>3, <4>5
      <3>2. /\ pos'[t] = pos[t] + 1
            /\ \A n \in 1..Size :
                 buff'[unit[t]][n] = IF n = pos[t] THEN Byte(t, pos[t]) ELSE buff[unit[t]][n]
        BY <1>2, <3>1 DEF Put, Buffer, TypeInv, TypeOK
      <3>3. \A n \in 1..pos'[t]-1 : buff'[unit[t]][n] = Byte(t, n)
        BY <2>1, <2>3, <3>1, <3>2, SizesType DEF Undisturbed
      <3>4. \A n : Byte(t, n)' = Byte(t, n)
        BY <2>2, <2>3 DEF Byte
      <3>5. \A n \in 1..pos'[t]-1 : buff'[unit'[t]][n] = Byte(t, n)'
        BY <2>2, <3>3, <3>4
      <3>6. \A r \in Printing(unit[t])' : r = t
        BY <2>1, <2>2, <2>3 DEF Undisturbed
      <3> QED BY <2>3, <3>5, <3>6 DEF Undisturbed
    <2>4. CASE s # t
      <3>1. unit[s] # unit[t]
        BY <2>1, <2>2, <2>4 DEF Undisturbed, Printing
      <3>2. buff'[unit[s]] = buff[unit[s]] /\ pos'[s] = pos[s]
        BY <1>2, <2>4, <3>1 DEF Put, Buffer, TypeInv, TypeOK
      <3> QED BY <2>1, <2>2, <3>2, StillUndisturbed
    <2> QED BY <2>3, <2>4
  <1>3. ASSUME NEW t \in Threads, BeginText(t) PROVE Undisturbed(s)'
    <2>1. /\ pc[t] = "head" /\ pc' = [pc EXCEPT ![t] = "text"] /\ todo[t] = <<>>
          /\ pos' = [pos EXCEPT ![t] = pos[t] - 1]
          /\ UNCHANGED <<statics, unit, line, alone, got>>
      BY <1>3 DEF BeginText, Goto
    <2>2. Undisturbed(s) /\ Printing(unit[s])' = Printing(unit[s]) /\ buff' = buff
      BY <2>1 DEF AloneInv, Busy, Printing, TypeInv, TypeOK, statics
    <2>3. CASE s = t
      <3> DEFINE h == line[t].head
      <3>1. /\ h \in Nat /\ Written(t) = h
            /\ Written(t)' \in Nat /\ h <= Written(t)'
        BY <2>1, LengthType DEF Written, Room, TypeInv, TypeOK
      <3> HIDE DEF h
      <3>2. pos[t] = h + 2
        <4>1. ToWrite(t) /\ Len(todo[t]) = 0 /\ pos[t] \in Int
          BY <2>1 DEF TypeInv, TypeOK, LineInv, LineOf, Busy
        <4> QED BY <3>1, <4>1 DEF ToWrite
      <3>3. pos'[t] = h + 1
        BY <2>1, <3>1, <3>2 DEF TypeInv, TypeOK
      <3>4. ASSUME NEW n \in 1..pos'[t]-1 PROVE buff'[unit'[t]][n] = Byte(t, n)'
        <4>1. n \in 1..h
          BY <3>1, <3>3
        <4>2. Byte(t, n) = t /\ Byte(t, n)' = t
          BY <3>1, <4>1 DEF Byte
        <4>3. buff[unit[t]][n] = Byte(t, n)
          BY <2>2, <2>3, <3>1, <3>2, <4>1 DEF Undisturbed
        <4> QED BY <2>1, <2>2, <4>2, <4>3
      <3>8. \A r \in Printing(unit[t])' : r = t
        BY <2>1, <2>2, <2>3 DEF Undisturbed
      <3> QED BY <2>3, <3>4, <3>8 DEF Undisturbed
    <2>4. CASE s # t
      <3>1. Written(s)' = Written(s) /\ pos'[s] = pos[s] /\ unit'[s] = unit[s]
        BY <2>1, <2>4 DEF Written
      <3> QED BY <2>2, <3>1, StillUndisturbed
    <2> QED BY <2>3, <2>4
  <1>4. ASSUME NEW t \in Threads, Output(t) PROVE Undisturbed(s)'
    <2>1. /\ pc[t] = "text" /\ pc' = [pc EXCEPT ![t] = "print"]
          /\ UNCHANGED <<statics, locals>>
      BY <1>4 DEF Output, Goto
    <2>2. pc[s] \in Busy /\ Printing(unit[s])' = Printing(unit[s])
      BY <2>1 DEF Printing, Busy, TypeInv, TypeOK, locals
    <2>3. Written(s)' = Written(s)
      BY <2>1 DEF Written, TypeInv, TypeOK, locals
    <2> QED BY <2>1, <2>2, <2>3, StillUndisturbed DEF AloneInv, locals, statics
  <1>5. ASSUME NEW t \in Threads, TestCallback(t) PROVE Undisturbed(s)'
    <2>1. /\ pc[t] = "print" /\ \E to \in {"call", "done"} : pc' = [pc EXCEPT ![t] = to]
          /\ UNCHANGED <<statics, locals>>
      BY <1>5 DEF TestCallback, Goto
    <2>2. pc[s] \in Busy /\ Printing(unit[s])' \subseteq Printing(unit[s])
      BY <2>1 DEF Printing, Busy, TypeInv, TypeOK, locals
    <2>3. Written(s)' = Written(s)
      BY <2>1 DEF Written, TypeInv, TypeOK, locals
    <2> QED BY <2>1, <2>2, <2>3, StillUndisturbed DEF AloneInv, locals, statics
  <1>6. ASSUME NEW t \in Threads, CallBack(t) PROVE Undisturbed(s)'
    <2>1. /\ pc[t] = "call" /\ pc' = [pc EXCEPT ![t] = "done"]
          /\ UNCHANGED <<level, buff, callback, unit, line, todo, pos, alone>>
      BY <1>6 DEF CallBack, Goto
    <2>2. pc[s] \in Busy /\ Printing(unit[s])' \subseteq Printing(unit[s])
      BY <2>1 DEF Printing, Busy, TypeInv, TypeOK
    <2>3. Written(s)' = Written(s)
      BY <2>1 DEF Written, TypeInv, TypeOK
    <2> QED BY <2>1, <2>2, <2>3, StillUndisturbed DEF AloneInv
  <1>7. ASSUME NEW t \in Threads, Return(t) PROVE Undisturbed(s)'
    <2>1. /\ pc[t] = "done" /\ pc' = [pc EXCEPT ![t] = "idle"]
          /\ unit' = [unit EXCEPT ![t] = OzUtils] /\ line' = [line EXCEPT ![t] = NoLine]
          /\ pos' = [pos EXCEPT ![t] = 1] /\ alone' = [alone EXCEPT ![t] = FALSE]
          /\ buff' = buff
      BY <1>7 DEF Return, Goto, statics
    <2>2. s # t
      BY <2>1 DEF TypeInv, TypeOK
    <2>3. pc[s] \in Busy /\ alone[s] /\ unit'[s] = unit[s] /\ pos'[s] = pos[s]
      BY <2>1, <2>2
    <2>4. Printing(unit[s])' \subseteq Printing(unit[s])
      <3> SUFFICES ASSUME NEW r \in Threads, r \in Printing(unit[s])'
                   PROVE  r \in Printing(unit[s])
        BY DEF Printing
      <3>1. r # t
        BY <2>1 DEF Printing, TypeInv, TypeOK
      <3>2. pc'[r] = pc[r] /\ unit'[r] = unit[r]
        BY <2>1, <3>1
      <3> QED BY <2>3, <3>2 DEF Printing
    <2>5. Written(s)' = Written(s)
      BY <2>1, <2>2 DEF Written
    <2> QED BY <2>1, <2>3, <2>4, <2>5, StillUndisturbed DEF AloneInv
  <1>8. ASSUME NEW t \in Threads, Register(t) PROVE Undisturbed(s)'
    <2>1. /\ pc[t] = "idle" /\ pc' = [pc EXCEPT ![t] = "register"]
          /\ UNCHANGED <<buff, callback, crashed, unit, line, todo, pos, alone, got>>
      BY <1>8 DEF Register, Goto
    <2>2. pc[s] \in Busy /\ Printing(unit[s])' = Printing(unit[s])
      BY <2>1 DEF Printing, Busy, TypeInv, TypeOK
    <2>3. Written(s)' = Written(s)
      BY <2>1 DEF Written, TypeInv, TypeOK
    <2> QED BY <2>1, <2>2, <2>3, StillUndisturbed DEF AloneInv
  <1>9. ASSUME NEW t \in Threads, SetCallback(t) PROVE Undisturbed(s)'
    <2>1. /\ pc[t] = "register" /\ pc' = [pc EXCEPT ![t] = "idle"]
          /\ UNCHANGED <<level, buff, crashed, locals>>
      BY <1>9 DEF SetCallback, Goto
    <2>2. pc[s] \in Busy /\ Printing(unit[s])' = Printing(unit[s])
      BY <2>1 DEF Printing, Busy, TypeInv, TypeOK, locals
    <2>3. Written(s)' = Written(s)
      BY <2>1 DEF Written, TypeInv, TypeOK, locals
    <2> QED BY <2>1, <2>2, <2>3, StillUndisturbed DEF AloneInv, locals
  <1>10. CASE UNCHANGED vars
    <2>1. pc[s] \in Busy /\ Printing(unit[s])' = Printing(unit[s])
      BY <1>10 DEF vars, locals, Printing
    <2>2. Written(s)' = Written(s)
      BY <1>10 DEF vars, locals, Written
    <2> QED BY <1>10, <2>1, <2>2, StillUndisturbed DEF AloneInv, vars, locals, statics
  <1> QED BY <1>1, <1>2, <1>3, <1>4, <1>5, <1>6, <1>7, <1>8, <1>9, <1>10 DEF Next

(* What the callback gets of an undisturbed line.                          *)
LEMMA WholeLine ==
  ASSUME TypeInv, NEW t \in Threads, Undisturbed(t), pc[t] = "call"
  PROVE  String(buff[unit[t]]) = Bytes(t, Least(line[t].head + line[t].text, Size - 1))
  <1> DEFINE k == Written(t)
             b == buff[unit[t]]
  <1>1. /\ k \in Nat /\ k <= Size - 1
        /\ Least(line[t].head + line[t].text, Size - 1) = k
    <2>1. line[t].text \in Nat /\ line[t].head \in Nat
      BY SizesType DEF TypeInv, TypeOK, Lines
    <2> QED BY <2>1, LengthType, SizesType DEF TypeInv, Written, Least, Room
  <1>2. pos[t] = k + 2
    <2>1. LineOf(t)
      BY DEF TypeInv, LineInv
    <2>3. ToWrite(t) /\ todo[t] = <<>>
      BY <2>1 DEF LineOf, Busy
    <2>4. pos[t] \in Int
      BY SizesType DEF TypeInv, TypeOK
    <2>2. Len(todo[t]) = 0
      BY <2>3, EmptySeq, Zenon
    <2> QED BY <1>1, <2>3, <2>4, <2>2 DEF ToWrite
  <1>3. b \in Buffers
    BY DEF TypeInv, TypeOK, Buffers
  <1>4. \A n \in 1..k+1 : b[n] = IF n <= k THEN t ELSE NULL
    BY <1>1, <1>2 DEF Undisturbed, Byte
  <1> HIDE DEF k, b
  <1>5. IsEnd(b, k + 1) /\ k + 1 \in 1..Size
    BY <1>1, <1>4, NullType, SizesType DEF IsEnd
  <1>6. /\ String(b) \in Seq(Threads) /\ Len(String(b)) = k
        /\ \A n \in 1..k : String(b)[n] = t
    <2>1. /\ String(b) \in Seq(Threads) /\ Len(String(b)) = (k + 1) - 1
          /\ \A n \in 1..(k+1)-1 : String(b)[n] = b[n]
      BY <1>3, <1>5, StringOfBuffer DEF IsEnd
    <2>2. (k + 1) - 1 = k
      BY <1>1
    <2> QED BY <1>1, <1>4, <2>1, <2>2
  <1>7. /\ Bytes(t, k) \in Seq(Threads) /\ Len(Bytes(t, k)) = k
        /\ \A n \in 1..k : Bytes(t, k)[n] = t
    BY <1>1 DEF Bytes
  <1>8. String(b) = Bytes(t, k)
    BY <1>6, <1>7, SeqEqual
  <1> QED BY <1>1, <1>8 DEF b

OwnInv == AloneInv /\ OwnLine

SameLine(t) == got'[t] = got[t] /\ line'[t] = line[t] /\ (alone'[t] => alone[t])

LEMMA NextOwnInv == TypeInv /\ OwnInv /\ [Next]_vars => OwnInv'
  <1> SUFFICES ASSUME TypeInv, OwnInv, [Next]_vars,
                      NEW s \in Threads, got'[s] # <<>>, alone'[s]
               PROVE  got'[s] = Bytes(s, Least(line'[s].head + line'[s].text, Size - 1))
    BY NextAloneInv DEF OwnInv, OwnLine
  <1> DEFINE Own == got'[s] = Bytes(s, Least(line'[s].head + line'[s].text, Size - 1))
  <1>1. CASE SameLine(s)
    BY <1>1 DEF OwnInv, OwnLine, SameLine
  <1>2. ASSUME NEW t \in Threads, Begin(t) PROVE Own
    <2>1. CASE s = t
      BY <1>2, <2>1 DEF Begin, Goto, TypeInv, LineInv, LineOf
    <2>2. CASE s # t
      <3>1. PICK u \in Units, l \in Lines :
              /\ line' = [line EXCEPT ![t] = l]
              /\ alone' = [r \in Threads |->
                             IF r = t THEN Printing(u) = {} ELSE alone[r] /\ r \notin Printing(u)]
              /\ got' = got
        BY <1>2 DEF Begin
      <3>2. SameLine(s)
        <4>1. alone'[s] => alone[s]
          BY <2>2, <3>1, Zenon
        <4>2. line'[s] = line[s]
          BY <2>2, <3>1
        <4> QED BY <3>1, <4>1, <4>2 DEF SameLine
      <3> QED BY <1>1, <3>2
    <2> QED BY <2>1, <2>2
  <1>3. ASSUME NEW t \in Threads, CallBack(t) PROVE Own
    <2>1. CASE s = t
      <3>1. /\ pc[s] = "call" /\ got'[s] = String(buff[unit[s]])
            /\ line' = line /\ alone' = alone
        BY <1>3, <2>1 DEF CallBack, Goto, Buffer, TypeInv, TypeOK
      <3>2. Undisturbed(s)
        BY <3>1 DEF OwnInv, AloneInv, Busy
      <3> QED BY <3>1, <3>2, WholeLine
    <2>2. CASE s # t
      BY <1>1, <1>3, <2>2 DEF CallBack, SameLine
    <2> QED BY <2>1, <2>2
  <1>4. ASSUME NEW t \in Threads, Return(t) PROVE Own
    <2>1. s # t
      BY <1>4 DEF Return, TypeInv, TypeOK
    <2> QED BY <1>1, <1>4, <2>1 DEF Return, SameLine
  <1>5. ASSUME NEW t \in Threads,
               \/ Put(t) \/ BeginText(t) \/ Output(t) \/ TestCallback(t) \/ Register(t)
               \/ SetCallback(t)
        PROVE  Own
    <2>1. SameLine(s)
      BY <1>5
      DEF SameLine, Put, BeginText, Output, TestCallback, Register, SetCallback, locals
    <2> QED BY <1>1, <2>1
  <1>6. CASE UNCHANGED vars
    BY <1>1, <1>6 DEF vars, locals, SameLine
  <1> QED BY <1>2, <1>3, <1>4, <1>5, <1>6 DEF Next

-----------------------------------------------------------------------------
LogInv == TypeInv /\ SafeInv /\ OwnInv

LEMMA Invariants == Spec => []LogInv
  <1>1. Init => LogInv
    BY InitTypeInv, InitSafeInv, InitAloneInv DEF LogInv, OwnInv, OwnLine, Init
  <1>2. LogInv /\ [Next]_vars => LogInv'
    BY NextTypeInv, NextSafeInv, NextOwnInv DEF LogInv, SafeInv
  <1> QED BY <1>1, <1>2, PTL DEF Spec

(* Every state of the log has its type, and what a thread still has to     *)
(* write fits in the buffer.                                               *)
THEOREM TypeCorrect == Spec => []TypeOK
  <1>1. LogInv => TypeOK
    BY DEF LogInv, TypeInv
  <1> QED BY <1>1, Invariants, PTL

(* However many threads print into the buffer of a unit at the same time,  *)
(* a reader of it stops inside it; and no thread calls NULL.               *)
THEOREM OutputIsSafe == Spec => []SafeOutput
  <1>1. LogInv => SafeOutput
    BY SizesType DEF LogInv, TypeInv, TypeOK, SafeInv, EndInv, CallInv, SafeOutput, Buffer
  <1> QED BY <1>1, Invariants, PTL

(* A line whose thread has its unit for itself gets to the callback as it  *)
(* was printed, cut to the size of the buffer.                             *)
THEOREM LinesAreOwn == Spec => []OwnLine
  <1>1. LogInv => OwnLine
    BY DEF LogInv, OwnInv
  <1> QED BY <1>1, Invariants, PTL
=============================================================================
