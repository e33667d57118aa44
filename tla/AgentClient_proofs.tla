------------------------- MODULE AgentClient_proofs -------------------------
(***************************************************************************)
(* Theorems about AgentClient, for any number of threads, descriptors and  *)
(* pieces of an answer.                                                    *)
(***************************************************************************)
EXTENDS AgentClient, FiniteSetTheorems, SequenceTheorems, TLAPS

(* Every running call has a request, and no result yet. *)
CallInv ==
  \A t \in Threads : pc[t] # "idle" => req[t] \in Requests /\ result[t] = "none"

(* While a call reads, the pieces that arrived are in its buffer. *)
ReceiveInv ==
  \A t \in Threads : pc[t] = "recv" => buf[t] = [n \in 1..arrived[t] |-> n]

TypeInv == TypeOK /\ CallInv /\ EncoderReady

-----------------------------------------------------------------------------
(* Type correctness.                                                       *)

LEMMA ContentType ==
  ASSUME TypeInv, NEW t \in Threads, pc[t] \in {"sign", "digest", "form"}
  PROVE  Content(t) \in Contents
BY DEF TypeInv, TypeOK, CallInv, EncoderReady, Content, Contents

LEMMA InitTypeInv == Init => TypeInv
BY MaxChunksType DEF Init, TypeInv, TypeOK, CallInv, EncoderReady

LEMMA NextTypeInv == TypeInv /\ [Next]_vars => TypeInv'
<1> SUFFICES ASSUME TypeInv, [Next]_vars PROVE TypeInv'
  OBVIOUS
<1> USE MaxChunksType, NullType
<1> USE DEF TypeInv, TypeOK, CallInv, EncoderReady, locals, statics
<1>1. CASE ChangeEnv
  BY <1>1 DEF ChangeEnv
<1>2. ASSUME NEW t \in Threads, Call(t) PROVE TypeInv'
  BY <1>2 DEF Call, Goto, Requests
<1>3. ASSUME NEW t \in Threads, CreateSocket(t) PROVE TypeInv'
  BY <1>3 DEF CreateSocket, Goto
<1>4. ASSUME NEW t \in Threads, NoSocket(t) PROVE TypeInv'
  BY <1>4 DEF NoSocket, Return, Goto
<1>5. ASSUME NEW t \in Threads, Connect(t) PROVE TypeInv'
  BY <1>5 DEF Connect, Step, Goto
<1>6. ASSUME NEW t \in Threads, CheckArguments(t) PROVE TypeInv'
  BY <1>6, ZenonT(40) DEF CheckArguments, Step, Goto
<1>7. ASSUME NEW t \in Threads, TestOutPtr(t) PROVE TypeInv'
  <2>1. CASE outPtr = NULL
    BY <1>7, <2>1 DEF TestOutPtr, Step, Goto
  <2>2. CASE outPtr # NULL
    BY <1>7, <2>2 DEF TestOutPtr, Step, Goto
  <2> QED
    BY <2>1, <2>2
<1>8. ASSUME NEW t \in Threads, SetOutPtr(t) PROVE TypeInv'
  BY <1>8 DEF SetOutPtr, Goto
<1>9. ASSUME NEW t \in Threads, CreateTimestamp(t) PROVE TypeInv'
  <2>1. stamp' = req[t] /\ req[t] \in Requests /\ stamp' # NULL
    BY <1>9 DEF CreateTimestamp, Goto, Requests
  <2>2. pc' = [pc EXCEPT ![t] = "alloc_in"] /\ pc[t] = "stamp"
    BY <1>9 DEF CreateTimestamp, Goto
  <2>3. UNCHANGED <<who, inPtr, outPtr, inBlock, outBlock, open, failures, locals>>
    BY <1>9 DEF CreateTimestamp
  <2> QED
    BY <2>1, <2>2, <2>3
<1>10. ASSUME NEW t \in Threads, TestInPtr(t) PROVE TypeInv'
  <2>1. CASE inPtr = NULL
    BY <1>10, <2>1, ZenonT(40) DEF TestInPtr, Step, Goto
  <2>2. CASE inPtr # NULL
    BY <1>10, <2>2, ZenonT(40) DEF TestInPtr, Step, Goto
  <2> QED
    BY <2>1, <2>2
<1>11. ASSUME NEW t \in Threads, SetInPtr(t) PROVE TypeInv'
  BY <1>11 DEF SetInPtr, Goto
<1>12. ASSUME NEW t \in Threads, FillSignature(t) PROVE TypeInv'
  <2>1. Content(t) \in Contents
    BY <1>12, ContentType DEF FillSignature, Goto
  <2> QED
    BY <1>12, <2>1 DEF FillSignature, Goto
<1>13. ASSUME NEW t \in Threads, Digest(t) PROVE TypeInv'
  <2>1. NewSignature \in Contents \cup {NULL}
    BY <1>13 DEF Digest, Goto, NewSignature
  <2> QED
    BY <1>13, <2>1 DEF Digest, Goto
<1>14. ASSUME NEW t \in Threads, CreateParameters(t) PROVE TypeInv'
  <2>1. [body |-> Content(t), sig |-> outBlock[outPtr]] \in Messages
    BY <1>14, ContentType DEF CreateParameters, Goto, Messages
  <2> QED
    BY <1>14, <2>1 DEF CreateParameters, Goto
<1>15. ASSUME NEW t \in Threads, Send(t) PROVE TypeInv'
  <2>1. PICK whole \in BOOLEAN : sent' = [sent EXCEPT ![t] = whole]
    BY <1>15 DEF Send
  <2> QED
    BY <1>15, <2>1 DEF Send, Goto
<1>16. ASSUME NEW t \in Threads, ClearBuffer(t) PROVE TypeInv'
  BY <1>16 DEF ClearBuffer, Goto
<1>17. ASSUME NEW t \in Threads, RecvPiece(t) PROVE TypeInv'
  <2>1. arrived[t] + 1 \in 1 .. MaxChunks
    BY <1>17 DEF RecvPiece
  <2>2. Stored(t, arrived[t] + 1) \in Seq(1 .. MaxChunks)
    BY <2>1 DEF Stored
  <2> QED
    BY <1>17, <2>1, <2>2 DEF RecvPiece, Goto
<1>18. ASSUME NEW t \in Threads, RecvEnds(t) PROVE TypeInv'
  BY <1>18 DEF RecvEnds, Closed, Return, Goto
<1>19. ASSUME NEW t \in Threads, NEW from, from # "idle", Fail(t, from) PROVE TypeInv'
  BY <1>19 DEF Fail, Return, Goto
<1>20. ASSUME NEW t \in Threads, Overflow(t) PROVE TypeInv'
  BY <1>20 DEF Overflow, Step, Goto
<1>21. CASE UNCHANGED vars
  BY <1>21 DEF vars
<1> QED
  BY <1>1, <1>2, <1>3, <1>4, <1>5, <1>6, <1>7, <1>8, <1>9, <1>10, <1>11, <1>12, <1>13, <1>14,
     <1>15, <1>16, <1>17, <1>18, <1>19, <1>20, <1>21
  DEF Next, Stopped, Progress, Encode, NoAnswer

LEMMA TypeInvAlways == Spec => []TypeInv
<1>1. Init => TypeInv
  BY InitTypeInv
<1>2. TypeInv /\ [Next]_vars => TypeInv'
  BY NextTypeInv
<1> QED
  BY <1>1, <1>2, PTL DEF Spec

(* The state of the agent client always has its type.                      *)
THEOREM TypeCorrect == Spec => []TypeOK
<1>1. TypeInv => TypeOK
  BY DEF TypeInv
<1> QED
  BY <1>1, TypeInvAlways, PTL

(* The encoder never goes through a pointer, or a time stamp, nobody set,  *)
(* whatever the other threads do between its tests and its uses.           *)
THEOREM EncoderIsReady == Spec => []EncoderReady
<1>1. TypeInv => EncoderReady
  BY DEF TypeInv
<1> QED
  BY <1>1, TypeInvAlways, PTL

-----------------------------------------------------------------------------
(* The descriptors.                                                        *)

DescriptorInv == IsFiniteSet(open) /\ DescriptorsCounted

(* Only a thread that gets a socket joins the running calls, only one that *)
(* returns leaves them.                                                    *)
LEMMA RunningChange ==
  ASSUME TypeInv, NEW t \in Threads, NEW from, NEW to, Goto(t, from, to)
  PROVE  /\ from \notin {"idle", "socket"} /\ to \notin {"idle", "socket"} => Running' = Running
         /\ from \in {"idle", "socket"} /\ to \in {"idle", "socket"} => Running' = Running
         /\ from = "socket" /\ to = "connect" => t \notin Running /\ Running' = Running \cup {t}
         /\ from \notin {"idle", "socket"} /\ to = "idle" =>
              t \in Running /\ Running' = Running \ {t}
BY DEF TypeInv, TypeOK, Goto, Running

LEMMA RunningFinite == IsFiniteSet(Running)
BY FS_Subset, FdsType DEF Running

LEMMA InitDescriptorInv == Init => DescriptorInv
<1> SUFFICES ASSUME Init PROVE DescriptorInv
  OBVIOUS
<1>1. Running = {} /\ open = {} /\ failures = 0
  BY DEF Init, Running
<1>2. IsFiniteSet({}) /\ Cardinality({}) = 0
  BY FS_EmptySet
<1> QED
  BY <1>1, <1>2 DEF DescriptorInv, DescriptorsCounted, OwnSocket

(* A step that opens and closes nothing, and ends no call. *)
LEMMA SameDescriptors ==
  ASSUME DescriptorInv, Running' = Running,
         UNCHANGED <<open, failures>>, \A t \in Running : sock'[t] = sock[t]
  PROVE  DescriptorInv'
BY DEF DescriptorInv, DescriptorsCounted, OwnSocket

LEMMA NextDescriptorInv == TypeInv /\ DescriptorInv /\ [Next]_vars => DescriptorInv'
<1> SUFFICES ASSUME TypeInv, DescriptorInv, [Next]_vars PROVE DescriptorInv'
  OBVIOUS
<1> USE DEF statics, locals
<1>1. CASE ChangeEnv
  BY <1>1, SameDescriptors DEF ChangeEnv, Running
<1>2. ASSUME NEW t \in Threads, Call(t) PROVE DescriptorInv'
  BY <1>2, RunningChange, SameDescriptors DEF Call
<1>3. ASSUME NEW t \in Threads, CreateSocket(t) PROVE DescriptorInv'
  <2>1. PICK f \in Fds \ open : open' = open \cup {f} /\ sock' = [sock EXCEPT ![t] = f]
    BY <1>3 DEF CreateSocket
  <2>2. t \notin Running /\ Running' = Running \cup {t} /\ failures' = failures
    BY <1>3, RunningChange DEF CreateSocket
  <2>3. OwnSocket'
    BY <2>1, <2>2 DEF DescriptorInv, DescriptorsCounted, OwnSocket, TypeInv, TypeOK, Running
  <2>4. Cardinality(open') = Cardinality(open) + 1 /\ IsFiniteSet(open')
    BY <2>1, FS_AddElement DEF DescriptorInv
  <2>5. Cardinality(Running') = Cardinality(Running) + 1
    BY <2>2, RunningFinite, FS_AddElement
  <2>6. Cardinality(Running) \in Nat /\ failures \in Nat
    BY RunningFinite, FS_CardinalityType DEF TypeInv, TypeOK
  <2> QED
    BY <2>2, <2>3, <2>4, <2>5, <2>6 DEF DescriptorInv, DescriptorsCounted
<1>4. ASSUME NEW t \in Threads, NoSocket(t) PROVE DescriptorInv'
  <2>1. Running' = Running /\ t \notin Running
    BY <1>4, RunningChange DEF NoSocket, Return, Goto, Running
  <2>2. \A u \in Running : sock'[u] = sock[u]
    BY <1>4, <2>1 DEF NoSocket, Return, TypeInv, TypeOK, Running
  <2> QED
    BY <1>4, <2>1, <2>2, SameDescriptors DEF NoSocket
<1>5. ASSUME NEW t \in Threads,
             \/ Connect(t) \/ Encode(t) \/ Overflow(t) \/ Send(t) \/ ClearBuffer(t)
             \/ RecvPiece(t)
      PROVE  DescriptorInv'
  <2>1. Running' = Running
    BY <1>5, RunningChange
       DEF Connect, Encode, CheckArguments, TestOutPtr, SetOutPtr, CreateTimestamp, TestInPtr,
           SetInPtr, FillSignature, Digest, CreateParameters, Overflow, Send, ClearBuffer,
           RecvPiece, Step
  <2>2. UNCHANGED <<open, failures, sock>>
    BY <1>5
       DEF Connect, Encode, CheckArguments, TestOutPtr, SetOutPtr, CreateTimestamp, TestInPtr,
           SetInPtr, FillSignature, Digest, CreateParameters, Overflow, Send, ClearBuffer,
           RecvPiece, Step
  <2> QED
    BY <2>1, <2>2, SameDescriptors
<1>6. ASSUME NEW t \in Threads, NEW from \in {"connect", "send", "recv"}, Fail(t, from)
      PROVE  DescriptorInv'
  <2>1. t \in Running /\ Running' = Running \ {t}
    BY <1>6, RunningChange DEF Fail, Return
  <2>2. UNCHANGED open /\ failures' = failures + 1
    BY <1>6 DEF Fail
  <2>3. OwnSocket'
    BY <1>6, <2>1, <2>2
       DEF Fail, Return, DescriptorInv, DescriptorsCounted, OwnSocket, TypeInv, TypeOK, Running
  <2>4. Cardinality(Running') = Cardinality(Running) - 1
    BY <2>1, RunningFinite, FS_RemoveElement
  <2>5. Cardinality(Running) \in Nat /\ failures \in Nat
    BY RunningFinite, FS_CardinalityType DEF TypeInv, TypeOK
  <2> QED
    BY <2>2, <2>3, <2>4, <2>5 DEF DescriptorInv, DescriptorsCounted
<1>7. ASSUME NEW t \in Threads, RecvEnds(t) PROVE DescriptorInv'
  <2>1. t \in Running /\ Running' = Running \ {t}
    BY <1>7, RunningChange DEF RecvEnds, Return
  <2>2. sock[t] \in open /\ open' = open \ {sock[t]} /\ UNCHANGED failures
    BY <1>7, <2>1 DEF RecvEnds, Closed, DescriptorInv, DescriptorsCounted, OwnSocket
  <2>3. OwnSocket'
    BY <1>7, <2>1, <2>2
       DEF RecvEnds, Return, DescriptorInv, DescriptorsCounted, OwnSocket, TypeInv, TypeOK, Running
  <2>4. Cardinality(open') = Cardinality(open) - 1 /\ IsFiniteSet(open')
    BY <2>2, FS_RemoveElement DEF DescriptorInv
  <2>5. Cardinality(Running') = Cardinality(Running) - 1
    BY <2>1, RunningFinite, FS_RemoveElement
  <2>6. Cardinality(Running) \in Nat /\ failures \in Nat
    BY RunningFinite, FS_CardinalityType DEF TypeInv, TypeOK
  <2> QED
    BY <2>2, <2>3, <2>4, <2>5, <2>6 DEF DescriptorInv, DescriptorsCounted
<1>8. CASE UNCHANGED vars
  BY <1>8, SameDescriptors DEF vars, Running
<1> QED
  BY <1>1, <1>2, <1>3, <1>4, <1>5, <1>6, <1>7, <1>8 DEF Next, Stopped, Progress, NoAnswer

(* However many threads call and whatever fails: every descriptor in use   *)
(* is the socket of one running call or was left by one failed call        *)
(* (DescriptorsCounted).                                                   *)
THEOREM DescriptorsCorrect == Spec => []DescriptorsCounted
<1>1. Init => DescriptorInv
  BY InitDescriptorInv
<1>2. TypeInv /\ DescriptorInv /\ [Next]_vars => DescriptorInv'
  BY NextDescriptorInv
<1>3. DescriptorInv => DescriptorsCounted
  BY DEF DescriptorInv
<1> QED
  BY <1>1, <1>2, <1>3, TypeInvAlways, PTL DEF Spec

-----------------------------------------------------------------------------
(* The answer.                                                             *)

AnswerInv == ReceiveInv /\ WholePrefix

(* One more piece behind the pieces 1..k gives the pieces 1..k+1. *)
LEMMA OneMorePiece ==
  ASSUME NEW k \in Nat, NEW s, s = [n \in 1..k |-> n]
  PROVE  Append(s, k + 1) = [n \in 1..(k + 1) |-> n]
<1> DEFINE pieces(m) == [n \in 1..m |-> n]
<1>1. \A m \in Nat : pieces(m) \in Seq(Nat) /\ Len(pieces(m)) = m
  OBVIOUS
<1>2. /\ Append(s, k + 1) \in Seq(Nat)
      /\ Len(Append(s, k + 1)) = k + 1
      /\ \A i \in 1..k : Append(s, k + 1)[i] = s[i]
      /\ Append(s, k + 1)[k + 1] = k + 1
  BY <1>1, AppendProperties
<1>3. \A i \in 1..(k + 1) : Append(s, k + 1)[i] = pieces(k + 1)[i]
  BY <1>2
<1>4. pieces(k + 1) \in Seq(Nat) /\ Len(pieces(k + 1)) = k + 1
  BY <1>1
<1> HIDE DEF pieces
<1>5. Append(s, k + 1) = pieces(k + 1)
  BY <1>2, <1>3, <1>4, SeqEqual
<1> QED
  BY <1>5 DEF pieces

LEMMA InitAnswerInv == Init => AnswerInv
BY DEF Init, AnswerInv, ReceiveInv, WholePrefix

LEMMA NextAnswerInv == TypeInv /\ AnswerInv /\ [Next]_vars => AnswerInv'
<1> SUFFICES ASSUME TypeInv, AnswerInv, [Next]_vars PROVE AnswerInv'
  OBVIOUS
<1> USE DEF statics, locals, AnswerInv, ReceiveInv, WholePrefix, TypeInv, TypeOK, CallInv
<1>1. CASE ChangeEnv
  BY <1>1 DEF ChangeEnv
<1>2. ASSUME NEW t \in Threads, Call(t) PROVE AnswerInv'
  BY <1>2 DEF Call, Goto
<1>3. ASSUME NEW t \in Threads, CreateSocket(t) PROVE AnswerInv'
  BY <1>3 DEF CreateSocket, Goto
<1>4. ASSUME NEW t \in Threads, NoSocket(t) PROVE AnswerInv'
  BY <1>4 DEF NoSocket, Return, Goto
<1>5. ASSUME NEW t \in Threads, Connect(t) \/ Encode(t) \/ Overflow(t) \/ Send(t)
      PROVE  AnswerInv'
  <2>1. \A u \in Threads : pc'[u] = "recv" => pc[u] = "recv"
    BY <1>5
       DEF Connect, Encode, CheckArguments, TestOutPtr, SetOutPtr, CreateTimestamp, TestInPtr,
           SetInPtr, FillSignature, Digest, CreateParameters, Overflow, Send, Step, Goto
  <2>2. UNCHANGED <<buf, arrived, result>>
    BY <1>5
       DEF Connect, Encode, CheckArguments, TestOutPtr, SetOutPtr, CreateTimestamp, TestInPtr,
           SetInPtr, FillSignature, Digest, CreateParameters, Overflow, Send, Step
  <2> QED
    BY <2>1, <2>2
<1>6. ASSUME NEW t \in Threads, ClearBuffer(t) PROVE AnswerInv'
  <2>1. <<>> = [n \in 1..0 |-> n]
    OBVIOUS
  <2> QED
    BY <1>6, <2>1 DEF ClearBuffer, Goto
<1>7. ASSUME NEW t \in Threads, RecvPiece(t) PROVE AnswerInv'
  <2>1. buf'[t] = Append(buf[t], arrived[t] + 1) /\ arrived'[t] = arrived[t] + 1
    BY <1>7 DEF RecvPiece, Stored
  <2>2. buf'[t] = [n \in 1..arrived'[t] |-> n]
    <3>1. arrived[t] \in Nat /\ buf[t] = [n \in 1..arrived[t] |-> n]
      BY <1>7, MaxChunksType DEF RecvPiece, Goto
    <3> QED
      BY <2>1, <3>1, OneMorePiece
  <2>3. \A u \in Threads \ {t} : buf'[u] = buf[u] /\ arrived'[u] = arrived[u]
    BY <1>7 DEF RecvPiece
  <2>4. \A u \in Threads : pc'[u] = pc[u]
    BY <1>7 DEF RecvPiece, Goto
  <2>5. UNCHANGED result /\ result[t] = "none"
    BY <1>7 DEF RecvPiece, Goto
  <2> QED
    BY <2>2, <2>3, <2>4, <2>5, ZenonT(40)
<1>8. ASSUME NEW t \in Threads, RecvEnds(t) PROVE AnswerInv'
  BY <1>8 DEF RecvEnds, Return, Goto
<1>9. ASSUME NEW t \in Threads, NEW from, Fail(t, from) PROVE AnswerInv'
  BY <1>9 DEF Fail, Return, Goto
<1>10. CASE UNCHANGED vars
  BY <1>10 DEF vars
<1> QED
  BY <1>1, <1>2, <1>3, <1>4, <1>5, <1>6, <1>7, <1>8, <1>9, <1>10
  DEF Next, Stopped, Progress, NoAnswer

(* An answered call has the pieces that arrived in its buffer, in order,   *)
(* for any number of pieces and however threads interleave (WholePrefix).  *)
THEOREM AnswersAreWhole == Spec => []WholePrefix
<1>1. Init => AnswerInv
  BY InitAnswerInv
<1>2. TypeInv /\ AnswerInv /\ [Next]_vars => AnswerInv'
  BY NextAnswerInv
<1>3. AnswerInv => WholePrefix
  BY DEF AnswerInv
<1> QED
  BY <1>1, <1>2, <1>3, TypeInvAlways, PTL DEF Spec
=============================================================================
