--------------------------- MODULE GwAgent_proofs ---------------------------
(***************************************************************************)
(* Theorems about GwAgent.  For any number of threads with a slot each:    *)
(* their replies are their own.  When, besides, no initialisation overlaps *)
(* a request, neither begun before it nor during it: no handle is leaked,  *)
(* and each thread waits on its own socket.  For one thread that calls:    *)
(* the agent implements CloudSession, never uses what was freed and signs  *)
(* what it sends.  All of it for any handles, payloads, accounts and retry *)
(* limit.                                                                  *)
(***************************************************************************)
EXTENDS GwAgent, TLAPS

USE SlotOfType DEF Slot

LEMMA MessageTypes ==
  /\ NoContent \in Contents
  /\ NoMessage \in Messages
  /\ \A url \in BOOLEAN : NewConn(url) \in Conns
BY DEF NoContent, Contents, NoMessage, Messages, NewConn, Conns, Identity

(* Every content built from well-typed strings is a content. *)
LEMMA ContentType ==
  ASSUME TypeOK, NEW t \in Threads, NEW fields \in SUBSET Credentials, NEW u \in ReadAs(fields)
  PROVE  Content(t, u) \in Contents
<1>1. \A f \in fields : account[f] \in Users \cup {NULL}
  BY DEF TypeOK
<1>2. u \in Identity
  BY <1>1 DEF ReadAs, Owners, Identity
<1> QED
  BY <1>2 DEF TypeOK, Content, Contents

LEMMA FieldSets == Credentials \subseteq Fields /\ FormFields \subseteq Credentials
BY DEF Credentials, Fields, FormFields

LEMMA CloseLength == Len(CloseOrder) = 4 /\ Len(StoreOrder) = 4
BY DEF CloseOrder, StoreOrder

LEMMA FirstSlot == 0 \in Slots
BY NumSlotsType DEF Slots

(* The credential that an initialisation is at is one of the four.         *)
LEMMA CredentialType ==
  ASSUME TypeOK, NEW t \in Threads
  PROVE  Credential(t) \in Credentials
<1>1. nextField[t] \in 1..4
  BY CloseLength DEF TypeOK
<1> QED
  BY <1>1 DEF Credential, StoreOrder, Credentials

LEMMA InitTypeOK == Init => TypeOK
<1> SUFFICES ASSUME Init PROVE TypeOK
  OBVIOUS
<1>1. ptr \in [Fields -> PtrStates]
  BY DEF Init, PtrStates
<1>2. conn \in [Handles -> Conns]
  BY MessageTypes DEF Init
<1>3. pc \in [Threads -> PcStates] /\ crashed \in Fates
  BY DEF Init, PcStates, Fates
<1>4. sigIn \in Contents /\ sigOut \in Contents /\ params \in [Threads -> Messages]
  BY MessageTypes DEF Init
<1>5. nextField \in [Threads -> 1 .. Len(StoreOrder)] /\ nextSlot \in [Threads -> Slots]
  BY CloseLength, FirstSlot DEF Init
<1> QED
  BY <1>1, <1>2, <1>3, <1>4, <1>5 DEF Init, TypeOK

LEMMA GotoType ==
  ASSUME pc \in [Threads -> PcStates], NEW t \in Threads, NEW from, NEW to \in PcStates,
         Goto(t, from, to)
  PROVE  pc' \in [Threads -> PcStates]
BY DEF Goto

LEMMA ReturnType ==
  ASSUME TypeOK, NEW t \in Threads, NEW from, NEW r \in {"ok", "fail"}, Return(t, from, r)
  PROVE  /\ pc' \in [Threads -> PcStates]
         /\ result' \in [Threads -> {"none", "ok", "fail"}]
         /\ params' \in [Threads -> Messages]
         /\ nextField' \in [Threads -> 1 .. Len(StoreOrder)]
         /\ retried' \in [Threads -> BOOLEAN]
BY MessageTypes, CloseLength DEF TypeOK, Return, Goto, PcStates

LEMMA CleanupType ==
  ASSUME TypeOK, NEW s \in Slots, Cleanup(s)
  PROVE  /\ curl' \in [Slots -> Handles \cup {NULL}]
         /\ live' \in SUBSET Handles
         /\ conn' \in [Handles -> Conns]
BY MessageTypes DEF TypeOK, Cleanup


(* What a step does to a connection leaves it a connection. *)
LEMMA ConnTypes ==
  ASSUME NEW c \in Conns, NEW m \in Messages
  PROVE  /\ c.wire \in Seq(Messages)
         /\ [c EXCEPT !.up = TRUE] \in Conns
         /\ [c EXCEPT !.wire = Append(@, m)] \in Conns
         /\ c.wire # <<>> =>
              /\ Head(c.wire) \in Messages
              /\ Head(c.wire).body.req \in Requests \cup {NoReq}
              /\ [c EXCEPT !.wire = Tail(@)] \in Conns
<1>1. c.wire \in Seq(Messages) /\ Append(c.wire, m) \in Seq(Messages)
  BY DEF Conns
<1>2. ASSUME c.wire # <<>>
      PROVE  Head(c.wire) \in Messages /\ Tail(c.wire) \in Seq(Messages)
  BY <1>1, <1>2
<1>3. \A x \in Messages : x.body.req \in Requests \cup {NoReq}
  BY DEF Messages, Contents
<1> QED
  BY <1>1, <1>2, <1>3 DEF Conns

(* What an initialisation changes besides strings: it takes handles out of *)
(* the slots, one by one.                                                  *)
LEMMA InitializeStep ==
  ASSUME TypeOK, NEW t \in Threads, Initialize(t)
  PROVE  /\ pc[t] \in Initializing
         /\ pc'[t] \in Initializing \cup {"idle"}
         /\ pc' = [pc EXCEPT ![t] = pc'[t]]
         /\ \/ curl' = curl
            \/ /\ ForgetSlot(t) /\ nextSlot[t] \in Slots
               /\ curl' = [curl EXCEPT ![nextSlot[t]] = NULL]
         /\ UNCHANGED <<buffers, sockfd, retry, libcurl, req, held, reply, login, params,
                        result, retried, crashed>>
<1> USE DEF TypeOK, Goto, Initializing, shared, strings, buffers, slots, libcurl, locals,
            setup, frame
<1>1. CASE AllocSecret(t)
  BY <1>1 DEF AllocSecret, Step
<1>2. CASE DropCredential(t)
  BY <1>2 DEF DropCredential, DropString, SetString
<1>3. CASE AllocCredential(t)
  BY <1>3 DEF AllocCredential, SetString
<1>4. CASE CopyCredential(t)
  BY <1>4 DEF CopyCredential
<1>5. CASE ForgetSlot(t)
  BY <1>5 DEF ForgetSlot
<1>6. CASE DropUrl(t)
  BY <1>6 DEF DropUrl, DropString, SetString
<1>7. CASE PrintUrl(t)
  BY <1>7 DEF PrintUrl, SetString
<1>8. CASE AllocGateway(t)
  BY <1>8 DEF AllocGateway, SetString
<1>9. CASE CopyGateway(t)
  BY <1>9 DEF CopyGateway, SetString
<1> QED
  BY <1>1, <1>2, <1>3, <1>4, <1>5, <1>6, <1>7, <1>8, <1>9 DEF Initialize

(* A step that changes one string leaves it one of the four states.        *)
LEMMA SetStringType ==
  ASSUME TypeOK, NEW t, NEW f \in Fields, NEW p \in PtrStates, NEW from, NEW to,
         SetString(t, f, p, from, to)
  PROVE  /\ ptr' \in [Fields -> PtrStates]
         /\ UNCHANGED <<account, nextSlot, nextField>>
BY DEF TypeOK, SetString, locals, setup, frame

LEMMA InitializeTypeOK ==
  ASSUME TypeOK, NEW t \in Threads, Initialize(t)
  PROVE  TypeOK'
<1>0. Credential(t) \in Fields /\ {"urlName", "hostName", "service"} \subseteq Fields
  BY CredentialType, FieldSets DEF Fields
<1>1. /\ pc' \in [Threads -> PcStates]
      /\ curl' \in [Slots -> Handles \cup {NULL}]
  <2>1. pc'[t] \in PcStates /\ pc' = [pc EXCEPT ![t] = pc'[t]]
    BY InitializeStep DEF PcStates
  <2>2. curl' = curl \/ curl' = [curl EXCEPT ![nextSlot[t]] = NULL]
    BY InitializeStep
  <2> QED
    BY <2>1, <2>2 DEF TypeOK
<1>2. /\ ptr' \in [Fields -> PtrStates]
      /\ account' \in [Credentials -> Users \cup {NULL}]
      /\ nextSlot' \in [Threads -> Slots]
      /\ nextField' \in [Threads -> 1 .. Len(StoreOrder)]
  <2> USE DEF TypeOK
  <2>1. CASE AllocSecret(t)
    BY <2>1 DEF AllocSecret, Step, shared, strings, locals, setup, frame
  <2>2. CASE DropCredential(t)
    BY <1>0, <2>2, SetStringType DEF DropCredential, DropString, PtrStates
  <2>3. CASE AllocCredential(t)
    BY <1>0, <2>3 DEF AllocCredential, SetString, PtrStates, locals, setup, frame
  <2>4. CASE CopyCredential(t)
    <3>1. ptr' \in [Fields -> PtrStates]
      BY <1>0, <2>4 DEF CopyCredential, Written, PtrStates
    <3>2. account' \in [Credentials -> Users \cup {NULL}]
      BY <2>4, CredentialType DEF CopyCredential
    <3>3. nextField' \in [Threads -> 1 .. Len(StoreOrder)] /\ nextSlot' = nextSlot
      BY <2>4, CloseLength DEF CopyCredential, setup
    <3> QED
      BY <3>1, <3>2, <3>3
  <2>5. CASE ForgetSlot(t)
    <3>1. nextSlot[t] \in Nat /\ nextSlot[t] < NumSlots
      BY NumSlotsType DEF Slots
    <3>2. \A n \in Nat : n < NumSlots - 1 => n + 1 \in Slots
      BY NumSlotsType DEF Slots
    <3>3. nextSlot' \in [Threads -> Slots]
      BY <2>5, <3>1, <3>2, FirstSlot DEF ForgetSlot
    <3> QED
      BY <2>5, <3>3 DEF ForgetSlot, strings, frame
  <2>6. CASE DropUrl(t)
    BY <1>0, <2>6, SetStringType DEF DropUrl, DropString, PtrStates
  <2>7. CASE PrintUrl(t)
    BY <1>0, <2>7, SetStringType DEF PrintUrl, Written, PtrStates
  <2>8. CASE AllocGateway(t)
    BY <1>0, <2>8 DEF AllocGateway, SetString, PtrStates, locals, setup, frame
  <2>9. CASE CopyGateway(t)
    BY <1>0, <2>9 DEF CopyGateway, SetString, Written, PtrStates, locals, setup, frame
  <2> QED
    BY <2>1, <2>2, <2>3, <2>4, <2>5, <2>6, <2>7, <2>8, <2>9 DEF Initialize
<1> QED
  BY <1>1, <1>2, InitializeStep DEF TypeOK, buffers, libcurl

(* Every step of a thread preserves the types. *)
LEMMA StepTypeOK ==
  ASSUME TypeOK, NEW t \in Threads, Begin(t) \/ Progress(t)
  PROVE  TypeOK'
<1> USE DEF TypeOK, Step, shared, strings, buffers, slots, libcurl, locals, setup, frame
<1>1. CASE InitClear(t)
  BY <1>1 DEF InitClear, PtrStates, Goto, PcStates, Initializing
<1>2. CASE Initialize(t)
  BY <1>2, InitializeTypeOK
<1>4. CASE Call(t)
  BY <1>4 DEF Call, Requests, Goto, PcStates
<1>5. CASE CreateTimestamp(t)
  BY <1>5 DEF CreateTimestamp, Goto, PcStates
<1>6. CASE CheckCredentials(t)
  BY <1>6, ReturnType DEF CheckCredentials, Goto, PcStates
<1>7. CASE OutOfMemory(t)
  BY <1>7, ReturnType DEF OutOfMemory
<1>8. CASE FillSignature(t)
  BY <1>8, ContentType DEF FillSignature, Goto, PcStates
<1>9. CASE Digest(t)
  BY <1>9 DEF Digest, NewSignature, Goto, PcStates
<1>10. CASE CreateParameters(t)
  <2>1. params' \in [Threads -> Messages]
    <3>1. PICK u \in ReadAs(FormFields) :
            params' = [params EXCEPT ![t] = [body |-> Content(t, u), sig |-> sigOut]]
      BY <1>10 DEF CreateParameters
    <3>2. Content(t, u) \in Contents
      BY FieldSets, ContentType
    <3> QED
      BY <3>1, <3>2 DEF Messages
  <2> QED
    BY <1>10, <2>1 DEF CreateParameters, Goto, PcStates
<1>11. CASE CreateRequest(t)
  BY <1>11 DEF CreateRequest, Goto, PcStates
<1>12. CASE BadString(t)
  BY <1>12 DEF BadString, Crash, Fates
<1>3. CASE BadWrite(t)
  BY <1>3 DEF BadWrite, Crash, Fates
<1>13. CASE UncheckedAllocation(t)
  BY <1>13 DEF UncheckedAllocation, Crash, Fates
<1>14. CASE CurlDrop(t)
  BY <1>14, CleanupType DEF CurlDrop, Goto, PcStates
<1>15. CASE CurlNew(t)
  <2>1. conn' \in [Handles -> Conns]
    <3>1. ReadUrl \subseteq BOOLEAN
      BY DEF ReadUrl
    <3> QED
      BY <1>15, <3>1, MessageTypes DEF CurlNew
  <2> QED
    BY <1>15, <2>1 DEF CurlNew, Goto, PcStates
<1>16. CASE CurlInitFails(t)
  BY <1>16, ReturnType DEF CurlInitFails
<1>17. CASE Perform(t)
  BY <1>17 DEF Perform, Goto, PcStates
<1>18. CASE PerformDone(t)
  <2>1. conn' \in [Handles -> Conns]
    <3>1. CASE UNCHANGED conn
      BY <3>1
    <3>2. CASE held[t] \in live /\ conn' = [conn EXCEPT ![held[t]].up = TRUE]
      <4>1. held[t] \in Handles /\ conn[held[t]] \in Conns
        BY <3>2
      <4>2. [conn[held[t]] EXCEPT !.up = TRUE] \in Conns
        BY <4>1, ConnTypes, MessageTypes
      <4> QED
        BY <3>2, <4>1, <4>2
    <3> QED
      BY <1>18, <3>1, <3>2 DEF PerformDone
  <2> QED
    BY <1>18, <2>1 DEF PerformDone, Goto, PcStates
<1>19. CASE FreedHandle(t)
  BY <1>19 DEF FreedHandle, Crash, Fates
<1>20. CASE GetInfo(t)
  BY <1>20 DEF GetInfo, LastSocket, Goto, PcStates
<1>21. CASE WaitTx(t)
  BY <1>21 DEF WaitTx, Goto, PcStates
<1>22. CASE SendAll(t)
  <2>1. conn' \in [Handles -> Conns]
    BY <1>22, ConnTypes DEF SendAll
  <2> QED
    BY <1>22, <2>1 DEF SendAll, Goto, PcStates
<1>23. CASE SendShort(t)
  BY <1>23 DEF SendShort, Goto, PcStates
<1>24. CASE SendFail(t)
  BY <1>24 DEF SendFail, Goto, PcStates
<1>25. CASE GiveUp(t)
  BY <1>25 DEF GiveUp, Goto, PcStates
<1>26. CASE DecideRetry(t)
  BY <1>26 DEF DecideRetry, Goto, PcStates
<1>27. CASE Retry(t)
  BY <1>27 DEF Retry, Counted, Goto, PcStates
<1>28. CASE SendError(t)
  BY <1>28, ReturnType, CleanupType DEF SendError
<1>29. CASE RecvWait(t)
  BY <1>29 DEF RecvWait, Goto, PcStates
<1>30. CASE Recv(t)
  <2>1. conn' \in [Handles -> Conns] /\ reply' \in [Threads -> Requests \cup {NoReq}]
    <3> DEFINE h == curl[SlotOf[t]]
    <3>1. CASE UNCHANGED <<reply, conn>>
      BY <3>1
    <3>2. CASE /\ h # NULL /\ conn[h].wire # <<>>
               /\ reply' = [reply EXCEPT ![t] = Head(conn[h].wire).body.req]
               /\ conn' = [conn EXCEPT ![h].wire = Tail(@)]
      <4>1. h \in Handles /\ conn[h] \in Conns
        BY <3>2
      <4>2. /\ Head(conn[h].wire).body.req \in Requests \cup {NoReq}
            /\ [conn[h] EXCEPT !.wire = Tail(@)] \in Conns
        BY <3>2, <4>1, ConnTypes, MessageTypes
      <4> QED
        BY <3>2, <4>1, <4>2
    <3> QED
      BY <1>30, <3>1, <3>2 DEF Recv
  <2> QED
    BY <1>30, <2>1 DEF Recv, Goto, PcStates
<1>31. CASE RecvCleanup(t)
  BY <1>31, ReturnType, CleanupType DEF RecvCleanup, Goto, PcStates
<1>32. CASE CloseFree(t)
  BY <1>32 DEF CloseFree, PtrStates, Goto, PcStates
<1>33. CASE DoubleFree(t)
  BY <1>33 DEF DoubleFree, Crash, Fates
<1>34. CASE CloseNull(t)
  <2>1. ptr' \in [Fields -> PtrStates]
    BY <1>34 DEF CloseNull, PtrStates
  <2>2. ASSUME ~LastField(t), nextField' = [nextField EXCEPT ![t] = @ + 1]
        PROVE  nextField' \in [Threads -> 1 .. Len(StoreOrder)]
    BY <2>2, CloseLength DEF LastField
  <2>3. CASE LastField(t)
    BY <1>34, <2>1, <2>3, ReturnType DEF CloseNull
  <2>4. CASE ~LastField(t)
    BY <1>34, <2>1, <2>2, <2>4 DEF CloseNull, Goto, PcStates
  <2> QED
    BY <2>3, <2>4
<1> QED
  BY <1>1, <1>2, <1>3, <1>4, <1>5, <1>6, <1>7, <1>8, <1>9, <1>10, <1>11, <1>12,
     <1>13, <1>14, <1>15, <1>16, <1>17, <1>18, <1>19, <1>20, <1>21, <1>22, <1>23,
     <1>24, <1>25, <1>26, <1>27, <1>28, <1>29, <1>30, <1>31, <1>32, <1>33, <1>34 DEF
     Begin, Progress, BuildRequest, SendRequest, ReceiveAndClose

(* Type correctness of the agent, of libcurl as it uses it, and of every   *)
(* thread's call, whatever the number of threads, slots and handles.       *)
THEOREM TypeCorrect == Spec => []TypeOK
<1>1. TypeOK /\ [Next]_vars => TypeOK'
  <2> SUFFICES ASSUME TypeOK, [Next]_vars PROVE TypeOK'
    OBVIOUS
  <2>1. ASSUME UNCHANGED vars PROVE TypeOK'
    BY <2>1 DEF TypeOK, vars, shared, strings, buffers, slots, libcurl, locals, setup, frame
  <2> QED
    BY <2>1, StepTypeOK DEF Next, Stopped
<1> QED
  BY <1>1, InitTypeOK, PTL DEF Spec

-----------------------------------------------------------------------------
(* Handles stay with their thread when every thread has its own slot. *)
LEMMA StepHandleInv ==
  ASSUME PerThreadSlots, TypeOK, HandleInv, NEW t \in Threads, Begin(t) \/ Progress(t)
  PROVE  HandleInv'
<1> USE DEF HandleInv, Outside, Initializing, Preparing, Releasing, Goto, Step,
            shared, strings, buffers, slots, libcurl, locals, setup, frame
<1>1. CASE InitClear(t)
  BY <1>1, NullType DEF InitClear, TypeOK
<1>2. CASE Initialize(t)
  <2>1. \A s \in Slots : curl'[s] \in {curl[s], NULL}
    BY <1>2, InitializeStep DEF TypeOK
  <2>2. /\ pc[t] \in Outside /\ pc'[t] \in Outside
        /\ \A u \in Threads \ {t} : pc'[u] = pc[u]
    BY <1>2, InitializeStep DEF TypeOK
  <2>3. UNCHANGED <<live, conn, held, req, reply, result, params>>
    BY <1>2, InitializeStep
  <2> QED
    BY <2>1, <2>2, <2>3, NullType DEF TypeOK
<1>4. CASE Call(t)
  BY <1>4, NullType DEF Call, TypeOK
<1>5. CASE CreateTimestamp(t)
  BY <1>5, NullType DEF CreateTimestamp, TypeOK
<1>6. CASE CheckCredentials(t)
  BY <1>6, NullType DEF CheckCredentials, Return, TypeOK
<1>7. CASE OutOfMemory(t)
  BY <1>7, NullType DEF OutOfMemory, Return, TypeOK
<1>8. CASE FillSignature(t)
  BY <1>8, NullType DEF FillSignature, TypeOK
<1>9. CASE Digest(t)
  BY <1>9, NullType DEF Digest, TypeOK
<1>10. CASE CreateParameters(t)
  BY <1>10, NullType DEF CreateParameters, TypeOK
<1>11. CASE CreateRequest(t)
  BY <1>11, NullType DEF CreateRequest, TypeOK
<1>12. CASE BadString(t)
  BY <1>12, NullType DEF BadString, Crash, TypeOK
<1>3. CASE BadWrite(t)
  BY <1>3, NullType DEF BadWrite, Crash, TypeOK
<1>13. CASE UncheckedAllocation(t)
  BY <1>13, NullType DEF UncheckedAllocation, Crash, TypeOK
<1>14. CASE CurlDrop(t)
  BY <1>14, NullType DEF CurlDrop, Cleanup, PerThreadSlots, TypeOK
<1>15. CASE CurlNew(t)
  BY <1>15, NullType DEF CurlNew, PerThreadSlots, TypeOK
<1>16. CASE CurlInitFails(t)
  BY <1>16, NullType DEF CurlInitFails, Return, PerThreadSlots, TypeOK
<1>17. CASE Perform(t)
  BY <1>17, NullType DEF Perform, PerThreadSlots, TypeOK
<1>18. CASE PerformDone(t)
  BY <1>18, NullType DEF PerformDone, TypeOK
<1>19. CASE FreedHandle(t)
  BY <1>19, NullType DEF FreedHandle, Crash, TypeOK
<1>20. CASE GetInfo(t)
  BY <1>20, NullType DEF GetInfo, TypeOK
<1>21. CASE WaitTx(t)
  BY <1>21, NullType DEF WaitTx, TypeOK
<1>22. CASE SendAll(t)
  BY <1>22, NullType DEF SendAll, TypeOK
<1>23. CASE SendShort(t)
  BY <1>23, NullType DEF SendShort, TypeOK
<1>24. CASE SendFail(t)
  BY <1>24, NullType DEF SendFail, TypeOK
<1>25. CASE GiveUp(t)
  BY <1>25, NullType DEF GiveUp, TypeOK
<1>26. CASE DecideRetry(t)
  BY <1>26, NullType DEF DecideRetry, TypeOK
<1>27. CASE Retry(t)
  BY <1>27, NullType DEF Retry, TypeOK
<1>28. CASE SendError(t)
  BY <1>28, NullType DEF SendError, Return, Cleanup, PerThreadSlots, TypeOK
<1>29. CASE RecvWait(t)
  BY <1>29, NullType DEF RecvWait, TypeOK
<1>30. CASE Recv(t)
  BY <1>30, NullType DEF Recv, TypeOK
<1>31. CASE RecvCleanup(t)
  BY <1>31, NullType DEF RecvCleanup, Return, Cleanup, PerThreadSlots, TypeOK
<1>32. CASE CloseFree(t)
  BY <1>32, NullType DEF CloseFree, TypeOK
<1>33. CASE DoubleFree(t)
  BY <1>33, NullType DEF DoubleFree, Crash, TypeOK
<1>34. CASE CloseNull(t)
  BY <1>34, NullType DEF CloseNull, Return, TypeOK
<1> QED
  BY <1>1, <1>2, <1>3, <1>4, <1>5, <1>6, <1>7, <1>8, <1>9, <1>10, <1>11, <1>12,
     <1>13, <1>14, <1>15, <1>16, <1>17, <1>18, <1>19, <1>20, <1>21, <1>22, <1>23,
     <1>24, <1>25, <1>26, <1>27, <1>28, <1>29, <1>30, <1>31, <1>32, <1>33, <1>34 DEF
     Begin, Progress, BuildRequest, SendRequest, ReceiveAndClose

LEMMA AllForAppend ==
  ASSUME NEW wire \in Seq(Messages), NEW m \in Messages, NEW r, AllFor(wire, r), m.body.req = r
  PROVE  AllFor(Append(wire, m), r)
BY DEF AllFor

LEMMA AllForTail ==
  ASSUME NEW wire \in Seq(Messages), NEW r, AllFor(wire, r), wire # <<>>
  PROVE  Head(wire).body.req = r /\ AllFor(Tail(wire), r)
BY DEF AllFor

(* So do requests and answers. *)
LEMMA StepRequestInv ==
  ASSUME PerThreadSlots, TypeOK, HandleInv, RequestInv,
         NEW t \in Threads, Begin(t) \/ Progress(t)
  PROVE  RequestInv'
<1> USE DEF RequestInv, Outside, Initializing, Preparing, Releasing, Addressed, Goto, Step,
            shared, strings, buffers, slots, libcurl, locals, setup, frame
<1>1. CASE InitClear(t)
  BY <1>1, NullType DEF InitClear, TypeOK, HandleInv
<1>2. CASE Initialize(t)
  <2>1. \A s \in Slots : curl'[s] \in {curl[s], NULL}
    BY <1>2, InitializeStep DEF TypeOK
  <2>2. /\ pc[t] \in Outside /\ pc'[t] \in Outside
        /\ \A u \in Threads \ {t} : pc'[u] = pc[u]
    BY <1>2, InitializeStep DEF TypeOK
  <2>3. UNCHANGED <<live, conn, held, req, reply, result, params>>
    BY <1>2, InitializeStep
  <2> QED
    BY <2>1, <2>2, <2>3 DEF TypeOK
<1>4. CASE Call(t)
  BY <1>4, NullType DEF Call, TypeOK, HandleInv
<1>5. CASE CreateTimestamp(t)
  BY <1>5, NullType DEF CreateTimestamp, TypeOK, HandleInv
<1>6. CASE CheckCredentials(t)
  <2>1. CASE Return(t, "check_creds", "fail")
    BY <1>6, <2>1 DEF CheckCredentials, Return, TypeOK
  <2>2. CASE Goto(t, "check_creds", "sign") /\ UNCHANGED frame
    BY <1>6, <2>2 DEF CheckCredentials, TypeOK
  <2> QED
    BY <1>6, <2>1, <2>2 DEF CheckCredentials
<1>7. CASE OutOfMemory(t)
  BY <1>7, NullType DEF OutOfMemory, Return, TypeOK, HandleInv
<1>8. CASE FillSignature(t)
  BY <1>8, NullType DEF FillSignature, TypeOK, HandleInv
<1>9. CASE Digest(t)
  BY <1>9, NullType DEF Digest, TypeOK, HandleInv
<1>10. CASE CreateParameters(t)
  <2>1. params'[t].body.req = req[t] /\ \A u \in Threads \ {t} : params'[u] = params[u]
    BY <1>10 DEF CreateParameters, Content, TypeOK
  <2> QED
    BY <1>10, <2>1 DEF CreateParameters, TypeOK
<1>11. CASE CreateRequest(t)
  BY <1>11, NullType DEF CreateRequest, TypeOK, HandleInv
<1>12. CASE BadString(t)
  BY <1>12, NullType DEF BadString, Crash, TypeOK, HandleInv
<1>3. CASE BadWrite(t)
  BY <1>3, NullType DEF BadWrite, Crash, TypeOK, HandleInv
<1>13. CASE UncheckedAllocation(t)
  BY <1>13, NullType DEF UncheckedAllocation, Crash, TypeOK, HandleInv
<1>14. CASE CurlDrop(t)
  BY <1>14, NullType DEF CurlDrop, Cleanup, PerThreadSlots, TypeOK, HandleInv
<1>15. CASE CurlNew(t)
  <2>1. PICK h \in Handles \ live, url \in ReadUrl :
          /\ conn' = [conn EXCEPT ![h] = NewConn(url)]
          /\ curl' = [curl EXCEPT ![SlotOf[t]] = h]
    BY <1>15 DEF CurlNew
  <2>2. AllFor(conn'[h].wire, req[t])
    BY <2>1 DEF AllFor, NewConn, TypeOK
  <2>3. ASSUME NEW u \in Threads, curl'[SlotOf[u]] # NULL
        PROVE  AllFor(conn'[curl'[SlotOf[u]]].wire, req[u])
    <3>1. CASE u = t
      BY <2>1, <2>2, <3>1 DEF TypeOK
    <3>2. CASE u # t
      <4>1. curl'[SlotOf[u]] = curl[SlotOf[u]] /\ curl[SlotOf[u]] \in live
        BY <2>1, <2>3, <3>2 DEF TypeOK, HandleInv, PerThreadSlots
      <4> QED
        BY <2>1, <2>3, <4>1 DEF TypeOK
    <3> QED
      BY <3>1, <3>2
  <2> QED
    BY <1>15, <2>3 DEF CurlNew, TypeOK
<1>16. CASE CurlInitFails(t)
  BY <1>16, NullType DEF CurlInitFails, Return, PerThreadSlots, TypeOK, HandleInv
<1>17. CASE Perform(t)
  BY <1>17, NullType DEF Perform, PerThreadSlots, TypeOK, HandleInv
<1>18. CASE PerformDone(t)
  <2>1. \A h \in Handles : conn'[h].wire = conn[h].wire
    <3>1. CASE conn' = [conn EXCEPT ![held[t]].up = TRUE]
      <4>1. \A h \in Handles : conn[h] \in Conns
        BY DEF TypeOK
      <4> QED
        BY <3>1, <4>1 DEF TypeOK, Conns
    <3>2. CASE UNCHANGED conn
      BY <3>2
    <3> QED
      BY <1>18, <3>1, <3>2 DEF PerformDone
  <2>2. \A u \in Threads : curl[SlotOf[u]] # NULL =>
          AllFor(conn'[curl[SlotOf[u]]].wire, req[u])
    BY <2>1 DEF TypeOK
  <2> QED
    BY <1>18, <2>2 DEF PerformDone, TypeOK
<1>19. CASE FreedHandle(t)
  BY <1>19, NullType DEF FreedHandle, Crash, TypeOK, HandleInv
<1>20. CASE GetInfo(t)
  BY <1>20, NullType DEF GetInfo, TypeOK, HandleInv
<1>21. CASE WaitTx(t)
  BY <1>21, NullType DEF WaitTx, TypeOK, HandleInv
<1>22. CASE SendAll(t)
  <2> DEFINE h == curl[SlotOf[t]]
  <2>1. h \in Handles /\ conn[h].wire \in Seq(Messages) /\ params[t] \in Messages
    BY <1>22, ConnTypes, ZenonT(40) DEF SendAll, TypeOK
  <2>2. conn'[h].wire = Append(conn[h].wire, params[t])
    BY <1>22, <2>1 DEF SendAll, TypeOK, Conns
  <2>3. AllFor(conn'[h].wire, req[t])
    BY <1>22, <2>1, <2>2, AllForAppend DEF SendAll
  <2>4. ASSUME NEW u \in Threads, curl[SlotOf[u]] # NULL
        PROVE  AllFor(conn'[curl[SlotOf[u]]].wire, req[u])
    <3>1. u # t => curl[SlotOf[u]] # h
      BY <2>4 DEF HandleInv, PerThreadSlots
    <3>2. u # t => conn'[curl[SlotOf[u]]] = conn[curl[SlotOf[u]]]
      BY <1>22, <2>4, <3>1 DEF SendAll, TypeOK
    <3> QED
      BY <2>3, <2>4, <3>2
  <2> QED
    BY <1>22, <2>4 DEF SendAll, TypeOK
<1>23. CASE SendShort(t)
  BY <1>23, NullType DEF SendShort, TypeOK, HandleInv
<1>24. CASE SendFail(t)
  BY <1>24, NullType DEF SendFail, TypeOK, HandleInv
<1>25. CASE GiveUp(t)
  BY <1>25, NullType DEF GiveUp, TypeOK, HandleInv
<1>26. CASE DecideRetry(t)
  BY <1>26, NullType DEF DecideRetry, TypeOK, HandleInv
<1>27. CASE Retry(t)
  BY <1>27, NullType DEF Retry, TypeOK, HandleInv
<1>28. CASE SendError(t)
  BY <1>28, NullType DEF SendError, Return, Cleanup, PerThreadSlots, TypeOK,
     HandleInv
<1>29. CASE RecvWait(t)
  BY <1>29, NullType DEF RecvWait, TypeOK, HandleInv
<1>30. CASE Recv(t)
  <2> DEFINE h == curl[SlotOf[t]]
  <2>1. CASE UNCHANGED <<reply, conn>>
    BY <1>30, <2>1 DEF Recv, TypeOK
  <2>2. CASE /\ h # NULL /\ conn[h].wire # <<>>
             /\ reply' = [reply EXCEPT ![t] = Head(conn[h].wire).body.req]
             /\ conn' = [conn EXCEPT ![h].wire = Tail(@)]
    <3>1. h \in Handles /\ conn[h].wire \in Seq(Messages) /\ conn[h] \in Conns
      BY <2>2, ConnTypes, MessageTypes DEF TypeOK
    <3>2. conn'[h].wire = Tail(conn[h].wire)
      BY <2>2, <3>1 DEF TypeOK, Conns
    <3>3. reply'[t] = req[t] /\ AllFor(conn'[h].wire, req[t])
      BY <2>2, <3>1, <3>2, AllForTail DEF TypeOK
    <3>4. ASSUME NEW u \in Threads, curl[SlotOf[u]] # NULL
          PROVE  AllFor(conn'[curl[SlotOf[u]]].wire, req[u])
      <4>1. u # t => curl[SlotOf[u]] # h
        BY <3>4 DEF HandleInv, PerThreadSlots
      <4>2. u # t => conn'[curl[SlotOf[u]]] = conn[curl[SlotOf[u]]]
        BY <2>2, <3>4, <4>1 DEF TypeOK
      <4> QED
        BY <3>3, <3>4, <4>2
    <3>5. \A u \in Threads \ {t} : reply'[u] = reply[u]
      BY <2>2 DEF TypeOK
    <3> QED
      BY <1>30, <3>3, <3>4, <3>5 DEF Recv, TypeOK
  <2> QED
    BY <1>30, <2>1, <2>2 DEF Recv
<1>31. CASE RecvCleanup(t)
  <2>1. \A u \in Threads : u # t => SlotOf[u] # SlotOf[t]
    BY DEF PerThreadSlots
  <2>2. ASSUME NEW u \in Threads, curl'[SlotOf[u]] # NULL
        PROVE  AllFor(conn'[curl'[SlotOf[u]]].wire, req[u])
    <3>1. u # t /\ curl'[SlotOf[u]] = curl[SlotOf[u]]
      BY <1>31, <2>1, <2>2 DEF RecvCleanup, Cleanup, TypeOK
    <3>2. curl[SlotOf[u]] \in Handles /\ curl[SlotOf[u]] # curl[SlotOf[t]]
      BY <2>1, <2>2, <3>1 DEF TypeOK, HandleInv
    <3>3. conn'[curl[SlotOf[u]]] = conn[curl[SlotOf[u]]]
      BY <1>31, <3>2 DEF RecvCleanup, Cleanup
    <3> QED
      BY <2>2, <3>1, <3>3
  <2>3. CASE Return(t, "recv_cleanup", "fail")
    BY <1>31, <2>2, <2>3 DEF RecvCleanup, Return, TypeOK
  <2>4. CASE Goto(t, "recv_cleanup", "close_free") /\ reply[t] # NoReq /\ UNCHANGED frame
    BY <1>31, <2>2, <2>4 DEF RecvCleanup, TypeOK
  <2> QED
    BY <1>31, <2>3, <2>4 DEF RecvCleanup
<1>32. CASE CloseFree(t)
  BY <1>32, NullType DEF CloseFree, TypeOK, HandleInv
<1>33. CASE DoubleFree(t)
  BY <1>33, NullType DEF DoubleFree, Crash, TypeOK, HandleInv
<1>34. CASE CloseNull(t)
  <2>1. CASE LastField(t)
    BY <1>34, <2>1, ZenonT(40) DEF CloseNull, Return, TypeOK
  <2>2. CASE ~LastField(t)
    BY <1>34, <2>2 DEF CloseNull, TypeOK
  <2> QED
    BY <2>1, <2>2
<1> QED
  BY <1>1, <1>2, <1>3, <1>4, <1>5, <1>6, <1>7, <1>8, <1>9, <1>10, <1>11, <1>12,
     <1>13, <1>14, <1>15, <1>16, <1>17, <1>18, <1>19, <1>20, <1>21, <1>22, <1>23,
     <1>24, <1>25, <1>26, <1>27, <1>28, <1>29, <1>30, <1>31, <1>32, <1>33, <1>34 DEF
     Begin, Progress, BuildRequest, SendRequest, ReceiveAndClose

LEMMA InitOwnershipInv == Init => OwnershipInv
<1> SUFFICES ASSUME Init PROVE OwnershipInv
  OBVIOUS
<1>1. HandleInv
  BY DEF Init, HandleInv
<1>2. RequestInv
  BY DEF Init, RequestInv, Releasing, Addressed
<1> QED
  BY <1>1, <1>2 DEF OwnershipInv

(* OwnershipInv is inductive when no two threads share a slot: no other    *)
(* thread, and no initialisation, ever reaches a thread's handle.          *)
THEOREM OwnershipCorrect == PerThreadSlots => (Spec => []OwnershipInv)
<1> SUFFICES ASSUME PerThreadSlots PROVE Spec => []OwnershipInv
  OBVIOUS
<1>1. TypeOK /\ OwnershipInv /\ [Next]_vars => OwnershipInv'
  <2> SUFFICES ASSUME TypeOK, OwnershipInv, [Next]_vars PROVE OwnershipInv'
    OBVIOUS
  <2>1. ASSUME UNCHANGED vars PROVE OwnershipInv'
    BY <2>1 DEF OwnershipInv, HandleInv, RequestInv, vars, shared, strings,
           buffers, slots, libcurl, locals, setup, frame
  <2>2. ASSUME NEW t \in Threads, Begin(t) \/ Progress(t) PROVE OwnershipInv'
    BY <2>2, StepHandleInv, StepRequestInv DEF OwnershipInv
  <2> QED
    BY <2>1, <2>2 DEF Next, Stopped
<1> QED
  BY <1>1, InitOwnershipInv, TypeCorrect, PTL DEF Spec

(* A successful call has its own answer in its buffer, for any number of   *)
(* threads calling at once and initialisations at any moment, provided     *)
(* that every thread has its own slot (GW_THREADS_NOTIF is one slot).      *)
THEOREM RepliesAreOwn == PerThreadSlots => (Spec => []OwnReply)
<1> SUFFICES ASSUME PerThreadSlots PROVE Spec => []OwnReply
  OBVIOUS
<1>1. OwnershipInv => OwnReply
  BY DEF OwnershipInv, RequestInv, OwnReply, Outside
<1> QED
  BY <1>1, OwnershipCorrect, PTL

(* Under the same provision no handle is cleaned up while                  *)
(* curl_easy_perform works on it.                                          *)
THEOREM HandlesInUseAreLive == PerThreadSlots => (Spec => []HandleInUseIsLive)
<1> SUFFICES ASSUME PerThreadSlots PROVE Spec => []HandleInUseIsLive
  OBVIOUS
<1>1. OwnershipInv => HandleInUseIsLive
  BY DEF OwnershipInv, HandleInv, HandleInUseIsLive
<1> QED
  BY <1>1, OwnershipCorrect, PTL

-----------------------------------------------------------------------------
(* From here on: one thread that calls, or no initialisation that overlaps *)
(* a request.                                                              *)

(* No other thread calls: the one there is uses one slot. *)
Single == \A t, u \in Threads : t = u

(* The threads have a slot each, and no initialisation overlaps a call of  *)
(* another thread: it begins between requests, and none begins during it.  *)
Orderly == PerThreadSlots /\ (QuietInit \/ Single)

(* Where the strings are being stored. *)
Storing == {"init_secret", "init_drop", "init_alloc", "init_copy"}

(* Where a request is that passed the test of the credentials. *)
Granted == {"sign", "digest", "params", "request", "curl_drop", "curl_new", "perform",
            "performing", "getinfo", "wait_tx", "send", "send_failed", "retry", "error",
            "recv_wait", "recv", "recv_cleanup"}

(* Where a request has a handle. *)
Connecting == {"perform", "performing", "getinfo"}

Connected == {"wait_tx", "send", "send_failed", "retry", "recv_wait", "recv"}

-----------------------------------------------------------------------------
(* The inductive invariant.                                                *)

(* What OSN_GW_close has made of its k-th string. *)
Released(t, k) ==
  IF k < nextField[t] THEN {"null"}
  ELSE IF k = nextField[t] /\ pc[t] = "close_null" THEN {"null", "freed"}
  ELSE IF k = 1 THEN PtrStates \ {"freed"}
  ELSE {"live"}

(* What OSN_GW_init has made of its k-th string. *)
Stored(t, k) ==
  IF k < nextField[t] THEN {"live"}
  ELSE IF k = nextField[t] /\ pc[t] = "init_copy" THEN {"null", "raw"}
  ELSE {"null"}

(* The strings as thread t finds them, where it is all there is.  Only     *)
(* OSN_GW_close has strings that are freed, and OSN_GW_setGateway one; a   *)
(* request that is on its way has all its credentials, of one account.     *)
StringsOf(t) ==
  /\ \A f \in {"hostName", "service"} : ptr[f] # "freed"
  /\ \A f \in Credentials : ptr[f] = "live" => account[f] = login[t]
  /\ pc[t] \notin Storing => \A f \in Credentials : ptr[f] # "raw"
  /\ pc[t] \notin {"init_drop", "init_alloc", "init_copy"} \cup Releasing => nextField[t] = 1
  /\ pc[t] \notin Releasing => \A f \in Credentials : ptr[f] # "freed"
  /\ pc[t] \notin Releasing \cup {"gw_url"} => ptr["urlName"] # "freed"
  /\ pc[t] # "gw_print" => ptr["urlName"] # "raw"
  /\ pc[t] = "gw_print" => ptr["urlName"] = "raw"
  /\ pc[t] \in {"gw_service", "gw_copy_host"} => ptr["hostName"] = "raw"
  /\ pc[t] \in {"gw_copy_host", "gw_copy_service"} => ptr["service"] = "raw"
  /\ pc[t] \in Storing =>
       /\ ptr["user_name"] \in Stored(t, 1)
       /\ ptr["user_password"] \in Stored(t, 2)
       /\ ptr["organization_code"] \in Stored(t, 3)
       /\ ptr["client_id"] \in Stored(t, 4)
  /\ pc[t] \in Granted => \A f \in Credentials : ptr[f] = "live"
  /\ pc[t] \in Releasing =>
       /\ ptr["client_id"] = "live"
       /\ \A k \in 1..4 : ptr[CloseOrder[k]] \in Released(t, k)

StringInv == \A t \in Threads : StringsOf(t)

(* A request of u has its own handle until it is cleaned up, and the       *)
(* socket is the handle's.                                                 *)
SocketOf(u) ==
  /\ pc[u] \in Connecting \cup Connected => curl[Slot(u)] # NULL
  /\ pc[u] = "performing" => held[u] = curl[Slot(u)]
  /\ pc[u] = "getinfo" => conn[curl[Slot(u)]].up
  /\ pc[u] \in Connected => sockfd[Slot(u)] = curl[Slot(u)]

(* The handles that are open are in the slots of threads. *)
OpenInv ==
  /\ \A h \in live : \E s \in Slots : curl[s] = h
  /\ \A s \in Slots : curl[s] # NULL => \E t \in Threads : s = Slot(t)

(* While a thread initialises, every other one is idle. *)
QuietInv ==
  \A t, u \in Threads : pc[t] \in Initializing /\ u # t => pc[u] = "idle"

SocketInv == OpenInv /\ QuietInv /\ \A t \in Threads : SocketOf(t)

Signed(wire) == \A i \in 1 .. Len(wire) : wire[i].sig = wire[i].body

(* What is signed is the content that goes into the request. *)
SignatureInv ==
  /\ \A h \in Handles : Signed(conn[h].wire)
  /\ \A t \in Threads :
       /\ pc[t] = "digest" => sigIn = Content(t, {login[t]})
       /\ pc[t] = "params" => sigOut = Content(t, {login[t]})
       /\ pc[t] \in Addressed => params[t].sig = params[t].body

SessionInv == StringInv /\ SignatureInv /\ NoUseAfterFree

-----------------------------------------------------------------------------
(* Preservation: the strings.                                              *)

LEMMA CloseOrderIs ==
  /\ Len(CloseOrder) = 4
  /\ CloseOrder[1] = "urlName" /\ CloseOrder[2] = "user_name"
  /\ CloseOrder[3] = "user_password" /\ CloseOrder[4] = "organization_code"
  BY DEF CloseOrder

LEMMA StoreOrderIs ==
  /\ Len(StoreOrder) = 4
  /\ StoreOrder[1] = "user_name" /\ StoreOrder[2] = "user_password"
  /\ StoreOrder[3] = "organization_code" /\ StoreOrder[4] = "client_id"
  BY DEF StoreOrder

LEMMA FourStrings == \A k \in 1..4 : k = 1 \/ k = 2 \/ k = 3 \/ k = 4
  OBVIOUS

(* A step of OSN_GW_init or OSN_GW_setGateway keeps them so.               *)
LEMMA InitializeStrings ==
  ASSUME TypeOK, NEW t \in Threads, StringsOf(t), Initialize(t)
  PROVE  StringsOf(t)'
  <1> DEFINE n == nextField[t]
  <1>0. /\ n \in {1, 2, 3, 4} /\ Len(StoreOrder) = 4
        /\ n = 1 => Credential(t) = "user_name"
        /\ n = 2 => Credential(t) = "user_password"
        /\ n = 3 => Credential(t) = "organization_code"
        /\ n = 4 => Credential(t) = "client_id"
    BY StoreOrderIs DEF TypeOK, Credential
  <1> USE DEF TypeOK, Fields, Credentials, Goto, shared, strings, locals, setup, frame
  <1>1. CASE AllocSecret(t)
    <2>1. UNCHANGED <<ptr, account, login, nextField>> /\ pc[t] = "init_secret"
          /\ pc'[t] \in {"init_drop", "gw_drop"}
      BY <1>1 DEF AllocSecret, Step
    <2>2. n = 1
      BY <2>1 DEF StringsOf, Releasing
    <2> QED BY <2>1, <2>2 DEF StringsOf, Stored, Storing, Granted, Releasing
  <1>2. CASE DropCredential(t)
    <2>1. /\ UNCHANGED <<account, login, nextField>>
          /\ pc[t] = "init_drop" /\ pc'[t] = "init_alloc"
          /\ ptr' = [ptr EXCEPT ![Credential(t)] = IF ptr[Credential(t)] = "null" THEN "null" ELSE "freed"]
      BY <1>2 DEF DropCredential, DropString, SetString
    <2>2. ptr[Credential(t)] = "null"
      BY <1>0, <2>1 DEF StringsOf, Stored, Storing
    <2>3. ptr' = ptr
      BY <2>1, <2>2
    <2> QED BY <2>1, <2>3 DEF StringsOf, Stored, Storing, Granted, Releasing
  <1>3. CASE AllocCredential(t)
    <2>1. /\ UNCHANGED <<account, login, nextField>>
          /\ pc[t] = "init_alloc" /\ pc'[t] = "init_copy"
          /\ \E p \in {"raw", "null"} : ptr' = [ptr EXCEPT ![Credential(t)] = p]
      BY <1>3 DEF AllocCredential, SetString
    <2> QED BY <1>0, <2>1 DEF StringsOf, Stored, Storing, Granted, Releasing
  <1>4. CASE CopyCredential(t)
    <2>1. /\ UNCHANGED login /\ pc[t] = "init_copy"
          /\ account' = [account EXCEPT ![Credential(t)] = login[t]]
          /\ ptr[Credential(t)] # "null"
          /\ ptr' = [ptr EXCEPT ![Credential(t)] = Written(Credential(t))]
          /\ \/ n < 4 /\ pc'[t] = "init_drop" /\ nextField'[t] = n + 1
             \/ n = 4 /\ pc'[t] = "init_slots" /\ nextField'[t] = 1
      BY <1>0, <1>4 DEF CopyCredential
    <2>2. Written(Credential(t)) = "live"
      BY <1>0, <2>1 DEF StringsOf, Stored, Storing, Written
    <2> QED BY <1>0, <2>1, <2>2 DEF StringsOf, Stored, Storing, Granted, Releasing
  <1>5. CASE ForgetSlot(t)
    <2>1. UNCHANGED <<ptr, account, login, nextField>> /\ pc[t] = "init_slots"
          /\ pc'[t] \in {"init_slots", "gw_drop"}
      BY <1>5 DEF ForgetSlot
    <2> QED BY <2>1 DEF StringsOf, Storing, Granted, Releasing
  <1>6. CASE DropUrl(t)
    <2>1. /\ UNCHANGED <<account, login, nextField>>
          /\ pc[t] = "gw_drop" /\ pc'[t] = "gw_url"
          /\ \E p \in {"null", "freed"} : ptr' = [ptr EXCEPT !["urlName"] = p]
      BY <1>6 DEF DropUrl, DropString, SetString
    <2> QED BY <2>1 DEF StringsOf, Storing, Granted, Releasing
  <1>7. CASE PrintUrl(t)
    <2>1. /\ UNCHANGED <<account, login, nextField>>
          /\ pc[t] = "gw_print" /\ pc'[t] = "gw_host"
          /\ ptr' = [ptr EXCEPT !["urlName"] = Written("urlName")]
      BY <1>7 DEF PrintUrl, SetString
    <2>2. Written("urlName") = "live"
      BY <2>1 DEF StringsOf, Written
    <2> QED BY <2>1, <2>2 DEF StringsOf, Storing, Granted, Releasing
  <1>8. CASE AllocGateway(t)
    <2>1. /\ UNCHANGED <<account, login, nextField>>
          /\ \/ /\ pc[t] = "gw_url"
                /\ \/ pc'[t] = "gw_print" /\ ptr' = [ptr EXCEPT !["urlName"] = "raw"]
                   \/ pc'[t] = "idle" /\ ptr' = [ptr EXCEPT !["urlName"] = "null"]
             \/ /\ pc[t] = "gw_host"
                /\ \/ pc'[t] = "gw_service" /\ ptr' = [ptr EXCEPT !["hostName"] = "raw"]
                   \/ pc'[t] = "idle" /\ ptr' = [ptr EXCEPT !["hostName"] = "null"]
             \/ /\ pc[t] = "gw_service"
                /\ \/ pc'[t] = "gw_copy_host" /\ ptr' = [ptr EXCEPT !["service"] = "raw"]
                   \/ pc'[t] = "idle" /\ ptr' = [ptr EXCEPT !["service"] = "null"]
      BY <1>8 DEF AllocGateway, SetString
    <2> QED BY <2>1 DEF StringsOf, Storing, Granted, Releasing
  <1>9. CASE CopyGateway(t)
    <2>1. /\ UNCHANGED <<account, login, nextField>>
          /\ \/ /\ pc[t] = "gw_copy_host" /\ pc'[t] = "gw_copy_service"
                /\ ptr' = [ptr EXCEPT !["hostName"] = Written("hostName")]
             \/ /\ pc[t] = "gw_copy_service" /\ pc'[t] = "idle"
                /\ ptr' = [ptr EXCEPT !["service"] = Written("service")]
      <3>1. CASE SetString(t, "hostName", Written("hostName"), "gw_copy_host", "gw_copy_service")
        BY <3>1 DEF SetString
      <3>2. CASE SetString(t, "service", Written("service"), "gw_copy_service", "idle")
        BY <3>2 DEF SetString
      <3> QED BY <1>9, <3>1, <3>2 DEF CopyGateway
    <2>2. pc[t] = "gw_copy_host" => Written("hostName") = "live"
      BY DEF StringsOf, Written
    <2>3. pc[t] = "gw_copy_service" => Written("service") = "live"
      BY DEF StringsOf, Written
    <2> QED BY <2>1, <2>2, <2>3 DEF StringsOf, Storing, Granted, Releasing
  <1> QED
    BY <1>1, <1>2, <1>3, <1>4, <1>5, <1>6, <1>7, <1>8, <1>9 DEF Initialize

LEMMA CrashStrings ==
  ASSUME NEW t \in Threads, StringsOf(t), NEW from, NEW why, Crash(t, from, why)
  PROVE  StringsOf(t)'
  <1>1. UNCHANGED <<ptr, account, login, pc, nextField>>
    BY DEF Crash, shared, strings, locals, setup, frame
  <1> QED BY <1>1 DEF StringsOf, Stored, Released

LEMMA StepStrings ==
  ASSUME TypeOK, StringInv, NEW t \in Threads, Begin(t) \/ Progress(t)
  PROVE  StringsOf(t)'
  <1>0. StringsOf(t)
    BY DEF StringInv
  <1> USE <1>0, CloseOrderIs, StoreOrderIs
  <1> USE DEF StringsOf, Storing, Initializing, Releasing, Granted, Goto, Step, shared, strings, buffers, slots,
              libcurl, locals, setup, frame
  <1>1. CASE InitClear(t)
    <2>1. /\ pc[t] = "idle" /\ pc'[t] = "init_secret" /\ UNCHANGED nextField
          /\ \A f \in Fields \ {"hostName", "service"} : ptr'[f] = "null"
          /\ ptr'["hostName"] = ptr["hostName"] /\ ptr'["service"] = ptr["service"]
      BY <1>1 DEF InitClear, TypeOK, Fields
    <2> QED BY <2>1 DEF Fields, Credentials, Stored
  <1>2. CASE Initialize(t)
    BY <1>2, InitializeStrings
  <1>4. CASE Call(t)
    BY <1>4 DEF Call, TypeOK, Fields, Credentials
  <1>5. CASE CreateTimestamp(t)
    BY <1>5 DEF CreateTimestamp, TypeOK, Fields, Credentials
  <1>6. CASE CheckCredentials(t)
    <2>1. CASE HasCredentials /\ Goto(t, "check_creds", "sign") /\ UNCHANGED frame
      <3>1. \A f \in Credentials : ptr[f] = "live"
        BY <2>1 DEF HasCredentials, Have, TypeOK, PtrStates, Fields, Credentials
      <3> QED BY <1>6, <2>1, <3>1 DEF CheckCredentials, TypeOK
    <2>2. CASE Return(t, "check_creds", "fail")
      BY <1>6, <2>2 DEF CheckCredentials, Return, TypeOK
    <2> QED BY <1>6, <2>1, <2>2 DEF CheckCredentials
  <1>7. CASE OutOfMemory(t)
    BY <1>7 DEF OutOfMemory, Return, TypeOK, Fields, Credentials
  <1>8. CASE FillSignature(t)
    BY <1>8 DEF FillSignature, TypeOK, Fields, Credentials
  <1>9. CASE Digest(t)
    BY <1>9 DEF Digest, TypeOK, Fields, Credentials
  <1>10. CASE CreateParameters(t)
    BY <1>10 DEF CreateParameters, TypeOK, Fields, Credentials
  <1>11. CASE CreateRequest(t)
    BY <1>11 DEF CreateRequest, TypeOK, Fields, Credentials
  <1>12. CASE BadString(t)
    BY <1>12, CrashStrings DEF BadString
  <1>3. CASE BadWrite(t)
    BY <1>3, CrashStrings DEF BadWrite
  <1>13. CASE UncheckedAllocation(t)
    BY <1>13, CrashStrings DEF UncheckedAllocation
  <1>14. CASE CurlDrop(t)
    BY <1>14 DEF CurlDrop, Cleanup, TypeOK, Fields, Credentials
  <1>15. CASE CurlNew(t)
    BY <1>15 DEF CurlNew, TypeOK, Fields, Credentials
  <1>16. CASE CurlInitFails(t)
    BY <1>16 DEF CurlInitFails, Return, TypeOK, Fields, Credentials
  <1>17. CASE Perform(t)
    BY <1>17 DEF Perform, TypeOK, Fields, Credentials
  <1>18. CASE PerformDone(t)
    BY <1>18 DEF PerformDone, TypeOK, Fields, Credentials
  <1>19. CASE FreedHandle(t)
    BY <1>19, CrashStrings DEF FreedHandle
  <1>20. CASE GetInfo(t)
    BY <1>20 DEF GetInfo, TypeOK, Fields, Credentials
  <1>21. CASE WaitTx(t)
    BY <1>21 DEF WaitTx, TypeOK, Fields, Credentials
  <1>22. CASE SendAll(t)
    BY <1>22 DEF SendAll, TypeOK, Fields, Credentials
  <1>23. CASE SendShort(t)
    BY <1>23 DEF SendShort, TypeOK, Fields, Credentials
  <1>24. CASE SendFail(t)
    BY <1>24 DEF SendFail, TypeOK, Fields, Credentials
  <1>25. CASE GiveUp(t)
    BY <1>25 DEF GiveUp, TypeOK, Fields, Credentials
  <1>26. CASE DecideRetry(t)
    BY <1>26 DEF DecideRetry, TypeOK, Fields, Credentials
  <1>27. CASE Retry(t)
    BY <1>27 DEF Retry, TypeOK, Fields, Credentials
  <1>28. CASE SendError(t)
    BY <1>28 DEF SendError, Return, Cleanup, TypeOK, Fields, Credentials
  <1>29. CASE RecvWait(t)
    BY <1>29 DEF RecvWait, TypeOK, Fields, Credentials
  <1>30. CASE Recv(t)
    BY <1>30 DEF Recv, TypeOK, Fields, Credentials
  <1>31. CASE RecvCleanup(t)
    <2>1. CASE Goto(t, "recv_cleanup", "close_free") /\ UNCHANGED frame
      <3>1. pc'[t] = "close_free" /\ nextField'[t] = 1 /\ UNCHANGED <<ptr, account, login>>
        BY <1>31, <2>1 DEF RecvCleanup, TypeOK
      <3>2. \A k \in 1..4 : ptr'[CloseOrder[k]] \in Released(t, k)'
        BY <1>31, <2>1, <3>1, FourStrings DEF Released, TypeOK, Fields, Credentials
      <3> QED BY <1>31, <2>1, <3>1, <3>2 DEF Credentials, Fields, TypeOK
    <2>2. CASE Return(t, "recv_cleanup", "fail")
      BY <1>31, <2>2 DEF RecvCleanup, Return, TypeOK
    <2> QED BY <1>31, <2>1, <2>2 DEF RecvCleanup
  <1>32. CASE CloseFree(t)
    <2> DEFINE n == nextField[t]
    <2>1. /\ pc[t] = "close_free" /\ pc'[t] = "close_null"
          /\ UNCHANGED <<nextField, account, login>>
          /\ n \in 1..4
          /\ \A f \in Fields : f # CloseOrder[n] => ptr'[f] = ptr[f]
          /\ ptr'[CloseOrder[n]] \in {"null", "freed"}
      BY <1>32, FourStrings DEF CloseFree, TypeOK, Fields
    <2> HIDE DEF n
    <2>2. \A k \in 1..4 : ptr'[CloseOrder[k]] \in Released(t, k)'
      <3> SUFFICES ASSUME NEW k \in 1..4 PROVE ptr'[CloseOrder[k]] \in Released(t, k)'
        OBVIOUS
      <3>1. CASE k = n
        BY <2>1, <3>1 DEF Released, n
      <3>2. CASE k # n
        <4>1. CloseOrder[k] # CloseOrder[n] /\ CloseOrder[k] \in Fields
          BY <2>1, <3>2, FourStrings DEF Fields
        <4> QED BY <2>1, <3>2, <4>1 DEF Released, n
      <3> QED BY <3>1, <3>2
    <2>3. /\ ptr'["client_id"] = "live" /\ \A f \in Credentials : ptr'[f] # "raw"
          /\ \A f \in {"hostName", "service"} : ptr'[f] # "freed"
          /\ ptr'["urlName"] # "raw"
          /\ \A f \in Credentials : ptr'[f] = "live" => account'[f] = login'[t]
      BY <2>1, FourStrings DEF Credentials, Fields
    <2> QED BY <2>1, <2>2, <2>3
  <1>33. CASE DoubleFree(t)
    BY <1>33, CrashStrings DEF DoubleFree
  <1>34. CASE CloseNull(t)
    <2> DEFINE n == nextField[t]
    <2>1. /\ pc[t] = "close_null" /\ n \in 1..4 /\ UNCHANGED <<account, login>>
          /\ \A f \in Fields : f # CloseOrder[n] => ptr'[f] = ptr[f]
          /\ ptr'[CloseOrder[n]] = "null"
      BY <1>34, FourStrings DEF CloseNull, Return, TypeOK, Fields
    <2>2. /\ ptr'["client_id"] = "live" /\ \A f \in Credentials : ptr'[f] # "raw"
          /\ \A f \in {"hostName", "service"} : ptr'[f] # "freed"
          /\ ptr'["urlName"] # "raw"
          /\ \A f \in Credentials : ptr'[f] = "live" => account'[f] = login'[t]
      BY <2>1, FourStrings DEF Credentials, Fields
    <2>3. CASE ~LastField(t)
      <3>1. pc'[t] = "close_free" /\ nextField'[t] = n + 1
        BY <1>34, <2>3 DEF CloseNull, LastField, TypeOK
      <3>2. \A k \in 1..4 : ptr'[CloseOrder[k]] \in Released(t, k)'
        <4> SUFFICES ASSUME NEW k \in 1..4 PROVE ptr'[CloseOrder[k]] \in Released(t, k)'
          OBVIOUS
        <4>1. CASE k = n
          BY <2>1, <3>1, <4>1 DEF Released
        <4>2. CASE k # n
          <5>1. CloseOrder[k] # CloseOrder[n] /\ CloseOrder[k] \in Fields
            BY <2>1, <4>2, FourStrings DEF Fields
          <5>2. ptr'[CloseOrder[k]] = ptr[CloseOrder[k]]
            BY <2>1, <5>1
          <5> QED BY <2>1, <3>1, <4>2, <5>2 DEF Released
        <4> QED BY <4>1, <4>2
      <3> QED BY <2>1, <2>2, <3>1, <3>2
    <2>4. CASE LastField(t)
      <3>1. pc'[t] = "idle" /\ nextField'[t] = 1 /\ n = 4
        BY <1>34, <2>4 DEF CloseNull, Return, LastField, TypeOK
      <3>2. ASSUME NEW f \in Fields PROVE ptr'[f] # "freed"
        <4> QED BY <2>1, <2>2, <3>1, FourStrings DEF Released, Fields
      <3>3. ptr'["urlName"] # "freed" /\ \A f \in Credentials : ptr'[f] # "freed"
        BY <3>2, FieldSets DEF Fields
      <3> QED BY <2>1, <2>2, <3>1, <3>3
    <2> QED BY <2>3, <2>4
  <1> QED
    BY <1>1, <1>2, <1>3, <1>4, <1>5, <1>6, <1>7, <1>8, <1>9, <1>10, <1>11, <1>12, <1>13,
       <1>14, <1>15, <1>16, <1>17, <1>18, <1>19, <1>20, <1>21, <1>22, <1>23, <1>24,
       <1>25, <1>26, <1>27, <1>28, <1>29, <1>30, <1>31, <1>32, <1>33, <1>34
    DEF Begin, Progress, BuildRequest, SendRequest, ReceiveAndClose

LEMMA InitStrings == Init => StringInv
  BY DEF Init, StringInv, StringsOf, Storing, Releasing, Granted, Credentials, Fields

LEMMA StringsPreserved ==
  ASSUME Single, TypeOK, StringInv, NEW t \in Threads, Begin(t) \/ Progress(t)
  PROVE  StringInv'
  <1>1. StringsOf(t)'
    BY StepStrings
  <1>2. \A u \in Threads : u = t
    BY DEF Single
  <1> QED BY <1>1, <1>2 DEF StringsOf, StringInv

(* Nothing that was freed is touched: the steps that would are disabled. *)
LEMMA FatePreserved ==
  ASSUME TypeOK, HandleInv, StringInv, NoUseAfterFree,
         NEW t \in Threads, Begin(t) \/ Progress(t)
  PROVE  NoUseAfterFree'
  <1>1. CASE UNCHANGED crashed
    BY <1>1 DEF NoUseAfterFree
  <1>2. CASE UncheckedAllocation(t)
    BY <1>2 DEF UncheckedAllocation, Crash, NoUseAfterFree
  <1>3. CASE BadString(t)
    <2>1. ASSUME pc[t] \in {"sign", "params"}
          PROVE  /\ Have(Credentials) /\ Have(FormFields)
                 /\ ~Dangling(Credentials) /\ ~Dangling(FormFields)
      BY <2>1 DEF StringInv, StringsOf, Granted, Have, Dangling, Credentials, FormFields
    <2>2. pc[t] = "curl_new" => ~Dangling({"urlName"})
      BY DEF StringInv, StringsOf, Releasing, Dangling
    <2> QED BY <1>3, <2>1, <2>2 DEF BadString, Crash, NoUseAfterFree
  <1>4. ~FreedHandle(t)
    BY DEF FreedHandle, HandleInv
  <1>5. ~DoubleFree(t)
    <2>1. pc[t] = "close_free" => ptr[CloseOrder[nextField[t]]] # "freed"
      <3> SUFFICES ASSUME pc[t] = "close_free" PROVE ptr[CloseOrder[nextField[t]]] # "freed"
        OBVIOUS
      <3>1. nextField[t] \in 1..4
        BY CloseOrderIs, StoreOrderIs DEF TypeOK
      <3>2. ptr[CloseOrder[nextField[t]]] \in Released(t, nextField[t])
        BY <3>1 DEF StringInv, StringsOf, Releasing
      <3> QED BY <3>1, <3>2 DEF Released
    <2>2. pc[t] = "init_drop" => ptr[Credential(t)] # "freed"
      BY CredentialType DEF StringInv, StringsOf, Releasing
    <2>3. pc[t] = "gw_drop" => ptr["urlName"] # "freed"
      BY DEF StringInv, StringsOf, Releasing
    <2> QED BY <2>1, <2>2, <2>3 DEF DoubleFree, Crash
  <1>6. ~BadWrite(t)
    <2>1. pc[t] = "init_copy" => ptr[Credential(t)] # "freed"
      BY CredentialType DEF StringInv, StringsOf, Releasing
    <2>2. /\ pc[t] = "gw_print" => ptr["urlName"] = "raw"
          /\ pc[t] = "gw_copy_host" => ptr["hostName"] = "raw"
          /\ pc[t] = "gw_copy_service" => ptr["service"] = "raw"
      BY DEF StringInv, StringsOf
    <2> QED BY <2>1, <2>2 DEF BadWrite, Crash
  <1>7. CASE Initialize(t)
    BY <1>1, <1>7, InitializeStep
  <1> QED
    BY <1>1, <1>2, <1>3, <1>4, <1>5, <1>6, <1>7
    DEF Begin, Progress, BuildRequest, SendRequest, ReceiveAndClose, Step, InitClear, Call,
        CreateTimestamp, CheckCredentials, OutOfMemory, FillSignature, Digest,
        CreateParameters, CreateRequest, CurlDrop, CurlNew, CurlInitFails, Perform, PerformDone,
        GetInfo, WaitTx, SendAll, SendShort, SendFail, GiveUp, DecideRetry, Retry, SendError,
        RecvWait, Recv, RecvCleanup, CloseFree, CloseNull

-----------------------------------------------------------------------------
(* Preservation: handles and sockets.                                      *)

LEMMA StepSocket ==
  ASSUME TypeOK, HandleInv, NEW t \in Threads, SocketOf(t), Begin(t) \/ Progress(t)
  PROVE  SocketOf(t)'
  <1>0. Slot(t) \in Slots /\ NULL \notin Handles
    BY SlotOfType, NullType DEF Slot
  <1> USE <1>0
  <1> USE DEF SocketOf, Outside, Initializing, Preparing, Releasing, Connecting, Connected, Goto, Step, shared,
              strings, buffers, slots, libcurl, locals, setup, frame
  <1>1. CASE InitClear(t)
    BY <1>1 DEF InitClear, TypeOK, HandleInv
  <1>2. CASE Initialize(t)
    BY <1>2, InitializeStep DEF TypeOK, Initializing
  <1>4. CASE Call(t)
    BY <1>4 DEF Call, TypeOK, HandleInv
  <1>5. CASE CreateTimestamp(t)
    BY <1>5 DEF CreateTimestamp, TypeOK, HandleInv
  <1>6. CASE CheckCredentials(t)
    BY <1>6 DEF CheckCredentials, Return, TypeOK, HandleInv
  <1>7. CASE OutOfMemory(t)
    BY <1>7 DEF OutOfMemory, Return, TypeOK, HandleInv
  <1>8. CASE FillSignature(t)
    BY <1>8 DEF FillSignature, TypeOK, HandleInv
  <1>9. CASE Digest(t)
    BY <1>9 DEF Digest, TypeOK, HandleInv
  <1>10. CASE CreateParameters(t)
    BY <1>10 DEF CreateParameters, TypeOK, HandleInv
  <1>11. CASE CreateRequest(t)
    BY <1>11 DEF CreateRequest, TypeOK, HandleInv
  <1>12. CASE BadString(t)
    BY <1>12 DEF BadString, Crash, TypeOK, HandleInv
  <1>3. CASE BadWrite(t)
    BY <1>3 DEF BadWrite, Crash, TypeOK, HandleInv
  <1>13. CASE UncheckedAllocation(t)
    BY <1>13 DEF UncheckedAllocation, Crash, TypeOK, HandleInv
  <1>14. CASE CurlDrop(t)
    BY <1>14 DEF CurlDrop, Cleanup, TypeOK, HandleInv
  <1>15. CASE CurlNew(t)
    BY <1>15 DEF CurlNew, TypeOK, HandleInv
  <1>16. CASE CurlInitFails(t)
    BY <1>16 DEF CurlInitFails, Return, TypeOK, HandleInv
  <1>17. CASE Perform(t)
    BY <1>17 DEF Perform, TypeOK, HandleInv
  <1>18. CASE PerformDone(t)
    <2>1. /\ UNCHANGED <<live, curl, sockfd>>
          /\ held' = [held EXCEPT ![t] = NULL]
      BY <1>18 DEF PerformDone
    <2>2. held[t] = curl[Slot(t)] /\ curl[Slot(t)] \in Handles
      BY <1>18 DEF PerformDone, TypeOK
    <2>3. CASE Goto(t, "performing", "error")
      BY <2>1, <2>3 DEF TypeOK
    <2>4. CASE /\ Goto(t, "performing", "getinfo")
               /\ conn' = [conn EXCEPT ![held[t]].up = TRUE]
      <3>1. conn[curl[Slot(t)]] \in Conns
        BY <2>2 DEF TypeOK
      <3>2. conn'[curl[Slot(t)]].up
        BY <2>2, <2>4, <3>1 DEF TypeOK, Conns
      <3>3. pc'[t] = "getinfo"
        BY <2>4 DEF TypeOK
      <3> QED BY <2>1, <2>2, <3>2, <3>3
    <2> QED BY <1>18, <2>3, <2>4 DEF PerformDone
  <1>19. CASE FreedHandle(t)
    BY <1>19 DEF FreedHandle, Crash, TypeOK, HandleInv
  <1>20. CASE GetInfo(t)
    <2>1. UNCHANGED <<live, curl, conn, held>> /\ pc[t] = "getinfo"
      BY <1>20 DEF GetInfo
    <2>2. CASE /\ Goto(t, "getinfo", "wait_tx")
               /\ sockfd' = [sockfd EXCEPT ![Slot(t)] = LastSocket(curl[Slot(t)])]
      <3>1. LastSocket(curl[Slot(t)]) = curl[Slot(t)]
        BY <2>1 DEF LastSocket
      <3>2. sockfd' = [sockfd EXCEPT ![Slot(t)] = curl[Slot(t)]]
        BY <2>2, <3>1, Zenon
      <3>3. pc'[t] = "wait_tx"
        BY <2>2 DEF TypeOK
      <3>4. sockfd'[Slot(t)] = curl[Slot(t)]
        BY <3>2 DEF TypeOK
      <3> QED BY <2>1, <3>3, <3>4
    <2>3. CASE Goto(t, "getinfo", "error")
      BY <2>1, <2>3 DEF TypeOK
    <2> QED BY <1>20, <2>2, <2>3 DEF GetInfo
  <1>21. CASE WaitTx(t)
    BY <1>21 DEF WaitTx, TypeOK, HandleInv
  <1>22. CASE SendAll(t)
    BY <1>22 DEF SendAll, TypeOK, HandleInv
  <1>23. CASE SendShort(t)
    BY <1>23 DEF SendShort, TypeOK, HandleInv
  <1>24. CASE SendFail(t)
    BY <1>24 DEF SendFail, TypeOK, HandleInv
  <1>25. CASE GiveUp(t)
    BY <1>25 DEF GiveUp, TypeOK, HandleInv
  <1>26. CASE DecideRetry(t)
    BY <1>26 DEF DecideRetry, TypeOK, HandleInv
  <1>27. CASE Retry(t)
    BY <1>27 DEF Retry, TypeOK, HandleInv
  <1>28. CASE SendError(t)
    BY <1>28 DEF SendError, Return, Cleanup, TypeOK, HandleInv
  <1>29. CASE RecvWait(t)
    BY <1>29 DEF RecvWait, TypeOK, HandleInv
  <1>30. CASE Recv(t)
    BY <1>30 DEF Recv, TypeOK, HandleInv
  <1>31. CASE RecvCleanup(t)
    BY <1>31 DEF RecvCleanup, Return, TypeOK
  <1>32. CASE CloseFree(t)
    BY <1>32 DEF CloseFree, TypeOK, HandleInv
  <1>33. CASE DoubleFree(t)
    BY <1>33 DEF DoubleFree, Crash, TypeOK, HandleInv
  <1>34. CASE CloseNull(t)
    BY <1>34 DEF CloseNull, Return, TypeOK, HandleInv
  <1> QED
    BY <1>1, <1>2, <1>3, <1>4, <1>5, <1>6, <1>7, <1>8, <1>9, <1>10, <1>11, <1>12, <1>13,
       <1>14, <1>15, <1>16, <1>17, <1>18, <1>19, <1>20, <1>21, <1>22, <1>23, <1>24,
       <1>25, <1>26, <1>27, <1>28, <1>29, <1>30, <1>31, <1>32, <1>33, <1>34
    DEF Begin, Progress, BuildRequest, SendRequest, ReceiveAndClose

(* A step of t leaves the handle and the socket of another thread alone. *)
LEMMA OtherSocket ==
  ASSUME PerThreadSlots, TypeOK, HandleInv, NEW t \in Threads, NEW u \in Threads, u # t,
         Begin(t) \/ Progress(t), ~ForgetSlot(t)
  PROVE  /\ pc'[u] = pc[u] /\ held'[u] = held[u]
         /\ curl'[Slot(u)] = curl[Slot(u)] /\ sockfd'[Slot(u)] = sockfd[Slot(u)]
         /\ curl[Slot(u)] # NULL => conn'[curl[Slot(u)]] = conn[curl[Slot(u)]]
  <1>0. /\ Slot(t) \in Slots /\ Slot(u) \in Slots /\ Slot(u) # Slot(t)
        /\ NULL \notin Handles
        /\ curl[Slot(u)] \in Handles \cup {NULL}
        /\ curl[Slot(u)] # NULL => curl[Slot(u)] \in live /\ curl[Slot(u)] # curl[Slot(t)]
    BY SlotOfType, NullType DEF Slot, PerThreadSlots, TypeOK, HandleInv
  <1>1. /\ pc'[u] = pc[u] /\ held'[u] = held[u]
        /\ curl'[Slot(u)] = curl[Slot(u)] /\ sockfd'[Slot(u)] = sockfd[Slot(u)]
    <2> USE <1>0 DEF TypeOK, Goto, Step, Return, Crash, Cleanup, shared, strings, buffers,
                     slots, libcurl, locals, setup, frame
    <2>1. CASE Begin(t)
      BY <2>1 DEF Begin, InitClear, Call
    <2>2. CASE Initialize(t)
      BY <2>2, InitializeStep
    <2>3. CASE BuildRequest(t)
      BY <2>3 DEF BuildRequest, CreateTimestamp, CheckCredentials, OutOfMemory, FillSignature,
                  Digest, CreateParameters, CreateRequest, BadString, UncheckedAllocation, BadWrite
    <2>4. CASE SendRequest(t)
      BY <2>4 DEF SendRequest, CurlDrop, CurlNew, CurlInitFails, Perform, PerformDone,
                  FreedHandle, GetInfo, WaitTx, SendAll, SendShort, SendFail, GiveUp,
                  DecideRetry, Retry, SendError
    <2>5. CASE ReceiveAndClose(t)
      BY <2>5 DEF ReceiveAndClose, RecvWait, Recv, RecvCleanup, CloseFree, DoubleFree, CloseNull
    <2> QED BY <2>1, <2>2, <2>3, <2>4, <2>5 DEF Progress
  <1>2. ASSUME curl[Slot(u)] # NULL
        PROVE  conn'[curl[Slot(u)]] = conn[curl[Slot(u)]]
    <2> DEFINE h == curl[Slot(u)]
    <2>0. h \in Handles /\ h \in live /\ h # curl[Slot(t)]
      BY <1>0, <1>2
    <2>1. CASE UNCHANGED conn
      BY <2>1
    <2>2. CASE Cleanup(Slot(t))
      BY <2>0, <2>2 DEF Cleanup
    <2>3. CASE CurlNew(t)
      BY <2>0, <2>3 DEF CurlNew, TypeOK
    <2>4. CASE PerformDone(t)
      <3>1. held[t] # h
        BY <1>0, <1>2, NullType DEF HandleInv
      <3> QED BY <2>0, <2>4, <3>1 DEF PerformDone, TypeOK
    <2>5. CASE SendAll(t)
      BY <2>0, <2>5 DEF SendAll, TypeOK
    <2>6. CASE Recv(t)
      BY <2>0, <2>6 DEF Recv, TypeOK
    <2>7. CASE Initialize(t)
      BY <2>1, <2>7, InitializeStep DEF libcurl
    <2> QED
      BY <2>1, <2>2, <2>3, <2>4, <2>5, <2>6, <2>7
      DEF Begin, Progress, BuildRequest, SendRequest, ReceiveAndClose, Step, Crash, InitClear,
          Call, CreateTimestamp, CheckCredentials, OutOfMemory, FillSignature,
          Digest, CreateParameters, CreateRequest, BadString, UncheckedAllocation, BadWrite, CurlDrop,
          CurlInitFails, Perform, FreedHandle, GetInfo, WaitTx, SendShort, SendFail, GiveUp,
          DecideRetry, Retry, SendError, RecvWait, RecvCleanup, CloseFree, DoubleFree,
          CloseNull, shared, strings, buffers, slots, libcurl, locals, setup, frame
  <1> QED BY <1>1, <1>2

(* Cleaning one slot up leaves the handles in the others. *)
LEMMA CleanupOpen ==
  ASSUME TypeOK, HandleInv, OpenInv, NEW s \in Slots, Cleanup(s)
  PROVE  OpenInv'
  <1>1. \A r \in Slots : curl'[r] = IF r = s THEN NULL ELSE curl[r]
    BY DEF Cleanup, TypeOK
  <1>2. live' = live \ {curl[s]}
    BY DEF Cleanup
  <1>3. ASSUME NEW h \in live' PROVE \E r \in Slots : curl'[r] = h
    <2>1. PICK r \in Slots : curl[r] = h
      BY <1>2 DEF OpenInv
    <2>2. r # s
      BY <1>2, <2>1
    <2> QED BY <1>1, <2>1, <2>2
  <1>4. ASSUME NEW r \in Slots, curl'[r] # NULL PROVE \E u \in Threads : r = Slot(u)
    <2>1. curl[r] # NULL
      BY <1>1, <1>4
    <2> QED BY <2>1 DEF OpenInv
  <1> QED BY <1>3, <1>4 DEF OpenInv, Slot

(* OSN_GW_init forgets every handle, and there is none it could forget. *)
LEMMA ForgetSlotOpen ==
  ASSUME TypeOK, HandleInv, SocketInv, NEW t \in Threads, Initialize(t)
  PROVE  curl' = curl
  <1>0. pc[t] \in Initializing
    BY InitializeStep
  <1>1. ASSUME NEW u \in Threads PROVE curl[Slot(u)] = NULL
    <2>1. pc[u] \in Outside
      BY <1>0 DEF SocketInv, QuietInv, Outside
    <2> QED BY <2>1 DEF HandleInv
  <1>2. \A s \in Slots : curl[s] = NULL
    BY <1>1 DEF SocketInv, OpenInv
  <1> QED BY <1>2, InitializeStep DEF TypeOK

LEMMA StepOpen ==
  ASSUME TypeOK, HandleInv, SocketInv, NEW t \in Threads, Begin(t) \/ Progress(t)
  PROVE  OpenInv'
  <1>0. Slot(t) \in Slots /\ OpenInv
    BY SlotOfType DEF Slot, SocketInv
  <1>1. CASE UNCHANGED <<curl, live>>
    BY <1>0, <1>1 DEF OpenInv, Slot
  <1>2. CASE Cleanup(Slot(t))
    BY <1>0, <1>2, CleanupOpen
  <1>3. CASE Initialize(t)
    BY <1>1, <1>3, ForgetSlotOpen, InitializeStep DEF libcurl
  <1>4. CASE CurlNew(t)
    <2>1. PICK h \in Handles \ live :
            live' = live \cup {h} /\ curl' = [curl EXCEPT ![Slot(t)] = h]
      BY <1>4 DEF CurlNew
    <2>2. curl[Slot(t)] = NULL
      BY <1>4 DEF CurlNew, Goto, HandleInv, Preparing
    <2>3. \A s \in Slots : curl'[s] = IF s = Slot(t) THEN h ELSE curl[s]
      BY <1>0, <2>1 DEF TypeOK
    <2>4. ASSUME NEW g \in live' PROVE \E s \in Slots : curl'[s] = g
      <3>1. CASE g = h
        BY <1>0, <2>3, <3>1
      <3>2. CASE g # h
        <4>1. g \in live /\ g # NULL
          BY <2>1, <3>2, NullType DEF TypeOK
        <4>2. PICK s \in Slots : curl[s] = g
          BY <1>0, <4>1 DEF OpenInv
        <4> QED BY <2>2, <2>3, <4>1, <4>2
      <3> QED BY <3>1, <3>2
    <2>5. ASSUME NEW s \in Slots, curl'[s] # NULL PROVE \E u \in Threads : s = Slot(u)
      BY <1>0, <2>3, <2>5 DEF OpenInv
    <2> QED BY <2>4, <2>5 DEF OpenInv, Slot
  <1>5. CASE CurlInitFails(t)
    <2>1. curl[Slot(t)] = NULL
      BY <1>5 DEF CurlInitFails, Return, Goto, HandleInv, Preparing
    <2>2. live' = live /\ \A s \in Slots : curl'[s] = curl[s]
      BY <1>0, <1>5, <2>1 DEF CurlInitFails, libcurl, TypeOK
    <2> QED BY <1>0, <2>2 DEF OpenInv, Slot
  <1> QED
    BY <1>1, <1>2, <1>3, <1>4, <1>5
    DEF Begin, Progress, BuildRequest, SendRequest, ReceiveAndClose, Step, Crash, InitClear,
        Call, CreateTimestamp, CheckCredentials, OutOfMemory, FillSignature, Digest,
        CreateParameters, CreateRequest, BadString, UncheckedAllocation, BadWrite, CurlDrop, Perform,
        PerformDone, FreedHandle, GetInfo, WaitTx, SendAll, SendShort, SendFail, GiveUp,
        DecideRetry, Retry, SendError, RecvWait, Recv, RecvCleanup, CloseFree, DoubleFree,
        CloseNull, shared, strings, buffers, slots, libcurl, locals, setup, frame

(* A step moves the thread that takes it; where initialisations and calls  *)
(* are kept apart, neither begins while another thread initialises.        *)
LEMMA StepMoves ==
  ASSUME TypeOK, NEW t \in Threads, Begin(t) \/ Progress(t)
  PROVE  /\ \A u \in Threads : u # t => pc'[u] = pc[u]
         /\ pc'[t] \in Initializing => InitClear(t) \/ pc[t] \in Initializing
         /\ QuietInit /\ pc[t] = "idle" /\ pc'[t] # "idle" =>
              \A u \in Threads : pc[u] \notin Initializing
  <1>1. CASE InitClear(t)
    BY <1>1 DEF InitClear, Goto, TypeOK, Initializing
  <1>2. CASE Call(t)
    BY <1>2 DEF Call, Goto, TypeOK, Initializing
  <1>3. CASE Initialize(t)
    BY <1>3, InitializeStep DEF Initializing, TypeOK
  <1>4. CASE BuildRequest(t)
    BY <1>4
    DEF TypeOK, BuildRequest, Goto, Step, Return, Crash, CreateTimestamp, CheckCredentials,
        OutOfMemory, FillSignature, Digest, CreateParameters, CreateRequest, BadString,
        UncheckedAllocation, BadWrite, Initializing
  <1>5. CASE SendRequest(t)
    BY <1>5
    DEF TypeOK, SendRequest, Goto, Step, Return, Crash, CurlDrop, CurlNew, CurlInitFails,
        Perform, PerformDone, FreedHandle, GetInfo, WaitTx, SendAll, SendShort, SendFail,
        GiveUp, DecideRetry, Retry, SendError, Initializing
  <1>6. CASE ReceiveAndClose(t)
    BY <1>6
    DEF TypeOK, ReceiveAndClose, Goto, Step, Return, Crash, RecvWait, Recv, RecvCleanup,
        CloseFree, DoubleFree, CloseNull, Initializing
  <1> QED BY <1>1, <1>2, <1>3, <1>4, <1>5, <1>6 DEF Begin, Progress

LEMMA StepQuiet ==
  ASSUME Orderly, TypeOK, QuietInv, NEW t \in Threads, Begin(t) \/ Progress(t)
  PROVE  QuietInv'
  <1> SUFFICES ASSUME NEW v \in Threads, NEW u \in Threads, pc'[v] \in Initializing, u # v
               PROVE  pc'[u] = "idle"
    BY DEF QuietInv
  <1>0. QuietInit
    BY DEF Orderly, Single
  <1>1. CASE v = t
    <2>1. CASE InitClear(t)
      BY <1>0, <1>1, <2>1, StepMoves DEF InitClear
    <2>2. CASE pc[t] \in Initializing
      BY <1>1, <2>2, StepMoves DEF QuietInv
    <2> QED BY <1>1, <2>1, <2>2, StepMoves
  <1>2. CASE v # t
    <2>1. pc[v] \in Initializing
      BY <1>2, StepMoves
    <2>2. pc[t] = "idle" /\ pc[u] = "idle"
      BY <1>2, <2>1 DEF QuietInv
    <2> QED BY <1>0, <2>1, <2>2, StepMoves
  <1> QED BY <1>1, <1>2

LEMMA SocketPreserved ==
  ASSUME Orderly, TypeOK, HandleInv, SocketInv, NEW t \in Threads, Begin(t) \/ Progress(t)
  PROVE  SocketInv'
  <1>1. OpenInv'
    BY StepOpen
  <1>2. QuietInv'
    BY StepQuiet DEF SocketInv
  <1>3. ASSUME NEW u \in Threads PROVE SocketOf(u)'
    <2>0. SocketOf(u)
      BY DEF SocketInv
    <2>1. CASE u = t
      BY <2>0, <2>1, StepSocket
    <2>2. CASE u # t /\ ~ForgetSlot(t)
      <3>1. /\ pc'[u] = pc[u] /\ held'[u] = held[u]
            /\ curl'[Slot(u)] = curl[Slot(u)] /\ sockfd'[Slot(u)] = sockfd[Slot(u)]
            /\ curl[Slot(u)] # NULL => conn'[curl[Slot(u)]] = conn[curl[Slot(u)]]
        BY <2>2, OtherSocket DEF Orderly
      <3> QED BY <2>0, <3>1 DEF SocketOf, Connecting, Slot
    <2>3. CASE u # t /\ ForgetSlot(t)
      <3>1. pc[u] = "idle"
        BY <2>3 DEF ForgetSlot, Goto, SocketInv, QuietInv, Initializing
      <3>2. pc'[u] = pc[u]
        BY <2>3, StepMoves
      <3> QED BY <3>1, <3>2 DEF SocketOf, Connecting, Connected
    <2> QED BY <2>1, <2>2, <2>3
  <1> QED BY <1>1, <1>2, <1>3 DEF SocketInv

-----------------------------------------------------------------------------
(* Preservation: signatures.                                               *)

SignatureOf(t) ==
  /\ \A h \in Handles : Signed(conn[h].wire)
  /\ pc[t] = "digest" => sigIn = Content(t, {login[t]})
  /\ pc[t] = "params" => sigOut = Content(t, {login[t]})
  /\ pc[t] \in Addressed => params[t].sig = params[t].body

LEMMA SignedAppend ==
  ASSUME NEW wire \in Seq(Messages), NEW m \in Messages, Signed(wire), m.sig = m.body
  PROVE  Signed(Append(wire, m))
  BY DEF Signed

LEMMA SignedTail ==
  ASSUME NEW wire \in Seq(Messages), Signed(wire), wire # <<>>
  PROVE  Signed(Tail(wire))
  BY DEF Signed

LEMMA SignedCleanup ==
  ASSUME NEW s, Cleanup(s), \A h \in Handles : Signed(conn[h].wire)
  PROVE  \A h \in Handles : Signed(conn'[h].wire)
  BY DEF Cleanup, NewConn, Signed

(* A request on its way reads strings of the one account.                  *)
LEMMA ReadsLogin ==
  ASSUME StringInv, NEW t \in Threads, pc[t] \in Granted
  PROVE  ReadAs(Credentials) = {{login[t]}} /\ ReadAs(FormFields) = {{login[t]}}
  <1>1. \A f \in Credentials : ptr[f] = "live" /\ account[f] = login[t]
    BY DEF StringInv, StringsOf
  <1>2. ~Dangling(Credentials) /\ ~Dangling(FormFields)
    BY <1>1, FieldSets DEF Dangling
  <1>3. "user_name" \in FormFields /\ "user_name" \in Credentials
    BY DEF FormFields, Credentials
  <1>4. Owners(Credentials) = {login[t]} /\ Owners(FormFields) = {login[t]}
    BY <1>1, <1>3, FieldSets DEF Owners
  <1> QED BY <1>2, <1>4 DEF ReadAs

LEMMA StepSignature ==
  ASSUME TypeOK, StringInv, NEW t \in Threads, SignatureOf(t), Begin(t) \/ Progress(t)
  PROVE  SignatureOf(t)'
  <1> USE DEF SignatureOf, Addressed, Goto, Step, Content, shared,
              strings, buffers, slots, libcurl, locals, setup, frame
  <1>1. CASE InitClear(t)
    BY <1>1 DEF InitClear, TypeOK
  <1>2. CASE Initialize(t)
    BY <1>2, InitializeStep DEF TypeOK, Initializing
  <1>4. CASE Call(t)
    BY <1>4 DEF Call, TypeOK
  <1>5. CASE CreateTimestamp(t)
    BY <1>5 DEF CreateTimestamp, TypeOK
  <1>6. CASE CheckCredentials(t)
    BY <1>6 DEF CheckCredentials, Return, TypeOK
  <1>7. CASE OutOfMemory(t)
    BY <1>7 DEF OutOfMemory, Return, TypeOK
  <1>8. CASE FillSignature(t)
    <2>1. ReadAs(Credentials) = {{login[t]}}
      BY <1>8, ReadsLogin DEF FillSignature, Goto, Granted
    <2>2. sigIn' = Content(t, {login[t]}) /\ pc' = [pc EXCEPT ![t] = "digest"]
      BY <1>8, <2>1 DEF FillSignature
    <2>3. UNCHANGED <<login, stamp, sigOut, req, params, conn>>
      BY <1>8 DEF FillSignature
    <2> QED BY <2>2, <2>3 DEF TypeOK
  <1>9. CASE Digest(t)
    <2>1. sigIn = Content(t, {login[t]}) /\ sigOut' = sigIn /\ pc' = [pc EXCEPT ![t] = "params"]
      BY <1>9 DEF Digest, NewSignature
    <2>2. UNCHANGED <<login, stamp, sigIn, req, params, conn>>
      BY <1>9 DEF Digest
    <2> QED BY <2>1, <2>2 DEF TypeOK
  <1>10. CASE CreateParameters(t)
    <2>1. ReadAs(FormFields) = {{login[t]}}
      BY <1>10, ReadsLogin DEF CreateParameters, Goto, Granted
    <2>2. params' = [params EXCEPT ![t] = [body |-> Content(t, {login[t]}), sig |-> sigOut]]
      BY <1>10, <2>1 DEF CreateParameters
    <2>3. sigOut = Content(t, {login[t]}) /\ pc' = [pc EXCEPT ![t] = "request"] /\ conn' = conn
      BY <1>10 DEF CreateParameters
    <2>4. params'[t].sig = params'[t].body
      BY <2>2, <2>3 DEF TypeOK
    <2> QED BY <2>3, <2>4 DEF TypeOK
  <1>11. CASE CreateRequest(t)
    BY <1>11 DEF CreateRequest, TypeOK
  <1>12. CASE BadString(t)
    BY <1>12 DEF BadString, Crash, TypeOK
  <1>3. CASE BadWrite(t)
    BY <1>3 DEF BadWrite, Crash, TypeOK
  <1>13. CASE UncheckedAllocation(t)
    BY <1>13 DEF UncheckedAllocation, Crash, TypeOK
  <1>14. CASE CurlDrop(t)
    <2>1. UNCHANGED params /\ pc' = [pc EXCEPT ![t] = "curl_new"] /\ pc[t] = "curl_drop"
      BY <1>14 DEF CurlDrop
    <2>2. \A h \in Handles : Signed(conn'[h].wire)
      BY <1>14, SignedCleanup DEF CurlDrop
    <2> QED BY <2>1, <2>2 DEF TypeOK
  <1>15. CASE CurlNew(t)
    <2>1. UNCHANGED params /\ pc' = [pc EXCEPT ![t] = "perform"] /\ pc[t] = "curl_new"
      BY <1>15 DEF CurlNew
    <2>2. PICK h \in Handles, url \in ReadUrl : conn' = [conn EXCEPT ![h] = NewConn(url)]
      BY <1>15 DEF CurlNew
    <2>3. \A g \in Handles : conn'[g] = IF g = h THEN NewConn(url) ELSE conn[g]
      BY <2>2 DEF TypeOK
    <2>4. \A g \in Handles : Signed(conn'[g].wire)
      BY <2>3 DEF NewConn, Signed
    <2> QED BY <2>1, <2>4 DEF TypeOK
  <1>16. CASE CurlInitFails(t)
    BY <1>16 DEF CurlInitFails, Return, TypeOK
  <1>17. CASE Perform(t)
    BY <1>17 DEF Perform, TypeOK
  <1>18. CASE PerformDone(t)
    <2>1. UNCHANGED params /\ pc[t] = "performing"
      BY <1>18 DEF PerformDone
    <2>2. pc'[t] \in {"getinfo", "error"}
      BY <1>18 DEF PerformDone, TypeOK
    <2>3. \A h \in Handles : conn'[h].wire = conn[h].wire
      <3> SUFFICES ASSUME NEW h \in Handles PROVE conn'[h].wire = conn[h].wire
        OBVIOUS
      <3>1. CASE UNCHANGED conn
        BY <3>1
      <3>2. CASE conn' = [conn EXCEPT ![held[t]].up = TRUE]
        <4>1. conn[h] \in Conns
          BY DEF TypeOK
        <4> QED BY <3>2, <4>1 DEF TypeOK, Conns
      <3> QED BY <1>18, <3>1, <3>2 DEF PerformDone
    <2> QED BY <2>1, <2>2, <2>3
  <1>19. CASE FreedHandle(t)
    BY <1>19 DEF FreedHandle, Crash, TypeOK
  <1>20. CASE GetInfo(t)
    BY <1>20 DEF GetInfo, TypeOK
  <1>21. CASE WaitTx(t)
    BY <1>21 DEF WaitTx, TypeOK
  <1>22. CASE SendAll(t)
    <2> DEFINE h == curl[Slot(t)]
    <2>1. h \in Handles /\ pc[t] = "send" /\ pc'[t] = "recv_wait"
      BY <1>22, SlotOfType DEF SendAll, TypeOK, Slot
    <2>0. conn' = [conn EXCEPT ![h].wire = Append(@, params[t])]
      BY <1>22 DEF SendAll
    <2>2. params[t] \in Messages /\ params[t].sig = params[t].body
      BY <2>1 DEF TypeOK
    <2> HIDE DEF h
    <2>3. ASSUME NEW g \in Handles PROVE Signed(conn'[g].wire)
      <3>1. conn[g] \in Conns /\ conn[g].wire \in Seq(Messages) /\ Signed(conn[g].wire)
        BY DEF TypeOK, Conns
      <3>2. CASE g = h
        <4>1. conn'[g].wire = Append(conn[g].wire, params[t])
          BY <2>0, <2>1, <3>1, <3>2 DEF TypeOK, Conns
        <4>2. Signed(Append(conn[g].wire, params[t]))
          BY <2>2, <3>1, SignedAppend
        <4> QED BY <4>1, <4>2
      <3>3. CASE g # h
        BY <2>0, <3>1, <3>3 DEF TypeOK
      <3> QED BY <3>2, <3>3
    <2> QED BY <2>1, <2>3
  <1>23. CASE SendShort(t)
    BY <1>23 DEF SendShort, TypeOK
  <1>24. CASE SendFail(t)
    BY <1>24 DEF SendFail, TypeOK
  <1>25. CASE GiveUp(t)
    BY <1>25 DEF GiveUp, TypeOK
  <1>26. CASE DecideRetry(t)
    BY <1>26 DEF DecideRetry, TypeOK
  <1>27. CASE Retry(t)
    BY <1>27 DEF Retry, TypeOK
  <1>28. CASE SendError(t)
    <2>1. pc'[t] = "idle"
      BY <1>28 DEF SendError, Return, TypeOK
    <2>2. \A h \in Handles : Signed(conn'[h].wire)
      BY <1>28, SignedCleanup DEF SendError
    <2> QED BY <2>1, <2>2
  <1>29. CASE RecvWait(t)
    BY <1>29 DEF RecvWait, TypeOK
  <1>30. CASE Recv(t)
    <2>1. pc'[t] = "recv_cleanup"
      BY <1>30 DEF Recv, TypeOK
    <2>2. ASSUME NEW g \in Handles PROVE Signed(conn'[g].wire)
      <3>1. conn[g] \in Conns /\ conn[g].wire \in Seq(Messages) /\ Signed(conn[g].wire)
        BY DEF TypeOK, Conns
      <3>2. CASE UNCHANGED conn
        BY <3>1, <3>2
      <3>3. CASE /\ curl[Slot(t)] # NULL /\ conn[curl[Slot(t)]].wire # <<>>
                 /\ conn' = [conn EXCEPT ![curl[Slot(t)]].wire = Tail(@)]
        <4>1. CASE g = curl[Slot(t)]
          <5>1. conn'[g].wire = Tail(conn[g].wire)
            BY <3>1, <3>3, <4>1 DEF TypeOK, Conns
          <5>2. Signed(Tail(conn[g].wire))
            BY <3>1, <3>3, <4>1, SignedTail
          <5> QED BY <5>1, <5>2
        <4>2. CASE g # curl[Slot(t)]
          BY <3>1, <3>3, <4>2 DEF TypeOK
        <4> QED BY <4>1, <4>2
      <3> QED BY <1>30, <3>2, <3>3 DEF Recv
    <2> QED BY <2>1, <2>2
  <1>31. CASE RecvCleanup(t)
    <2>1. pc'[t] \in {"close_free", "idle"}
      BY <1>31 DEF RecvCleanup, Return, TypeOK
    <2>2. \A h \in Handles : Signed(conn'[h].wire)
      BY <1>31, SignedCleanup DEF RecvCleanup
    <2> QED BY <2>1, <2>2
  <1>32. CASE CloseFree(t)
    BY <1>32 DEF CloseFree, TypeOK
  <1>33. CASE DoubleFree(t)
    BY <1>33 DEF DoubleFree, Crash, TypeOK
  <1>34. CASE CloseNull(t)
    BY <1>34 DEF CloseNull, Return, TypeOK
  <1> QED
    BY <1>1, <1>2, <1>3, <1>4, <1>5, <1>6, <1>7, <1>8, <1>9, <1>10, <1>11, <1>12, <1>13,
       <1>14, <1>15, <1>16, <1>17, <1>18, <1>19, <1>20, <1>21, <1>22, <1>23, <1>24,
       <1>25, <1>26, <1>27, <1>28, <1>29, <1>30, <1>31, <1>32, <1>33, <1>34
    DEF Begin, Progress, BuildRequest, SendRequest, ReceiveAndClose

-----------------------------------------------------------------------------
(* The invariant, and what follows from it.                                *)

LEMMA SignaturePreserved ==
  ASSUME Single, TypeOK, StringInv, SignatureInv, NEW t \in Threads, Begin(t) \/ Progress(t)
  PROVE  SignatureInv'
  <1>1. \A u \in Threads : u = t
    BY DEF Single
  <1>2. SignatureOf(t)
    BY <1>1 DEF SignatureInv, SignatureOf
  <1>3. SignatureOf(t)'
    BY <1>2, StepSignature
  <1> QED BY <1>1, <1>3 DEF SignatureInv, SignatureOf

LEMMA InitSessionInv == Init => SessionInv
  <1> SUFFICES ASSUME Init PROVE SessionInv
    OBVIOUS
  <1>1. StringInv
    BY InitStrings
  <1>3. SignatureInv
    BY DEF Init, SignatureInv, NewConn, Signed, Addressed
  <1>4. NoUseAfterFree
    BY DEF Init, NoUseAfterFree
  <1> QED BY <1>1, <1>3, <1>4 DEF SessionInv

LEMMA NextSessionInv ==
  ASSUME Single, TypeOK, HandleInv, SessionInv, [Next]_vars
  PROVE  SessionInv'
  <1>1. CASE UNCHANGED vars
    BY <1>1 DEF SessionInv, StringInv, StringsOf, Stored, Released, SignatureInv, NoUseAfterFree, Content,
                vars, shared, strings, buffers, slots, libcurl, locals, setup, frame
  <1>2. ASSUME NEW t \in Threads, Begin(t) \/ Progress(t) PROVE SessionInv'
    BY <1>2, StringsPreserved, FatePreserved, SignaturePreserved DEF SessionInv
  <1> QED BY <1>1, <1>2 DEF Next, Stopped

(* With one thread, the strings and the signature of the agent agree at    *)
(* every step.                                                             *)
THEOREM SessionCorrect == Single => (Spec => []SessionInv)
  <1> SUFFICES ASSUME Single PROVE Spec => []SessionInv
    OBVIOUS
  <1>1. Spec => [](TypeOK /\ OwnershipInv)
    <2>1. PerThreadSlots
      BY DEF Single, PerThreadSlots
    <2>2. Spec => []OwnershipInv
      BY <2>1, OwnershipCorrect
    <2> QED BY <2>2, TypeCorrect, PTL
  <1>2. Init => SessionInv
    BY InitSessionInv
  <1>3. TypeOK /\ OwnershipInv /\ SessionInv /\ [Next]_vars => SessionInv'
    BY NextSessionInv DEF OwnershipInv
  <1> QED BY <1>1, <1>2, <1>3, PTL DEF Spec

LEMMA SessionAlways == Single => (Spec => [](TypeOK /\ OwnershipInv /\ SessionInv))
  <1> SUFFICES ASSUME Single PROVE Spec => [](TypeOK /\ OwnershipInv /\ SessionInv)
    OBVIOUS
  <1>1. PerThreadSlots
    BY DEF Single, PerThreadSlots
  <1>2. Spec => []OwnershipInv
    BY <1>1, OwnershipCorrect
  <1>3. Spec => []SessionInv
    BY SessionCorrect
  <1> QED BY <1>2, <1>3, TypeCorrect, PTL

(* One thread never makes the agent read, free or hand to libcurl what was *)
(* freed: after OSN_GW_close a request is refused.                         *)
THEOREM NothingFreedIsUsed == Single => (Spec => []NoUseAfterFree)
  <1> SUFFICES ASSUME Single PROVE Spec => []NoUseAfterFree
    OBVIOUS
  <1>1. SessionInv => NoUseAfterFree
    BY DEF SessionInv
  <1>2. Spec => []SessionInv
    BY SessionCorrect
  <1> QED BY <1>1, <1>2, PTL

(* Threads with a slot each, whose requests and initialisations do not     *)
(* overlap: the open handles are in their slots, each with its own socket. *)
(* (A request that begins while the loop of OSN_GW_init over the slots     *)
(* runs can lose its handle there.)                                        *)
THEOREM SocketsCorrect == Orderly => (Spec => [](OwnershipInv /\ SocketInv))
  <1> SUFFICES ASSUME Orderly PROVE Spec => [](OwnershipInv /\ SocketInv)
    OBVIOUS
  <1>1. Spec => []OwnershipInv
    BY OwnershipCorrect DEF Orderly
  <1>2. Init => SocketInv
    BY DEF Init, SocketInv, OpenInv, QuietInv, SocketOf, Connecting, Connected
  <1>3. TypeOK /\ OwnershipInv /\ SocketInv /\ [Next]_vars => SocketInv'
    <2> SUFFICES ASSUME TypeOK, OwnershipInv, SocketInv, [Next]_vars PROVE SocketInv'
      OBVIOUS
    <2>1. CASE UNCHANGED vars
      BY <2>1 DEF SocketInv, OpenInv, QuietInv, SocketOf, Slot, vars, shared, strings, slots,
                  libcurl, locals
    <2>2. ASSUME NEW t \in Threads, Begin(t) \/ Progress(t) PROVE SocketInv'
      BY <2>2, SocketPreserved DEF OwnershipInv
    <2> QED BY <2>1, <2>2 DEF Next, Stopped
  <1> QED BY <1>1, <1>2, <1>3, TypeCorrect, PTL DEF Spec

(* Such threads leave no handle open when a call returns, whatever failed. *)
THEOREM HandlesAreReleased == Orderly => (Spec => []NoHandleLeak)
  <1> SUFFICES ASSUME Orderly PROVE Spec => []NoHandleLeak
    OBVIOUS
  <1>1. TypeOK /\ OwnershipInv /\ SocketInv => NoHandleLeak
    <2> SUFFICES ASSUME TypeOK, HandleInv, OpenInv PROVE NoHandleLeak
      BY DEF OwnershipInv, SocketInv
    <2>1. live = {curl[s] : s \in Slots} \ {NULL}
      BY NullType DEF TypeOK, HandleInv, OpenInv
    <2> QED BY <2>1 DEF HandleInv, Outside, NoHandleLeak
  <1>2. Spec => [](OwnershipInv /\ SocketInv)
    BY SocketsCorrect
  <1> QED BY <1>1, <1>2, TypeCorrect, PTL

(* Such threads wait for the socket of their own connection, which is open. *)
THEOREM OwnSocketAwaited == Orderly => (Spec => []WaitsOnOwnSocket)
  <1> SUFFICES ASSUME Orderly PROVE Spec => []WaitsOnOwnSocket
    OBVIOUS
  <1>1. OwnershipInv /\ SocketInv => WaitsOnOwnSocket
    BY SlotOfType
    DEF OwnershipInv, HandleInv, SocketInv, SocketOf, WaitsOnOwnSocket, Connected, Slot
  <1>2. Spec => [](OwnershipInv /\ SocketInv)
    BY SocketsCorrect
  <1> QED BY <1>1, <1>2, PTL

(* What one thread sends is signed as it stands.                           *)
THEOREM ContentIsSigned == Single => (Spec => []SignedContent)
  <1> SUFFICES ASSUME Single PROVE Spec => []SignedContent
    OBVIOUS
  <1>1. TypeOK /\ OwnershipInv /\ SessionInv => SignedContent
    BY DEF TypeOK, SessionInv, SignatureInv, Signed, SignedContent
  <1>2. Spec => [](TypeOK /\ OwnershipInv /\ SessionInv)
    BY SessionAlways
  <1> QED BY <1>1, <1>2, PTL

-----------------------------------------------------------------------------
(* The refinement: what a step of the thread is to the session.            *)

Open == ptr["user_name"] = "live"

Outcome(t) ==
  IF Closing(t) THEN "ok" ELSE IF pc[t] \in Outside THEN result[t] ELSE "busy"

Stays(t) == (Open' <=> Open) /\ Outcome(t)' = Outcome(t) /\ crashed' = crashed

Initializes(t) == Outcome(t) # "busy" /\ Outcome(t)' = Outcome(t) /\ crashed' = crashed

Begins(t) ==
  Outcome(t) # "busy" /\ Outcome(t)' = "busy" /\ (Open' <=> Open) /\ crashed' = crashed

Succeeds(t) ==
  Outcome(t) = "busy" /\ Outcome(t)' = "ok" /\ Open /\ ~Open' /\ crashed' = crashed

Fails(t) ==
  Outcome(t) = "busy" /\ Outcome(t)' = "fail" /\ (Open' <=> Open) /\ crashed' = crashed

Dies(t) == crashed' # "no" /\ (Open' <=> Open) /\ Outcome(t)' = Outcome(t)

SessionStep(t) ==
  Stays(t) \/ Initializes(t) \/ Begins(t) \/ Succeeds(t) \/ Fails(t) \/ Dies(t)

(* Only the string that OSN_GW_close frees second is seen by the session.  *)
LEMMA UserNameReleased ==
  ASSUME TypeOK, StringInv, NEW t \in Threads, pc[t] \in Releasing
  PROVE  /\ nextField[t] \in 1..4
         /\ nextField[t] = 1 => ptr["user_name"] = "live"
         /\ nextField[t] = 2 /\ pc[t] = "close_free" => ptr["user_name"] = "live"
         /\ nextField[t] = 2 /\ pc[t] = "close_null" => ptr["user_name"] # "live"
         /\ nextField[t] > 2 => ptr["user_name"] = "null"
  <1>1. nextField[t] \in 1..4
    BY CloseOrderIs, StoreOrderIs DEF TypeOK
  <1>2. ptr["user_name"] \in Released(t, 2)
    BY CloseOrderIs DEF StringInv, StringsOf
  <1> QED BY <1>1, <1>2 DEF Released, Releasing

LEMMA StepSession ==
  ASSUME TypeOK, StringInv, NEW t \in Threads, crashed = "no", Begin(t) \/ Progress(t)
  PROVE  SessionStep(t)
  <1> USE DEF Open, Outcome, Closing, Outside, Initializing, Goto, Step, shared, strings, buffers, slots,
              libcurl, locals, setup, frame
  <1>1. CASE InitClear(t)
    <2>1. Initializes(t)
      BY <1>1 DEF InitClear, TypeOK, Initializes, Fields, Credentials, Fates
    <2> QED BY <2>1 DEF SessionStep
  <1>2. CASE Initialize(t)
    <2>1. Initializes(t)
      BY <1>2, InitializeStep DEF Initializes, Initializing, TypeOK
    <2> QED BY <2>1 DEF SessionStep
  <1>3. CASE BadWrite(t)
    <2>1. Dies(t)
      BY <1>3 DEF BadWrite, Crash, Dies
    <2> QED BY <2>1 DEF SessionStep
  <1>4. CASE Call(t)
    <2>1. Begins(t)
      BY <1>4 DEF Call, TypeOK, Begins
    <2> QED BY <2>1 DEF SessionStep
  <1>5. CASE CreateTimestamp(t)
    <2>1. Stays(t)
      BY <1>5 DEF CreateTimestamp, TypeOK, Stays
    <2> QED BY <2>1 DEF SessionStep
  <1>6. CASE CheckCredentials(t)
    <2>1. CASE Goto(t, "check_creds", "sign") /\ UNCHANGED frame
      <3>1. Stays(t)
        BY <1>6, <2>1 DEF CheckCredentials, TypeOK, Stays
      <3> QED BY <3>1 DEF SessionStep
    <2>2. CASE Return(t, "check_creds", "fail")
      <3>1. Fails(t)
        BY <1>6, <2>2 DEF CheckCredentials, Return, TypeOK, Fails
      <3> QED BY <3>1 DEF SessionStep
    <2> QED BY <1>6, <2>1, <2>2 DEF CheckCredentials
  <1>7. CASE OutOfMemory(t)
    <2>1. Fails(t)
      BY <1>7 DEF OutOfMemory, Return, TypeOK, Fails
    <2> QED BY <2>1 DEF SessionStep
  <1>8. CASE FillSignature(t)
    <2>1. Stays(t)
      BY <1>8 DEF FillSignature, TypeOK, Stays
    <2> QED BY <2>1 DEF SessionStep
  <1>9. CASE Digest(t)
    <2>1. Stays(t)
      BY <1>9 DEF Digest, TypeOK, Stays
    <2> QED BY <2>1 DEF SessionStep
  <1>10. CASE CreateParameters(t)
    <2>1. Stays(t)
      BY <1>10 DEF CreateParameters, TypeOK, Stays
    <2> QED BY <2>1 DEF SessionStep
  <1>11. CASE CreateRequest(t)
    <2>1. Stays(t)
      BY <1>11 DEF CreateRequest, TypeOK, Stays
    <2> QED BY <2>1 DEF SessionStep
  <1>12. CASE BadString(t)
    <2>1. Dies(t)
      BY <1>12 DEF BadString, Crash, TypeOK, Dies
    <2> QED BY <2>1 DEF SessionStep
  <1>13. CASE UncheckedAllocation(t)
    <2>1. Dies(t)
      BY <1>13 DEF UncheckedAllocation, Crash, TypeOK, Dies
    <2> QED BY <2>1 DEF SessionStep
  <1>14. CASE CurlDrop(t)
    <2>1. Stays(t)
      BY <1>14 DEF CurlDrop, Cleanup, TypeOK, Stays
    <2> QED BY <2>1 DEF SessionStep
  <1>15. CASE CurlNew(t)
    <2>1. Stays(t)
      BY <1>15 DEF CurlNew, TypeOK, Stays
    <2> QED BY <2>1 DEF SessionStep
  <1>16. CASE CurlInitFails(t)
    <2>1. Fails(t)
      BY <1>16 DEF CurlInitFails, Return, TypeOK, Fails
    <2> QED BY <2>1 DEF SessionStep
  <1>17. CASE Perform(t)
    <2>1. Stays(t)
      BY <1>17 DEF Perform, TypeOK, Stays
    <2> QED BY <2>1 DEF SessionStep
  <1>18. CASE PerformDone(t)
    <2>1. Stays(t)
      BY <1>18 DEF PerformDone, TypeOK, Stays
    <2> QED BY <2>1 DEF SessionStep
  <1>19. CASE FreedHandle(t)
    <2>1. Dies(t)
      BY <1>19 DEF FreedHandle, Crash, TypeOK, Dies
    <2> QED BY <2>1 DEF SessionStep
  <1>20. CASE GetInfo(t)
    <2>1. Stays(t)
      BY <1>20 DEF GetInfo, TypeOK, Stays
    <2> QED BY <2>1 DEF SessionStep
  <1>21. CASE WaitTx(t)
    <2>1. Stays(t)
      BY <1>21 DEF WaitTx, TypeOK, Stays
    <2> QED BY <2>1 DEF SessionStep
  <1>22. CASE SendAll(t)
    <2>1. Stays(t)
      BY <1>22 DEF SendAll, TypeOK, Stays
    <2> QED BY <2>1 DEF SessionStep
  <1>23. CASE SendShort(t)
    <2>1. Stays(t)
      BY <1>23 DEF SendShort, TypeOK, Stays
    <2> QED BY <2>1 DEF SessionStep
  <1>24. CASE SendFail(t)
    <2>1. Stays(t)
      BY <1>24 DEF SendFail, TypeOK, Stays
    <2> QED BY <2>1 DEF SessionStep
  <1>25. CASE GiveUp(t)
    <2>1. Stays(t)
      BY <1>25 DEF GiveUp, TypeOK, Stays
    <2> QED BY <2>1 DEF SessionStep
  <1>26. CASE DecideRetry(t)
    <2>1. Stays(t)
      BY <1>26 DEF DecideRetry, TypeOK, Stays
    <2> QED BY <2>1 DEF SessionStep
  <1>27. CASE Retry(t)
    <2>1. Stays(t)
      BY <1>27 DEF Retry, TypeOK, Stays
    <2> QED BY <2>1 DEF SessionStep
  <1>28. CASE SendError(t)
    <2>1. Fails(t)
      BY <1>28 DEF SendError, Return, Cleanup, TypeOK, Fails
    <2> QED BY <2>1 DEF SessionStep
  <1>29. CASE RecvWait(t)
    <2>1. Stays(t)
      BY <1>29 DEF RecvWait, TypeOK, Stays
    <2> QED BY <2>1 DEF SessionStep
  <1>30. CASE Recv(t)
    <2>1. Stays(t)
      BY <1>30 DEF Recv, TypeOK, Stays
    <2> QED BY <2>1 DEF SessionStep
  <1>31. CASE RecvCleanup(t)
    <2>1. ptr["user_name"] = "live"
      BY <1>31 DEF RecvCleanup, Return, StringInv, StringsOf, Granted, Credentials
    <2>2. CASE reply[t] # NoReq
      <3>1. Stays(t)
        BY <1>31, <2>1, <2>2 DEF RecvCleanup, TypeOK, Stays
      <3> QED BY <3>1 DEF SessionStep
    <2>3. CASE reply[t] = NoReq
      <3>1. Fails(t)
        BY <1>31, <2>3 DEF RecvCleanup, Return, TypeOK, Fails
      <3> QED BY <3>1 DEF SessionStep
    <2> QED BY <2>2, <2>3
  <1>32. CASE CloseFree(t)
    <2>1. pc[t] \in Releasing /\ pc[t] = "close_free" /\ pc'[t] = "close_null"
      BY <1>32 DEF CloseFree, TypeOK, Releasing
    <2>2. CASE nextField[t] = 2
      <3>1. ptr["user_name"] = "live" /\ ptr'["user_name"] = "freed" /\ crashed' = crashed
        BY <1>32, <2>1, <2>2, UserNameReleased, CloseOrderIs DEF CloseFree, TypeOK, Fields
      <3>2. Succeeds(t)
        BY <2>1, <3>1 DEF Succeeds
      <3> QED BY <3>2 DEF SessionStep
    <2>3. CASE nextField[t] # 2
      <3>1. CloseOrder[nextField[t]] # "user_name"
        BY <2>1, <2>3, UserNameReleased, CloseOrderIs, FourStrings
      <3>2. ptr'["user_name"] = ptr["user_name"] /\ crashed' = crashed
        BY <1>32, <3>1 DEF CloseFree, TypeOK, Fields
      <3>3. Stays(t)
        BY <2>1, <3>2 DEF Stays
      <3> QED BY <3>3 DEF SessionStep
    <2> QED BY <2>2, <2>3
  <1>33. CASE DoubleFree(t)
    <2>1. Dies(t)
      BY <1>33 DEF DoubleFree, Crash, TypeOK, Dies
    <2> QED BY <2>1 DEF SessionStep
  <1>34. CASE CloseNull(t)
    <2>1. pc[t] \in Releasing /\ pc[t] = "close_null" /\ nextField[t] \in 1..4
      BY <1>34, UserNameReleased DEF CloseNull, Return, Releasing
    <2>2. ptr'["user_name"] = IF nextField[t] = 2 THEN "null" ELSE ptr["user_name"]
      BY <1>34, <2>1, CloseOrderIs, FourStrings DEF CloseNull, TypeOK, Fields
    <2>3. (Open' <=> Open) /\ crashed' = crashed
      BY <1>34, <2>1, <2>2, UserNameReleased DEF CloseNull
    <2>4. CASE pc'[t] = "close_free" /\ UNCHANGED result
      <3>1. Stays(t)
        BY <2>1, <2>3, <2>4 DEF Stays
      <3> QED BY <3>1 DEF SessionStep
    <2>5. CASE LastField(t) /\ Return(t, "close_null", "ok")
      <3>1. nextField[t] = 4 /\ pc'[t] = "idle" /\ result'[t] = "ok"
        BY <2>5, CloseOrderIs DEF LastField, Return, TypeOK
      <3>2. Stays(t)
        BY <2>1, <2>3, <3>1, UserNameReleased DEF Stays
      <3> QED BY <3>2 DEF SessionStep
    <2> QED BY <1>34, <2>4, <2>5 DEF CloseNull, TypeOK
  <1> QED
    BY <1>1, <1>2, <1>3, <1>4, <1>5, <1>6, <1>7, <1>8, <1>9, <1>10, <1>11, <1>12, <1>13,
       <1>14, <1>15, <1>16, <1>17, <1>18, <1>19, <1>20, <1>21, <1>22, <1>23, <1>24,
       <1>25, <1>26, <1>27, <1>28, <1>29, <1>30, <1>31, <1>32, <1>33, <1>34
    DEF Begin, Progress, BuildRequest, SendRequest, ReceiveAndClose

(* The outcomes of the calls, as the session sees them. *)
Calls == [t \in Threads |-> Outcome(t)]

LEMMA OneOutcome ==
  ASSUME Single, NEW t \in Threads
  PROVE  /\ Outcome(t)' = Outcome(t) => Calls' = Calls
         /\ Calls[t] = Outcome(t)
         /\ Calls' = [Calls EXCEPT ![t] = Outcome(t)']
  <1>1. \A u \in Threads : u = t
    BY DEF Single
  <1> QED BY <1>1 DEF Calls

LEMMA SessionVars ==
  /\ Session!Init <=> (~Open /\ Calls = [t \in Threads |-> "none"] /\ crashed = "no")
  /\ Session!vars = <<Open, Calls, crashed # "no">>
  BY DEF Session!Init, Session!vars, Calls, Outcome, Open, Outside

(* A step of the one thread is a step of the session, or none.             *)
LEMMA SessionNext ==
  ASSUME Single, NEW t \in Threads, crashed = "no", SessionStep(t)
  PROVE  [Session!Next]_(Session!vars)
  <1>1. CASE Stays(t)
    <2>1. Calls' = Calls /\ (Open' <=> Open) /\ crashed' = crashed
      BY <1>1, OneOutcome DEF Stays
    <2> QED BY <2>1 DEF Session!vars, Calls, Outcome, Open, Outside
  <1>2. CASE Initializes(t)
    <2>1. Calls' = Calls /\ crashed' = crashed
      BY <1>2, OneOutcome DEF Initializes
    <2>2. \A u \in Threads : Calls[u] # "busy"
      BY <1>2, OneOutcome DEF Initializes, Single
    <2>3. Session!Initialize
      BY <2>1, <2>2 DEF Session!Initialize, Calls, Outcome, Open, Outside
    <2> QED BY <2>3 DEF Session!Next
  <1>3. CASE Begins(t)
    <2>1. Calls[t] # "busy" /\ Calls' = [Calls EXCEPT ![t] = "busy"] /\ (Open' <=> Open)
          /\ crashed' = crashed
      BY <1>3, OneOutcome DEF Begins
    <2>2. Session!Begin(t)
      BY <2>1 DEF Session!Begin, Calls, Outcome, Open, Outside
    <2> QED BY <2>2 DEF Session!Next
  <1>4. CASE Succeeds(t)
    <2>1. Calls[t] = "busy" /\ Calls' = [Calls EXCEPT ![t] = "ok"] /\ Open /\ ~Open'
          /\ crashed' = crashed
      BY <1>4, OneOutcome DEF Succeeds
    <2>2. Session!Succeed(t)
      BY <2>1 DEF Session!Succeed, Calls, Outcome, Open, Outside
    <2> QED BY <2>2 DEF Session!Next
  <1>5. CASE Fails(t)
    <2>1. Calls[t] = "busy" /\ Calls' = [Calls EXCEPT ![t] = "fail"] /\ (Open' <=> Open)
          /\ crashed' = crashed
      BY <1>5, OneOutcome DEF Fails
    <2>2. Session!Fail(t)
      BY <2>1 DEF Session!Fail, Calls, Outcome, Open, Outside
    <2> QED BY <2>2 DEF Session!Next
  <1>6. CASE Dies(t)
    <2>1. Calls' = Calls /\ (Open' <=> Open) /\ crashed' # "no"
      BY <1>6, OneOutcome DEF Dies
    <2>2. Session!Die
      BY <2>1 DEF Session!Die, Calls, Outcome, Open, Outside
    <2> QED BY <2>2 DEF Session!Next
  <1> QED BY <1>1, <1>2, <1>3, <1>4, <1>5, <1>6 DEF SessionStep

(* The agent, called by one thread, implements the session: an             *)
(* initialisation opens it, the first request that succeeds ends it, and   *)
(* every request until the next initialisation fails.                      *)
THEOREM SessionImplemented == Single => (Spec => ImplementsSession)
  <1> SUFFICES ASSUME Single PROVE Spec => ImplementsSession
    OBVIOUS
  <1>1. Init => Session!Init
    BY SessionVars DEF Init, Open, Calls, Outcome, Closing, Outside, Fields
  <1>2. TypeOK /\ OwnershipInv /\ SessionInv /\ [Next]_vars => [Session!Next]_(Session!vars)
    <2> SUFFICES ASSUME TypeOK, SessionInv, [Next]_vars PROVE [Session!Next]_(Session!vars)
      OBVIOUS
    <2>1. CASE UNCHANGED vars
      BY <2>1 DEF Session!vars, Closing, vars, shared, strings, locals, setup, frame
    <2>2. ASSUME NEW t \in Threads, Begin(t) \/ Progress(t)
          PROVE  [Session!Next]_(Session!vars)
      <3>1. crashed = "no"
        BY <2>2 DEF Begin, Progress
      <3> QED BY <2>2, <3>1, StepSession, SessionNext DEF SessionInv
    <2> QED BY <2>1, <2>2 DEF Next, Stopped
  <1>3. Spec => [](TypeOK /\ OwnershipInv /\ SessionInv)
    BY SessionAlways
  <1> QED BY <1>1, <1>2, <1>3, PTL DEF Spec, ImplementsSession, Session!Spec
=============================================================================
