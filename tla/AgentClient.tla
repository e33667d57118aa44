---------------------------- MODULE AgentClient -----------------------------
(***************************************************************************)
(* The agent client: oz_agentSendRequestAndGetResponse                     *)
(* (AgentCom/OzAgent/client_agent.cpp) and the encoder of its requests     *)
(* (AgentCom/OzAgent/ClientAgentEncoder.c).                                *)
(*                                                                         *)
(* A call opens a TCP socket to the local port of a tunnel, encodes and    *)
(* signs the request, sends it and reads until the agent closes or is      *)
(* silent for five seconds.  The socket belongs to the call; the buffers   *)
(* of the encoder are function-local statics that all threads share, two   *)
(* of them allocated by the first call that finds them NULL.               *)
(*                                                                         *)
(* One action is one access to a static, or one system call.  A string is  *)
(* abstracted to the request it was made for.  The answer of the agent is  *)
(* a sequence of at most MaxChunks pieces, numbered from 1.  A failed      *)
(* malloc ends the process, and so any behaviour may stop where it is; the *)
(* sprintf of a jsonData that is too long for data_json ends it, or writes *)
(* behind the buffer and changes nothing the model has.                    *)
(***************************************************************************)
EXTENDS Integers, Sequences, FiniteSets

CONSTANTS
  Threads,    \* application threads
  Payloads,   \* jsonData values an application sends
  LongData,   \* those of them that data_json, with its 1024 bytes, does not hold
  Users,      \* values of the user_id and uuid the environment points to
  Fds,        \* the socket descriptors the process may have open
  MaxChunks,  \* bound on the pieces of an answer
  QuietEnv,   \* do user_id and uuid change only while no request is made?
  NULL

ASSUME LongDataType == LongData \subseteq Payloads
ASSUME MaxChunksType == MaxChunks \in Nat \ {0}
ASSUME QuietEnvType == QuietEnv \in BOOLEAN
ASSUME FdsType == IsFiniteSet(Fds) /\ IsFiniteSet(Threads)
ASSUME NullType == NULL \notin Threads \cup Fds \cup (Threads \X Payloads)

VARIABLES
  who,       \* what uuid and user_id of the environment read as
  inPtr,     \* the static signature_in: whose allocation it points to
  outPtr,    \* the static signature_base64_out: the same
  inBlock,   \* the content of the allocations for signature_in
  outBlock,  \* the content of the allocations for signature_base64_out
  stamp,     \* the static iso_8601_time
  open,      \* the operating system: the descriptors in use
  failures,  \* history: calls that failed once they had a socket
  pc,        \* where each thread is
  req,       \* the request of its call
  sock,      \* its socket
  message,   \* its encoded request
  sent,      \* has the agent got the whole of it?
  buf,       \* the pieces in its recvBuf, up to the terminating zero
  arrived,   \* history: how many pieces recv has returned
  result     \* what its last call returned

statics == <<inPtr, outPtr, inBlock, outBlock, stamp>>
locals == <<req, sock, message, sent, buf, arrived, result>>
vars == <<who, statics, open, failures, pc, locals>>

-----------------------------------------------------------------------------
Requests == Threads \X Payloads

(* What a signature is made from; NULL for an allocation not written yet.  *)
Contents == [req : Requests, stamp : Requests, who : Users]

Messages == [body : Contents, sig : Contents \cup {NULL}]

Init ==
  /\ who \in Users
  /\ inPtr = NULL
  /\ outPtr = NULL
  /\ inBlock = [t \in Threads |-> NULL]
  /\ outBlock = [t \in Threads |-> NULL]
  /\ stamp = NULL
  /\ open = {}
  /\ failures = 0
  /\ pc = [t \in Threads |-> "idle"]
  /\ req = [t \in Threads |-> NULL]
  /\ sock = [t \in Threads |-> NULL]
  /\ message = [t \in Threads |-> NULL]
  /\ sent = [t \in Threads |-> FALSE]
  /\ buf = [t \in Threads |-> <<>>]
  /\ arrived = [t \in Threads |-> 0]
  /\ result = [t \in Threads |-> "none"]

Goto(t, from, to) ==
  /\ pc[t] = from
  /\ pc' = [pc EXCEPT ![t] = to]

(* Thread t moves on, and nothing else changes. *)
Step(t, from, to) ==
  /\ Goto(t, from, to)
  /\ UNCHANGED <<who, statics, open, failures, locals>>

(* The call returns; its local variables are gone. *)
Return(t, from, r) ==
  /\ Goto(t, from, "idle")
  /\ req' = [req EXCEPT ![t] = NULL]
  /\ sock' = [sock EXCEPT ![t] = NULL]
  /\ message' = [message EXCEPT ![t] = NULL]
  /\ sent' = [sent EXCEPT ![t] = FALSE]
  /\ result' = [result EXCEPT ![t] = r]
  /\ UNCHANGED <<who, statics, buf, arrived>>

(* p2p_initialize runs again, or the application writes to the structure   *)
(* whose uuid the environment points to.                                   *)
ChangeEnv ==
  /\ QuietEnv => \A t \in Threads : pc[t] = "idle"
  /\ who' \in Users
  /\ UNCHANGED <<statics, open, failures, pc, locals>>

-----------------------------------------------------------------------------
(* The socket.                                                             *)

(* A call that passed the test of its handle. *)
Call(t) ==
  /\ Goto(t, "idle", "socket")
  /\ \E d \in Payloads : req' = [req EXCEPT ![t] = <<t, d>>]
  /\ result' = [result EXCEPT ![t] = "none"]
  /\ UNCHANGED <<who, statics, open, failures, sock, message, sent, buf, arrived>>

CreateSocket(t) ==
  /\ Goto(t, "socket", "connect")
  /\ \E f \in Fds \ open :
       /\ open' = open \cup {f}
       /\ sock' = [sock EXCEPT ![t] = f]
  /\ UNCHANGED <<who, statics, failures, req, message, sent, buf, arrived, result>>

(* socket() fails: no descriptor is left, or another reason. *)
NoSocket(t) ==
  /\ Return(t, "socket", "OZ_ERROR")
  /\ UNCHANGED <<open, failures>>

Connect(t) == Step(t, "connect", "encode")

(* Every error return after socket() leaves the socket open. *)
Fail(t, from) ==
  /\ Return(t, from, "OZ_ERROR")
  /\ failures' = failures + 1
  /\ UNCHANGED open

-----------------------------------------------------------------------------
(* clientAgentEncoder.                                                     *)

(* The arguments are in order and datain is copied to data_json, or NULL   *)
(* is returned: nothing is sent then, but the answer is waited for.        *)
CheckArguments(t) == Step(t, "encode", "alloc_out") \/ Step(t, "encode", "clear")

Long(t) == req[t][2] \in LongData

(* The copy is made before anything looks at the length of datain. *)
Overflow(t) == Step(t, "encode", "crashed") /\ Long(t)

TestOutPtr(t) == Step(t, "alloc_out", IF outPtr = NULL THEN "set_out" ELSE "stamp")

SetOutPtr(t) ==
  /\ Goto(t, "set_out", "stamp")
  /\ outPtr' = t
  /\ outBlock' = [outBlock EXCEPT ![t] = NULL]
  /\ UNCHANGED <<who, inPtr, inBlock, stamp, open, failures, locals>>

(* Mutation: the time stamp is not taken. *)
NoTimestamp(t) == Step(t, "stamp", "alloc_in")

CreateTimestamp(t) ==
  /\ Goto(t, "stamp", "alloc_in")
  /\ stamp' = req[t]
  /\ UNCHANGED <<who, inPtr, outPtr, inBlock, outBlock, open, failures, locals>>

(* Mutation: the test copied from the other buffer. *)
TestWrongPtr(t) ==
  \/ Step(t, "alloc_in", IF outPtr = NULL THEN "set_in" ELSE "sign") /\ ~Long(t)
  \/ Step(t, "alloc_in", "clear")

(* All that is signed fits the buffer, which data too long for data_json   *)
(* never does, or NULL is returned.                                        *)
TestInPtr(t) ==
  \/ Step(t, "alloc_in", IF inPtr = NULL THEN "set_in" ELSE "sign") /\ ~Long(t)
  \/ Step(t, "alloc_in", "clear")

SetInPtr(t) ==
  /\ Goto(t, "set_in", "sign")
  /\ inPtr' = t
  /\ inBlock' = [inBlock EXCEPT ![t] = NULL]
  /\ UNCHANGED <<who, outPtr, outBlock, stamp, open, failures, locals>>

Content(t) == [req |-> req[t], stamp |-> stamp, who |-> who]

FillSignature(t) ==
  /\ Goto(t, "sign", "digest")
  /\ inBlock' = [inBlock EXCEPT ![inPtr] = Content(t)]
  /\ UNCHANGED <<who, inPtr, outPtr, outBlock, stamp, open, failures, locals>>

(* Mutation: the signature is made when its buffer is new. *)
SignatureKept == IF outBlock[outPtr] = NULL THEN inBlock[inPtr] ELSE outBlock[outPtr]

(* SHA256_digest and base64encode, from one static to the other. *)
NewSignature == inBlock[inPtr]

Digest(t) ==
  /\ Goto(t, "digest", "form")
  /\ outBlock' = [outBlock EXCEPT ![outPtr] = NewSignature]
  /\ UNCHANGED <<who, inPtr, outPtr, inBlock, stamp, open, failures, locals>>

CreateParameters(t) ==
  /\ Goto(t, "form", "send")
  /\ message' = [message EXCEPT ![t] = [body |-> Content(t), sig |-> outBlock[outPtr]]]
  /\ UNCHANGED <<who, statics, open, failures, req, sock, sent, buf, arrived, result>>

-----------------------------------------------------------------------------
(* The exchange.                                                           *)

(* send() may take the whole message or a part of it: the code looks at    *)
(* the sign of its result only.                                            *)
Send(t) ==
  /\ Goto(t, "send", "clear")
  /\ sent' \in {[sent EXCEPT ![t] = whole] : whole \in BOOLEAN}
  /\ UNCHANGED <<who, statics, open, failures, req, sock, message, buf, arrived, result>>

(* The memset at the start of recieve_buff_from_socket: until then the     *)
(* buffer holds what the caller, or an earlier call, left in it.           *)
ClearBuffer(t) ==
  /\ Goto(t, "clear", "recv")
  /\ buf' = [buf EXCEPT ![t] = <<>>]
  /\ arrived' = [arrived EXCEPT ![t] = 0]
  /\ UNCHANGED <<who, statics, open, failures, req, sock, message, sent, result>>

(* Mutation: nextBufOffset stays at the start of the buffer. *)
Overwritten(t, piece) == <<piece>>

(* The bytes go to nextBufOffset, and a zero is put behind them. *)
Stored(t, piece) == Append(buf[t], piece)

(* The agent answers a request it got in full. *)
RecvPiece(t) ==
  /\ Goto(t, "recv", "recv")
  /\ sent[t]
  /\ arrived[t] < MaxChunks
  /\ arrived' = [arrived EXCEPT ![t] = @ + 1]
  /\ buf' = [buf EXCEPT ![t] = Stored(t, arrived[t] + 1)]
  /\ UNCHANGED <<who, statics, open, failures, req, sock, message, sent, result>>

(* Mutation: create_tcp_socket sets no SO_RCVTIMEO, and recv waits for     *)
(* bytes that may not come.                                                *)
NoTimeout(t) == arrived[t] > 0

(* recv may return 0 or -1 whatever came so far: the agent closed, or was  *)
(* silent for the five seconds of SO_RCVTIMEO.                             *)
RecvGivesUp(t) == TRUE

(* Mutation: the socket of an answered request is left open. *)
LeftOpen(t) == open

Closed(t) == open \ {sock[t]}

RecvEnds(t) ==
  /\ RecvGivesUp(t) /\ arrived[t] > 0
  /\ Return(t, "recv", "answer")
  /\ open' = Closed(t)
  /\ UNCHANGED failures

NoAnswer(t) ==
  /\ RecvGivesUp(t) /\ arrived[t] = 0
  /\ Fail(t, "recv")

-----------------------------------------------------------------------------
Encode(t) ==
  \/ CheckArguments(t) \/ TestOutPtr(t) \/ SetOutPtr(t) \/ CreateTimestamp(t)
  \/ TestInPtr(t) \/ SetInPtr(t) \/ FillSignature(t) \/ Digest(t) \/ CreateParameters(t)

(* What a running call does next. *)
Progress(t) ==
  \/ CreateSocket(t) \/ NoSocket(t) \/ Connect(t) \/ Encode(t) \/ Overflow(t) \/ Send(t)
  \/ ClearBuffer(t) \/ RecvPiece(t) \/ RecvEnds(t) \/ NoAnswer(t)
  \/ \E from \in {"connect", "send"} : Fail(t, from)

Crashed == \E t \in Threads : pc[t] = "crashed"

Stopped == Crashed /\ UNCHANGED vars

Next ==
  \/ ~Crashed /\ (ChangeEnv \/ \E t \in Threads : Call(t) \/ Progress(t))
  \/ Stopped

Spec == Init /\ [][Next]_vars

(* socket, connect, send and recv return within their timeouts. *)
FairSpec == Spec /\ \A t \in Threads : WF_vars(~Crashed /\ Progress(t))

-----------------------------------------------------------------------------
(* Properties.                                                             *)

(* Type invariant of the agent client's state. *)
TypeOK ==
  /\ who \in Users
  /\ inPtr \in Threads \cup {NULL}
  /\ outPtr \in Threads \cup {NULL}
  /\ inBlock \in [Threads -> Contents \cup {NULL}]
  /\ outBlock \in [Threads -> Contents \cup {NULL}]
  /\ stamp \in Requests \cup {NULL}
  /\ open \subseteq Fds
  /\ failures \in Nat
  /\ pc \in [Threads -> {"idle", "socket", "connect", "encode", "alloc_out", "set_out",
                         "stamp", "alloc_in", "set_in", "sign", "digest", "form", "send",
                         "clear", "recv", "crashed"}]
  /\ req \in [Threads -> Requests \cup {NULL}]
  /\ sock \in [Threads -> Fds \cup {NULL}]
  /\ message \in [Threads -> Messages \cup {NULL}]
  /\ sent \in [Threads -> BOOLEAN]
  /\ buf \in [Threads -> Seq(1..MaxChunks)]
  /\ arrived \in [Threads -> 0..MaxChunks]
  /\ result \in [Threads -> {"none", "answer", "OZ_ERROR"}]

(* The signature in a request to the agent is made from what the request   *)
(* says: its sender, its time stamp and its data.                          *)
SignedContent ==
  \A t \in Threads : pc[t] = "send" =>
    message[t].sig = message[t].body /\ message[t].body.req = req[t]

(* No thread reads through a buffer pointer, or a time stamp, that no      *)
(* thread has set: the tests of the encoder hold when their result is      *)
(* used, whatever the others do in between.                                *)
EncoderReady ==
  \A t \in Threads :
    /\ pc[t] \in {"stamp", "alloc_in", "set_in", "sign", "digest", "form"} => outPtr # NULL
    /\ pc[t] \in {"alloc_in", "set_in", "sign", "digest", "form"} => stamp # NULL
    /\ pc[t] \in {"sign", "digest", "form"} => inPtr # NULL

Running == {t \in Threads : pc[t] \notin {"idle", "socket"}}

(* No two running calls have the same socket, and each one's is open. *)
OwnSocket ==
  \A t \in Running :
    sock[t] \in open /\ \A u \in Running \ {t} : sock[u] # sock[t]

(* Every descriptor in use belongs to one running call or was left by a    *)
(* failed one; a failed call leaves exactly one, an answered call none.    *)
DescriptorsCounted ==
  OwnSocket /\ Cardinality(open) = Cardinality(Running) + failures

(* A call that returns an answer has put the pieces that arrived into the  *)
(* caller's buffer in their order, none lost and none overwritten.         *)
WholePrefix ==
  \A t \in Threads : result[t] = "answer" =>
    arrived[t] > 0 /\ buf[t] = [n \in 1..arrived[t] |-> n]

(* A call comes back, or the process has ended, when the agent refuses,    *)
(* stays silent, pauses or closes.  An agent whose answer never ends is    *)
(* left out: the loop of recieve_buff_from_socket has no bound of its own, *)
(* and an answer has at most MaxChunks pieces.                             *)
CallReturns == \A t \in Threads : pc[t] # "idle" ~> pc[t] = "idle" \/ Crashed
=============================================================================
