------------------------------ MODULE GwAgent ------------------------------
(***************************************************************************)
(* The gateway agent of OzClient (CloudCom/OzCloud/OSN_GW_agent.c) driven  *)
(* by the cloud API on top of it (CloudCom/OzCloud/oz_cloudApi.cpp).       *)
(*                                                                         *)
(* Application threads call oz_cloudSendRequestAndGetResponse and          *)
(* oz_initialize.  They share the one structure clientGwParams_g and the   *)
(* function-local statics of the agent; no lock protects any of it.  Every *)
(* thread names a slot of the per-thread arrays (osn_gw_threads_e); which  *)
(* slot a thread names is the constant function SlotOf, because it is the  *)
(* caller of the agent that chooses it: oz_cloudApi.cpp passes             *)
(* GW_THREADS_NOTIF whichever thread runs it.                              *)
(*                                                                         *)
(* One action is one access to the shared structure, or one call into      *)
(* libcurl.  Taken together are: assignments of NULL that follow each      *)
(* other, a NULL test with the free or the return it guards, and the       *)
(* strings that one sprintf or one test reads.  Strings are abstracted to  *)
(* the request they were built for and the accounts they were read from.   *)
(***************************************************************************)
EXTENDS Integers, Sequences, FiniteSets

CONSTANTS
  Threads,    \* application threads
  NumSlots,   \* GW_NUMBER_OF_THREADS
  SlotOf,     \* the slot a thread passes to the agent
  Handles,    \* the curl easy handles libcurl can hand out
  Payloads,   \* dataJson values an application sends
  Users,      \* accounts an application logs in with
  MaxRetry,   \* the 4 in OSN_GW_sendRequest's "retry > 4"
  QuietInit,  \* does the application keep oz_initialize and requests apart?
  NULL,
  NoReq       \* "no request"

(* The members of osn_gw_threads_e. *)
Slots == 0 .. NumSlots - 1

ASSUME NumSlotsType == NumSlots \in Nat \ {0}
ASSUME SlotOfType == SlotOf \in [Threads -> Slots]
ASSUME NullType == NULL \notin Handles /\ NULL \notin Users
ASSUME NoReqType == NoReq \notin Threads \X Payloads
ASSUME MaxRetryType == MaxRetry \in Nat
ASSUME QuietInitType == QuietInit \in BOOLEAN

VARIABLES
  ptr,        \* the string pointers of clientGwParams_g
  account,    \* whose credential was written to a string last
  stamp,      \* iso_8601_time, one per slot
  sigIn,      \* the static buffer signatureIn
  sigOut,     \* the static buffer signatureBase64_out
  curl,       \* clientGwParams_g.curl, one per slot
  sockfd,     \* clientGwParams_g.curlSockfd, one per slot
  retry,      \* the static counter of OSN_GW_sendRequest
  live,       \* libcurl: handles between curl_easy_init and curl_easy_cleanup
  conn,       \* libcurl: what a handle is set up for and what was sent on it
  crashed,    \* "no", or the undefined operation the process died of
  pc,         \* where each thread is
  req,        \* the request a thread is working on
  params,     \* the form parameters it has built
  held,       \* the handle it is inside a blocking libcurl call with
  reply,      \* the request that the bytes in its recvBuf answer
  result,     \* what its last call returned
  login,      \* the account it initialises with
  nextSlot,   \* its position in the loop of OSN_GW_init over the slots
  nextField,  \* its position in the strings OSN_GW_init stores, OSN_GW_close frees
  retried     \* history: has its current request gone back to wait_tx?

strings == <<ptr, account>>
buffers == <<stamp, sigIn, sigOut>>
slots == <<curl, sockfd>>
shared == <<strings, buffers, slots, retry>>
libcurl == <<live, conn>>
frame == <<params, result, nextField, retried>>
setup == <<login, nextSlot>>
locals == <<req, held, reply, setup, frame>>
vars == <<shared, libcurl, crashed, pc, locals>>

-----------------------------------------------------------------------------
(* Data.                                                                   *)

Requests == Threads \X Payloads

(* Mutation: the session's strings survive OSN_GW_close. *)
CloseUrlOnly == <<"urlName">>

(* The strings OSN_GW_close frees, in its order. *)
CloseOrder == <<"urlName", "user_name", "user_password", "organization_code">>

(* The credentials OSN_GW_init stores, in its order. *)
StoreOrder == <<"user_name", "user_password", "organization_code", "client_id">>

Fields == {"user_name", "user_password", "organization_code", "client_id",
           "urlName", "hostName", "service"}

(* A pointer is NULL, points to a block nothing was written to yet, to a   *)
(* string, or to a block that was freed.                                   *)
PtrStates == {"null", "raw", "live", "freed"}

(* What a credential reads as that was freed, or not written yet. *)
Garbage == "garbage"

(* Whose credentials were read: more than one account's, if the strings    *)
(* belong to several.                                                      *)
Identity == SUBSET (Users \cup {NULL, Garbage})

(* The content that is signed: who asks, when, and for what.  A request on *)
(* the wire has such a content and the one its signature was made from.    *)
Contents ==
  [req : Requests \cup {NoReq}, stamp : Requests \cup {NoReq}, user : Identity]

NoContent == [req |-> NoReq, stamp |-> NoReq, user |-> {}]

Messages == [body : Contents, sig : Contents]

NoMessage == [body |-> NoContent, sig |-> NoContent]

NewConn(url) == [url |-> url, up |-> FALSE, wire |-> <<>>]

Credentials == {"user_name", "user_password", "organization_code", "client_id"}

(* Mutation: the agent names one slot for every thread. *)
OneSlot(t) == CHOOSE s \in Slots : TRUE

Slot(t) == SlotOf[t]

-----------------------------------------------------------------------------
Init ==
  /\ ptr = [f \in Fields |-> "null"]
  /\ account = [f \in Credentials |-> NULL]
  /\ stamp = [s \in Slots |-> NoReq]
  /\ sigIn = NoContent
  /\ sigOut = NoContent
  /\ curl = [s \in Slots |-> NULL]
  /\ sockfd = [s \in Slots |-> NULL]
  /\ retry = 0
  /\ live = {}
  /\ conn = [h \in Handles |-> NewConn(FALSE)]
  /\ crashed = "no"
  /\ pc = [t \in Threads |-> "idle"]
  /\ req = [t \in Threads |-> NoReq]
  /\ params = [t \in Threads |-> NoMessage]
  /\ held = [t \in Threads |-> NULL]
  /\ reply = [t \in Threads |-> NoReq]
  /\ result = [t \in Threads |-> "none"]
  /\ login = [t \in Threads |-> NULL]
  /\ nextSlot = [t \in Threads |-> 0]
  /\ nextField = [t \in Threads |-> 1]
  /\ retried = [t \in Threads |-> FALSE]

Goto(t, from, to) ==
  /\ pc[t] = from
  /\ pc' = [pc EXCEPT ![t] = to]

(* Thread t moves on, and nothing else changes. *)
Step(t, from, to) ==
  /\ Goto(t, from, to)
  /\ UNCHANGED <<shared, libcurl, locals, crashed>>

(* The call of t returns r; its local variables are gone. *)
Return(t, from, r) ==
  /\ Goto(t, from, "idle")
  /\ result' = [result EXCEPT ![t] = r]
  /\ params' = [params EXCEPT ![t] = NoMessage]
  /\ nextField' = [nextField EXCEPT ![t] = 1]
  /\ retried' = [retried EXCEPT ![t] = FALSE]

(* The process dies of an undefined operation (or goes on by luck: the     *)
(* steps that may survive it are steps of their own).                      *)
Crash(t, from, why) ==
  /\ pc[t] = from
  /\ crashed' = why
  /\ UNCHANGED <<shared, libcurl, pc, locals>>

-----------------------------------------------------------------------------
(* oz_initialize, as far as the agent sees it: cloud_init -> InitGW.       *)

Initializing ==
  {"init_secret", "init_drop", "init_alloc", "init_copy", "init_slots", "gw_drop",
   "gw_url", "gw_print", "gw_host", "gw_service", "gw_copy_host", "gw_copy_service"}

(* Thread t moves on and one of the seven strings changes.                 *)
SetString(t, f, p, from, to) ==
  /\ Goto(t, from, to)
  /\ ptr' = [ptr EXCEPT ![f] = p]
  /\ UNCHANGED <<account, buffers, slots, retry, libcurl, locals, crashed>>

(* if (p != NULL) free(p), which leaves p pointing to what was freed.      *)
DropString(t, f, from, to) ==
  /\ ptr[f] # "freed"
  /\ SetString(t, f, IF ptr[f] = "null" THEN "null" ELSE "freed", from, to)

(* What the string is after strcpy or sprintf: a block that another thread *)
(* freed meanwhile stays freed.                                            *)
Written(f) == IF ptr[f] = "freed" THEN "freed" ELSE "live"

(* OSN_GW_init sets the pointers to NULL before it tests them for NULL: the *)
(* blocks of an earlier initialisation are not freed.                       *)
InitClear(t) ==
  /\ QuietInit => \A u \in Threads : pc[u] = "idle"
  /\ Goto(t, "idle", "init_secret")
  /\ ptr' = [f \in Fields |-> IF f \in {"hostName", "service"} THEN ptr[f] ELSE "null"]
  /\ \E u \in Users : login' = [login EXCEPT ![t] = u]
  /\ UNCHANGED <<account, buffers, slots, retry, libcurl, req, held, reply, nextSlot,
                 frame, crashed>>

(* Without shared_secret OSN_GW_init returns; InitGW goes on regardless.   *)
AllocSecret(t) ==
  \E l \in {"init_drop", "gw_drop"} : Step(t, "init_secret", l)

Credential(t) == StoreOrder[nextField[t]]

(* For each credential: what another thread stored meanwhile is freed, ... *)
DropCredential(t) == DropString(t, Credential(t), "init_drop", "init_alloc")

(* ... malloc gives a new block, or NULL, which nobody tests, ...          *)
AllocCredential(t) ==
  \E p \in {"raw", "null"} : SetString(t, Credential(t), p, "init_alloc", "init_copy")

(* ... and strcpy writes to it.                                            *)
CopyCredential(t) ==
  /\ ptr[Credential(t)] # "null"
  /\ ptr' = [ptr EXCEPT ![Credential(t)] = Written(Credential(t))]
  /\ account' = [account EXCEPT ![Credential(t)] = login[t]]
  /\ \/ /\ nextField[t] < Len(StoreOrder)
        /\ Goto(t, "init_copy", "init_drop")
        /\ nextField' = [nextField EXCEPT ![t] = @ + 1]
     \/ /\ nextField[t] = Len(StoreOrder)
        /\ Goto(t, "init_copy", "init_slots")
        /\ nextField' = [nextField EXCEPT ![t] = 1]
  /\ UNCHANGED <<buffers, slots, retry, libcurl, req, held, reply, setup, params,
                 result, retried, crashed>>

(* Every slot forgets its handle, without a curl_easy_cleanup.             *)
ForgetSlot(t) ==
  /\ curl' = [curl EXCEPT ![nextSlot[t]] = NULL]
  /\ \/ /\ nextSlot[t] < NumSlots - 1
        /\ Goto(t, "init_slots", "init_slots")
        /\ nextSlot' = [nextSlot EXCEPT ![t] = @ + 1]
     \/ /\ nextSlot[t] = NumSlots - 1
        /\ Goto(t, "init_slots", "gw_drop")
        /\ nextSlot' = [nextSlot EXCEPT ![t] = 0]
  /\ UNCHANGED <<strings, buffers, sockfd, retry, libcurl, req, held, reply, login,
                 frame, crashed>>

(* OSN_GW_setGateway: urlName is freed, allocated and printed, ...         *)
DropUrl(t) == DropString(t, "urlName", "gw_drop", "gw_url")

PrintUrl(t) ==
  /\ ptr["urlName"] # "null"
  /\ SetString(t, "urlName", Written("urlName"), "gw_print", "gw_host")

(* ... the others are only allocated: the pointers they replace are lost.  *)
(* A NULL from malloc ends it.                                             *)
AllocGateway(t) ==
  \E step \in {<<"gw_url", "urlName", "gw_print">>, <<"gw_host", "hostName", "gw_service">>,
               <<"gw_service", "service", "gw_copy_host">>} :
    \/ SetString(t, step[2], "raw", step[1], step[3])
    \/ SetString(t, step[2], "null", step[1], "idle")

CopyGateway(t) ==
  \E step \in {<<"gw_copy_host", "hostName", "gw_copy_service">>,
               <<"gw_copy_service", "service", "idle">>} :
    /\ ptr[step[2]] # "null"
    /\ SetString(t, step[2], Written(step[2]), step[1], step[3])

Initialize(t) ==
  \/ AllocSecret(t) \/ DropCredential(t) \/ AllocCredential(t) \/ CopyCredential(t)
  \/ ForgetSlot(t) \/ DropUrl(t) \/ PrintUrl(t) \/ AllocGateway(t) \/ CopyGateway(t)

-----------------------------------------------------------------------------
(* OSN_GW_createRequestParameters and OSN_GW_createRequest.                *)

Call(t) ==
  /\ QuietInit => \A u \in Threads : pc[u] \notin Initializing
  /\ Goto(t, "idle", "stamp")
  /\ \E d \in Payloads : req' = [req EXCEPT ![t] = <<t, d>>]
  /\ reply' = [reply EXCEPT ![t] = NoReq]
  /\ result' = [result EXCEPT ![t] = "none"]
  /\ UNCHANGED <<shared, libcurl, held, setup, params, nextField, retried, crashed>>

CreateTimestamp(t) ==
  /\ Goto(t, "stamp", "check_creds")
  /\ stamp' = [stamp EXCEPT ![Slot(t)] = req[t]]
  /\ UNCHANGED <<strings, sigIn, sigOut, slots, retry, libcurl, locals, crashed>>

Have(fields) == \A f \in fields : ptr[f] # "null"

(* Mutation: the NULL test looks at one pointer only. *)
HasClientId == Have({"client_id"})

HasCredentials == Have(Credentials)

(* The NULL test that precedes every use of the credentials. *)
CheckCredentials(t) ==
  /\ \/ HasCredentials /\ Goto(t, "check_creds", "sign") /\ UNCHANGED frame
     \/ ~HasCredentials /\ Return(t, "check_creds", "fail")
  /\ UNCHANGED <<shared, libcurl, req, held, reply, setup, crashed>>

(* An allocation of the request builders fails: they return NULL. *)
OutOfMemory(t) ==
  /\ \E l \in {"stamp", "sign", "params", "request"} : Return(t, l, "fail")
  /\ UNCHANGED <<shared, libcurl, req, held, reply, setup, crashed>>

(* The strings that go into the form parameters. *)
FormFields == Credentials \ {"user_password"}

Dangling(fields) == \E f \in fields : ptr[f] \in {"raw", "freed"}

Owners(fields) == {account[f] : f \in fields}

(* What the strings read as now: a block that was freed, or that nothing   *)
(* was written to yet, may hold its old bytes, or others.                  *)
ReadAs(fields) ==
  {Owners(fields)} \cup IF Dangling(fields) THEN {{Garbage}} ELSE {}

Content(t, u) == [req |-> req[t], stamp |-> stamp[Slot(t)], user |-> u]

(* The sprintf that fills signatureIn. *)
FillSignature(t) ==
  /\ Have(Credentials)
  /\ Goto(t, "sign", "digest")
  /\ \E u \in ReadAs(Credentials) : sigIn' = Content(t, u)
  /\ UNCHANGED <<strings, stamp, sigOut, slots, retry, libcurl, locals, crashed>>

(* Mutation: a signature computed once is used again. *)
SignatureKept == IF sigOut = NoContent THEN sigIn ELSE sigOut

(* SHA256_digest and base64encode: from one static buffer to the other. *)
NewSignature == sigIn

Digest(t) ==
  /\ Goto(t, "digest", "params")
  /\ sigOut' = NewSignature
  /\ UNCHANGED <<strings, stamp, sigIn, slots, retry, libcurl, locals, crashed>>

(* The parameters are built from the globals once more. *)
CreateParameters(t) ==
  /\ Have(FormFields)
  /\ Goto(t, "params", "request")
  /\ \E u \in ReadAs(FormFields) :
       params' = [params EXCEPT ![t] = [body |-> Content(t, u), sig |-> sigOut]]
  /\ UNCHANGED <<shared, libcurl, req, held, reply, setup, result, nextField, retried, crashed>>

(* OSN_GW_createRequest prints service and hostName. *)
CreateRequest(t) ==
  /\ ptr["service"] = "live" /\ ptr["hostName"] = "live"
  /\ Step(t, "request", "curl_drop")

(* A string is read through a NULL pointer, through a dangling one, or     *)
(* before anything was written to its block.                               *)
BadString(t) ==
  \/ \E use \in {<<"sign", Credentials>>, <<"params", FormFields>>} :
       \/ ~Have(use[2]) /\ Crash(t, use[1], "null_string")
       \/ Dangling(use[2]) /\ Crash(t, use[1], "freed_string")
  \/ Dangling({"urlName"}) /\ Crash(t, "curl_new", "freed_string")
  \/ /\ \E f \in {"service", "hostName"} : ptr[f] # "live"
     /\ Crash(t, "request", "gateway_string")

(* A string is written to after another thread released or replaced it.    *)
BadWrite(t) ==
  \/ \E use \in {<<"init_copy", Credential(t)>>, <<"gw_print", "urlName">>} :
       ptr[use[2]] = "freed" /\ Crash(t, use[1], "freed_string")
  \/ \E use \in {<<"gw_print", "urlName">>, <<"gw_copy_host", "hostName">>,
                 <<"gw_copy_service", "service">>} :
       ptr[use[2]] = "null" /\ Crash(t, use[1], "null_string")

(* malloc fails where its result is not tested: strcpy writes through NULL. *)
UncheckedAllocation(t) ==
  \/ ptr[Credential(t)] = "null" /\ Crash(t, "init_copy", "unchecked_malloc")
  \/ Crash(t, "params", "unchecked_malloc")

-----------------------------------------------------------------------------
(* OSN_GW_sendRequest and OSN_GW_curlInit.                                 *)

(* Mutation: the slot is reset, the handle stays open. *)
ForgetHandle(s) ==
  /\ curl' = [curl EXCEPT ![s] = NULL]
  /\ UNCHANGED libcurl

(* libcurl: curl_easy_cleanup of what slot s holds (NULL is allowed) ends  *)
(* the connection; then the slot is set to NULL.                           *)
Cleanup(s) ==
  /\ curl' = [curl EXCEPT ![s] = NULL]
  /\ live' = live \ {curl[s]}
  /\ conn' = [h \in Handles |-> IF h = curl[s] THEN NewConn(FALSE) ELSE conn[h]]

(* A handle found in the slot is cleaned up, whoever is using it. *)
CurlDrop(t) ==
  /\ Goto(t, "curl_drop", "curl_new")
  /\ Cleanup(Slot(t))
  /\ UNCHANGED <<strings, buffers, sockfd, retry, locals, crashed>>

(* What libcurl makes of urlName: only a string is certain to be a URL.    *)
ReadUrl ==
  IF Dangling({"urlName"}) THEN BOOLEAN ELSE {ptr["urlName"] = "live"}

(* curl_easy_init and the options.  libcurl copies the URL when the option *)
(* is set, so a handle without one cannot connect.                         *)
CurlNew(t) ==
  /\ Goto(t, "curl_new", "perform")
  /\ \E h \in Handles \ live, url \in ReadUrl :
       /\ live' = live \cup {h}
       /\ conn' = [conn EXCEPT ![h] = NewConn(url)]
       /\ curl' = [curl EXCEPT ![Slot(t)] = h]
  /\ UNCHANGED <<strings, buffers, sockfd, retry, locals, crashed>>

CurlInitFails(t) ==
  /\ Return(t, "curl_new", "fail")
  /\ curl' = [curl EXCEPT ![Slot(t)] = NULL]
  /\ UNCHANGED <<strings, buffers, sockfd, retry, libcurl, req, held, reply, setup, crashed>>

(* curl_easy_perform blocks while it connects ... *)
Perform(t) ==
  /\ Goto(t, "perform", "performing")
  /\ held' = [held EXCEPT ![t] = curl[Slot(t)]]
  /\ UNCHANGED <<shared, libcurl, req, setup, frame, reply, crashed>>

(* ... and returns; only a handle nobody cleaned up meanwhile can connect. *)
PerformDone(t) ==
  /\ \/ /\ held[t] \in live
        /\ conn[held[t]].url
        /\ Goto(t, "performing", "getinfo")
        /\ conn' = [conn EXCEPT ![held[t]].up = TRUE]
     \/ Goto(t, "performing", "error") /\ UNCHANGED conn
  /\ held' = [held EXCEPT ![t] = NULL]
  /\ UNCHANGED <<shared, live, req, setup, frame, reply, crashed>>

FreedHandle(t) ==
  /\ held[t] # NULL /\ held[t] \notin live
  /\ Crash(t, "performing", "freed_handle")

(* Mutation: the socket is read before the connection has one. *)
SocketUnset(h) == NULL

(* A handle that is not connected has no socket. *)
LastSocket(h) == IF conn[h].up THEN h ELSE NULL

GetInfo(t) ==
  LET h == curl[Slot(t)] IN
  /\ \/ /\ h # NULL
        /\ Goto(t, "getinfo", "wait_tx")
        /\ sockfd' = [sockfd EXCEPT ![Slot(t)] = LastSocket(h)]
     \/ Goto(t, "getinfo", "error") /\ UNCHANGED sockfd
  /\ UNCHANGED <<strings, buffers, curl, retry, libcurl, locals, crashed>>

(* WaitOnSocket returns 0 on a timeout; both "ready" and -1 go on to send. *)
WaitTx(t) ==
  \E l \in {"send", "error"} : Step(t, "wait_tx", l)

(* curl_easy_send takes the whole request: the counter is reset. *)
SendAll(t) ==
  LET h == curl[Slot(t)] IN
  /\ h # NULL /\ conn[h].up
  /\ Goto(t, "send", "recv_wait")
  /\ conn' = [conn EXCEPT ![h].wire = Append(@, params[t])]
  /\ retry' = 0
  /\ UNCHANGED <<strings, buffers, slots, live, locals, crashed>>

(* It takes only a part, or it fails (error 81: the socket is not ready). *)
SendShort(t) ==
  /\ curl[Slot(t)] # NULL
  /\ Step(t, "send", "error")

SendFail(t) ==
  /\ Step(t, "send", "send_failed")

Exhausted == retry > MaxRetry

GiveUp(t) ==
  /\ Exhausted
  /\ Goto(t, "send_failed", "error")
  /\ retry' = 0
  /\ UNCHANGED <<strings, buffers, slots, libcurl, locals, crashed>>

DecideRetry(t) ==
  /\ ~Exhausted
  /\ Step(t, "send_failed", "retry")

(* Mutation: the attempts are not counted. *)
Uncounted == retry

Counted == retry + 1

Retry(t) ==
  /\ Goto(t, "retry", "wait_tx")
  /\ retry' = Counted
  /\ retried' = [retried EXCEPT ![t] = TRUE]
  /\ UNCHANGED <<strings, buffers, slots, libcurl, req, held, reply, setup,
                 params, result, nextField, crashed>>

(* The error label of OSN_GW_sendRequest. *)
SendError(t) ==
  /\ Return(t, "error", "fail")
  /\ Cleanup(Slot(t))
  /\ UNCHANGED <<strings, buffers, sockfd, retry, req, held, reply, setup, crashed>>

-----------------------------------------------------------------------------
(* OSN_GW_recvActionResponse and OSN_GW_close.                             *)

(* A timeout of WaitOnSocket, or an error of it, skips the read. *)
RecvWait(t) ==
  \E l \in {"recv", "recv_cleanup"} : Step(t, "recv_wait", l)

(* One curl_easy_recv: the gateway answers in the order of the requests on *)
(* the connection; there may be nothing to read, or an error.              *)
Recv(t) ==
  LET h == curl[Slot(t)] IN
  /\ Goto(t, "recv", "recv_cleanup")
  /\ \/ /\ h # NULL /\ conn[h].up /\ conn[h].wire # <<>>
        /\ reply' = [reply EXCEPT ![t] = Head(conn[h].wire).body.req]
        /\ conn' = [conn EXCEPT ![h].wire = Tail(@)]
     \/ UNCHANGED <<reply, conn>>
  /\ UNCHANGED <<shared, live, req, setup, frame, held, crashed>>

(* The handle is cleaned up on every path; nothing read means failure. *)
RecvCleanup(t) ==
  /\ \/ /\ reply[t] # NoReq
        /\ Goto(t, "recv_cleanup", "close_free")
        /\ UNCHANGED frame
     \/ /\ reply[t] = NoReq
        /\ Return(t, "recv_cleanup", "fail")
  /\ Cleanup(Slot(t))
  /\ UNCHANGED <<strings, buffers, sockfd, retry, req, held, reply, setup, crashed>>

(* OSN_GW_close, for each string: free(p); p = NULL. *)
CloseFree(t) ==
  LET f == CloseOrder[nextField[t]] IN
  /\ Goto(t, "close_free", "close_null")
  /\ ptr[f] # "freed"
  /\ ptr' = [ptr EXCEPT ![f] = IF @ = "null" THEN "null" ELSE "freed"]
  /\ UNCHANGED <<account, buffers, slots, retry, libcurl, locals, crashed>>

(* free of a block that is free already; OSN_GW_init and                   *)
(* OSN_GW_setGateway free what they find as well.                          *)
DoubleFree(t) ==
  \/ Crash(t, "close_free", "double_free") /\ ptr[CloseOrder[nextField[t]]] = "freed"
  \/ ptr[Credential(t)] = "freed" /\ Crash(t, "init_drop", "double_free")
  \/ ptr["urlName"] = "freed" /\ Crash(t, "gw_drop", "double_free")

(* Mutation: one string too many. *)
PastLastField(t) == nextField[t] > Len(CloseOrder)

LastField(t) == nextField[t] = Len(CloseOrder)

CloseNull(t) ==
  /\ \/ /\ ~LastField(t)
        /\ Goto(t, "close_null", "close_free")
        /\ nextField' = [nextField EXCEPT ![t] = @ + 1]
        /\ UNCHANGED <<params, result, retried>>
     \/ /\ LastField(t)
        /\ Return(t, "close_null", "ok")
  /\ ptr' = [ptr EXCEPT ![CloseOrder[nextField[t]]] = "null"]
  /\ UNCHANGED <<account, buffers, slots, retry, libcurl, req, held, reply, setup, crashed>>

-----------------------------------------------------------------------------
BuildRequest(t) ==
  \/ CreateTimestamp(t) \/ CheckCredentials(t) \/ OutOfMemory(t) \/ FillSignature(t)
  \/ Digest(t) \/ CreateParameters(t) \/ CreateRequest(t) \/ BadString(t)
  \/ BadWrite(t) \/ UncheckedAllocation(t)

SendRequest(t) ==
  \/ CurlDrop(t) \/ CurlNew(t) \/ CurlInitFails(t) \/ Perform(t) \/ PerformDone(t) \/ FreedHandle(t)
  \/ GetInfo(t) \/ WaitTx(t) \/ SendAll(t) \/ SendShort(t) \/ SendFail(t)
  \/ GiveUp(t) \/ DecideRetry(t) \/ Retry(t) \/ SendError(t)

ReceiveAndClose(t) ==
  \/ RecvWait(t) \/ Recv(t) \/ RecvCleanup(t)
  \/ CloseFree(t) \/ DoubleFree(t) \/ CloseNull(t)

(* The steps of a call that has begun. *)
Progress(t) ==
  /\ crashed = "no"
  /\ Initialize(t) \/ BuildRequest(t) \/ SendRequest(t) \/ ReceiveAndClose(t)

(* The application decides when to call. *)
Begin(t) ==
  /\ crashed = "no"
  /\ Call(t) \/ InitClear(t)

(* A process that died stays dead; the next one starts from Init. *)
Stopped ==
  /\ crashed # "no"
  /\ UNCHANGED vars

Next == Stopped \/ \E t \in Threads : Begin(t) \/ Progress(t)

(* Every library call on the path returns within its timeout, so a thread  *)
(* inside a call keeps moving; nothing makes the application begin a call. *)
Fairness == \A t \in Threads : WF_vars(Progress(t))

Spec == Init /\ [][Next]_vars

FairSpec == Spec /\ Fairness

-----------------------------------------------------------------------------
(* Properties.                                                             *)

PcStates ==
  Initializing \cup
  {"idle", "stamp", "check_creds", "sign", "digest", "params", "request", "curl_drop",
   "curl_new", "perform", "performing", "getinfo", "wait_tx", "send", "send_failed",
   "retry", "error", "recv_wait", "recv", "recv_cleanup", "close_free", "close_null"}

Fates == {"no", "null_string", "freed_string", "gateway_string", "freed_handle",
          "double_free", "unchecked_malloc"}

Conns == [url : BOOLEAN, up : BOOLEAN, wire : Seq(Messages)]

(* The type invariant: every variable of the agent and of libcurl has a    *)
(* value of its type, and neither OSN_GW_init nor OSN_GW_close walks past  *)
(* its last string, or the loop over the slots past the last slot.         *)
TypeOK ==
  /\ ptr \in [Fields -> PtrStates]
  /\ account \in [Credentials -> Users \cup {NULL}]
  /\ stamp \in [Slots -> Requests \cup {NoReq}]
  /\ sigIn \in Contents
  /\ sigOut \in Contents
  /\ curl \in [Slots -> Handles \cup {NULL}]
  /\ sockfd \in [Slots -> Handles \cup {NULL}]
  /\ retry \in Nat
  /\ live \in SUBSET Handles
  /\ conn \in [Handles -> Conns]
  /\ crashed \in Fates
  /\ pc \in [Threads -> PcStates]
  /\ req \in [Threads -> Requests \cup {NoReq}]
  /\ params \in [Threads -> Messages]
  /\ held \in [Threads -> Handles \cup {NULL}]
  /\ reply \in [Threads -> Requests \cup {NoReq}]
  /\ result \in [Threads -> {"none", "ok", "fail"}]
  /\ login \in [Threads -> Users \cup {NULL}]
  /\ nextSlot \in [Threads -> Slots]
  /\ nextField \in [Threads -> 1 .. Len(StoreOrder)]
  /\ retried \in [Threads -> BOOLEAN]

(* A call of oz_cloudSendRequestAndGetResponse that succeeds leaves in the *)
(* caller's recvBuf the answer to that very call, whatever other threads   *)
(* send meanwhile ("below variables must be per thread").                  *)
OwnReply ==
  \A t \in Threads : pc[t] = "idle" /\ result[t] = "ok" => reply[t] = req[t]

(* curl_easy_perform never works on a handle that was cleaned up: no other *)
(* thread, and no new initialisation, reaches the handle of a call.        *)
HandleInUseIsLive ==
  \A t \in Threads : held[t] # NULL => held[t] \in live

(* The open handles are those in the slots, and a call that returned keeps *)
(* none: every path out of OSN_GW_sendRequest and                          *)
(* OSN_GW_recvActionResponse cleans its handle up exactly once.            *)
NoHandleLeak ==
  /\ live = {curl[s] : s \in Slots} \ {NULL}
  /\ \A t \in Threads : pc[t] = "idle" => curl[Slot(t)] = NULL

(* WaitOnSocket waits on the socket of the connection the request is, or   *)
(* was, sent on: curlSockfd is never left over from an earlier handle.     *)
WaitsOnOwnSocket ==
  \A t \in Threads :
    pc[t] \in {"wait_tx", "send", "retry", "recv_wait", "recv"} =>
      /\ curl[Slot(t)] \in live
      /\ sockfd[Slot(t)] = curl[Slot(t)]

(* Every request that reaches the gateway carries the signature of its own *)
(* content: the user, the time and the data it was built from.             *)
SignedContent ==
  \A h \in live : \A i \in 1 .. Len(conn[h].wire) :
    conn[h].wire[i].sig = conn[h].wire[i].body

(* No legal sequence of calls makes the agent touch credentials that       *)
(* OSN_GW_close released, or a handle that was cleaned up: a request that  *)
(* follows a close is refused, not built from what is left.                *)
NoUseAfterFree ==
  crashed \notin {"null_string", "freed_string", "freed_handle", "double_free"}

(* curl_easy_send failing ends a request only after that request went back *)
(* to wait for its socket at least once ("until socket ready - overcome    *)
(* curl error code 81").                                                   *)
GivesUpOnlyAfterRetry ==
  [][\A t \in Threads :
       pc[t] = "send_failed" /\ pc'[t] = "error" => retried[t]]_vars

(* Every call that begins comes back, unless the process dies: the retries *)
(* of OSN_GW_sendRequest end.                                              *)
CallReturns ==
  \A t \in Threads : pc[t] # "idle" ~> pc[t] = "idle" \/ crashed # "no"

-----------------------------------------------------------------------------
(* The inductive invariant behind OwnReply and HandleInUseIsLive.          *)

(* No two threads name the same slot. *)
PerThreadSlots == \A t, u \in Threads : SlotOf[t] = SlotOf[u] => t = u

Outside == {"idle"} \cup Initializing

Preparing == {"stamp", "check_creds", "sign", "digest", "params", "request",
              "curl_drop", "curl_new"}

Releasing == {"close_free", "close_null"}

Addressed == {"request", "curl_drop", "curl_new", "perform", "performing", "getinfo",
              "wait_tx", "send", "send_failed", "retry"}

(* A handle is in one slot and open while it is; the handle that           *)
(* curl_easy_perform works on is in no other thread's slot; a thread that  *)
(* is not sending or receiving has none.                                   *)
HandleInv ==
  /\ \A s \in Slots : curl[s] # NULL => curl[s] \in live
  /\ \A s, r \in Slots : curl[s] = curl[r] /\ curl[s] # NULL => s = r
  /\ \A t \in Threads : held[t] # NULL =>
       /\ pc[t] = "performing"
       /\ held[t] \in live
       /\ \A s \in Slots : curl[s] = held[t] => s = Slot(t)
  /\ \A t \in Threads :
       pc[t] \in Outside \cup Preparing \cup Releasing => curl[Slot(t)] = NULL

AllFor(wire, r) == \A i \in 1 .. Len(wire) : wire[i].body.req = r

(* What a thread prepared, what is on its connection and what it read all  *)
(* belong to its current request; success means that something was read.   *)
RequestInv ==
  /\ \A t \in Threads : pc[t] \in Addressed => params[t].body.req = req[t]
  /\ \A t \in Threads :
       curl[Slot(t)] # NULL => AllFor(conn[curl[Slot(t)]].wire, req[t])
  /\ \A t \in Threads : reply[t] \in {NoReq, req[t]}
  /\ \A t \in Threads :
       pc[t] \in Releasing \/ (pc[t] \in Outside /\ result[t] = "ok") => reply[t] # NoReq

(* Handles and requests stay with the thread they belong to. *)
OwnershipInv == HandleInv /\ RequestInv

-----------------------------------------------------------------------------
(* What the cloud API promises its only caller (CloudSession): a session   *)
(* is open while OSN_GW_init's strings are there, and the request that     *)
(* succeeds ends it.                                                       *)
Closing(t) == pc[t] \in {"close_free", "close_null"} /\ ptr["user_name"] # "live"

Session ==
  INSTANCE CloudSession WITH
    open <- ptr["user_name"] = "live",
    call <- [t \in Threads |->
              IF Closing(t) THEN "ok"
              ELSE IF pc[t] \in Outside THEN result[t]
              ELSE "busy"],
    dead <- crashed # "no"

(* With one thread, the agent implements the session. *)
ImplementsSession == Session!Spec
=============================================================================
