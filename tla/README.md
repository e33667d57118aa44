# A verification project for OzClient

OzClient (`src/OzClient`) is a C/C++ client library that an application links to reach a camera: it
logs in to a cloud gateway over HTTPS, opens peer-to-peer tunnels to the camera's agent through the
closed-source library OsnClient, and sends JSON requests to the agent through such a tunnel. This
directory holds TLA+ models of it, the TLC runs that check them and TLAPS proofs about them. Paths
below are relative to `src/OzClient`.

## The system

| component | where | state it keeps | operations |
|---|---|---|---|
| gateway agent | `CloudCom/OzCloud/OSN_GW_agent.c`, `.h` | one static structure: credentials and gateway strings (heap pointers), and per `osn_gw_threads_e` slot a time stamp, a curl handle and a socket; static signature buffers; a static retry counter | `OSN_GW_init`, `OSN_GW_setGateway`, `OSN_GW_createRequestParameters`, `OSN_GW_createRequest`, `OSN_GW_sendRequest`, `OSN_GW_recvActionResponse`, `OSN_GW_close`, `OSN_GW_curlInit` |
| cloud API | `CloudCom/OzCloud/oz_cloudApi.cpp` | none | `cloud_init` / `InitGW`, `oz_cloudSendRequestAndGetResponse` / `send_http_request` / `SendRequestToGW` |
| initialisation | `OzInit/OzInit.c` | the environment `client_env` | `oz_initialize`: `p2p_initialize`, then `cloud_init` |
| P2P client API | `P2P/OzClient/OzClientAPI.cpp` | the environment; the static status of `oz_createTunnel` | `p2p_initialize`, `oz_createTunnel`, `oz_destroyTunnel`, `oz_shutdown`, `oz_selectP2P`, `oz_setPermission`, `oz_register_print_callback` |
| tables and logging | `P2P/OzClient/OzUtils.cpp`, `include/OzUtils.h` | print level (one per translation unit), print callback, a static line buffer | `ozGetCustomer`, `ozGetEnvironment`, `ozGetTunnelPort`, `OZCLIENT_PRINTF`, `ozClient_register_print_callback` |
| agent client | `AgentCom/OzAgent/client_agent.cpp`, `ClientAgentEncoder.c` | static buffers of the encoder; a socket per call | `oz_agentSendRequestAndGetResponse`, the encoder of the signed JSON request |
| codecs | `OzCommon/base64.cpp`, `urlcode.cpp`, `sha256.cpp` | none | base64, URL encoding, SHA-256 |
| JSON | `OzCommon/json/cJSON.c` (a modified copy) | trees on the heap | parse, print, list operations |
| memory helpers | `OzCommon/OZ_memory.c` | none | allocation with logging |
| sample requests | `OzCommon/api/*.cpp` | none | example JSON builders |
| sample application | `P2P/OzClientApp/OzClientApp.cpp` | one handle, one tunnel-info structure | a menu over the API |
| OsnClient | binary, `include/OsnClient.h` | tunnels | external |
| vendored curl, OpenSSL, scripts | `curl-android-ios` | | not part of the program's own logic |

How they interact: the application's threads call the API functions directly; every call runs on its
caller's thread, and nothing in the library takes a lock. `oz_initialize` fills the environment, starts
OsnClient and, if that succeeded, hands the credentials to the gateway agent. `oz_createTunnel` reads
the environment and calls OsnClient; the agent client connects to the local port of a tunnel. The
gateway agent calls libcurl. The print callback is called from any thread that logs.

What is hard, and what makes each part correct:

* Gateway agent and cloud API. Threads share every static; a handle of libcurl must be released once on
  every path; a success closes the session, so what follows must notice; retries and timeouts leave a
  counter behind. Correct means: a caller gets the answer to its own request, signed as it is; no handle
  is used after it is closed or lost; freed credentials are not used; a call ends.
* Initialisation and P2P client API. Three parties keep a view of the same thing: the environment, the
  gateway agent and OsnClient; an initialisation changes them one after the other and may fail between.
  The returned status goes through a static. The application must be able to account for every tunnel
  from what it was told. Correct means: a status is the call's own; no tunnel is lost; no tunnel or
  session mixes two initialisations.
* Agent client. The encoder signs in static buffers, allocated on first use by whoever comes first; the
  socket is the call's own but most returns do not close it; an answer ends with silence. Correct means:
  a request is signed as it is; descriptors are accounted for; an answer arrives whole and in order; a
  call ends.
* Logging. The print level is a static variable of a header, so it exists once per translation unit; the
  line buffer of a unit is shared by all its threads; the callback is tested, then read again and called.
  Correct means: whatever the threads overwrite, the string ends in the buffer; a line that was alone
  arrives whole.
* JSON. Items are on the heap in doubly linked lists, a reference shares the children of its original,
  and the caller has to know who frees what. The printers compute a size before they write. Correct
  means: one owner per item, lists that are linked both ways, no pointer to a freed item; the
  parser reads every JSON text as what it denotes (it accepts more than JSON: see `text` below), the
  printers print what it read, in the space they computed.
* Codecs. Groups that are not full, buffers of the exact length, escapes at the end of the input.
* All together. The ports of tunnels are used again, statuses may be another call's, the identity is
  read from the environment when a request is encoded. Correct means: a request reaches the camera it
  names, with the identity its tunnel was opened with.

## Modules

* `GwAgent` models the gateway agent and the cloud API. One action is one access to shared state or
  one call into libcurl, so TLC interleaves threads at the places where the code can be preempted with
  an effect. Its variables are the members of `clientGwParams_g` (`ptr`, `account` for the string
  pointers and whose credentials they hold; `stamp`, `curl`, `sockfd` for the arrays), the
  function-local statics (`sigIn`, `sigOut`, `retry`), libcurl (`live`, `conn`), and per thread the
  place (`pc`) and the locals of its call. Strings are abstracted to the request they were made for, a
  time stamp to the request it was taken for, a curl connection to the queue of requests the gateway has
  not answered yet. A string pointer is `null`, `raw` (allocated, not written), `live` or `freed`. An
  undefined operation (a NULL or dangling string, a double free, a handle closed under
  `curl_easy_perform`, a result of `malloc` used untested) either kills the process (`crashed`) or,
  where the memory may still be readable, goes on with a value nobody chose (`Garbage`). An
  initialisation is as many steps as it has accesses: the pointers are cleared (`InitClear`), each
  credential is freed, allocated and copied (`DropCredential`, `AllocCredential`, `CopyCredential`, in
  `StoreOrder`), then the loop resets one slot after the other (`ForgetSlot`), and `OSN_GW_setGateway`
  frees, allocates and writes its three strings (`DropUrl`, `AllocGateway`, `PrintUrl`, `CopyGateway`).
* `CloudSession` is what the cloud API promises one caller: an initialisation opens a session, a
  request may fail at any moment, and the first success ends the session. `GwAgent!Session` is the
  refinement mapping: the session is open while `user_name` points to a string, and the abstract
  success happens when `OSN_GW_close` frees it.
* `P2PClient` models `oz_initialize` and the calls that create, destroy and shut down tunnels. `env` is
  `client_env`: each field holds the profile (account, customer, cloud) of the initialisation it was
  last written by, one action per assignment. `uuid` is apart: the code keeps a pointer into the
  `collect_data` structure of the caller, so the model keeps which structure it is, and what it reads as
  is what that structure holds now (`Uuid`). The application fills a structure for an initialisation
  (`Fill`) and may release or fill it again (`ReleaseData`), but for the one of the session it has a
  handle for. `status` is the static of `oz_createTunnel`, `login` what
  `cloud_init` handed to the gateway agent. OsnClient is external: it can be started, and opens a
  tunnel on a free local port or fails. The application's structures are `info`; `believed` is what
  the application concludes from the statuses it was returned, and it creates a tunnel in a structure
  only when it believes it free. An unsupported method is one that `oz_selectP2P` set; the message about
  it reads the method as a string, which ends the process unless the method is 0.
* `AgentClient` models one request to the camera's agent: socket, connect, the encoder step by step with
  its two lazily allocated buffers (a block is known by the thread that allocated it), send (which may
  take a part only), and the receive loop. `open` is the set of descriptors in use, `failures` a history
  count. The agent is external: it answers a request it got in full with up to `MaxChunks` pieces, and
  may stop at any point. A failed `malloc` ends the process, which is a behaviour that stops. Data that
  the encoder's stack buffer does not hold (`LongData`) is copied before its length is tested: the
  process ends (`Overflow`), or goes on and the later test refuses the data.
* `OzClient` composes the two: it EXTENDS `P2PClient` (threads that open, close, shut down and
  initialise) and instantiates `AgentClient` for other threads, the workers, that send requests to
  cameras. They meet where the code lets them meet: a request is signed with `env` as it is then
  (`Identity`), goes to the port in a tunnel-info structure, and arrives at the camera that is behind
  that port (`peer`). The application's discipline is in `Request` and `Disturb`: it takes a port from a
  structure whose tunnel it believes open, closes no tunnel a request is in, and neither shuts down nor
  initialises under a request; it shuts down before it initialises again (`OzClientAPI.h:226`).
* `LogPrint` models `OZCLIENT_PRINTF`, one byte written per action, and the registration of the callback
  in its two assignments. A line is a head and a text, each of some length, so that the texts of two
  threads begin at different places of the buffer; its bytes are the thread that writes them, so a
  foreign byte is visible. Registrations come from one thread at a time,
  and the callback is taken away only when nothing is printed: nothing in the code makes the other uses
  safe, and nothing promises it.
* `JsonTree` models the list functions of `cJSON.c` on a heap of cells with `next`, `prev` and `child`:
  an operator per list function, from a heap to a heap, and an action per call of the application. It
  keeps count of the names on the heap and of those that were overwritten (`lost`). What the library
  leaves to the application is in the guards: `MayHold` (a list is not changed through a reference, and no
  item becomes part of itself, which is `Founded`) and `MayFree` (nothing is freed that a reference which
  stays shares). `Founded` speaks of everything next and child lead to, since `cJSON_Duplicate` goes
  into references: an item can also become part of itself when it replaces one that a reference shows.
* `JsonForest` is what these calls promise: every item has a sequence of children, and a call adds one at
  the end, takes one out, replaces one, or deletes one tree. `JsonTree!Forest` is the refinement
  mapping; it reads the sequence of an item's children off the linked list.
* `JsonText` holds the parser, the printers and `cJSON_Minify` as operators on sequences of bytes, with
  the sizes that the code computes before it writes. Where the code goes past the terminating zero (a
  backslash at the end of a text, a `\u` with the end or a quote among its four characters, an unclosed
  comment or string in `cJSON_Minify`) the model does not read on: the result is `Outside`, or has an
  `Unknown` in it. It uses RECURSIVE operators, so it is checked and
  not proved about.
* `Codecs` holds both base64 encoders, `UrlEncode` and `UrlDecode`, written with folds and recursive
  functions. Of `base64encode` it has the test before each character (`Tested`) and the places written
  until one fails (`Written`). `CodecText` lets a string grow byte by byte and states what the codecs promise about it,
  with base64 as a sequence of bits for reference: its specification reaches every string.
* `MCText` puts texts together, from tokens and from bytes, and has the reference definition for the
  parser: a grammar of JSON as the set of items a sequence of tokens denotes.
* `MCGwAgent`, `MCP2PClient`, `MCAgentClient`, `MCOzClient`, `MCLogPrint` and `MCJsonTree` hold the
  instances for TLC.
* `GwAgent_proofs`, `AgentClient_proofs`, `P2PClient_proofs`, `OzClient_proofs`, `LogPrint_proofs`,
  `JsonTree_proofs`, `JsonOwner_proofs` and `Codecs_proofs` hold the theorems. `OzClient_proofs` extends
  `P2PClient_proofs` and `JsonOwner_proofs` extends `JsonTree_proofs`: each uses the invariants of the
  one before.

Operators whose comment starts with "Mutation" are alternative forms of the definition that follows
them: each is a plausible mistake, and each property is known to fail under one of them.

## Runs

| run | instance | what it shows |
|---|---|---|
| `gw_single` | 1 thread, 2 handles, 2 payloads, 2 accounts, retry limit 4, fair | type invariant; every request on a wire carries the signature of its own content (`SignedContent`); no sequence of calls uses freed credentials (`NoUseAfterFree`); `NoHandleLeak`; `WaitsOnOwnSocket`; the agent implements `CloudSession`; every call returns |
| `gw_own_slots` | 2 threads, 2 slots, 2 handles, retry limit 0, initialisation at any moment | `OwnReply`, `HandleInUseIsLive`, and the inductive invariant `OwnershipInv` |
| `gw_shared_reply` | 2 threads in one slot, 1 handle | violated: `OwnReply` |
| `gw_retry` | 1 thread | violated: `GivesUpOnlyAfterRetry` |
| `p2p_threads` | 2 threads, 2 structures of each kind, 2 ports, 2 profiles, methods selected, initialisation alone, the handle dropped after a failed one | no tunnel and no session mixes two initialisations (`OneProfile`); the structure's status is right even when the returned one is not (`InfoTellsTruth`); the account of a valid handle is the gateway's, the uuid that the pointer leads to included (`SameAccount`) |
| `p2p_status` | 2 threads | violated: `StatusIsOwn` |
| `agent_threads` | 2 threads, 2 descriptors, data that fits and data that is too long, answers of up to 2 pieces, fair | type invariant; `EncoderReady` (no thread goes through a static nobody set); `DescriptorsCounted`; `WholePrefix`; `CallReturns` |
| `agent_signature` | 2 threads | violated: `SignedContent` |
| `oz_client` | 1 thread that opens and closes, 1 worker, 2 structures of each kind, 1 port, 2 cameras, 2 accounts | type invariant of `P2PClient` in its composition; no tunnel is lost (`NoLostTunnel`); a request reaches the camera it names (`OwnCamera`), with the identity of its tunnel (`SameIdentity`) |
| `log` | 2 threads, 2 units, buffers of 4 bytes, heads of 1 and 2, texts of up to 2 | type invariant; `SafeOutput`; `OwnLine` |
| `json_tree` | 4 items, 2 names, 2 allocated names at most | type invariant; one owner per item; lists linked both ways, references included (`Linked`); the lost names counted; the lists implement `JsonForest` |
| `text` | texts of up to 5 tokens and 20 longer ones; strings of up to 5 of 11 bytes | the parser against a grammar with cJSON's scalars (`ParsesJson`); what is printed reads as the same item (`RoundTrip`); computed sizes suffice, that of `parse_string` on the condition below (`BuffersFit`); `MinifyKeepsItem`; `Base64Correct`; `SameEncoding`; `UrlRoundTrip`; `CutEscape` |

Bounds of the protocol models. Threads: a lost update, a stolen handle or a foreign status needs two, and
the code treats all threads alike. Handles: one per thread is what the code holds at most; in `gw_own_slots` there are two, so that both
threads have a request in flight. That run takes the handles as symmetric and compares states by
`ControlView`, without what neither a guard nor its three properties read; the other views leave out, in
the same way, what a pointer led to before it was replaced, a message that was sent, and the levels that
were registered (a line of `OSNCLIENT_LOG_ERR` passes all of them). Payloads, accounts and profiles: two, so that a
leftover can differ from the current one. `MaxRetry` is 4 in the code and in the runs with one thread;
with two threads it is 0, since its value only changes how often the loop runs. `QuietInit` says whether
the application initialises only while no other call runs (the natural use, and what "to re-initialize
environment use shutdown call before", `OzClientAPI.h:226`, suggests) or at any moment (`gw_own_slots`).
`KeepsHandle` says whether it may go on with its handle after an initialisation failed: `SameAccount`
needs that it does not. Two structures and two ports let one tunnel be closed and its port go to another.
Two pieces of an answer are the least that can be misplaced. Two descriptors for two threads are used up
by two failures. In `oz_client` there is one port, so that every tunnel is opened on a port that was
another's, and two cameras and two accounts, the least that can be confused; the one thread that opens
and closes keeps the run small, what two of them do to each other is `p2p_threads`.

Bounds of the data models. `log`: four bytes hold a head of one byte, a text of two and the zero; behind
a head of two a text of 2 is cut and one of 0 and 1 is not, and the texts of two threads begin at
different places. `json_tree`: four items are an array with a head, a middle and a last
item, or a list in a list with a reference to it. Five items were checked once, with one name: the same
result. `text`: five tokens are every list with two elements or one member, complete, unclosed, or with
the wrong token anywhere; `Documents` adds lists in lists to a depth of four, where the printed sizes
depend on the depth. Five bytes are two groups of base64, full and not, and an escape with two bytes
behind it; the eleven bytes are one of each class the code tells apart, and the zero that ends a string
of C (base64 takes it as data, the properties of the URL functions leave it out).

Deadlock is not checked in `p2p_threads` and `oz_client`, where a crash ends the process, and in `text`,
where a text at its bound does not grow.

Fairness: a thread inside a call keeps taking steps. The code justifies it: every blocking call has a
timeout (`select` in `WaitOnSocket`, `CURLOPT_TIMEOUT`; `SO_RCVTIMEO` and `SO_SNDTIMEO` in
`create_tcp_socket`), and `curl_easy_send` and `curl_easy_recv` do not block. Nothing makes the
application start a call. Two assumptions are the environment's: an answer has finitely many pieces (the loop of
`recieve_buff_from_socket`, `client_agent.cpp:195`, has no bound of its own, so an agent that never stops
sending keeps the call for ever; `CallReturns` of `AgentClient` does not speak of it), and no two threads share the retry counter, since one whose sends succeed resets the counter of one whose
sends fail. `P2PClient`, `LogPrint` and `JsonTree` state no liveness: their calls have no loop that waits
for another, and how long OsnClient takes is not in this code.

What `text` says of the JSON parser. cJSON takes more for a value than JSON does: a number without a
digit or with a zero in front, any byte behind a backslash, a `\u` without four digits, half a surrogate
pair, and a string whose closing quote is missing at the end of the text. The grammar of `MCText` has
lists, members and separators as JSON has them, and these scalars with the meaning cJSON gives them;
`ParsesJson` says that the parser accepts the texts of this grammar, refuses all others, and returns what
the text denotes. Two things are outside it. A comment is no space to the parser. And `parse_string`
computes the size of its buffer up to the first quote that no backslash is before (`cJSON.c:171`), but
then takes the four characters of a `\u` as they come (`cJSON.c:191`): with a quote among them it goes on
behind what it counted, writes behind the buffer, or leaves the text. `BuffersFit` states the size, and
that the parser stays in the text, for texts without such a `\u` and without a backslash at the end; the
texts with one (`Short`) are in the run for the other properties. `MinifyKeepsItem` is about texts whose
strings and comments are closed, says what exactly is left of them, and that nothing behind them is read.

Violated properties are disagreements between a comment or a document and the code:

* "below variables must be per thread" (`OSN_GW_agent.c:72`), but `send_http_request` passes
  `GW_THREADS_NOTIF` for every thread: a call returns success with another call's answer.
* "until socket ready - overcome curl error code 81" (`OSN_GW_agent.c:512`), but the counter is left
  over when a wait times out: a later request gives up at its first error.
* "On success valid return values ..., on failure the different OSN_ERRORs" (`OzClientAPI.h:235`), but
  the status goes through a static: a call returns the result of another one.
* "Create a signature from : file name, domain, time, id & key" (`ClientAgentEncoder.c:119`), but the
  buffers are static: a request goes out with another request's signature. The gateway agent has the
  same statics and the same comment (`OSN_GW_agent.c:359`).

Other things met while modelling, kept in the models as the code has them, about which no document says
otherwise or which take no interleaving to see:

* The message about an unsupported method has two conversions more than arguments and reads the method as
  an address (`OzClientAPI.cpp:350`): `P2PClient!Crash`.
* For the environments other than prod the domain given to OsnClient is not assigned, the statement is an
  expression (`OzClientAPI.cpp:239`): OsnClient is handed what the stack held. Nothing in the repository
  reads the domain, so the model leaves it out.
* `OzUtils.cpp:8` says of the registration that it sets the print level; it sets the level of `OzUtils.cpp`
  only, every other unit keeps its own (`OzUtils.h:150`): `LogPrint!Register`.
* `clientAgentEncoder` copies its data to the stack before it tests the length
  (`ClientAgentEncoder.c:110`): `AgentClient!Overflow`.
* `parse_string` and `cJSON_Minify` can leave the text, as said above.
* `oz_register_print_callback` always returns `OSN_FAILED` (`OzClientAPI.cpp:420`).
* An array of numbers writes through NULL when its first allocation fails (`cJSON_CreateIntArray`).
* A member whose name could not be allocated is added, and printed, without a name.
* `cJSON_ReplaceItemInObject` overwrites the new item's name: the models count what is lost.
* `create_basic_authrization` is wrong for strings of one and two bytes; nothing calls it.
* The tables: the bound of the customer index is tested with `>` (`OzUtils.cpp:142`).

## Proofs

`GwAgent_proofs` proves for any sets of threads, slots, handles, payloads and accounts:

* `TypeCorrect`: `Spec => []TypeOK`, one step per action.
* `OwnershipCorrect`: if no two threads name the same slot (`PerThreadSlots`), `OwnershipInv` always
  holds. `OwnReply` is not inductive: that an answer belongs to its request rests on what is queued on
  the connection, that on whose handle is in the slot, and that on no other slot holding the handle.
  `HandleInv` (a handle is in one slot, open while there, in no other slot while `curl_easy_perform`
  works on it, and gone between calls) and `RequestInv` (the form, the queue and the answer belong to
  the current request) state that chain.
* `RepliesAreOwn` and `HandlesInUseAreLive`: `OwnReply` and `HandleInUseIsLive` follow, for any number
  of threads and with initialisations at any moment.

The premise `PerThreadSlots` is what the code lacks; `gw_shared_reply` shows that it is needed.

It further proves for any handles, payloads, accounts and retry limit, and any number of threads
that have a slot each and whose initialisations and requests do not overlap: no initialisation begins
during a request, and no request during an initialisation (`Orderly`):

* `SocketsCorrect`, `HandlesAreReleased` and `OwnSocketAwaited`: `SocketInv`, and from it `NoHandleLeak`
  and `WaitsOnOwnSocket`. `OpenInv`: the open handles are in the slots of threads. `SocketOf`: a request
  has its own handle until it is cleaned up, and the socket it waits for is that handle's. `QuietInv`: while
  one thread initialises, every other one is idle, so the slots that the loop of `OSN_GW_init` resets
  hold no handle that could be lost.

Both parts of the premise are needed: TLC finds the handle of a request that is lost to an initialisation
at another moment, also one that began before the request: between the last allocation and the loop over
the slots (`OSN_GW_agent.c:248` and `251`) a request finds its credentials and may get as far as a handle.

And for one thread (`Single`):

* `NothingFreedIsUsed` and `ContentIsSigned`: `NoUseAfterFree` and `SignedContent`. `StringInv` follows the
  strings through both halves of an initialisation (`Stored`) and through `OSN_GW_close` (`Released`): what
  is freed is set anew before anything reads it, and a request past the test of the credentials has all
  of them, of one account. `SignatureInv`: what the static buffers hold between filling, hashing
  and using them is the request's. The ownership of handles is taken from `OwnershipCorrect`.
* `SessionImplemented`: `Spec => ImplementsSession`. Every action maps to a step of `CloudSession` or to a
  stutter; that the session is open exactly while `user_name` is set needs `StringInv`.

One thread is needed for these three: the statics and strings
are shared by all threads, and another thread's success frees them.

`AgentClient_proofs` proves for any finite sets of threads and descriptors, and answers of any length:

* `TypeCorrect` and `EncoderIsReady`: `TypeOK` and `EncoderReady`, proved together and with the fact that
  a running call has a request and no result yet. They need each other: what a signature is made from has its type only
  because the pointers and the time stamp are set by the time they are read, and nothing sets them back.
* `DescriptorsCorrect`: `DescriptorsCounted`. The count alone is not inductive: that `close` takes one
  descriptor away needs `OwnSocket`, that no other running call has the same one.
* `AnswersAreWhole`: `WholePrefix`, from the same statement about the buffer of a call that still reads
  (`ReceiveInv`).

`P2PClient_proofs` proves for any sets of threads, structures, ports and profiles:

* `TypeCorrect`, whatever the application does.
* `InfoIsRight`: `InfoTellsTruth`, with initialisations at any moment. It rests on `OneUser`: no two
  running calls are about the same structure, since the application lets one call have it at a time.
* `ProfilesAreOne` and `AccountsAgree`: `OneProfile` and `SameAccount`, for an application that is `Careful`: it initialises while nothing else runs
  (`QuietInit`) and drops its handle after a failure (`~KeepsHandle`). `ProfileInv` has four parts: how
  far an initialisation has overwritten the environment (`StoreInv`); with a handle and no
  initialisation, the environment, the structure `uuid` points into and what the gateway agent got are of
  one profile (`HandleInv`); what a call has read so far
  is of the profile the environment has (`ReadInv`); what an open tunnel was asked with is of one profile
  (`OpenInv`).
* `TunnelsAreKnown`: `NoLostTunnel`, for an application that makes one call at a time (`OneCaller`, as in
  `oz_client`). `KnownOf` follows one call: every open tunnel is in a structure that the application
  believes open or the call uses, and the static status says what the call is about to conclude. With a
  second thread this is false: its call changes the static status, and a shutdown between OsnClient's
  answer and the return leaves a port nobody should believe in.

`OzClient_proofs` proves for any numbers of threads, workers, cameras, structures, ports and accounts:

* `LibraryIsP2PClient`: `OzSpec => Spec`, a step of a worker being a stutter. With it every theorem about
  `P2PClient` is one about the composition, `TypeOK` and `NoLostTunnel` of the run among them.
* `OwnCameraReached`: `OwnCamera`, for an application that makes its tunnel calls one at a time
  (`OneCaller`) while any number of workers send. `TunnelInv` relates structures, ports and peers: a port
  that a believed structure names has a tunnel to the structure's target, and no two such structures name
  the same one. `LinkInv` says that a worker's link stays of that kind until its request is over.
* `IdentitiesAgree`: `SameIdentity`, for a `Careful` application with any number of threads: on top of
  `ProfileInv`, no initialisation runs under a request, so what `Identity` reads is of the account the
  tunnel in use was opened with (`IdentityInv`).

`LogPrint_proofs` proves for any number of threads and units and any sizes:

* `TypeCorrect`. That the position of a byte is in the buffer is not inductive: `LineInv` says what a
  thread has still to write, so that what it wrote and what is left always make up its line.
* `OutputIsSafe`: `SafeOutput`. The reason is `EndInv`: the last byte of every buffer is zero in every
  state, since a line that reaches it writes the zero there.
* `LinesAreOwn`: `OwnLine`, from `AloneInv`: while a thread has its unit for itself, the buffer holds
  what it wrote.

`JsonTree_proofs` and `JsonOwner_proofs` prove for any number of items and names:

* `ListsLinked`: `Linked`. `LInv` adds that every pointer leads to an allocated item, that no two owners
  have the same first item, and that no first item is held. What `cJSON_Delete` frees is the least set
  closed under the pointers it follows; that no pointer leads into it from outside is proved from its
  minimality, by giving a smaller closed set. The lemmas are about any heap, one per list function, for
  the actions put several of them together.
* `ItemsTyped` and `NamesAreCounted`: `TypeOK` and `NamesCounted`. They need each other: that `names`
  never gets below zero or above its bound follows from the count, `names = Total(heap) + lost`. Each list
  function is shown to keep the names of all items, and what one call frees, copies or renames to change
  the sum by what the action writes; these are facts about cardinalities.
* `ItemsHaveOneOwner`: `OneOwner`. A list is the least set closed under `next`, and no single assignment
  keeps the statement about lists. The inductive invariant `OwnInv` is about cells instead: `Hooked` says
  that an item that is not held follows another or is a first item, `Founded` that no item is part of
  itself. `HookedOwned` gets the lists back: the items in no list would be one another's previous ones,
  and being finitely many they would lead to each other in a circle. `OneList` shows that no item is in
  two lists. `Hooked` of what `cJSON_Duplicate` makes needs that an item is not found in itself
  (`NotInItself`).
* `ListsAreSequences`: `ImplementsForest`, every step of `JsonTree` is a step of `JsonForest` or a
  stutter. `IsList(h, c, s)` says that `s` is the list from `c` on, position by position. In a heap that
  is `Founded` there is one such sequence (`ListExists`; an item without one would be followed by another
  without one, for ever) and no other (`ListUnique`), and it is the one the refinement mapping computes
  (`ListedIs`). So what a list function does to the sequences is shown by naming the new sequence and
  checking its neighbours: `AddKids`, `DetachKids`, `ReplaceKids`. For the lists of all other items
  nothing has changed, since no item is in two lists. `TreeFreed` shows that what `cJSON_Delete` frees,
  following `next` and `child`, is the item and what is below it, and `DuplicateForest` that a copy is one
  new tree. An item never gets below itself (`AddBelow`): whatever can be seen in the list and in the new
  item would lead to each other in a circle.

The attempt to prove `OneOwner` showed that the guards once allowed an item to become part of itself
through a reference, where the library would recurse without end. No property of the run was violated
by it, and the guard is now the one described above.

`Codecs_proofs` proves for strings of every length and of all bytes (`Strings`, the specification of
`CodecText`):

* `UrlRoundTripHolds` and `CutEscapeHolds`: `UrlRoundTrip` and `CutEscape`. `UrlDecode` is a loop over the
  bytes, with a state that says whether a byte is inside an escape. `EncodedSoFar` is what holds after the
  code of every prefix of a string: what is written is the prefix, and nothing is left to skip.
* `Base64CorrectHolds`: `Base64Correct`, with where it writes in a buffer of any size. A digit written at a place has the six bits that the reference
  definition reads at six times that place, one lemma for each of the four places in a group (`Quad`,
  `DigitsBit`), with and without the bytes that a last group lacks.
* `SameEncodingHolds`: `SameEncoding`, that both encoders write the same. `LoopDigits` is about the full
  groups and `LastDigits` about the remainder, which the two handle in different ways.

The induction is over sets of numbers: `Induction` is proved from the least number of a set
(`LeastNumber`), and a statement about all strings is that the set of the lengths for which it holds is
all of them. A recursive function is unfolded by showing that one with its equation exists
(`FlatExists`, `InEscapeIs`).

The assumptions of all theorems are the named ones of the modules on their constants. `FieldsType` of
`P2PClient` and `CellsType` of `JsonTree` say that the value that stands for "nothing" is no record.

Only model-checked:

* What `text` checks about `JsonText` (`ParsesJson`, `RoundTrip`, `BuffersFit`, `MinifyKeepsItem`): the
  parser and the printers are mutually recursive, for which they use RECURSIVE operators, and tlapm proves
  nothing about those.
* Liveness (`gw_single`, `agent_threads`): fairness and ENABLED are out of the prover's reach.

Every other property of a passing run is a theorem.

## Plan

What is left: the parser and the printers of `JsonText` as recursive functions over the positions of a
text, in place of RECURSIVE operators. `Induction` of `Codecs_proofs` would then serve for them as it does
for the codecs, first for the sizes that the printer computes before it writes (`BuffersFit`).

## Not modelled

* The vendored curl and OpenSSL (`curl-android-ios`, `include/openssl`) and the build files. They are more
  than 99 percent of the lines of the repository and none of its logic; libcurl is external in `GwAgent`,
  and SHA-256 is OpenSSL's (the implementation in `sha256.cpp` is not compiled), an identity to the models.
* `OzCommon/api`: builders of example requests, straight sequences of calls of the JSON library.
* The menu of the sample application; its tunnels and requests are those of `OzClient`.
* The value of numbers in JSON that are no small integers, the kind of an item in `JsonTree`, and
  `cJSON_InitHooks`; the aligned allocations of `OZ_memory.c`. Nothing calls the last two.
* The code under `V1_ON` and `AUTO_P2P`, which is not compiled; `oz_setPermission`, whose variable nothing
  reads.
* How large the caller's `recvBuf` is (`client_agent.cpp:204`), and the blocks a second `OSN_GW_init`
  leaks (`OSN_GW_agent.c:217`): both follow from the lines themselves.
