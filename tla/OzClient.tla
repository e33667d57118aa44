------------------------------ MODULE OzClient ------------------------------
(***************************************************************************)
(* The client library as an application uses it: tunnels to several        *)
(* cameras, opened and closed through the P2P client API on the threads of *)
(* P2PClient, and requests sent through them by the agent client on other  *)
(* threads.  The two meet in the environment, whose uuid and user_id the   *)
(* requests are signed with, in the tunnel-info structures, and in the     *)
(* local ports: whoever connects to one talks to the camera behind it.     *)
(*                                                                         *)
(* An application shuts down before it initialises again (as the comment   *)
(* of oz_createTunnel in OzClientAPI.h says), and closes, shuts down and   *)
(* initialises while no request needs what goes away.  It takes the port   *)
(* of a request from the structure whose oz_createTunnel reported success. *)
(***************************************************************************)
EXTENDS P2PClient, FiniteSets

CONSTANTS
  Workers,  \* the threads that send requests to cameras
  Cameras,  \* the device ids
  Sockets   \* the socket descriptors the process may have open

ASSUME SocketsType == IsFiniteSet(Sockets) /\ IsFiniteSet(Workers)
ASSUME PartsType == NULL \notin Workers \cup Sockets \cup (Workers \X Cameras)

VARIABLES
  target,  \* the application: the device id it last created a structure for
  peer,    \* OsnClient: the camera behind a local port
  link,    \* the tunnel a running request goes through

  inPtr, outPtr, inBlock, outBlock, stamp, open, failures,        \* AgentClient
  stage, req, sock, message, sent, buf, arrived, response

agent == <<inPtr, outPtr, inBlock, outBlock, stamp, open, failures,
           stage, req, sock, message, sent, buf, arrived, response>>

allvars == <<vars, target, peer, link, agent>>

(* The identity a request is signed with, as the environment has it now.   *)
Identity == <<env["user_id"], Uuid>>

(* The agent client: the data of a request is the device id it is for, and *)
(* never too long.                                                         *)
Agent == INSTANCE AgentClient WITH
  Threads <- Workers, Payloads <- Cameras, LongData <- {}, Users <- Source \X Source, Fds <- Sockets,
  MaxChunks <- 1, QuietEnv <- TRUE, who <- Identity, pc <- stage, result <- response

-----------------------------------------------------------------------------
NoLink == [info |-> NULL, port |-> NULL, camera |-> NULL, account |-> NULL]

OzInit ==
  /\ Init
  /\ Agent!Init
  /\ target = [i \in Infos |-> NULL]
  /\ peer = [p \in LocalPorts |-> NULL]
  /\ link = [w \in Workers |-> NoLink]

Serving(i) == \E w \in Workers : link[w].info = i

Quiet == \A w \in Workers : stage[w] = "idle"

-----------------------------------------------------------------------------
(* The threads that open and close tunnels.                                *)

(* A tunnel that comes up leads to the camera it was asked for. *)
Connected(t) ==
  peer' = [p \in LocalPorts |->
             CASE tunnels'[p] = NULL -> NULL
               [] tunnels[p] # NULL  -> peer[p]
               [] OTHER              -> target[using[t]]]

Open(t) ==
  /\ CreateCall(t)
  /\ \E c \in Cameras : target' = [target EXCEPT ![using'[t]] = c]
  /\ UNCHANGED peer

(* Calls that take away what a request may need. *)
Disturb(t) ==
  /\ \/ Quiet /\ ~started /\ (InitLookup(t) \/ InitLookupFails(t))
     \/ Quiet /\ ShutdownCall(t)
     \/ DestroyCall(t) /\ ~Serving(using'[t])
  /\ UNCHANGED <<target, peer>>

(* All other steps of P2PClient. *)
Continue(t) ==
  /\ \/ InitStore(t) \/ InitSelect(t) \/ Startup(t) \/ StartupFails(t) \/ CloudInit(t)
     \/ CreateWrongType(t) \/ CreateMethod(t) \/ CreateDomain(t) \/ AskTunnel(t)
     \/ TunnelUp(t) \/ TunnelFails(t) \/ CreateReturn(t) \/ SelectP2P(t) \/ ReleaseData(t)
     \/ Reject(t) \/ Destroy(t) \/ Shutdown(t) \/ CallFails(t) \/ Crash(t)
  /\ Connected(t)
  /\ UNCHANGED target

Control(t) ==
  /\ Open(t) \/ Disturb(t) \/ Continue(t)
  /\ UNCHANGED <<link, agent>>

-----------------------------------------------------------------------------
(* The threads that send requests.                                         *)

(* oz_agentSendRequestAndGetResponse(handle, device_id, ..., localPort, ...) *)
Request(w) ==
  /\ ~Initialising /\ \A t \in Threads : pc[t] # "shutdown"
  /\ handle = "OZ_HANDLE"
  /\ \E i \in Infos :
       /\ believed[i] /\ ~InUse(i)
       /\ link' = [link EXCEPT ![w] = [NoLink EXCEPT !.info = i, !.port = info[i].port]]
       /\ Agent!Call(w)
       /\ req'[w] = <<w, target[i]>>

(* Somebody listens on the port: it is the end of a tunnel that is open. *)
Reachable(w) == \E p \in LocalPorts : p = link[w].port /\ tunnels[p] # NULL

Dial(w) ==
  /\ Reachable(w)
  /\ link' = [link EXCEPT ![w].camera = peer[link[w].port],
                          ![w].account = tunnels[link[w].port]["user_id"]]
  /\ Agent!Connect(w)

(* The camera answers while the tunnel is open. *)
Exchange(w) ==
  \/ Agent!CreateSocket(w) \/ Agent!Encode(w) \/ Agent!Send(w) \/ Agent!ClearBuffer(w)
  \/ Reachable(w) /\ Agent!RecvPiece(w)

Finish(w) ==
  \/ Agent!NoSocket(w) \/ Agent!RecvEnds(w) \/ Agent!NoAnswer(w)
  \/ \E from \in {"connect", "send"} : Agent!Fail(w, from)

Work(w) ==
  /\ UNCHANGED <<vars, target, peer>>
  /\ \/ Request(w)
     \/ Dial(w)
     \/ Exchange(w) /\ UNCHANGED link
     \/ Finish(w) /\ link' = [link EXCEPT ![w] = NoLink]

OzNext ==
  /\ ~crashed
  /\ (\E t \in Threads : Control(t)) \/ (\E w \in Workers : Work(w))

OzSpec == OzInit /\ [][OzNext]_allvars

-----------------------------------------------------------------------------
(* Properties.                                                             *)

(* A request that is in a tunnel.                                          *)
Underway(w) == stage[w] \in {"send", "clear", "recv"} /\ message[w] # NULL

(* A request reaches no other camera than the one it names, although local *)
(* ports are used again and the status oz_createTunnel returns may be      *)
(* another call's: a structure whose tunnel was not opened has no port.    *)
OwnCamera ==
  \A w \in Workers : Underway(w) => message[w].body.req[2] = link[w].camera

(* A request carries the identity of the account its tunnel was opened     *)
(* with, also when the library was shut down and initialised for another   *)
(* account: both the user, which was copied, and the uuid, which is read   *)
(* from a structure of the application that may be filled again.           *)
SameIdentity ==
  \A w \in Workers : Underway(w) =>
    message[w].body.who = <<link[w].account, link[w].account>>
=============================================================================
