--------------------------- MODULE OzClient_proofs ---------------------------
(***************************************************************************)
(* Theorems about OzClient, for any workers, cameras, structures, ports    *)
(* and profiles, and an application that opens and closes its tunnels on   *)
(* one thread.                                                             *)
(***************************************************************************)
EXTENDS OzClient, P2PClient_proofs

(* A worker has asked for the connection and got it. *)
Dialled == {"encode", "alloc_out", "set_out", "stamp", "alloc_in", "set_in", "sign", "digest",
            "form", "send", "clear", "recv"}

Links == [info : Infos \cup {NULL}, port : LocalPorts \cup {NULL},
          camera : Cameras \cup {NULL}, account : Source]

LinkType ==
  /\ stage \in [Workers -> Dialled \cup {"idle", "socket", "connect"}]
  /\ link \in [Workers -> Links]
  /\ DOMAIN req = Workers
  /\ DOMAIN message = Workers

WorkerType ==
  /\ LinkType
  /\ target \in [Infos -> Cameras \cup {NULL}]
  /\ peer \in [LocalPorts -> Cameras \cup {NULL}]

-----------------------------------------------------------------------------
(* The parts.                                                              *)

(* What the thread t of the application does in a step. *)
Acts(t) ==
  \/ Crash(t) \/ Initialise(t) \/ CreateTunnel(t) \/ SelectP2P(t) \/ ReleaseData(t)
  \/ Reject(t) \/ DestroyCall(t) \/ Destroy(t) \/ ShutdownCall(t) \/ Shutdown(t) \/ CallFails(t)

LEMMA ControlActs == \A t \in Threads : Control(t) => Acts(t)
  BY DEF Control, Open, Disturb, Continue, Acts, Initialise, CreateTunnel

LEMMA OzNextIsNext == [OzNext]_allvars => [Next]_vars
  <1>1. UNCHANGED allvars => UNCHANGED vars
    BY DEF allvars
  <1>2. ASSUME NEW w \in Workers, Work(w) PROVE UNCHANGED vars
    BY <1>2 DEF Work
  <1>3. ASSUME ~crashed, NEW t \in Threads, Control(t) PROVE Next
    BY <1>3, ControlActs DEF Acts, Next
  <1> QED BY <1>1, <1>2, <1>3 DEF OzNext

(* The library with requests in its tunnels is the P2P client API: what is *)
(* proved of P2PClient holds of OzClient.                                  *)
THEOREM LibraryIsP2PClient == OzSpec => Spec
  <1>1. OzInit => Init
    BY DEF OzInit
  <1> QED BY <1>1, OzNextIsNext, PTL DEF OzSpec, Spec

-----------------------------------------------------------------------------
(* What the steps of a worker are to the invariants.                       *)

OthersWork(w) ==
  \A v \in Workers \ {w} :
    stage'[v] = stage[v] /\ req'[v] = req[v] /\ message'[v] = message[v] /\ link'[v] = link[v]

(* It takes the port of a structure that names a tunnel.                   *)
Asks(w) ==
  /\ stage[w] = "idle" /\ stage'[w] = "socket" /\ message'[w] = message[w]
  /\ handle = "OZ_HANDLE"
  /\ \A t \in Threads : pc[t] \notin InInit \cup {"shutdown"}
  /\ \E i \in Infos :
       /\ believed[i] /\ ~InUse(i) /\ req'[w][2] = target[i]
       /\ link'[w] \in Links /\ link'[w].info = i /\ link'[w].port = info[i].port

Dials(w) ==
  /\ stage[w] = "connect" /\ stage'[w] = "encode"
  /\ req'[w] = req[w] /\ message'[w] = message[w]
  /\ link[w].port \in LocalPorts /\ tunnels[link[w].port] # NULL
  /\ link'[w] = [link[w] EXCEPT !.camera = peer[link[w].port],
                                !.account = tunnels[link[w].port]["user_id"]]

Talks(w) ==
  /\ stage[w] # "idle" /\ stage'[w] # "idle"
  /\ stage[w] \in Dialled <=> stage'[w] \in Dialled
  /\ req'[w] = req[w] /\ link'[w] = link[w]
  /\ \/ message'[w] = message[w]
     \/ /\ stage[w] = "form"
        /\ message'[w].body.req = req[w] /\ message'[w].body.who = Identity

Ends(w) ==
  /\ stage[w] # "idle" /\ stage'[w] = "idle"
  /\ message'[w] = NULL /\ link'[w] = NoLink

WorkStep(w) == OthersWork(w) /\ (Asks(w) \/ Dials(w) \/ Talks(w) \/ Ends(w))

LEMMA LinkStep ==
  ASSUME TypeOK, WorkerType, NEW w \in Workers, Request(w)
  PROVE  Asks(w) /\ OthersWork(w) /\ LinkType'
  <1>1. PICK i \in Infos :
          /\ believed[i] /\ ~InUse(i)
          /\ link' = [link EXCEPT ![w] = [NoLink EXCEPT !.info = i, !.port = info[i].port]]
          /\ Agent!Call(w)
          /\ req'[w] = <<w, target[i]>>
    BY DEF Request
  <1>2. NoLink \in Links /\ info[i].port \in LocalPorts \cup {NULL}
    BY DEF NoLink, Links, Source, TypeOK
  <1>3. link'[w] \in Links /\ link'[w].info = i /\ link'[w].port = info[i].port
    BY <1>1, <1>2 DEF WorkerType, LinkType, Links
  <1>4. /\ stage[w] = "idle" /\ stage'[w] = "socket" /\ message' = message
        /\ req'[w][2] = target[i]
        /\ \A v \in Workers \ {w} : stage'[v] = stage[v] /\ req'[v] = req[v]
    BY <1>1 DEF Agent!Call, Agent!Goto, WorkerType, LinkType
  <1>5. \A v \in Workers \ {w} : link'[v] = link[v]
    BY <1>1 DEF WorkerType, LinkType
  <1>6. /\ handle = "OZ_HANDLE"
        /\ \A t \in Threads : pc[t] \notin InInit \cup {"shutdown"}
    BY DEF Request, Initialising, InInit
  <1>7. LinkType'
    <2>1. \A v \in Workers : link'[v] \in Links
      BY <1>3, <1>5 DEF WorkerType, LinkType
    <2>2. link' \in [Workers -> Links]
      BY <1>1, <2>1 DEF WorkerType, LinkType
    <2>3. stage' = [stage EXCEPT ![w] = "socket"] /\ \E d : req' = [req EXCEPT ![w] = <<w, d>>]
      BY <1>1 DEF Agent!Call, Agent!Goto
    <2> QED BY <1>4, <2>2, <2>3 DEF WorkerType, LinkType
  <1> QED BY <1>1, <1>3, <1>4, <1>5, <1>6, <1>7 DEF Asks, OthersWork

LEMMA DialStep ==
  ASSUME TypeOK, WorkerType, NEW w \in Workers, Dial(w)
  PROVE  Dials(w) /\ OthersWork(w) /\ LinkType'
  <1>1. link' = [link EXCEPT ![w].camera = peer[link[w].port],
                             ![w].account = tunnels[link[w].port]["user_id"]]
    BY DEF Dial
  <1>2. link[w] \in Links
    BY DEF WorkerType, LinkType
  <1>3. /\ link'[w] = [link[w] EXCEPT !.camera = peer[link[w].port],
                                      !.account = tunnels[link[w].port]["user_id"]]
        /\ \A v \in Workers \ {w} : link'[v] = link[v]
    BY <1>1, <1>2 DEF WorkerType, LinkType
  <1>4. /\ stage[w] = "connect" /\ stage'[w] = "encode" /\ req' = req /\ message' = message
        /\ \A v \in Workers \ {w} : stage'[v] = stage[v]
    BY DEF Dial, Agent!Connect, Agent!Step, Agent!Goto, Agent!locals, WorkerType, LinkType
  <1>5. link[w].port \in LocalPorts /\ tunnels[link[w].port] # NULL
    BY DEF Dial, Reachable
  <1>6. LinkType'
    <2>1. peer[link[w].port] \in Cameras \cup {NULL}
      BY <1>5 DEF WorkerType
    <2>2. tunnels[link[w].port]["user_id"] \in Source
      BY <1>5 DEF TypeOK, TunnelFields
    <2>3. link'[w] \in Links
      BY <1>2, <1>3, <2>1, <2>2 DEF Links
    <2>4. link' \in [Workers -> Links]
      BY <1>1, <1>3, <2>3 DEF WorkerType, LinkType
    <2>5. stage' = [stage EXCEPT ![w] = "encode"]
      BY DEF Dial, Agent!Connect, Agent!Step, Agent!Goto
    <2> QED BY <1>4, <2>4, <2>5 DEF WorkerType, LinkType, Dialled
  <1> QED BY <1>3, <1>4, <1>5, <1>6 DEF Dials, OthersWork

LEMMA ExchangeStep ==
  ASSUME WorkerType, NEW w \in Workers, Exchange(w), UNCHANGED <<env, link>>
  PROVE  Talks(w) /\ OthersWork(w) /\ LinkType'
  <1> USE DEF Agent!Step, Agent!Goto, Agent!locals, Agent!statics, WorkerType, LinkType
  <1>1. CASE Agent!CreateSocket(w)
    BY <1>1 DEF Agent!CreateSocket, Talks, OthersWork, Dialled
  <1>2. CASE Agent!Send(w) \/ Agent!ClearBuffer(w) \/ Agent!RecvPiece(w)
    <2>1. /\ UNCHANGED <<req, message>>
          /\ stage[w] \in {"send", "clear", "recv"}
          /\ \E to \in {"clear", "recv"} : stage' = [stage EXCEPT ![w] = to]
      BY <1>2 DEF Agent!Send, Agent!ClearBuffer, Agent!RecvPiece
    <2> QED BY <2>1 DEF Talks, OthersWork, Dialled
  <1>3. CASE Agent!CreateParameters(w)
    <2>1. /\ stage[w] = "form" /\ stage' = [stage EXCEPT ![w] = "send"] /\ req' = req
          /\ message' = [message EXCEPT ![w] = [body |-> Agent!Content(w),
                                                sig |-> outBlock[outPtr]]]
      BY <1>3 DEF Agent!CreateParameters
    <2>2. message'[w].body = Agent!Content(w)
      BY <2>1
    <2>3. message'[w].body.req = req[w] /\ message'[w].body.who = Identity
      BY <2>2 DEF Agent!Content
    <2> QED BY <2>1, <2>3 DEF Talks, OthersWork, Dialled
  <1>4. CASE Agent!Encode(w) /\ ~Agent!CreateParameters(w)
    <2>1. /\ UNCHANGED <<req, message>>
          /\ \E from, to \in Dialled :
               stage[w] = from /\ stage' = [stage EXCEPT ![w] = to]
      <3>1. CASE Agent!CheckArguments(w)
        BY <3>1 DEF Agent!CheckArguments, Dialled
      <3>2. CASE Agent!TestOutPtr(w)
        BY <3>2 DEF Agent!TestOutPtr, Dialled
      <3>3. CASE Agent!SetOutPtr(w) \/ Agent!CreateTimestamp(w) \/ Agent!SetInPtr(w)
        BY <3>3 DEF Agent!SetOutPtr, Agent!CreateTimestamp, Agent!SetInPtr, Dialled
      <3>4. CASE Agent!TestInPtr(w)
        BY <3>4 DEF Agent!TestInPtr, Dialled
      <3>5. CASE Agent!FillSignature(w) \/ Agent!Digest(w)
        BY <3>5 DEF Agent!FillSignature, Agent!Digest, Dialled
      <3> QED
        BY <1>4, <3>1, <3>2, <3>3, <3>4, <3>5 DEF Agent!Encode
    <2> QED BY <2>1 DEF Talks, OthersWork, Dialled
  <1> QED BY <1>1, <1>2, <1>3, <1>4 DEF Exchange

LEMMA FinishStep ==
  ASSUME WorkerType, NEW w \in Workers, Finish(w), link' = [link EXCEPT ![w] = NoLink]
  PROVE  Ends(w) /\ OthersWork(w) /\ LinkType'
  <1>1. \E from \in {"socket", "connect", "send", "recv"} : \E r : Agent!Return(w, from, r)
    BY DEF Finish, Agent!NoSocket, Agent!RecvEnds, Agent!NoAnswer, Agent!Fail
  <1>2. /\ stage[w] # "idle" /\ stage' = [stage EXCEPT ![w] = "idle"]
        /\ message' = [message EXCEPT ![w] = NULL] /\ req' = [req EXCEPT ![w] = NULL]
    BY <1>1 DEF Agent!Return, Agent!Goto
  <1>3. NoLink \in Links
    BY DEF NoLink, Links, Source
  <1> QED BY <1>2, <1>3 DEF Ends, OthersWork, WorkerType, LinkType

LEMMA WorkSteps ==
  ASSUME TypeOK, WorkerType, NEW w \in Workers, Work(w)
  PROVE  WorkStep(w) /\ WorkerType'
  <1>1. UNCHANGED env
    BY DEF Work, vars, library
  <1>2. WorkStep(w) /\ LinkType'
    BY <1>1, LinkStep, DialStep, ExchangeStep, FinishStep DEF Work, WorkStep
  <1>3. UNCHANGED <<target, peer>>
    BY DEF Work
  <1> QED BY <1>2, <1>3 DEF WorkerType

-----------------------------------------------------------------------------
(* Types.                                                                  *)

LEMMA InitWorkers == OzInit => WorkerType
  <1> SUFFICES ASSUME OzInit PROVE WorkerType
    OBVIOUS
  <1>1. NoLink \in Links
    BY DEF NoLink, Links, Source
  <1> QED BY <1>1 DEF OzInit, Agent!Init, WorkerType, LinkType

(* The camera behind a port does not change while its tunnel is open, and  *)
(* only OsnClient's answer opens one.                                      *)
PeersKept == \A p \in LocalPorts : tunnels[p] # NULL /\ tunnels'[p] # NULL => peer'[p] = peer[p]

LEMMA OldPeers ==
  ASSUME NEW t \in Threads, Connected(t) \/ peer' = peer
  PROVE  PeersKept
  BY DEF Connected, PeersKept

(* Only OsnClient's answer opens a tunnel. *)
LEMMA NoNewTunnel ==
  ASSUME TypeOK, NEW t \in Threads, Acts(t), ~TunnelUp(t), NEW p \in LocalPorts, tunnels[p] = NULL
  PROVE  tunnels'[p] = NULL
  <1> USE DEF Acts, Initialise, CreateTunnel, osn, vars
  <1>1. CASE Destroy(t) \/ Shutdown(t)
    BY <1>1 DEF Destroy, Shutdown
  <1>2. CASE ~Destroy(t) /\ ~Shutdown(t)
    <2>1. UNCHANGED tunnels
      BY <1>2
      DEF Crash, InitLookup, InitLookupFails, InitStore, InitSelect, Startup, StartupFails,
          CloudInit, SelectP2P, ReleaseData, Reject, CreateCall, CreateWrongType, CreateMethod, CreateDomain,
          AskTunnel, TunnelFails, CreateReturn, DestroyCall, ShutdownCall, CallFails
    <2> QED BY <2>1
  <1> QED BY <1>1, <1>2

LEMMA ControlTypes ==
  ASSUME TypeInv, WorkerType, NEW t \in Threads, Control(t)
  PROVE  WorkerType'
  <1> USE DEF TypeInv
  <1>1. LinkType'
    BY DEF Control, agent, WorkerType, LinkType
  <1>2. target' \in [Infos -> Cameras \cup {NULL}]
    BY DEF Control, Open, Disturb, Continue, WorkerType
  <1>3. peer' \in [LocalPorts -> Cameras \cup {NULL}]
    <2>1. CASE peer' = peer
      BY <2>1 DEF WorkerType
    <2>2. CASE Connected(t)
      <3>1. \A p \in LocalPorts :
              tunnels[p] = NULL /\ tunnels'[p] # NULL => using[t] \in Infos
        BY NoNewTunnel, ControlActs DEF TunnelUp, Answer, Goto, UsingInv, Creating
      <3>2. peer' = [p \in LocalPorts |-> peer'[p]]
        BY <2>2 DEF Connected
      <3>3. ASSUME NEW p \in LocalPorts PROVE peer'[p] \in Cameras \cup {NULL}
        BY <2>2, <3>1 DEF Connected, WorkerType
      <3> QED BY <3>2, <3>3
    <2> QED BY <2>1, <2>2 DEF Control, Open, Disturb, Continue
  <1> QED BY <1>1, <1>2, <1>3 DEF WorkerType

-----------------------------------------------------------------------------
(* The tunnels: an application that makes one call at a time.              *)

(* The structures that the application or its call names lead, over        *)
(* different ports, to the cameras they were created for.                  *)
TunnelOf(t) ==
  /\ \A i \in Infos : Names(i, t) /\ info[i].port # NULL =>
       tunnels[info[i].port] # NULL /\ peer[info[i].port] = target[i]
  /\ \A i, j \in Infos :
       Names(i, t) /\ Names(j, t) /\ info[i].port = info[j].port /\ info[i].port # NULL => i = j
  /\ pc[t] \in Creating => ~believed[using[t]]

LEMMA StepTunnel ==
  ASSUME OneCaller, TypeInv, WorkerType, NEW t \in Threads, KnownOf(t), TunnelOf(t), Control(t)
  PROVE  TunnelOf(t)'
  <1>0. \A i : InUse(i) <=> using[t] = i
    BY DEF OneCaller, InUse
  <1> USE NullType
  <1> USE DEF TypeInv, TypeOK, UsingInv, Creating, library, osn, app, tunnelInfo, collectData, caller, locals
  <1>1. PeersKept
    BY OldPeers DEF Control, Open, Disturb, Continue
  <1>2. CASE Open(t)
    <2>1. PICK i \in Infos :
            /\ ~believed[i] /\ using[t] # i /\ pc[t] = "idle"
            /\ using' = [using EXCEPT ![t] = i]
            /\ info' = [info EXCEPT ![i] = NoTunnel]
            /\ UNCHANGED <<tunnels, believed>>
      BY <1>0, <1>2 DEF Open, CreateCall, Enter, Goto, Cleared
    <2>2. UNCHANGED peer /\ \A j \in Infos \ {i} : target'[j] = target[j]
      BY <1>2, <2>1 DEF Open, WorkerType
    <2>3. info'[i].port = NULL /\ using'[t] = i
      BY <2>1 DEF NoTunnel
    <2>4. ASSUME NEW j \in Infos, believed'[j] \/ using'[t] = j, info'[j].port # NULL
          PROVE  j # i /\ Names(j, t) /\ info'[j] = info[j] /\ target'[j] = target[j]
      BY <2>1, <2>2, <2>3, <2>4 DEF Names
    <2> QED BY <2>1, <2>2, <2>3, <2>4 DEF TunnelOf, Names
  <1>3. CASE Disturb(t)
    <2>1. UNCHANGED <<target, peer, tunnels, info, believed>>
      BY <1>3 DEF Disturb, InitLookup, InitLookupFails, LeaveInit, ShutdownCall, DestroyCall
    <2>2. CASE InitLookup(t) \/ InitLookupFails(t) \/ ShutdownCall(t)
      <3>1. (using'[t] = using[t] \/ using'[t] = NULL) /\ pc'[t] \notin Creating
        BY <2>2 DEF InitLookup, InitLookupFails, LeaveInit, ShutdownCall, Enter, Goto
      <3> QED BY <2>1, <3>1 DEF TunnelOf, Names
    <2>3. CASE DestroyCall(t)
      <3>1. PICK i \in Infos :
              /\ believed[i] /\ using' = [using EXCEPT ![t] = i]
              /\ pc' = [pc EXCEPT ![t] = "destroy"]
        BY <2>3 DEF DestroyCall, Enter, Goto
      <3>2. \A j \in Infos : believed'[j] \/ using'[t] = j => Names(j, t)
        BY <2>1, <3>1 DEF Names
      <3> QED BY <2>1, <3>1, <3>2 DEF TunnelOf, Names
    <2> QED BY <1>3, <2>2, <2>3 DEF Disturb
  <1>4. CASE /\ Continue(t)
             /\ \/ InitStore(t) \/ InitSelect(t) \/ Startup(t) \/ StartupFails(t) \/ CloudInit(t)
                \/ CreateMethod(t) \/ CreateDomain(t) \/ AskTunnel(t) \/ TunnelFails(t)
                \/ SelectP2P(t) \/ ReleaseData(t) \/ Reject(t) \/ Crash(t)
    <2>1. UNCHANGED <<target, using, tunnels, info, believed>>
      BY <1>4
      DEF Continue, InitStore, InitSelect, Startup, StartupFails, CloudInit, LeaveInit,
          CreateMethod, CreateDomain, AskTunnel, TunnelFails, Answer, SelectP2P, ReleaseData, Reject, Crash
    <2>2. pc'[t] \in Creating => pc[t] \in Creating
      BY <1>4
      DEF Continue, InitStore, InitSelect, Startup, StartupFails, CloudInit, LeaveInit, Goto,
          CreateMethod, CreateDomain, AskTunnel, TunnelFails, Answer, SelectP2P, ReleaseData, Reject, Crash
    <2>3. \A i \in Infos : Names(i, t)' <=> Names(i, t)
      BY <2>1 DEF Names
    <2>4. ASSUME NEW i \in Infos, Names(i, t)', info'[i].port # NULL
          PROVE  tunnels'[info'[i].port] # NULL /\ peer'[info'[i].port] = target'[i]
      <3>1. /\ tunnels[info[i].port] # NULL /\ peer[info[i].port] = target[i]
            /\ info[i].port # NULL
        BY <2>1, <2>3, <2>4 DEF TunnelOf
      <3>2. info[i].port \in LocalPorts
        BY <3>1
      <3>3. peer'[info[i].port] = peer[info[i].port]
        BY <1>1, <2>1, <3>1, <3>2 DEF PeersKept
      <3> QED BY <2>1, <3>1, <3>3
    <2>5. \A i, j \in Infos :
            /\ Names(i, t)' /\ Names(j, t)' /\ info'[i].port = info'[j].port
            /\ info'[i].port # NULL
            => i = j
      BY <2>1, <2>3 DEF TunnelOf
    <2>6. pc'[t] \in Creating => ~believed'[using'[t]]
      BY <2>1, <2>2 DEF TunnelOf
    <2> QED BY <2>4, <2>5, <2>6 DEF TunnelOf
  <1>5. CASE Continue(t) /\ CreateWrongType(t)
    <2>1. PICK i \in Infos :
            /\ ~believed[i] /\ using[t] # i
            /\ info' = [info EXCEPT ![i] = [Cleared(i) EXCEPT !.status = "OSN_ERROR_TUNNEL_TYPE"]]
            /\ UNCHANGED <<pc, using, tunnels, believed>>
      BY <1>0, <1>5 DEF CreateWrongType, MayCall
    <2>2. \A j \in Infos : (believed'[j] \/ using'[t] = j) <=> Names(j, t)
      BY <2>1 DEF Names
    <2>3. \A j \in Infos : Names(j, t) => info'[j] = info[j]
      BY <2>1 DEF Names
    <2>4. UNCHANGED target
      BY <1>5 DEF Continue
    <2>5. \A j \in Infos : Names(j, t) /\ info[j].port # NULL =>
            peer'[info[j].port] = peer[info[j].port]
      BY <1>1, <2>1 DEF TunnelOf, PeersKept
    <2>6. \A j \in Infos : (Names(j, t))' <=> Names(j, t)
      BY <2>2 DEF Names
    <2>7. ASSUME NEW j \in Infos, Names(j, t)', info'[j].port # NULL
          PROVE  tunnels'[info'[j].port] # NULL /\ peer'[info'[j].port] = target'[j]
      <3>1. Names(j, t) /\ info'[j] = info[j] /\ info[j].port # NULL
        BY <2>3, <2>6, <2>7
      <3>2. tunnels[info[j].port] # NULL /\ peer[info[j].port] = target[j]
        BY <3>1 DEF TunnelOf
      <3> QED BY <2>1, <2>4, <2>5, <3>1, <3>2
    <2>8. \A j, k \in Infos :
            /\ Names(j, t)' /\ Names(k, t)' /\ info'[j].port = info'[k].port
            /\ info'[j].port # NULL
            => j = k
      BY <2>3, <2>6 DEF TunnelOf
    <2>9. pc'[t] \in Creating => ~believed'[using'[t]]
      BY <2>1 DEF TunnelOf
    <2> QED BY <2>7, <2>8, <2>9 DEF TunnelOf
  <1>6. CASE Continue(t) /\ TunnelUp(t)
    <2>1. PICK p \in LocalPorts :
            /\ pc[t] = "wait"
            /\ tunnels[p] = NULL /\ tunnels' = [tunnels EXCEPT ![p] = uses[t]]
            /\ info' = [info EXCEPT ![using[t]] = [port |-> p, status |-> "OSN_OK"]]
            /\ UNCHANGED <<using, believed>>
      BY <1>6 DEF TunnelUp, Answer, Goto
    <2>2. PICK i \in Infos : i = using[t] /\ info'[i].port = p /\ ~believed[i]
      BY <2>1 DEF TunnelOf
    <2>3. tunnels'[p] # NULL /\ peer'[p] = target[i] /\ target' = target
      <3>1. uses[t] # NULL
        BY FieldsType
      <3> QED BY <1>6, <2>1, <2>2, <3>1 DEF Continue, Connected
    <2>4. ASSUME NEW j \in Infos, j # i, Names(j, t), info[j].port # NULL
          PROVE  /\ info'[j] = info[j] /\ info[j].port # p
                 /\ tunnels'[info[j].port] # NULL /\ peer'[info[j].port] = target[j]
      BY <1>1, <2>1, <2>2, <2>4 DEF TunnelOf, PeersKept
    <2>5. ASSUME NEW j \in Infos, j # i, believed'[j] \/ using'[t] = j
          PROVE  Names(j, t) /\ info'[j] = info[j]
      BY <2>1, <2>2, <2>5 DEF Names
    <2>6. pc'[t] \in Creating => ~believed'[using'[t]]
      BY <2>1, <2>2
    <2> QED BY <2>1, <2>2, <2>3, <2>4, <2>5, <2>6 DEF TunnelOf, Names
  <1>7. CASE Continue(t) /\ CreateReturn(t)
    <2>1. /\ pc[t] = "return" /\ pc'[t] = "idle" /\ using'[t] = NULL
          /\ believed' = [believed EXCEPT ![using[t]] = (status = "OSN_OK")]
          /\ UNCHANGED <<info, tunnels, target>>
      BY <1>7 DEF Continue, CreateReturn, Leave, Goto
    <2>2. \A j \in Infos : believed'[j] => Names(j, t)
      BY <2>1 DEF Names
    <2> QED BY <1>1, <2>1, <2>2 DEF TunnelOf, Names, PeersKept
  <1>8. CASE Continue(t) /\ Destroy(t)
    <2>1. /\ pc[t] = "destroy" /\ pc'[t] = "idle" /\ using'[t] = NULL
          /\ tunnels' = [p \in LocalPorts |-> IF p = info[using[t]].port THEN NULL ELSE tunnels[p]]
          /\ believed' = [believed EXCEPT ![using[t]] = FALSE]
          /\ UNCHANGED <<info, target>>
      BY <1>8 DEF Continue, Destroy, Leave, Goto
    <2>2. \A j \in Infos : believed'[j] => j # using[t] /\ Names(j, t)
      BY <2>1 DEF Names
    <2>3. \A j \in Infos : believed'[j] /\ info[j].port # NULL => info[j].port # info[using[t]].port
      BY <2>1, <2>2 DEF TunnelOf, Names
    <2>4. \A j \in Infos : believed'[j] /\ info[j].port # NULL =>
            tunnels'[info[j].port] = tunnels[info[j].port] /\ info[j].port \in LocalPorts
      BY <2>1, <2>3
    <2>5. \A j \in Infos : believed'[j] /\ info[j].port # NULL =>
            tunnels'[info[j].port] # NULL /\ peer'[info[j].port] = target[j]
      BY <1>1, <2>2, <2>4 DEF TunnelOf, PeersKept
    <2>6. \A j \in Infos : (Names(j, t))' => believed'[j] /\ Names(j, t)
      BY <2>1, <2>2 DEF Names
    <2> QED BY <2>1, <2>5, <2>6 DEF TunnelOf
  <1>9. CASE Continue(t) /\ Shutdown(t)
    <2>1. pc'[t] = "idle" /\ using'[t] = NULL /\ \A i \in Infos : ~believed'[i]
      BY <1>9 DEF Shutdown, Leave, Goto
    <2> QED BY <2>1 DEF TunnelOf, Names
  <1>10. CASE Continue(t) /\ CallFails(t)
    <2>1. Leave(t, "shutdown") \/ Leave(t, "destroy")
      BY <1>10 DEF CallFails
    <2>2. /\ pc'[t] = "idle" /\ using'[t] = NULL
          /\ UNCHANGED <<info, tunnels, believed, target>>
      BY <1>10, <2>1 DEF Continue, CallFails, Leave, Goto
    <2>3. \A j \in Infos : believed'[j] => Names(j, t)
      BY <2>2 DEF Names
    <2>4. \A j \in Infos : Names(j, t) /\ info[j].port # NULL =>
            peer'[info[j].port] = peer[info[j].port]
      BY <1>1, <2>2 DEF TunnelOf, PeersKept
    <2>5. \A j \in Infos : (Names(j, t))' => Names(j, t)
      BY <2>2, <2>3 DEF Names
    <2> QED BY <2>2, <2>4, <2>5 DEF TunnelOf
  <1> QED
    BY <1>2, <1>3, <1>4, <1>5, <1>6, <1>7, <1>8, <1>9, <1>10 DEF Control, Continue

-----------------------------------------------------------------------------
(* The requests and the structures they take their ports from.             *)

(* What a worker's request goes through is named by the application, and   *)
(* is what the request is for.                                             *)
LinkOf(w) ==
  /\ stage[w] = "idle" => link[w].info = NULL
  /\ stage[w] # "idle" =>
       /\ link[w].info \in Infos /\ believed[link[w].info]
       /\ link[w].port = info[link[w].info].port
       /\ req[w][2] = target[link[w].info]
  /\ stage[w] \in Dialled => link[w].camera = req[w][2]
  /\ message[w] # NULL => stage[w] \in Dialled /\ message[w].body.req = req[w]

(* A call that takes something away takes it from nobody. *)
GuardOf(t) ==
  /\ pc[t] \in InInit \cup {"shutdown"} => Quiet
  /\ pc[t] = "destroy" => ~Serving(using[t])

LinkInv == (\A w \in Workers : LinkOf(w)) /\ (\A t \in Threads : GuardOf(t))

LEMMA InitLinkInv == OzInit => LinkInv
  BY DEF OzInit, Init, Agent!Init, LinkInv, LinkOf, GuardOf, Quiet, NoLink, InInit, Dialled

(* A structure that serves a request stays as it is. *)
LEMMA ServingKept ==
  ASSUME OneCaller, TypeInv, WorkerType, LinkInv, NEW t \in Threads, TunnelOf(t), Control(t),
         NEW w \in Workers, stage[w] # "idle"
  PROVE  /\ believed'[link[w].info] /\ info'[link[w].info] = info[link[w].info]
         /\ target'[link[w].info] = target[link[w].info]
  <1> DEFINE i == link[w].info
  <1>1. i \in Infos /\ believed[i] /\ Serving(i) /\ ~Quiet
    BY DEF LinkInv, LinkOf, Serving, Quiet
  <1> HIDE DEF i
  <1>2. pc[t] # "shutdown" /\ (pc[t] = "destroy" => using[t] # i)
    BY <1>1 DEF LinkInv, GuardOf
  <1>3. pc[t] \in Creating => using[t] \in Infos /\ using[t] # i
    BY <1>1 DEF TunnelOf, TypeInv, UsingInv
  <1> USE DEF TypeInv, TypeOK
  <1>4. target'[i] = target[i]
    <2>1. CASE Open(t)
      <3>1. PICK j \in Infos : ~believed[j] /\ using' = [using EXCEPT ![t] = j]
        BY <2>1 DEF Open, CreateCall, Enter
      <3> QED BY <1>1, <2>1, <3>1 DEF Open, WorkerType
    <2>2. CASE UNCHANGED target
      BY <2>2
    <2> QED BY <2>1, <2>2 DEF Control, Disturb, Continue
  <1>5. info'[i] = info[i]
    <2>1. CASE CreateCall(t)
      BY <1>1, <2>1 DEF CreateCall
    <2>2. CASE CreateWrongType(t)
      BY <1>1, <2>2 DEF CreateWrongType
    <2>3. CASE TunnelUp(t)
      BY <1>1, <1>3, <2>3 DEF TunnelUp, Answer, Goto, Creating
    <2>4. CASE UNCHANGED info
      BY <2>4
    <2>5. UNCHANGED info \/ CreateCall(t) \/ CreateWrongType(t) \/ TunnelUp(t)
      BY ControlActs
      DEF Acts, Initialise, CreateTunnel, app, tunnelInfo, Crash, InitLookup, InitLookupFails, InitStore,
          InitSelect, Startup, StartupFails, CloudInit, SelectP2P, ReleaseData, Reject, CreateMethod,
          CreateDomain, AskTunnel, TunnelFails, CreateReturn, DestroyCall, Destroy, ShutdownCall,
          Shutdown, CallFails
    <2> QED BY <2>1, <2>2, <2>3, <2>4, <2>5
  <1>6. believed'[i]
    <2>1. CASE CreateReturn(t)
      BY <1>1, <1>3, <2>1 DEF CreateReturn, Leave, Goto, Creating
    <2>2. CASE Destroy(t)
      BY <1>1, <1>2, <2>2 DEF Destroy, Leave, Goto
    <2>3. ~Shutdown(t)
      BY <1>2 DEF Shutdown, Leave, Goto
    <2>4. UNCHANGED believed \/ CreateReturn(t) \/ Destroy(t) \/ Shutdown(t)
      BY ControlActs
      DEF Acts, Initialise, CreateTunnel, app, tunnelInfo, Crash, InitLookup, InitLookupFails, InitStore,
          InitSelect, Startup, StartupFails, CloudInit, SelectP2P, ReleaseData, Reject, CreateCall,
          CreateWrongType, CreateMethod, CreateDomain, AskTunnel, TunnelUp, TunnelFails, Answer,
          DestroyCall, ShutdownCall, CallFails
    <2> QED BY <1>1, <2>1, <2>2, <2>3, <2>4
  <1> QED BY <1>4, <1>5, <1>6 DEF i

LEMMA ControlLinks ==
  ASSUME OneCaller, TypeInv, TypeInv', WorkerType, LinkInv, NEW t \in Threads, TunnelOf(t),
         Control(t)
  PROVE  LinkInv'
  <1>1. UNCHANGED <<stage, req, message, link>>
    BY DEF Control, agent
  <1>2. ASSUME NEW w \in Workers PROVE LinkOf(w)'
    <2>1. LinkOf(w)
      BY DEF LinkInv
    <2>2. CASE stage[w] = "idle"
      BY <1>1, <2>1, <2>2 DEF LinkOf, Dialled
    <2>3. CASE stage[w] # "idle"
      <3>1. /\ believed'[link[w].info] /\ info'[link[w].info] = info[link[w].info]
            /\ target'[link[w].info] = target[link[w].info]
        BY <2>3, ServingKept
      <3> QED BY <1>1, <2>1, <2>3, <3>1 DEF LinkOf
    <2> QED BY <2>2, <2>3
  <1>3. (Quiet' <=> Quiet) /\ \A i : Serving(i)' <=> Serving(i)
    BY <1>1 DEF Quiet, Serving
  <1>4. GuardOf(t)'
    <2>0. GuardOf(t)
      BY DEF LinkInv
    <2> USE DEF TypeInv, TypeOK, InInit, Goto, caller, locals, vars
    <2>1. CASE Quiet
      <3>1. \A i \in Infos : ~Serving(i)
        BY <2>1, NullType DEF Quiet, Serving, LinkInv, LinkOf
      <3>2. pc'[t] = "destroy" => using'[t] \in Infos
        BY DEF UsingInv
      <3> QED BY <1>3, <2>1, <3>1, <3>2 DEF GuardOf
    <2>2. CASE ~Quiet
      <3>1. pc[t] \notin InInit \cup {"shutdown"}
        BY <2>0, <2>2 DEF GuardOf
      <3>2. CASE Open(t)
        BY <2>2, <3>2 DEF Open, CreateCall, Enter, GuardOf
      <3>3. CASE Disturb(t)
        <4>1. PICK i \in Infos :
                using' = [using EXCEPT ![t] = i] /\ pc' = [pc EXCEPT ![t] = "destroy"]
          BY <2>2, <3>3 DEF Disturb, DestroyCall, Enter, ShutdownCall
        <4>2. ~Serving(using'[t])
          BY <2>2, <3>3 DEF Disturb
        <4> QED BY <1>1, <4>1, <4>2 DEF GuardOf, Serving
      <3>4. CASE Continue(t)
        <4>1. pc'[t] \notin InInit \cup {"shutdown", "destroy"} \/ UNCHANGED <<pc, using>>
          BY <3>1, <3>4
          DEF Continue, InitStore, InitSelect, Startup, StartupFails, CloudInit, LeaveInit,
              CreateWrongType, CreateMethod, CreateDomain, AskTunnel, TunnelUp, TunnelFails,
              Answer, CreateReturn, SelectP2P, ReleaseData, Reject, Destroy, Shutdown, CallFails, Leave, Crash
        <4> QED BY <1>1, <2>0, <4>1 DEF GuardOf, Serving, Quiet
      <3> QED BY <3>2, <3>3, <3>4 DEF Control
    <2> QED BY <2>1, <2>2
  <1> QED BY <1>2, <1>4 DEF LinkInv, OneCaller

(* The application's structures, also where no thread is calling. *)
TunnelInv ==
  /\ \A t \in Threads : KnownOf(t) /\ TunnelOf(t)
  /\ \A i \in Infos : believed[i] => Threads # {}

LEMMA WorkLinks ==
  ASSUME OneCaller, TypeInv, WorkerType, TunnelInv, LinkInv, NEW w \in Workers, Work(w)
  PROVE  LinkInv'
  <1> USE NullType
  <1>0. WorkStep(w)
    BY WorkSteps DEF TypeInv
  <1>1. UNCHANGED <<pc, using, tunnels, info, believed, handle, target, peer>>
    BY DEF Work, vars, osn, app, tunnelInfo, collectData, caller, locals
  <1>2. LinkOf(w)
    BY DEF LinkInv
  <1>3. ASSUME NEW v \in Workers, v # w PROVE LinkOf(v)'
    <2>1. LinkOf(v)
      BY DEF LinkInv
    <2>2. /\ stage'[v] = stage[v] /\ req'[v] = req[v]
          /\ message'[v] = message[v] /\ link'[v] = link[v]
      BY <1>0, <1>3 DEF WorkStep, OthersWork
    <2> QED BY <1>1, <2>1, <2>2 DEF LinkOf
  <1>4. CASE Asks(w)
    <2>1. PICK i \in Infos :
            /\ believed[i] /\ ~InUse(i) /\ req'[w][2] = target[i]
            /\ link'[w].info = i /\ link'[w].port = info[i].port
      BY <1>4 DEF Asks
    <2>2. message[w] = NULL /\ stage'[w] = "socket" /\ message'[w] = message[w]
      BY <1>2, <1>4 DEF Asks, LinkOf, Dialled
    <2>3. LinkOf(w)'
      BY <1>1, <2>1, <2>2 DEF LinkOf, Dialled
    <2>4. ASSUME NEW t \in Threads PROVE GuardOf(t)'
      <3>1. GuardOf(t) /\ pc[t] \notin InInit \cup {"shutdown"}
        BY <1>4 DEF LinkInv, Asks
      <3>2. using[t] # i
        BY <2>1 DEF InUse
      <3>3. pc[t] = "destroy" => \A v \in Workers : link'[v].info # using[t]
        <4>1. \A v \in Workers \ {w} : link'[v].info = link[v].info
          BY <1>0 DEF WorkStep, OthersWork
        <4> QED BY <2>1, <3>1, <3>2, <4>1 DEF GuardOf, Serving
      <3> QED BY <1>1, <3>1, <3>3 DEF GuardOf, Serving
    <2> QED BY <1>3, <2>3, <2>4 DEF LinkInv
  <1>5. CASE ~Asks(w)
    <2>1. stage[w] # "idle"
      BY <1>0, <1>5 DEF WorkStep, Dials, Talks, Ends
    <2>2. LinkOf(w)'
      <3>1. CASE Dials(w)
        <4>1. PICK i \in Infos :
                link[w].info = i /\ believed[i] /\ link[w].port = info[i].port
                /\ req[w][2] = target[i]
          BY <1>2, <2>1 DEF LinkOf
        <4>2. PICK t \in Threads : TunnelOf(t)
          BY <4>1 DEF TunnelInv
        <4>3. link[w].port \in LocalPorts /\ link[w] \in Links
          BY <3>1 DEF Dials, WorkerType, LinkType
        <4>4. peer[link[w].port] = req[w][2]
          BY <4>1, <4>2, <4>3 DEF TunnelOf, Names
        <4>5. /\ link'[w].camera = req'[w][2] /\ link'[w].info = i
              /\ link'[w].port = link[w].port
          BY <3>1, <4>1, <4>3, <4>4 DEF Dials, Links
        <4>6. message'[w] = message[w] /\ req'[w] = req[w] /\ stage'[w] = "encode"
          BY <3>1 DEF Dials
        <4> QED BY <1>1, <1>2, <4>1, <4>5, <4>6 DEF LinkOf, Dialled
      <3>2. CASE Talks(w)
        <4>1. /\ stage'[w] # "idle" /\ (stage[w] \in Dialled <=> stage'[w] \in Dialled)
              /\ req'[w] = req[w] /\ link'[w] = link[w]
              /\ \/ message'[w] = message[w]
                 \/ stage[w] \in Dialled /\ message'[w].body.req = req[w]
          BY <3>2 DEF Talks, Dialled
        <4> QED BY <1>1, <1>2, <2>1, <4>1 DEF LinkOf
      <3>3. CASE Ends(w)
        BY <3>3 DEF Ends, LinkOf, NoLink, Dialled
      <3> QED BY <1>0, <1>5, <3>1, <3>2, <3>3 DEF WorkStep
    <2>3. ASSUME NEW t \in Threads PROVE GuardOf(t)'
      <3>1. GuardOf(t) /\ pc[t] \notin InInit \cup {"shutdown"}
        BY <2>1 DEF LinkInv, GuardOf, Quiet
      <3>2. link'[w].info = link[w].info \/ link'[w].info = NULL
        <4>1. CASE Dials(w)
          <5>1. link[w] \in Links
            BY DEF WorkerType, LinkType
          <5> QED BY <4>1, <5>1 DEF Dials, Links
        <4>2. CASE Talks(w) \/ Ends(w)
          BY <4>2 DEF Talks, Ends, NoLink
        <4> QED BY <1>0, <1>5, <4>1, <4>2 DEF WorkStep
      <3>3. \A v \in Workers \ {w} : link'[v].info = link[v].info
        BY <1>0 DEF WorkStep, OthersWork
      <3>4. pc[t] = "destroy" => using[t] \in Infos
        BY DEF TypeInv, UsingInv
      <3> QED BY <1>1, <3>1, <3>2, <3>3, <3>4 DEF GuardOf, Serving
    <2> QED BY <1>3, <2>2, <2>3 DEF LinkInv
  <1> QED BY <1>4, <1>5

-----------------------------------------------------------------------------
(* The inductive invariant, and the theorem about the cameras.             *)

OzInv == TypeInv /\ WorkerType /\ TunnelInv /\ LinkInv

LEMMA InitOzInv == OzInit => OzInv
  <1> SUFFICES ASSUME OzInit PROVE OzInv
    OBVIOUS
  <1>1. TypeInv /\ KnownInv
    BY InitTypeInv, InitKnownInv DEF OzInit
  <1>2. \A t \in Threads : TunnelOf(t)
    BY DEF OzInit, Init, TunnelOf, NoTunnel, Creating
  <1>3. TunnelInv
    BY <1>1, <1>2 DEF TunnelInv, KnownInv, OzInit, Init
  <1> QED BY <1>1, <1>3, InitWorkers, InitLinkInv DEF OzInv

LEMMA NextOzInv ==
  ASSUME OneCaller, OzInv, [OzNext]_allvars
  PROVE  OzInv'
  <1> USE DEF OzInv
  <1>0. TypeInv'
    BY OzNextIsNext, NextTypeInv
  <1>1. CASE UNCHANGED allvars
    <2>1. UNCHANGED <<vars, target, peer, link, stage, req, message>>
      BY <1>1 DEF allvars, agent
    <2>2. UNCHANGED <<pc, using, tunnels, info, believed, status>>
      BY <2>1 DEF vars, osn, app, tunnelInfo, collectData, caller, locals, library
    <2>3. WorkerType'
      BY <2>1 DEF WorkerType, LinkType
    <2>4. TunnelInv'
      BY <2>1, <2>2 DEF TunnelInv, KnownOf, TunnelOf, Names
    <2>5. LinkInv'
      BY <2>1, <2>2 DEF LinkInv, LinkOf, GuardOf, Quiet, Serving
    <2> QED BY <1>0, <2>3, <2>4, <2>5
  <1>2. ASSUME NEW t \in Threads, Control(t) PROVE OzInv'
    <2>1. KnownOf(t) /\ TunnelOf(t)
      BY DEF TunnelInv
    <2>2. KnownOf(t)'
      BY <1>2, <2>1, StepKnown, ControlActs DEF Acts
    <2>3. TunnelOf(t)'
      BY <1>2, <2>1, StepTunnel
    <2>4. TunnelInv'
      BY <2>2, <2>3 DEF TunnelInv, OneCaller
    <2> QED BY <1>0, <1>2, <2>1, <2>4, ControlTypes, ControlLinks
  <1>3. ASSUME NEW w \in Workers, Work(w) PROVE OzInv'
    <2>1. UNCHANGED <<pc, using, tunnels, info, believed, status, target, peer>>
      BY <1>3 DEF Work, vars, osn, app, tunnelInfo, collectData, caller, locals, library
    <2>2. TunnelInv'
      BY <2>1 DEF TunnelInv, KnownOf, TunnelOf, Names
    <2>3. WorkerType'
      BY <1>3, WorkSteps DEF TypeInv
    <2>4. LinkInv'
      BY <1>3, WorkLinks
    <2> QED BY <1>0, <2>2, <2>3, <2>4
  <1> QED BY <1>1, <1>2, <1>3 DEF OzNext

(* A request reaches no other camera than the one it names, for any number *)
(* of workers, cameras, structures and ports that are used again, when the *)
(* application makes its tunnel calls one at a time.                       *)
THEOREM OwnCameraReached == OneCaller => (OzSpec => []OwnCamera)
  <1> SUFFICES ASSUME OneCaller PROVE OzSpec => []OwnCamera
    OBVIOUS
  <1>1. OzInv => OwnCamera
    BY DEF OzInv, LinkInv, LinkOf, OwnCamera, Underway
  <1> QED BY <1>1, InitOzInv, NextOzInv, PTL DEF OzSpec

-----------------------------------------------------------------------------
(* Identities: an application that initialises while nothing else runs and *)
(* drops its handle when that fails.  It may call on several threads.      *)

(* What is open was opened with the account of the environment, and that   *)
(* is not written while a tunnel is open or a request runs.                *)
IdentityInv ==
  /\ \A p \in LocalPorts : tunnels[p] # NULL => started /\ tunnels[p]["user_id"] = env["user_id"]
  /\ \A t \in Threads : pc[t] \in {"store", "select", "startup"} => ~started
  /\ \A t \in Threads : pc[t] \in InInit => Quiet
  /\ ~Quiet => handle = "OZ_HANDLE"
  /\ \A w \in Workers :
       /\ stage[w] \in Dialled => link[w].account = env["user_id"]
       /\ message[w] # NULL => stage[w] \in Dialled /\ message[w].body.who = Identity

LEMMA InitIdentityInv == OzInit => IdentityInv
  BY DEF OzInit, Init, Agent!Init, IdentityInv, Quiet, InInit, Dialled

(* The environment is written, and the handle dropped, during an           *)
(* initialisation only.                                                    *)
LEMMA WriteSteps ==
  ASSUME Careful, NEW t \in Threads, Control(t), IdentityInv
  PROVE  /\ env' = env \/ (pc[t] = "store" /\ UNCHANGED <<started, tunnels>>)
         /\ handle' = handle \/ handle' = "OZ_HANDLE" \/ Quiet
  <1> USE DEF InInit, Goto, library, osn, app, tunnelInfo, collectData
  <1>1. CASE Open(t)
    BY <1>1 DEF Open, CreateCall
  <1>2. CASE Disturb(t)
    BY <1>2 DEF Disturb, InitLookup, InitLookupFails, LeaveInit, ShutdownCall, DestroyCall
  <1>3. CASE Continue(t)
    <2>1. CASE InitStore(t)
      BY <2>1 DEF InitStore
    <2>2. CASE StartupFails(t)
      BY <2>2 DEF StartupFails, LeaveInit, IdentityInv
    <2>3. CASE CloudInit(t)
      BY <2>3 DEF CloudInit
    <2>4. CASE ~(InitStore(t) \/ StartupFails(t) \/ CloudInit(t))
      BY <1>3, <2>4
      DEF Continue, Crash, InitSelect, Startup, SelectP2P, ReleaseData, Reject, CreateWrongType, CreateMethod,
          CreateDomain, AskTunnel, TunnelUp, TunnelFails, Answer, CreateReturn, Destroy, Shutdown,
          CallFails
    <2> QED BY <2>1, <2>2, <2>3, <2>4
  <1> QED BY <1>1, <1>2, <1>3 DEF Control

(* While a request runs, the environment and the structure its uuid points *)
(* into stay as they are: the application keeps that of its session.       *)
LEMMA IdentityKept ==
  ASSUME Careful, ClientInv, IdentityInv, ~Quiet, NEW t \in Threads, Control(t)
  PROVE  Identity' = Identity
  <1> USE DEF InInit, Goto, library, osn, app, tunnelInfo, collectData
  <1>1. handle = "OZ_HANDLE" /\ \A s \in Threads : pc[s] \notin InInit
    BY DEF IdentityInv
  <1>2. uuid = session /\ session \in Data
    BY <1>1 DEF ClientInv, ProfileInv, HandleInv
  <1>3. CASE Open(t)
    BY <1>3 DEF Open, CreateCall, Identity, Uuid
  <1>4. CASE Disturb(t)
    BY <1>4 DEF Disturb, ShutdownCall, DestroyCall, Identity, Uuid
  <1>5. CASE Continue(t)
    <2>1. CASE ReleaseData(t)
      BY <1>1, <1>2, <2>1 DEF ReleaseData, Identity, Uuid, ClientInv, TypeInv, TypeOK
    <2>2. CASE ~ReleaseData(t)
      <3>1. UNCHANGED <<env, uuid, collect>>
        BY <1>1, <1>5, <2>2
        DEF Continue, Crash, InitStore, InitSelect, Startup, StartupFails, CloudInit, LeaveInit,
            SelectP2P, Reject, CreateWrongType, CreateMethod, CreateDomain, AskTunnel, TunnelUp,
            TunnelFails, Answer, CreateReturn, Destroy, Shutdown, CallFails
      <3> QED BY <3>1 DEF Identity, Uuid
    <2> QED BY <2>1, <2>2
  <1> QED BY <1>3, <1>4, <1>5 DEF Control

LEMMA ControlIdentity ==
  ASSUME Careful, ClientInv, WorkerType, IdentityInv, NEW t \in Threads, Control(t)
  PROVE  IdentityInv'
  <1> USE DEF ClientInv, TypeInv, TypeOK, InInit, Goto, library, osn, app, tunnelInfo, collectData, caller, locals
  <1>1. UNCHANGED <<stage, message, link>>
    BY DEF Control, agent
  <1>2. Quiet' <=> Quiet
    BY <1>1 DEF Quiet
  <1>3. \A s \in Threads \ {t} : pc'[s] = pc[s]
    BY ControlActs
    DEF Acts, Initialise, CreateTunnel, Crash, InitLookup, InitLookupFails, InitStore, InitSelect,
        Startup, StartupFails, CloudInit, LeaveInit, SelectP2P, ReleaseData, Reject, CreateCall,
        CreateWrongType, CreateMethod, CreateDomain, AskTunnel, TunnelUp, TunnelFails, Answer,
        CreateReturn, DestroyCall, Destroy, ShutdownCall, Shutdown, CallFails, Enter, Leave
  <1>4. \/ started' = started
        \/ pc[t] = "startup" /\ pc'[t] = "cloud" /\ started' = TRUE
        \/ Shutdown(t) /\ started' = FALSE
    BY ControlActs
    DEF Acts, Initialise, CreateTunnel, Crash, InitLookup, InitLookupFails, InitStore, InitSelect,
        Startup, StartupFails, CloudInit, SelectP2P, ReleaseData, Reject, CreateCall,
        CreateWrongType, CreateMethod, CreateDomain, AskTunnel, TunnelUp, TunnelFails, Answer,
        CreateReturn, DestroyCall, Destroy, ShutdownCall, Shutdown, CallFails
  <1>5. \/ pc'[t] = "store" /\ pc[t] = "idle" /\ Quiet /\ UNCHANGED started /\ ~started
        \/ pc'[t] = "cloud" /\ pc[t] = "startup"
        \/ pc'[t] \in InInit /\ pc[t] \in {"store", "select"} /\ UNCHANGED started
        \/ pc'[t] \notin InInit
    <2>1. CASE Open(t)
      BY <2>1 DEF Open, CreateCall, Enter
    <2>2. CASE Disturb(t)
      BY <2>2
      DEF Disturb, InitLookup, InitLookupFails, LeaveInit, ShutdownCall, DestroyCall, Enter
    <2>3. CASE Continue(t)
      BY <2>3
      DEF Continue, Crash, InitStore, InitSelect, Startup, StartupFails, CloudInit, LeaveInit,
          SelectP2P, ReleaseData, Reject, MayCall, CreateWrongType, CreateMethod, CreateDomain, AskTunnel,
          TunnelUp, TunnelFails, Answer, CreateReturn, Destroy, Shutdown, CallFails, Leave
    <2> QED BY <2>1, <2>2, <2>3 DEF Control
  <1>6. ASSUME NEW s \in Threads PROVE pc'[s] \in InInit => Quiet'
    BY <1>2, <1>3, <1>5 DEF IdentityInv
  <1>7. ASSUME NEW s \in Threads, pc'[s] \in {"store", "select", "startup"} PROVE ~started'
    <2>1. CASE s = t
      BY <1>5, <1>7, <2>1 DEF IdentityInv
    <2>2. CASE s # t
      <3>1. pc[s] \in InInit /\ pc[t] = "idle"
        BY <1>3, <1>7, <2>2 DEF ProfileInv, StoreInv
      <3> QED BY <1>3, <1>4, <1>7, <2>2, <3>1 DEF IdentityInv
    <2> QED BY <2>1, <2>2
  <1>8. ASSUME NEW p \in LocalPorts, tunnels'[p] # NULL
        PROVE  started' /\ tunnels'[p]["user_id"] = env'["user_id"]
    <2>1. CASE pc[t] = "store" /\ UNCHANGED <<started, tunnels>>
      BY <1>8, <2>1 DEF IdentityInv
    <2>2. CASE env' = env
      <3>1. CASE TunnelUp(t)
        <4>1. PICK q \in LocalPorts :
                /\ pc[t] = "wait" /\ started /\ started' = started
                /\ tunnels' = [tunnels EXCEPT ![q] = uses[t]]
          BY <3>1 DEF TunnelUp, Answer
        <4>2. uses[t]["user_id"] = env["user_id"]
          BY <4>1 DEF ProfileInv, ReadInv
        <4> QED BY <1>8, <2>2, <4>1, <4>2 DEF IdentityInv
      <3>2. CASE ~TunnelUp(t)
        <4>1. tunnels[p] # NULL
          BY <1>8, <3>2, NoNewTunnel, ControlActs
        <4>2. tunnels'[p] = tunnels[p]
          BY <1>8, <3>2, ControlActs
          DEF Acts, Initialise, CreateTunnel, Crash, InitLookup, InitLookupFails, InitStore,
              InitSelect, Startup, StartupFails, CloudInit, SelectP2P, ReleaseData, Reject, CreateCall,
              CreateWrongType, CreateMethod, CreateDomain, AskTunnel, TunnelFails, CreateReturn,
              DestroyCall, Destroy, ShutdownCall, Shutdown, CallFails
        <4>3. ~Shutdown(t)
          BY <1>8 DEF Shutdown
        <4>4. started'
          BY <1>4, <4>1, <4>3 DEF IdentityInv
        <4> QED BY <1>8, <2>2, <4>1, <4>2, <4>4 DEF IdentityInv
      <3> QED BY <3>1, <3>2
    <2> QED BY <2>1, <2>2, WriteSteps
  <1>9. ~Quiet' => handle' = "OZ_HANDLE"
    BY <1>2, WriteSteps DEF IdentityInv
  <1>10. ASSUME NEW w \in Workers
         PROVE  /\ stage'[w] \in Dialled => link'[w].account = env'["user_id"]
                /\ message'[w] # NULL =>
                     /\ stage'[w] \in Dialled
                     /\ message'[w].body.who = Identity'
    <2>1. CASE ~Quiet
      <3>1. env'["user_id"] = env["user_id"] /\ Identity' = Identity
        BY <2>1, IdentityKept DEF Identity
      <3> QED BY <1>1, <3>1 DEF IdentityInv
    <2>2. CASE Quiet
      <3>1. stage[w] = "idle"
        BY <2>2 DEF Quiet
      <3>2. stage[w] \notin Dialled /\ message[w] = NULL
        BY <3>1 DEF IdentityInv, Dialled
      <3> QED BY <1>1, <3>2
    <2> QED BY <2>1, <2>2
  <1> QED BY <1>6, <1>7, <1>8, <1>9, <1>10 DEF IdentityInv

LEMMA WorkIdentity ==
  ASSUME TypeInv, WorkerType, IdentityInv, NEW w \in Workers, Work(w)
  PROVE  IdentityInv'
  <1>0. WorkStep(w)
    BY WorkSteps DEF TypeInv
  <1>1. UNCHANGED <<env, uuid, collect, handle, started, tunnels, pc>>
    BY DEF Work, vars, library, osn, app, tunnelInfo, collectData
  <1>2. \A v \in Workers \ {w} :
          stage'[v] = stage[v] /\ message'[v] = message[v] /\ link'[v] = link[v]
    BY <1>0 DEF WorkStep, OthersWork
  <1>3. ASSUME NEW t \in Threads, pc[t] \in InInit PROVE Quiet'
    <2>1. Quiet /\ ~Asks(w)
      BY <1>3 DEF IdentityInv, Asks
    <2> QED BY <1>0, <2>1 DEF WorkStep, Dials, Talks, Ends, Quiet
  <1>4. ~Quiet' => handle = "OZ_HANDLE"
    <2>1. CASE Asks(w)
      BY <2>1 DEF Asks
    <2>2. CASE ~Asks(w)
      <3>1. ~Quiet
        BY <1>0, <2>2 DEF WorkStep, Dials, Talks, Ends, Quiet
      <3> QED BY <3>1 DEF IdentityInv
    <2> QED BY <2>1, <2>2
  <1>5. /\ stage'[w] \in Dialled => link'[w].account = env["user_id"]
        /\ message'[w] # NULL => stage'[w] \in Dialled /\ message'[w].body.who = Identity
    <2>1. CASE Asks(w)
      BY <2>1 DEF Asks, IdentityInv, Dialled
    <2>2. CASE Dials(w)
      <3>1. link[w] \in Links
        BY DEF WorkerType, LinkType
      <3>2. link'[w].account = tunnels[link[w].port]["user_id"]
        BY <2>2, <3>1 DEF Dials, Links
      <3>3. tunnels[link[w].port]["user_id"] = env["user_id"]
        BY <2>2 DEF Dials, IdentityInv
      <3>4. stage'[w] \in Dialled /\ message'[w] = message[w]
        BY <2>2 DEF Dials, Dialled
      <3> QED BY <3>2, <3>3, <3>4 DEF IdentityInv
    <2>3. CASE Talks(w)
      <3>1. /\ stage[w] \in Dialled <=> stage'[w] \in Dialled
            /\ link'[w] = link[w]
            /\ \/ message'[w] = message[w]
               \/ stage[w] \in Dialled /\ message'[w].body.who = Identity
        BY <2>3 DEF Talks, Dialled
      <3> QED BY <3>1 DEF IdentityInv
    <2>4. CASE Ends(w)
      BY <2>4 DEF Ends, Dialled
    <2> QED BY <1>0, <2>1, <2>2, <2>3, <2>4 DEF WorkStep
  <1>6. Identity' = Identity
    BY <1>1 DEF Identity, Uuid
  <1>7. ASSUME NEW v \in Workers
        PROVE  /\ stage'[v] \in Dialled => link'[v].account = env'["user_id"]
               /\ message'[v] # NULL =>
                    stage'[v] \in Dialled /\ message'[v].body.who = Identity'
    BY <1>1, <1>2, <1>5, <1>6 DEF IdentityInv
  <1> QED BY <1>1, <1>3, <1>4, <1>7 DEF IdentityInv

(* A request that is underway comes from a thread that no initialisation   *)
(* runs beside, so that the user of the environment and the structure its  *)
(* uuid points into are of the same profile.                               *)
LEMMA OneIdentity == ClientInv /\ IdentityInv => SameIdentity
  <1> SUFFICES ASSUME ClientInv, IdentityInv, NEW w \in Workers, Underway(w)
               PROVE  message[w].body.who = <<link[w].account, link[w].account>>
    BY DEF SameIdentity
  <1>1. stage[w] \in Dialled /\ message[w] # NULL /\ ~Quiet
    BY DEF Underway, Dialled, Quiet
  <1>2. handle = "OZ_HANDLE" /\ \A t \in Threads : pc[t] \notin InInit
    BY <1>1 DEF IdentityInv
  <1>3. uuid = session /\ session \in Data /\ From(collect[session])
    BY <1>2 DEF ClientInv, ProfileInv, HandleInv
  <1>4. Uuid = env["user_id"]
    BY <1>3, NullType DEF From, EnvFields, Uuid
  <1> QED BY <1>1, <1>4 DEF IdentityInv, Identity

LEMMA NextIdentityInv ==
  ASSUME Careful, ClientInv, WorkerType, IdentityInv, [OzNext]_allvars
  PROVE  WorkerType' /\ IdentityInv'
  <1> USE DEF ClientInv
  <1>1. CASE UNCHANGED allvars
    <2>1. UNCHANGED <<vars, target, peer, link, stage, req, message>>
      BY <1>1 DEF allvars, agent
    <2>2. UNCHANGED <<env, uuid, collect, handle, started, tunnels, pc>>
      BY <2>1 DEF vars, library, osn, app, tunnelInfo, collectData
    <2> QED BY <2>1, <2>2 DEF WorkerType, LinkType, IdentityInv, Identity, Uuid, Quiet
  <1>2. ASSUME NEW t \in Threads, Control(t) PROVE WorkerType' /\ IdentityInv'
    BY <1>2, ControlTypes, ControlIdentity
  <1>3. ASSUME NEW w \in Workers, Work(w) PROVE WorkerType' /\ IdentityInv'
    BY <1>3, WorkSteps, WorkIdentity DEF TypeInv
  <1> QED BY <1>1, <1>2, <1>3 DEF OzNext

(* A request carries the user and the uuid of the account its tunnel was   *)
(* opened with, for any number of threads, workers and accounts, also      *)
(* after the library was shut down and initialised for another one, when   *)
(* the application initialises while nothing else runs and drops its       *)
(* handle when that fails.                                                 *)
THEOREM IdentitiesAgree ==
  ASSUME Careful
  PROVE  OzSpec => []SameIdentity
  <1>1. OzInit => ClientInv /\ WorkerType /\ IdentityInv
    BY InitTypeInv, InitProfileInv, InitWorkers, InitIdentityInv DEF OzInit, ClientInv
  <1>2. ClientInv /\ WorkerType /\ IdentityInv /\ [OzNext]_allvars
          => (ClientInv /\ WorkerType /\ IdentityInv)'
    BY NextIdentityInv, OzNextIsNext, NextTypeInv, NextProfileInv DEF ClientInv
  <1> QED BY <1>1, <1>2, OneIdentity, PTL DEF OzSpec
=============================================================================
