----------------------------- MODULE P2PClient -----------------------------
(***************************************************************************)
(* The P2P client API (P2P/OzClient/OzClientAPI.cpp) and oz_initialize     *)
(* (OzInit/OzInit.c), over OsnClient, the closed-source library that opens *)
(* the tunnels.                                                            *)
(*                                                                         *)
(* Every call runs on its caller's thread and no lock is taken.  The calls *)
(* share the environment client_env and the static osn_status of           *)
(* oz_createTunnel.  One action is one access to either, or one call into  *)
(* OsnClient; creating a tunnel takes seconds, so it is a call (AskTunnel) *)
(* and an answer (TunnelUp, TunnelFails).                                  *)
(*                                                                         *)
(* An initialisation is abstracted to its profile: the account, customer   *)
(* and cloud it names.  Each field of the environment holds the profile it *)
(* was last written from, but for the uuid: that is a pointer into the     *)
(* collect_data structure the application passed.  A tunnel is known by    *)
(* its local port.                                                         *)
(*                                                                         *)
(* The application owns both kinds of structures.  It creates a tunnel in  *)
(* a tunnel-info structure only when it believes, from the last status it  *)
(* was returned, that the structure names no tunnel.  It fills a           *)
(* collect_data structure for an initialisation, and may fill it again or  *)
(* release it when no initialisation runs with it; the one of the session  *)
(* it has a handle for it keeps until it initialises again.                *)
(***************************************************************************)
EXTENDS Integers, Sequences

CONSTANTS
  Threads,     \* application threads
  Infos,       \* the osn_tunnel_info structures of the application
  LocalPorts,  \* the local ports OsnClient can use
  Profiles,    \* what an application initialises the library with
  Data,        \* the collect_data structures of the application
  QuietInit,   \* does nothing else run during an oz_initialize?
  KeepsHandle, \* may the application keep a handle after a failed oz_initialize?
  AppSelects,  \* does the application call oz_selectP2P?
  NULL

ASSUME FlagsType == QuietInit \in BOOLEAN /\ KeepsHandle \in BOOLEAN /\ AppSelects \in BOOLEAN
ASSUME NullType == NULL \notin Profiles \cup LocalPorts \cup Infos \cup Data

VARIABLES
  env,       \* client_env, and which profile each field is from
  uuid,      \* client_env.uuid: the structure it points into
  method,    \* client_env.p2p_method
  status,    \* the static osn_status of oz_createTunnel
  crashed,   \* has the process died of an undefined operation?
  login,     \* what cloud_init handed to the gateway agent, or NULL
  started,   \* OsnClient: has it been started?
  tunnels,   \* OsnClient: what the tunnel on a local port was asked with
  handle,    \* the application: the handle it holds
  info,      \* the application: its tunnel-info structures
  believed,  \* the application: does it think the structure names a tunnel?
  collect,   \* the application: what its collect_data structures were filled with
  session,   \* the application: the one of its last initialisation that succeeded
  pc,        \* where each thread is
  profile,   \* what it initialises with
  data,      \* the collect_data structure it passed
  next,      \* the next field it writes
  using,     \* the tunnel-info structure of its call
  uses,      \* the fields of the environment its call has read so far
  answer,    \* history: what OsnClient answered to its oz_createTunnel
  result     \* what its last oz_createTunnel returned

library == <<env, uuid, method, status, login, crashed>>
osn == <<started, tunnels>>
tunnelInfo == <<info, believed>>
collectData == <<collect, session>>
app == <<handle, tunnelInfo, collectData>>
caller == <<using, uses, answer, result>>
locals == <<profile, data, next, caller>>
vars == <<library, osn, app, pc, locals>>

-----------------------------------------------------------------------------
(* Mutation: p2p_initialize does not set the uuid. *)
NoUuid ==
  <<"signaling_dns", "gateway_dns", "user_id", "user_domain", "user_password",
    "environment", "customer">>

(* Mutation: p2p_initialize does not copy the password. *)
NoPassword ==
  <<"signaling_dns", "gateway_dns", "user_id", "user_domain", "uuid", "environment", "customer">>

(* The fields p2p_initialize writes, in its order; acct_dns and cloud_port *)
(* are left out, nothing reads the one and the other is a constant.        *)
EnvOrder ==
  <<"signaling_dns", "gateway_dns", "user_id", "user_domain", "user_password",
    "uuid", "environment", "customer">>

EnvFields == {"signaling_dns", "gateway_dns", "user_id", "user_domain",
              "user_password", "environment", "customer"}

(* What cloud_init is given, and what a tunnel depends on. *)
LoginFields == {"user_id", "user_password", "user_domain", "gateway_dns", "uuid"}

TunnelFields == {"customer", "environment", "signaling_dns", "user_id", "user_password"}

Source == Profiles \cup {NULL}

ASSUME FieldsType == NULL \notin [LoginFields -> Source] \cup [TunnelFields -> Source]

NothingRead == [f \in TunnelFields |-> NULL]

Statuses == {"none", "OSN_OK", "OSN_ERROR", "OSN_ERROR_TUNNEL_TYPE", "OSN_FAILED",
             "OSN_INVALID_CUSTOMER_HANDLE"}

Methods == {"P2P_NONE", "P2P_V1", "P2P_V25"}

NoTunnel == [port |-> NULL, status |-> "OSN_ERROR"]

(* What is read through client_env.uuid now: nothing of any profile, if    *)
(* the structure was released, or no initialisation set the pointer yet.   *)
Uuid == IF uuid = NULL THEN NULL ELSE collect[uuid]

(* What a field of the environment reads as now. *)
EnvNow(f) == IF f = "uuid" THEN Uuid ELSE env[f]

Init ==
  /\ env = [f \in EnvFields |-> NULL]
  /\ uuid = NULL
  /\ method = "P2P_NONE"
  /\ status = "OSN_FAILED"
  /\ login = NULL
  /\ crashed = FALSE
  /\ started = FALSE
  /\ tunnels = [p \in LocalPorts |-> NULL]
  /\ handle = "none"
  /\ info = [i \in Infos |-> NoTunnel]
  /\ believed = [i \in Infos |-> FALSE]
  /\ collect = [d \in Data |-> NULL]
  /\ session = NULL
  /\ pc = [t \in Threads |-> "idle"]
  /\ profile = [t \in Threads |-> NULL]
  /\ data = [t \in Threads |-> NULL]
  /\ next = [t \in Threads |-> 1]
  /\ using = [t \in Threads |-> NULL]
  /\ uses = [t \in Threads |-> NothingRead]
  /\ answer = [t \in Threads |-> "none"]
  /\ result = [t \in Threads |-> "none"]

Goto(t, from, to) ==
  /\ pc[t] = from
  /\ pc' = [pc EXCEPT ![t] = to]

Idle == \A t \in Threads : pc[t] = "idle"

Initialising == \E t \in Threads : pc[t] \in {"store", "select", "startup", "cloud"}

(* The message "P2P method[%d] is not supported!" of oz_createTunnel and   *)
(* oz_shutdown starts with a %s that has no argument of its own and takes  *)
(* the method: zero is printed as (null), 1 is no address.                 *)
MessagePrinted == method # "P2P_V1"

-----------------------------------------------------------------------------
(* oz_initialize -> p2p_initialize, cloud_init.                            *)

(* Mutation: a failed initialisation returns the handle all the same. *)
NoFailure == {"OZ_HANDLE"}

(* What the application may hold after an initialisation that failed. *)
AfterFailure == IF KeepsHandle THEN {handle, "error"} ELSE {"error"}

(* The thread leaves oz_initialize, and its locals are gone. *)
LeaveInit(t, from) ==
  /\ Goto(t, from, "idle")
  /\ profile' = [profile EXCEPT ![t] = NULL]
  /\ data' = [data EXCEPT ![t] = NULL]
  /\ next' = [next EXCEPT ![t] = 1]
  /\ UNCHANGED caller

Passed(d) == \E t \in Threads : data[t] = d

(* The application fills a structure of its own for the call. *)
Fill(d, p) ==
  /\ QuietInit => Idle
  /\ ~Passed(d)
  /\ collect' = [collect EXCEPT ![d] = p]

(* The lookups of the cloud and the customer come before any assignment. *)
InitLookup(t) ==
  \E d \in Data, p \in Profiles :
    /\ Fill(d, p)
    /\ Goto(t, "idle", "store")
    /\ profile' = [profile EXCEPT ![t] = p]
    /\ data' = [data EXCEPT ![t] = d]
    /\ UNCHANGED <<library, osn, handle, tunnelInfo, session, next, caller>>

(* OSN_WRONG_ENV, OSN_WRONG_CUSTOMER. *)
InitLookupFails(t) ==
  \E d \in Data, p \in Profiles :
    /\ Fill(d, p)
    /\ LeaveInit(t, "idle")
    /\ handle' \in AfterFailure
    /\ UNCHANGED <<library, osn, tunnelInfo, session>>

(* The strings are copied, and the uuid is not. *)
InitStore(t) ==
  LET f == EnvOrder[next[t]] IN
  /\ Goto(t, "store", IF next[t] = Len(EnvOrder) THEN "select" ELSE "store")
  /\ \/ f # "uuid" /\ env' = [env EXCEPT ![f] = profile[t]] /\ UNCHANGED uuid
     \/ f = "uuid" /\ uuid' = data[t] /\ UNCHANGED env
  /\ next' = [next EXCEPT ![t] = IF @ = Len(EnvOrder) THEN 1 ELSE @ + 1]
  /\ UNCHANGED <<method, status, login, crashed, osn, app, profile, data, caller>>

InitSelect(t) ==
  /\ Goto(t, "select", "startup")
  /\ method' = "P2P_V25"
  /\ UNCHANGED <<env, uuid, status, login, crashed, osn, app, locals>>

Startup(t) ==
  /\ Goto(t, "startup", "cloud")
  /\ started' = TRUE
  /\ UNCHANGED <<library, tunnels, app, locals>>

StartupFails(t) ==
  /\ LeaveInit(t, "startup")
  /\ handle' \in AfterFailure
  /\ UNCHANGED <<library, osn, tunnelInfo, collectData>>

(* The result of cloud_init is not looked at: GwAgent models the call. *)
CloudInit(t) ==
  /\ LeaveInit(t, "cloud")
  /\ login' = [f \in LoginFields |-> EnvNow(f)]
  /\ handle' = "OZ_HANDLE"
  /\ session' = data[t]
  /\ UNCHANGED <<env, uuid, method, status, crashed, osn, tunnelInfo, collect>>

(* The application releases a structure: not one that is being initialised *)
(* with, nor that of the session it has a handle for.                      *)
ReleaseData(t) ==
  /\ pc[t] = "idle"
  /\ \E d \in Data :
       /\ collect[d] # NULL /\ ~Passed(d)
       /\ handle = "OZ_HANDLE" => d # session
       /\ collect' = [collect EXCEPT ![d] = NULL]
  /\ UNCHANGED <<library, osn, handle, tunnelInfo, session, pc, locals>>

(* oz_selectP2P, called by the application. *)
SelectP2P(t) ==
  /\ AppSelects
  /\ Goto(t, "idle", "idle")
  /\ method' \in Methods
  /\ UNCHANGED <<env, uuid, status, login, crashed, osn, app, locals>>

-----------------------------------------------------------------------------
(* The other calls: their begin and their end.                             *)

MayCall(t) ==
  /\ pc[t] = "idle"
  /\ QuietInit => ~Initialising

(* A call is about structure i, or about none. *)
Enter(t, to, i) ==
  /\ MayCall(t)
  /\ handle = "OZ_HANDLE"
  /\ Goto(t, "idle", to)
  /\ using' = [using EXCEPT ![t] = i]
  /\ answer' = [answer EXCEPT ![t] = "none"]
  /\ result' = [result EXCEPT ![t] = "none"]

Leave(t, from) ==
  /\ Goto(t, from, "idle")
  /\ using' = [using EXCEPT ![t] = NULL]
  /\ uses' = [uses EXCEPT ![t] = NothingRead]

(* Every call but oz_initialize and oz_selectP2P tests the handle first. *)
Reject(t) ==
  /\ MayCall(t)
  /\ handle # "OZ_HANDLE"
  /\ answer' = [answer EXCEPT ![t] = "none"]
  /\ result' = [result EXCEPT ![t] = "OSN_INVALID_CUSTOMER_HANDLE"]
  /\ UNCHANGED <<library, osn, app, pc, profile, data, next, using, uses>>

InUse(i) == \E t \in Threads : using[t] = i

-----------------------------------------------------------------------------
(* oz_createTunnel, oz_createTunnel_V2.                                    *)

(* Mutation: oz_createTunnel leaves the structure as the caller passed it. *)
NotCleared(i) == info[i]

(* Mutation: it resets all members but the status. *)
StatusLeft(i) == [port |-> NULL, status |-> "none"]

Cleared(i) == NoTunnel

(* The service port is looked up for the customer of the environment; then *)
(* the structure is cleared.                                               *)
CreateCall(t) ==
  \E i \in Infos :
    /\ ~believed[i] /\ ~InUse(i)
    /\ Enter(t, "method", i)
    /\ uses' = [uses EXCEPT ![t]["customer"] = env["customer"]]
    /\ info' = [info EXCEPT ![i] = Cleared(i)]
    /\ UNCHANGED <<library, osn, handle, believed, collectData, profile, data, next>>

(* The tunnel type is none of those ozGetTunnelPort knows. *)
CreateWrongType(t) ==
  \E i \in Infos :
    /\ ~believed[i] /\ ~InUse(i)
    /\ MayCall(t) /\ handle = "OZ_HANDLE"
    /\ info' = [info EXCEPT ![i] = [Cleared(i) EXCEPT !.status = "OSN_ERROR_TUNNEL_TYPE"]]
    /\ answer' = [answer EXCEPT ![t] = "none"]
    /\ result' = [result EXCEPT ![t] = "OSN_ERROR_TUNNEL_TYPE"]
    /\ UNCHANGED <<library, osn, handle, believed, collectData, pc, profile,
                   data, next, using, uses>>

(* The method can be another than V25 after oz_selectP2P: then the static  *)
(* status is returned as it is, if the message about it can be printed.    *)
CreateMethod(t) ==
  /\ method = "P2P_V25" \/ MessagePrinted
  /\ Goto(t, "method", IF method = "P2P_V25" THEN "domain" ELSE "return")
  /\ UNCHANGED <<library, osn, app, locals>>

(* oz_createTunnel_V2 reads the environment to choose the domain of its    *)
(* local credentials, which is left unset for all but ENV_PROD.            *)
CreateDomain(t) ==
  /\ Goto(t, "domain", "ask")
  /\ uses' = [uses EXCEPT ![t]["environment"] = env["environment"]]
  /\ UNCHANGED <<library, osn, app, profile, data, next, using, answer, result>>

(* fnOsnClient_createTunnel_V2 is called, and reads the strings. *)
AskTunnel(t) ==
  /\ Goto(t, "ask", "wait")
  /\ uses' = [uses EXCEPT ![t] =
       [f \in TunnelFields |->
          IF f \in {"signaling_dns", "user_id", "user_password"} THEN env[f] ELSE @[f]]]
  /\ UNCHANGED <<library, osn, app, profile, data, next, using, answer, result>>

(* Mutation: the value returned by oz_createTunnel_V2 is not kept. *)
NotStored(s) == status

Stored(s) == s

Answer(t, s) ==
  /\ Goto(t, "wait", "return")
  /\ status' = Stored(s)
  /\ answer' = [answer EXCEPT ![t] = s]
  /\ UNCHANGED <<env, uuid, method, login, crashed, started, handle, believed, collectData,
                 profile, data, next, using, uses, result>>

(* OsnClient opens the tunnel on a free local port and fills the structure. *)
TunnelUp(t) ==
  /\ started
  /\ Answer(t, "OSN_OK")
  /\ \E p \in LocalPorts :
       /\ tunnels[p] = NULL
       /\ tunnels' = [tunnels EXCEPT ![p] = uses[t]]
       /\ info' = [info EXCEPT ![using[t]] = [port |-> p, status |-> "OSN_OK"]]

TunnelFails(t) ==
  /\ Answer(t, "OSN_ERROR")
  /\ UNCHANGED <<tunnels, info>>

(* "return osn_status": the static is read once more. *)
CreateReturn(t) ==
  /\ Leave(t, "return")
  /\ result' = [result EXCEPT ![t] = status]
  /\ believed' = [believed EXCEPT ![using[t]] = (status = "OSN_OK")]
  /\ UNCHANGED <<library, osn, handle, info, collectData, profile, data, next, answer>>

-----------------------------------------------------------------------------
(* oz_destroyTunnel and oz_shutdown: the method is read, and OsnClient is  *)
(* called or not.                                                          *)

DestroyCall(t) ==
  \E i \in Infos :
    /\ believed[i] /\ ~InUse(i)
    /\ Enter(t, "destroy", i)
    /\ UNCHANGED <<library, osn, app, profile, data, next, uses>>

(* OSN_OK, or OSN_ERROR_INVALID_TUNNEL when no tunnel is on that port. *)
Destroy(t) ==
  /\ method = "P2P_V25"
  /\ Leave(t, "destroy")
  /\ tunnels' = [p \in LocalPorts |-> IF p = info[using[t]].port THEN NULL ELSE tunnels[p]]
  /\ believed' = [believed EXCEPT ![using[t]] = FALSE]
  /\ UNCHANGED <<library, started, handle, info, collectData, profile, data, next, answer, result>>

ShutdownCall(t) ==
  /\ Enter(t, "shutdown", NULL)
  /\ UNCHANGED <<library, osn, app, profile, data, next, uses>>

Shutdown(t) ==
  /\ method = "P2P_V25"
  /\ Leave(t, "shutdown")
  /\ started' = FALSE
  /\ tunnels' = [p \in LocalPorts |-> NULL]
  /\ believed' = [i \in Infos |-> FALSE]
  /\ UNCHANGED <<library, handle, info, collectData, profile, data, next, answer, result>>

(* OsnClient refuses, or is not called because of the method: OSN_FAILED. *)
CallFails(t) ==
  /\ \/ MessagePrinted /\ Leave(t, "shutdown")
     \/ method # "P2P_V25" /\ Leave(t, "destroy")
  /\ UNCHANGED <<library, osn, app, profile, data, next, answer, result>>

Crash(t) ==
  /\ pc[t] \in {"method", "shutdown"}
  /\ ~MessagePrinted
  /\ crashed' = TRUE
  /\ UNCHANGED <<env, uuid, method, status, login, osn, app, pc, locals>>

-----------------------------------------------------------------------------
Initialise(t) ==
  \/ InitLookup(t) \/ InitLookupFails(t) \/ InitStore(t) \/ InitSelect(t)
  \/ Startup(t) \/ StartupFails(t) \/ CloudInit(t)

CreateTunnel(t) ==
  \/ CreateCall(t) \/ CreateWrongType(t) \/ CreateMethod(t) \/ CreateDomain(t)
  \/ AskTunnel(t) \/ TunnelUp(t) \/ TunnelFails(t) \/ CreateReturn(t)

Next == ~crashed /\ \E t \in Threads :
  \/ Crash(t) \/ Initialise(t) \/ CreateTunnel(t) \/ SelectP2P(t) \/ ReleaseData(t)
  \/ Reject(t) \/ DestroyCall(t) \/ Destroy(t) \/ ShutdownCall(t) \/ Shutdown(t) \/ CallFails(t)

Spec == Init /\ [][Next]_vars

-----------------------------------------------------------------------------
(* Properties.                                                             *)

(* Type invariant of the P2P client API's state. *)
TypeOK ==
  /\ env \in [EnvFields -> Source]
  /\ uuid \in Data \cup {NULL}
  /\ method \in Methods
  /\ status \in {"OSN_FAILED", "OSN_OK", "OSN_ERROR"}
  /\ login \in [LoginFields -> Source] \cup {NULL}
  /\ crashed \in BOOLEAN
  /\ started \in BOOLEAN
  /\ tunnels \in [LocalPorts -> [TunnelFields -> Source] \cup {NULL}]
  /\ handle \in {"none", "OZ_HANDLE", "error"}
  /\ info \in [Infos -> [port : LocalPorts \cup {NULL},
                         status : {"OSN_OK", "OSN_ERROR", "OSN_ERROR_TUNNEL_TYPE"}]]
  /\ believed \in [Infos -> BOOLEAN]
  /\ collect \in [Data -> Source]
  /\ session \in Data \cup {NULL}
  /\ pc \in [Threads -> {"idle", "store", "select", "startup", "cloud", "method", "domain",
                         "ask", "wait", "return", "destroy", "shutdown"}]
  /\ profile \in [Threads -> Source]
  /\ data \in [Threads -> Data \cup {NULL}]
  /\ next \in [Threads -> 1..Len(EnvOrder)]
  /\ using \in [Threads -> Infos \cup {NULL}]
  /\ uses \in [Threads -> [TunnelFields -> Source]]
  /\ answer \in [Threads -> {"none", "OSN_OK", "OSN_ERROR"}]
  /\ result \in [Threads -> Statuses]

(* What oz_createTunnel returns is what OsnClient answered to this very    *)
(* call: it never reports a tunnel nobody opened for it, nor an error of   *)
(* another call.                                                           *)
StatusIsOwn ==
  \A t \in Threads :
    /\ pc[t] = "idle"
    /\ answer[t] # "none" \/ result[t] \in {"OSN_OK", "OSN_ERROR"}
    => result[t] = answer[t]

(* The application can account for every tunnel that is open: a call about *)
(* it is running, or a structure names it whose creation was reported as a *)
(* success.  A tunnel that is not could be closed by oz_shutdown only.     *)
NoLostTunnel ==
  \A p \in LocalPorts : tunnels[p] # NULL =>
    \E i \in Infos : info[i].port = p /\ (believed[i] \/ InUse(i))

Coherent(reads) == \E p \in Profiles : \A f \in DOMAIN reads : reads[f] = p

(* A tunnel is opened with the address, account, customer and environment  *)
(* of one initialisation, never with fields of two or with fields that     *)
(* were not set, and so is the gateway's session.                          *)
OneProfile ==
  /\ \A p \in LocalPorts : tunnels[p] # NULL => Coherent(tunnels[p])
  /\ \A t \in Threads : pc[t] = "wait" => Coherent(uses[t])
  /\ login # NULL => Coherent(login)

(* Whatever oz_createTunnel returned, the status in the structure is       *)
(* right: it is a success from when OsnClient opens the tunnel, and an     *)
(* error while the call waits and after a failure.                         *)
InfoTellsTruth ==
  \A t \in Threads :
    pc[t] \in {"method", "domain", "ask", "wait", "return"} =>
      ((info[using[t]].status = "OSN_OK") <=> (answer[t] = "OSN_OK"))

(* An application that drops its handle when an initialisation fails never *)
(* holds a valid handle while the environment has one account and the      *)
(* gateway agent was given another, nor while client_env.uuid points into  *)
(* a structure it released, or filled for another initialisation.          *)
SameAccount ==
  handle = "OZ_HANDLE" /\ ~Initialising =>
    login # NULL /\ \A f \in LoginFields : login[f] = EnvNow(f)
=============================================================================
