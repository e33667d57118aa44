--------------------------- MODULE P2PClient_proofs ---------------------------
(***************************************************************************)
(* Theorems about P2PClient, for any sets of threads, structures, ports    *)
(* and profiles.                                                           *)
(***************************************************************************)
EXTENDS P2PClient, TLAPS

Calls == {"method", "domain", "ask", "wait", "return", "destroy", "shutdown"}

Creating == {"method", "domain", "ask", "wait", "return"}

(* A call about a structure has one.                                       *)
UsingInv ==
  \A t \in Threads : pc[t] \in Creating \cup {"destroy"} => using[t] \in Infos

TypeInv == TypeOK /\ UsingInv

-----------------------------------------------------------------------------
(* Type correctness.                                                       *)

LEMMA OrderType ==
  /\ Len(EnvOrder) = 8
  /\ \A k \in 1..8 : EnvOrder[k] \in EnvFields \cup {"uuid"}
  /\ \A f \in EnvFields \cup {"uuid"} : \E k \in 1..8 : EnvOrder[k] = f
  <1>1. Len(EnvOrder) = 8
    BY DEF EnvOrder
  <1>2. /\ EnvOrder[1] = "signaling_dns" /\ EnvOrder[2] = "gateway_dns"
        /\ EnvOrder[3] = "user_id" /\ EnvOrder[4] = "user_domain"
        /\ EnvOrder[5] = "user_password" /\ EnvOrder[6] = "uuid"
        /\ EnvOrder[7] = "environment" /\ EnvOrder[8] = "customer"
    BY DEF EnvOrder
  <1>3. \A k \in 1..8 : k = 1 \/ k = 2 \/ k = 3 \/ k = 4 \/ k = 5 \/ k = 6 \/ k = 7 \/ k = 8
    OBVIOUS
  <1>4. \A k \in 1..8 : EnvOrder[k] \in EnvFields \cup {"uuid"}
    BY <1>2, <1>3 DEF EnvFields
  <1>5. \A f \in EnvFields \cup {"uuid"} : \E k \in 1..8 : EnvOrder[k] = f
    <2> SUFFICES ASSUME NEW f \in EnvFields \cup {"uuid"} PROVE \E k \in 1..8 : EnvOrder[k] = f
      OBVIOUS
    <2>1. {1, 2, 3, 4, 5, 6, 7, 8} \subseteq 1..8
      OBVIOUS
    <2> QED BY <1>2, <2>1 DEF EnvFields
  <1> QED BY <1>1, <1>4, <1>5

LEMMA InitTypeInv == Init => TypeInv
  <1> SUFFICES ASSUME Init PROVE TypeInv
    OBVIOUS
  <1>1. next \in [Threads -> 1..Len(EnvOrder)]
    BY OrderType DEF Init
  <1>2. uses \in [Threads -> [TunnelFields -> Source]]
    BY DEF Init, NothingRead, Source
  <1>3. info \in [Infos -> [port : LocalPorts \cup {NULL},
                           status : {"OSN_OK", "OSN_ERROR", "OSN_ERROR_TUNNEL_TYPE"}]]
    BY DEF Init, NoTunnel
  <1>4. /\ env \in [EnvFields -> Source] /\ profile \in [Threads -> Source]
        /\ result \in [Threads -> Statuses] /\ method \in Methods
        /\ collect \in [Data -> Source] /\ data \in [Threads -> Data \cup {NULL}]
    BY DEF Init, Source, Statuses, Methods
  <1>5. TypeOK
    BY <1>1, <1>2, <1>3, <1>4 DEF Init, TypeOK
  <1> QED BY <1>5 DEF Init, TypeInv, UsingInv, Creating

LEMMA NextTypeInv == TypeInv /\ [Next]_vars => TypeInv'
  <1> SUFFICES ASSUME TypeInv, [Next]_vars PROVE TypeInv'
    OBVIOUS
  <1> USE DEF TypeInv, TypeOK, UsingInv, Creating, library, osn, app, tunnelInfo, collectData, caller, locals
  <1>1. ASSUME NEW t \in Threads, InitLookup(t) PROVE TypeInv'
    BY <1>1 DEF InitLookup, Fill, Goto, Source
  <1>2. ASSUME NEW t \in Threads, InitLookupFails(t) PROVE TypeInv'
    BY <1>2, OrderType DEF InitLookupFails, Fill, LeaveInit, Goto, Source, AfterFailure
  <1>3. ASSUME NEW t \in Threads, InitStore(t) PROVE TypeInv'
    <2>1. next[t] \in 1..8 /\ EnvOrder[next[t]] \in EnvFields \cup {"uuid"}
      BY OrderType
    <2>2. next' \in [Threads -> 1..Len(EnvOrder)]
      BY <1>3, <2>1, OrderType DEF InitStore
    <2>3. env' \in [EnvFields -> Source] /\ uuid' \in Data \cup {NULL}
      BY <1>3, <2>1 DEF InitStore
    <2> QED BY <1>3, <2>2, <2>3 DEF InitStore, Goto
  <1>4. ASSUME NEW t \in Threads, InitSelect(t) PROVE TypeInv'
    BY <1>4 DEF InitSelect, Goto, Methods
  <1>5. ASSUME NEW t \in Threads, Startup(t) PROVE TypeInv'
    BY <1>5 DEF Startup, Goto
  <1>6. ASSUME NEW t \in Threads, StartupFails(t) PROVE TypeInv'
    BY <1>6, OrderType DEF StartupFails, LeaveInit, Goto, Source, AfterFailure
  <1>7. ASSUME NEW t \in Threads, CloudInit(t) PROVE TypeInv'
    <2>1. login' \in [LoginFields -> Source]
      BY <1>7 DEF CloudInit, EnvNow, Uuid, LoginFields, EnvFields, Source
    <2> QED BY <1>7, <2>1, OrderType DEF CloudInit, LeaveInit, Goto, Source
  <1>8. ASSUME NEW t \in Threads, SelectP2P(t) PROVE TypeInv'
    BY <1>8 DEF SelectP2P, Goto
  <1>9. ASSUME NEW t \in Threads, CreateCall(t) PROVE TypeInv'
    <2>1. uses' \in [Threads -> [TunnelFields -> Source]]
      BY <1>9 DEF CreateCall, EnvFields, TunnelFields
    <2> QED BY <1>9, <2>1 DEF CreateCall, Enter, Goto, Cleared, NoTunnel, Statuses
  <1>10. ASSUME NEW t \in Threads, CreateWrongType(t) PROVE TypeInv'
    BY <1>10 DEF CreateWrongType, Cleared, NoTunnel, Statuses
  <1>11. ASSUME NEW t \in Threads, CreateMethod(t) PROVE TypeInv'
    BY <1>11 DEF CreateMethod, Goto
  <1>12. ASSUME NEW t \in Threads, CreateDomain(t) PROVE TypeInv'
    <2>1. uses' \in [Threads -> [TunnelFields -> Source]]
      BY <1>12 DEF CreateDomain, EnvFields, TunnelFields
    <2> QED BY <1>12, <2>1 DEF CreateDomain, Goto
  <1>13. ASSUME NEW t \in Threads, AskTunnel(t) PROVE TypeInv'
    <2>1. uses' \in [Threads -> [TunnelFields -> Source]]
      BY <1>13 DEF AskTunnel, EnvFields, TunnelFields
    <2> QED BY <1>13, <2>1 DEF AskTunnel, Goto
  <1>14. ASSUME NEW t \in Threads, TunnelUp(t) PROVE TypeInv'
    BY <1>14 DEF TunnelUp, Answer, Stored, Goto
  <1>15. ASSUME NEW t \in Threads, TunnelFails(t) PROVE TypeInv'
    BY <1>15 DEF TunnelFails, Answer, Stored, Goto
  <1>16. ASSUME NEW t \in Threads, CreateReturn(t) PROVE TypeInv'
    BY <1>16 DEF CreateReturn, Leave, Goto, NothingRead, Source, Statuses
  <1>17. ASSUME NEW t \in Threads, DestroyCall(t) PROVE TypeInv'
    BY <1>17 DEF DestroyCall, Enter, Goto, Statuses
  <1>18. ASSUME NEW t \in Threads, Destroy(t) PROVE TypeInv'
    BY <1>18 DEF Destroy, Leave, Goto, NothingRead, Source
  <1>19. ASSUME NEW t \in Threads, ShutdownCall(t) PROVE TypeInv'
    BY <1>19 DEF ShutdownCall, Enter, Goto, Statuses
  <1>20. ASSUME NEW t \in Threads, Shutdown(t) PROVE TypeInv'
    BY <1>20 DEF Shutdown, Leave, Goto, NothingRead, Source
  <1>21. ASSUME NEW t \in Threads, CallFails(t) PROVE TypeInv'
    <2>1. Leave(t, "shutdown") \/ Leave(t, "destroy")
      BY <1>21 DEF CallFails
    <2>2. /\ UNCHANGED <<library, osn, app, profile, data, next, answer, result>>
          /\ pc' = [pc EXCEPT ![t] = "idle"]
          /\ using' = [using EXCEPT ![t] = NULL]
          /\ uses' = [uses EXCEPT ![t] = NothingRead]
      BY <1>21, <2>1 DEF CallFails, Leave, Goto
    <2> QED BY <2>2 DEF NothingRead, Source
  <1>22. ASSUME NEW t \in Threads, Reject(t) PROVE TypeInv'
    BY <1>22 DEF Reject, Statuses
  <1>23. ASSUME NEW t \in Threads, Crash(t) PROVE TypeInv'
    BY <1>23 DEF Crash
  <1>24. ASSUME NEW t \in Threads, ReleaseData(t) PROVE TypeInv'
    BY <1>24 DEF ReleaseData, Source
  <1>25. CASE UNCHANGED vars
    BY <1>25 DEF vars
  <1> QED
    BY <1>1, <1>2, <1>3, <1>4, <1>5, <1>6, <1>7, <1>8, <1>9, <1>10, <1>11, <1>12, <1>13, <1>14,
       <1>15, <1>16, <1>17, <1>18, <1>19, <1>20, <1>21, <1>22, <1>23, <1>24, <1>25
    DEF Next, Initialise, CreateTunnel
-----------------------------------------------------------------------------
(* The structure of a call that creates a tunnel.                          *)

OneUser == \A s, t \in Threads : using[s] = using[t] /\ using[s] # NULL => s = t

Truth(t) ==
  /\ pc[t] \in {"method", "domain", "ask", "wait"} =>
       info[using[t]].status = "OSN_ERROR" /\ answer[t] = "none"
  /\ pc[t] = "return" => (info[using[t]].status = "OSN_OK" <=> answer[t] = "OSN_OK")

TruthInv == OneUser /\ \A t \in Threads : Truth(t)

LEMMA InitTruthInv == Init => TruthInv
  BY DEF Init, TruthInv, OneUser, Truth

(* What a thread does changes only the structure of its own call.          *)
OwnStructure(t) ==
  \A s \in Threads \ {t} :
    /\ pc'[s] = pc[s] /\ using'[s] = using[s] /\ answer'[s] = answer[s]
    /\ pc[s] \in Creating => info'[using[s]] = info[using[s]]

LEMMA OthersTruth ==
  ASSUME TruthInv, NEW t \in Threads, OwnStructure(t), Truth(t)', OneUser'
  PROVE  TruthInv'
  BY DEF TruthInv, Truth, OwnStructure, Creating

LEMMA NextTruthInv == TypeInv /\ TruthInv /\ [Next]_vars => TruthInv'
  <1> SUFFICES ASSUME TypeInv, TruthInv, [Next]_vars PROVE TruthInv'
    OBVIOUS
  <1> USE NullType
  <1> USE DEF TypeInv, TypeOK, UsingInv, Creating, library, osn, app, tunnelInfo, collectData, caller, locals
  <1>1. ASSUME NEW t \in Threads,
               \/ InitLookup(t) \/ InitLookupFails(t) \/ InitStore(t) \/ InitSelect(t)
               \/ Startup(t) \/ StartupFails(t) \/ CloudInit(t) \/ SelectP2P(t) \/ ReleaseData(t)
        PROVE  TruthInv'
    <2>1. UNCHANGED <<using, answer, info>>
      BY <1>1
      DEF InitLookup, InitLookupFails, InitStore, InitSelect, Startup, StartupFails, CloudInit,
          LeaveInit, SelectP2P, ReleaseData
    <2>2. \E to \in {"idle", "store", "select", "startup", "cloud"} : pc' = [pc EXCEPT ![t] = to]
      BY <1>1
      DEF InitLookup, InitLookupFails, InitStore, InitSelect, Startup, StartupFails, CloudInit,
          LeaveInit, SelectP2P, ReleaseData, Goto
    <2> QED BY <2>1, <2>2 DEF TruthInv, OneUser, Truth
  <1>2. ASSUME NEW t \in Threads, CreateCall(t) PROVE TruthInv'
    <2>1. PICK i \in Infos :
            /\ ~InUse(i)
            /\ pc[t] = "idle" /\ pc' = [pc EXCEPT ![t] = "method"]
            /\ using' = [using EXCEPT ![t] = i]
            /\ answer' = [answer EXCEPT ![t] = "none"]
            /\ info' = [info EXCEPT ![i] = NoTunnel]
      BY <1>2 DEF CreateCall, Enter, Goto, Cleared
    <2>2. \A s \in Threads : using[s] # i
      BY <2>1 DEF InUse
    <2>3. OneUser'
      BY <2>1, <2>2 DEF OneUser, TruthInv
    <2>4. Truth(t)'
      BY <2>1 DEF Truth, NoTunnel
    <2>5. OwnStructure(t)
      BY <2>1, <2>2 DEF OwnStructure
    <2> QED BY <2>3, <2>4, <2>5, OthersTruth
  <1>3. ASSUME NEW t \in Threads, CreateWrongType(t) PROVE TruthInv'
    <2>1. PICK i \in Infos :
            /\ ~InUse(i) /\ pc[t] = "idle"
            /\ info' = [info EXCEPT ![i] = [Cleared(i) EXCEPT !.status = "OSN_ERROR_TUNNEL_TYPE"]]
            /\ answer' = [answer EXCEPT ![t] = "none"]
            /\ UNCHANGED <<pc, using>>
      BY <1>3 DEF CreateWrongType, MayCall
    <2>2. \A s \in Threads : using[s] # i
      BY <2>1 DEF InUse
    <2>3. OneUser' /\ Truth(t)'
      BY <2>1 DEF OneUser, TruthInv, Truth
    <2>4. OwnStructure(t)
      BY <2>1, <2>2 DEF OwnStructure
    <2> QED BY <2>3, <2>4, OthersTruth
  <1>4. ASSUME NEW t \in Threads, CreateMethod(t) \/ CreateDomain(t) \/ AskTunnel(t)
        PROVE  TruthInv'
    <2>1. /\ pc[t] \in {"method", "domain", "ask"}
          /\ \E to \in {"domain", "ask", "wait", "return"} : pc' = [pc EXCEPT ![t] = to]
          /\ UNCHANGED <<using, answer, info>>
      BY <1>4 DEF CreateMethod, CreateDomain, AskTunnel, Goto
    <2> QED BY <2>1 DEF TruthInv, OneUser, Truth
  <1>5. ASSUME NEW t \in Threads, TunnelUp(t) PROVE TruthInv'
    <2>1. PICK p \in LocalPorts :
            /\ pc[t] = "wait" /\ pc' = [pc EXCEPT ![t] = "return"]
            /\ answer' = [answer EXCEPT ![t] = "OSN_OK"]
            /\ info' = [info EXCEPT ![using[t]] = [port |-> p, status |-> "OSN_OK"]]
            /\ using' = using
      BY <1>5 DEF TunnelUp, Answer, Goto
    <2>2. OneUser' /\ Truth(t)'
      BY <2>1 DEF OneUser, TruthInv, Truth
    <2>3. OwnStructure(t)
      BY <2>1 DEF OwnStructure, OneUser, TruthInv
    <2> QED BY <2>2, <2>3, OthersTruth
  <1>6. ASSUME NEW t \in Threads, TunnelFails(t) PROVE TruthInv'
    <2>1. /\ pc[t] = "wait" /\ pc' = [pc EXCEPT ![t] = "return"]
          /\ answer' = [answer EXCEPT ![t] = "OSN_ERROR"]
          /\ UNCHANGED <<using, info>>
      BY <1>6 DEF TunnelFails, Answer, Goto
    <2> QED BY <2>1 DEF TruthInv, OneUser, Truth
  <1>7. ASSUME NEW t \in Threads,
               CreateReturn(t) \/ Destroy(t) \/ Shutdown(t) \/ CallFails(t)
        PROVE  TruthInv'
    <2>1. \E from \in {"return", "destroy", "shutdown"} : Leave(t, from)
      BY <1>7 DEF CreateReturn, Destroy, Shutdown, CallFails
    <2>2. /\ pc' = [pc EXCEPT ![t] = "idle"]
          /\ using' = [using EXCEPT ![t] = NULL]
      BY <2>1 DEF Leave, Goto
    <2>3. UNCHANGED <<answer, info>>
      BY <1>7 DEF CreateReturn, Destroy, Shutdown, CallFails
    <2> QED BY <2>2, <2>3 DEF TruthInv, OneUser, Truth
  <1>8. ASSUME NEW t \in Threads, DestroyCall(t) PROVE TruthInv'
    <2>1. PICK i \in Infos :
            /\ ~InUse(i)
            /\ pc' = [pc EXCEPT ![t] = "destroy"]
            /\ using' = [using EXCEPT ![t] = i]
            /\ answer' = [answer EXCEPT ![t] = "none"]
            /\ info' = info
      BY <1>8 DEF DestroyCall, Enter, Goto
    <2>2. \A s \in Threads : using[s] # i
      BY <2>1 DEF InUse
    <2>3. OneUser' /\ Truth(t)'
      BY <2>1, <2>2 DEF OneUser, TruthInv, Truth
    <2>4. OwnStructure(t)
      BY <2>1 DEF OwnStructure
    <2> QED BY <2>3, <2>4, OthersTruth
  <1>9. ASSUME NEW t \in Threads, ShutdownCall(t) PROVE TruthInv'
    <2>1. /\ pc' = [pc EXCEPT ![t] = "shutdown"]
          /\ using' = [using EXCEPT ![t] = NULL]
          /\ answer' = [answer EXCEPT ![t] = "none"]
          /\ info' = info
      BY <1>9 DEF ShutdownCall, Enter, Goto
    <2> QED BY <2>1 DEF TruthInv, OneUser, Truth
  <1>10. ASSUME NEW t \in Threads, Reject(t) PROVE TruthInv'
    <2>1. /\ pc[t] = "idle" /\ answer' = [answer EXCEPT ![t] = "none"]
          /\ UNCHANGED <<pc, using, info>>
      BY <1>10 DEF Reject, MayCall
    <2> QED BY <2>1 DEF TruthInv, OneUser, Truth
  <1>11. ASSUME NEW t \in Threads, Crash(t) PROVE TruthInv'
    BY <1>11 DEF Crash, TruthInv, OneUser, Truth
  <1>12. CASE UNCHANGED vars
    BY <1>12 DEF vars, TruthInv, OneUser, Truth
  <1> QED
    BY <1>1, <1>2, <1>3, <1>4, <1>5, <1>6, <1>7, <1>8, <1>9, <1>10, <1>11, <1>12
    DEF Next, Initialise, CreateTunnel
-----------------------------------------------------------------------------
(* Initialisations: an application that initialises while nothing else     *)
(* runs and drops its handle when one fails.                               *)

Careful == QuietInit /\ ~KeepsHandle

InInit == {"store", "select", "startup", "cloud"}

(* All fields of the environment are of one profile.                       *)
From(p) == \A f \in EnvFields : env[f] = p

(* The k-th field is written: copied, or set to the caller's structure.    *)
Copied(t, k) ==
  IF EnvOrder[k] = "uuid" THEN uuid = data[t] ELSE env[EnvOrder[k]] = profile[t]

(* What an initialisation has written so far; nothing else runs meanwhile. *)
StoreInv ==
  \A t \in Threads :
    /\ pc[t] \in InInit =>
         /\ profile[t] \in Profiles
         /\ \A s \in Threads \ {t} : pc[s] = "idle"
         /\ data[t] \in Data /\ collect[data[t]] = profile[t]
    /\ pc[t] = "store" => \A k \in 1..8 : k < next[t] => Copied(t, k)
    /\ pc[t] # "store" => next[t] = 1
    /\ pc[t] \in {"select", "startup", "cloud"} => From(profile[t]) /\ uuid = data[t]
    /\ pc[t] \in Calls => handle = "OZ_HANDLE"

(* An application with a handle has an environment of one profile, whose   *)
(* uuid is in the structure of its session, and the gateway agent has the  *)
(* account of that profile.                                                *)
HandleInv ==
  handle = "OZ_HANDLE" /\ (\A t \in Threads : pc[t] \notin InInit) =>
    /\ session \in Data /\ uuid = session
    /\ From(collect[session]) /\ collect[session] \in Profiles
    /\ login # NULL /\ \A f \in LoginFields : login[f] = EnvNow(f)

(* What a call read is what the environment still has.                     *)
ReadInv ==
  \A t \in Threads :
    /\ pc[t] \in {"method", "domain", "ask", "wait"} => uses[t]["customer"] = env["customer"]
    /\ pc[t] \in {"ask", "wait"} => uses[t]["environment"] = env["environment"]
    /\ pc[t] = "wait" => \A f \in {"signaling_dns", "user_id", "user_password"} :
                           uses[t][f] = env[f]

(* What was opened before is of one profile too.                           *)
OpenInv ==
  /\ \A p \in LocalPorts : tunnels[p] # NULL => Coherent(tunnels[p])
  /\ login # NULL => Coherent(login)

ProfileInv == StoreInv /\ HandleInv /\ ReadInv /\ OpenInv

LEMMA InitProfileInv == Init => ProfileInv
  BY DEF Init, ProfileInv, StoreInv, HandleInv, ReadInv, OpenInv, InInit, Calls

(* While a call waits, it has read one profile.                            *)
LEMMA WaitIsCoherent ==
  ASSUME TypeInv, ProfileInv, Careful, NEW t \in Threads, pc[t] = "wait"
  PROVE  Coherent(uses[t])
  <1>1. handle = "OZ_HANDLE" /\ \A s \in Threads : pc[s] \notin InInit
    BY DEF ProfileInv, StoreInv, Calls, InInit
  <1>2. PICK p \in Profiles : From(p)
    BY <1>1 DEF ProfileInv, HandleInv
  <1>3. \A f \in TunnelFields : uses[t][f] = p
    BY <1>2 DEF ProfileInv, ReadInv, From, EnvFields, TunnelFields
  <1> QED BY <1>3 DEF Coherent, TypeInv, TypeOK

(* Steps that leave the environment and what was opened alone, and go from *)
(* idle or a call to idle or a call.                                       *)
Apart(t) ==
  /\ UNCHANGED <<env, uuid, login, handle, collect, session, profile, data, next>>
  /\ \A s \in Threads \ {t} : pc'[s] = pc[s] /\ uses'[s] = uses[s]
  /\ pc[t] \in Calls \cup {"idle"} /\ pc'[t] \in Calls \cup {"idle"}
  /\ pc'[t] \in Calls /\ pc[t] = "idle" =>
       handle = "OZ_HANDLE" /\ \A s \in Threads : pc[s] \notin InInit

LEMMA ApartKeeps ==
  ASSUME TypeInv, ProfileInv, NEW t \in Threads, Apart(t)
  PROVE  StoreInv' /\ HandleInv'
  <1>1. StoreInv'
    <2>1. ASSUME NEW s \in Threads, pc'[s] \in InInit
          PROVE  s # t /\ pc[s] \in InInit /\ pc[t] = "idle" /\ pc'[t] = "idle"
      BY <2>1 DEF Apart, InInit, Calls, ProfileInv, StoreInv
    <2>2. ASSUME NEW s \in Threads PROVE pc'[s] \in Calls => handle' = "OZ_HANDLE"
      BY DEF Apart, ProfileInv, StoreInv, Calls
    <2>3. ASSUME NEW s \in Threads, pc'[s] \in InInit
          PROVE  /\ profile'[s] \in Profiles
                 /\ data'[s] \in Data /\ collect'[data'[s]] = profile'[s]
                 /\ \A r \in Threads \ {s} : pc'[r] = "idle"
      BY <2>1, <2>3 DEF Apart, ProfileInv, StoreInv
    <2>4. ASSUME NEW s \in Threads, pc'[s] = "store"
          PROVE  \A k \in 1..8 : k < next'[s] => Copied(s, k)'
      BY <2>1, <2>4 DEF Copied, Apart, ProfileInv, StoreInv, InInit
    <2>5. ASSUME NEW s \in Threads, pc'[s] \in {"select", "startup", "cloud"}
          PROVE  From(profile[s])' /\ uuid' = data'[s]
      BY <2>1, <2>5 DEF Apart, ProfileInv, StoreInv, InInit, From
    <2>6. ASSUME NEW s \in Threads, pc'[s] # "store" PROVE next'[s] = 1
      BY <2>6 DEF Apart, ProfileInv, StoreInv, Calls
    <2> QED BY <2>2, <2>3, <2>4, <2>5, <2>6 DEF StoreInv
  <1>2. HandleInv'
    <2>1. (\A s \in Threads : pc'[s] \notin InInit) => \A s \in Threads : pc[s] \notin InInit
      BY DEF Apart, InInit, Calls
    <2> QED BY <2>1 DEF Apart, ProfileInv, HandleInv, From, EnvNow, Uuid
  <1> QED BY <1>1, <1>2

LEMMA ApartReads ==
  ASSUME TypeInv, ProfileInv, NEW t \in Threads, Apart(t),
         pc'[t] \notin {"method", "domain", "ask", "wait"}
  PROVE  ReadInv'
  BY DEF Apart, ProfileInv, ReadInv

(* The steps of an initialisation.                                         *)
Alone(t) ==
  /\ \A s \in Threads \ {t} : pc[s] = "idle" /\ pc'[s] = "idle"
  /\ pc[t] \in InInit \cup {"idle"} /\ pc'[t] \in InInit \cup {"idle"}

LEMMA AloneReads ==
  ASSUME NEW t \in Threads, Alone(t)
  PROVE  ReadInv'
  BY DEF Alone, ReadInv, InInit

LEMMA InitialiseKeeps ==
  ASSUME TypeInv, ProfileInv, Careful, NEW t \in Threads, Initialise(t)
  PROVE  ProfileInv'
  <1> USE DEF library, osn, app, tunnelInfo, collectData, caller, locals, InInit
  <1>1. Alone(t)
    BY DEF Initialise, InitLookup, InitLookupFails, Fill, InitStore, InitSelect, Startup,
           StartupFails, CloudInit, LeaveInit, Goto, Idle, Careful, Alone, TypeInv, TypeOK, ProfileInv, StoreInv
  <1>2. ReadInv'
    BY <1>1, AloneReads
  <1>3. ASSUME UNCHANGED <<tunnels, login>> PROVE OpenInv'
    BY <1>3 DEF ProfileInv, OpenInv
  <1>4. CASE InitLookup(t)
    <2>1. /\ \A s \in Threads : pc[s] = "idle"
          /\ profile' \in [Threads -> Source] /\ profile'[t] \in Profiles
          /\ data'[t] \in Data /\ collect'[data'[t]] = profile'[t]
          /\ pc' = [pc EXCEPT ![t] = "store"]
          /\ UNCHANGED <<env, next, handle, tunnels, login>>
      BY <1>4 DEF InitLookup, Fill, Goto, Idle, Careful, TypeInv, TypeOK, Source
    <2>2. StoreInv'
      BY <2>1 DEF ProfileInv, StoreInv, TypeInv, TypeOK, Calls
    <2>3. HandleInv'
      BY <2>1 DEF HandleInv, TypeInv, TypeOK
    <2> QED BY <1>2, <1>3, <2>1, <2>2, <2>3 DEF ProfileInv
  <1>5. CASE InitLookupFails(t) \/ StartupFails(t)
    <2>1. /\ \A s \in Threads : pc'[s] = "idle"
          /\ next' = [next EXCEPT ![t] = 1]
          /\ handle' = "error"
          /\ UNCHANGED <<env, tunnels, login>>
      BY <1>1, <1>5 DEF InitLookupFails, StartupFails, LeaveInit, Goto, Alone, AfterFailure,
                        Careful, Fill, TypeInv, TypeOK
    <2>2. StoreInv'
      BY <1>1, <2>1 DEF ProfileInv, StoreInv, TypeInv, TypeOK, Calls, Alone
    <2>3. HandleInv'
      BY <2>1 DEF HandleInv
    <2> QED BY <1>2, <1>3, <2>1, <2>2, <2>3 DEF ProfileInv
  <1>6. CASE InitStore(t)
    <2> DEFINE n == next[t]
    <2>1. /\ pc[t] = "store" /\ n \in 1..8 /\ EnvOrder[n] \in EnvFields \cup {"uuid"}
          /\ pc' = [pc EXCEPT ![t] = IF n = 8 THEN "select" ELSE "store"]
          /\ IF EnvOrder[n] = "uuid" THEN uuid' = data[t] /\ env' = env
             ELSE env' = [env EXCEPT ![EnvOrder[n]] = profile[t]] /\ uuid' = uuid
          /\ next' = [next EXCEPT ![t] = IF n = 8 THEN 1 ELSE n + 1]
          /\ UNCHANGED <<profile, data, collect, handle, tunnels, login>>
      BY <1>6, OrderType DEF InitStore, Goto, TypeInv, TypeOK
    <2>2. \A k \in 1..8 : k <= n => Copied(t, k)'
      BY <2>1, OrderType DEF Copied, ProfileInv, StoreInv, TypeInv, TypeOK
    <2>3. /\ profile[t] \in Profiles /\ data[t] \in Data /\ collect[data[t]] = profile[t]
          /\ \A s \in Threads \ {t} : pc'[s] = "idle" /\ next'[s] = 1
      BY <1>1, <2>1 DEF ProfileInv, StoreInv, Alone
    <2>4. CASE n = 8
      <3>1. pc'[t] = "select" /\ next'[t] = 1 /\ profile' = profile
        BY <2>1, <2>4 DEF TypeInv, TypeOK
      <3>2. From(profile[t])' /\ uuid' = data'[t]
        <4>1. \A k \in 1..8 : Copied(t, k)'
          BY <2>2, <2>4
        <4>2. "uuid" \notin EnvFields
          BY DEF EnvFields
        <4> QED BY <4>1, <4>2, OrderType DEF Copied, From
      <3>3. StoreInv'
        BY <2>1, <2>3, <3>1, <3>2 DEF StoreInv, Calls
      <3>4. HandleInv'
        BY <3>1 DEF HandleInv
      <3> QED BY <1>2, <1>3, <2>1, <3>3, <3>4 DEF ProfileInv
    <2>5. CASE n # 8
      <3>1. pc'[t] = "store" /\ next'[t] = n + 1 /\ profile' = profile
        BY <2>1, <2>5 DEF TypeInv, TypeOK
      <3>2. \A k \in 1..8 : k < next'[t] => Copied(t, k)'
        BY <2>1, <2>2, <3>1
      <3>3. StoreInv'
        BY <2>1, <2>3, <3>1, <3>2 DEF StoreInv, Calls
      <3>4. HandleInv'
        BY <3>1 DEF HandleInv
      <3> QED BY <1>2, <1>3, <2>1, <3>3, <3>4 DEF ProfileInv
    <2> QED BY <2>4, <2>5
  <1>7. CASE InitSelect(t) \/ Startup(t)
    <2>1. /\ pc[t] \in {"select", "startup"}
          /\ \E to \in {"startup", "cloud"} : pc' = [pc EXCEPT ![t] = to]
          /\ UNCHANGED <<env, uuid, next, profile, data, collect, handle, tunnels, login>>
      BY <1>7 DEF InitSelect, Startup, Goto
    <2>2. StoreInv'
      BY <2>1 DEF ProfileInv, StoreInv, TypeInv, TypeOK, Calls, From
    <2>3. HandleInv'
      BY <2>1 DEF HandleInv, TypeInv, TypeOK
    <2> QED BY <1>2, <1>3, <2>1, <2>2, <2>3 DEF ProfileInv
  <1>8. CASE CloudInit(t)
    <2>1. /\ pc[t] = "cloud" /\ \A s \in Threads : pc'[s] = "idle"
          /\ next' = [next EXCEPT ![t] = 1]
          /\ login' = [f \in LoginFields |-> EnvNow(f)] /\ session' = data[t]
          /\ UNCHANGED <<env, uuid, collect, tunnels>>
      BY <1>1, <1>8 DEF CloudInit, LeaveInit, Goto, Alone, TypeInv, TypeOK
    <2>2. /\ profile[t] \in Profiles /\ From(profile[t])
          /\ data[t] \in Data /\ uuid = data[t] /\ collect[data[t]] = profile[t]
      BY <2>1 DEF ProfileInv, StoreInv, InInit
    <2>3. Coherent(login)' /\ \A f \in LoginFields : login'[f] = EnvNow(f)'
      <3>1. \A f \in LoginFields : EnvNow(f) = profile[t] /\ EnvNow(f)' = EnvNow(f)
        BY <2>1, <2>2, NullType DEF EnvNow, Uuid, From, LoginFields, EnvFields
      <3> QED BY <2>1, <2>2, <3>1 DEF Coherent
    <2>4. login' # NULL
      <3>1. login' \in [LoginFields -> Source]
        BY <2>1 DEF EnvNow, Uuid, Source, TypeInv, TypeOK, LoginFields, EnvFields
      <3> QED BY <3>1, FieldsType
    <2>5. StoreInv'
      BY <1>1, <2>1 DEF ProfileInv, StoreInv, TypeInv, TypeOK, Calls, Alone
    <2>6. HandleInv'
      BY <2>1, <2>2, <2>3, <2>4 DEF HandleInv, From
    <2>7. OpenInv'
      BY <2>1, <2>3 DEF OpenInv, ProfileInv
    <2> QED BY <1>2, <2>5, <2>6, <2>7 DEF ProfileInv
  <1> QED BY <1>4, <1>5, <1>6, <1>7, <1>8 DEF Initialise

LEMMA NextProfileInv ==
  ASSUME TypeInv, ProfileInv, Careful, [Next]_vars
  PROVE  ProfileInv'
  <1> USE DEF library, osn, app, tunnelInfo, collectData, caller, locals
  <1>1. ASSUME NEW t \in Threads, Apart(t), ReadInv', UNCHANGED tunnels PROVE ProfileInv'
    <2>1. OpenInv'
      BY <1>1 DEF ProfileInv, OpenInv, Apart
    <2> QED BY <1>1, <2>1, ApartKeeps DEF ProfileInv
  <1>2. ASSUME NEW t \in Threads, MayCall(t), handle = "OZ_HANDLE"
        PROVE  \A s \in Threads : pc[s] \notin InInit
    BY <1>2 DEF MayCall, Careful, Initialising, InInit
  <1>3. ASSUME NEW t \in Threads, CreateCall(t) PROVE ProfileInv'
    <2>1. /\ handle = "OZ_HANDLE" /\ \A s \in Threads : pc[s] \notin InInit
          /\ pc[t] = "idle" /\ pc' = [pc EXCEPT ![t] = "method"]
          /\ uses' = [uses EXCEPT ![t]["customer"] = env["customer"]]
          /\ UNCHANGED <<library, osn, handle, collectData, profile, data, next>>
      BY <1>2, <1>3 DEF CreateCall, Enter, Goto
    <2>2. Apart(t)
      BY <2>1 DEF Apart, Calls, TypeInv, TypeOK
    <2>3. pc'[t] = "method" /\ uses'[t]["customer"] = env["customer"]
      BY <2>1 DEF TypeInv, TypeOK, TunnelFields
    <2>4. ReadInv'
      BY <2>1, <2>2, <2>3 DEF Apart, ReadInv, ProfileInv
    <2> QED BY <1>1, <2>1, <2>2, <2>4
  <1>4. ASSUME NEW t \in Threads, DestroyCall(t) \/ ShutdownCall(t) PROVE ProfileInv'
    <2>1. /\ handle = "OZ_HANDLE" /\ \A s \in Threads : pc[s] \notin InInit
          /\ pc[t] = "idle" /\ \E to \in {"destroy", "shutdown"} : pc' = [pc EXCEPT ![t] = to]
          /\ UNCHANGED <<library, osn, app, profile, data, next, uses>>
      BY <1>2, <1>4 DEF DestroyCall, ShutdownCall, Enter, Goto
    <2>2. Apart(t) /\ pc'[t] \in {"destroy", "shutdown"}
      BY <2>1 DEF Apart, Calls, TypeInv, TypeOK
    <2>3. ReadInv'
      BY <2>2, ApartReads
    <2> QED BY <1>1, <2>1, <2>2, <2>3
  <1>5. ASSUME NEW t \in Threads, CreateMethod(t) PROVE ProfileInv'
    <2>1. /\ pc[t] = "method" /\ \E to \in {"domain", "return"} : pc' = [pc EXCEPT ![t] = to]
          /\ UNCHANGED <<library, osn, app, locals>>
      BY <1>5 DEF CreateMethod, Goto
    <2>2. Apart(t)
      BY <2>1 DEF Apart, Calls, TypeInv, TypeOK
    <2>3. ReadInv'
      BY <2>1 DEF ReadInv, ProfileInv, TypeInv, TypeOK
    <2> QED BY <1>1, <2>1, <2>2, <2>3
  <1>6. ASSUME NEW t \in Threads, CreateDomain(t) PROVE ProfileInv'
    <2>1. /\ pc[t] = "domain" /\ pc' = [pc EXCEPT ![t] = "ask"]
          /\ uses' = [uses EXCEPT ![t]["environment"] = env["environment"]]
          /\ UNCHANGED <<library, osn, app, profile, data, next>>
      BY <1>6 DEF CreateDomain, Goto
    <2>2. Apart(t)
      BY <2>1 DEF Apart, Calls, TypeInv, TypeOK
    <2>3. /\ pc'[t] = "ask" /\ uses'[t]["environment"] = env["environment"]
          /\ uses'[t]["customer"] = uses[t]["customer"]
      BY <2>1 DEF TypeInv, TypeOK, TunnelFields
    <2>4. ReadInv'
      BY <2>1, <2>2, <2>3 DEF Apart, ReadInv, ProfileInv
    <2> QED BY <1>1, <2>1, <2>2, <2>4
  <1>7. ASSUME NEW t \in Threads, AskTunnel(t) PROVE ProfileInv'
    <2>1. /\ pc[t] = "ask" /\ pc' = [pc EXCEPT ![t] = "wait"]
          /\ uses' = [uses EXCEPT ![t] =
               [f \in TunnelFields |->
                  IF f \in {"signaling_dns", "user_id", "user_password"}
                  THEN env[f] ELSE uses[t][f]]]
          /\ UNCHANGED <<library, osn, app, profile, data, next>>
      BY <1>7 DEF AskTunnel, Goto
    <2>2. Apart(t)
      BY <2>1 DEF Apart, Calls, TypeInv, TypeOK
    <2>3. /\ pc'[t] = "wait"
          /\ \A f \in TunnelFields :
               uses'[t][f] = IF f \in {"signaling_dns", "user_id", "user_password"}
                             THEN env[f] ELSE uses[t][f]
      BY <2>1 DEF TypeInv, TypeOK
    <2>4. /\ uses'[t]["customer"] = uses[t]["customer"]
          /\ uses'[t]["environment"] = uses[t]["environment"]
          /\ \A f \in {"signaling_dns", "user_id", "user_password"} : uses'[t][f] = env[f]
      BY <2>3 DEF TunnelFields
    <2>5. ReadInv'
      BY <2>1, <2>2, <2>3, <2>4 DEF Apart, ReadInv, ProfileInv
    <2> QED BY <1>1, <2>1, <2>2, <2>5
  <1>8. ASSUME NEW t \in Threads, TunnelUp(t) PROVE ProfileInv'
    <2>1. PICK p \in LocalPorts :
            /\ pc[t] = "wait" /\ pc' = [pc EXCEPT ![t] = "return"]
            /\ tunnels' = [tunnels EXCEPT ![p] = uses[t]]
            /\ UNCHANGED <<env, uuid, login, handle, collectData, profile, data, next, uses>>
      BY <1>8 DEF TunnelUp, Answer, Goto
    <2>2. Apart(t) /\ pc'[t] = "return"
      BY <2>1 DEF Apart, Calls, TypeInv, TypeOK
    <2>3. ReadInv'
      BY <2>2, ApartReads
    <2>4. Coherent(uses[t])
      BY <2>1, WaitIsCoherent
    <2>5. OpenInv'
      BY <2>1, <2>4 DEF OpenInv, ProfileInv, TypeInv, TypeOK
    <2> QED BY <2>2, <2>3, <2>5, ApartKeeps DEF ProfileInv
  <1>9. ASSUME NEW t \in Threads, TunnelFails(t) PROVE ProfileInv'
    <2>1. /\ pc[t] = "wait" /\ pc' = [pc EXCEPT ![t] = "return"]
          /\ UNCHANGED <<env, uuid, login, handle, collectData, tunnels, profile, data, next,
                         uses>>
      BY <1>9 DEF TunnelFails, Answer, Goto
    <2>2. Apart(t) /\ pc'[t] = "return"
      BY <2>1 DEF Apart, Calls, TypeInv, TypeOK
    <2>3. ReadInv'
      BY <2>2, ApartReads
    <2> QED BY <1>1, <2>1, <2>2, <2>3
  <1>10. ASSUME NEW t \in Threads,
                CreateReturn(t) \/ Destroy(t) \/ Shutdown(t) \/ CallFails(t)
         PROVE  ProfileInv'
    <2>1. \E from \in {"return", "destroy", "shutdown"} : Leave(t, from)
      BY <1>10 DEF CreateReturn, Destroy, Shutdown, CallFails
    <2>2. /\ pc[t] \in {"return", "destroy", "shutdown"} /\ pc' = [pc EXCEPT ![t] = "idle"]
          /\ uses' = [uses EXCEPT ![t] = NothingRead]
      BY <2>1 DEF Leave, Goto
    <2>3. UNCHANGED <<env, uuid, login, handle, collectData, profile, data, next>>
      BY <1>10 DEF CreateReturn, Destroy, Shutdown, CallFails
    <2>4. Apart(t) /\ pc'[t] = "idle"
      BY <2>2, <2>3 DEF Apart, Calls, TypeInv, TypeOK
    <2>5. \A p \in LocalPorts : tunnels'[p] # NULL => tunnels'[p] = tunnels[p]
      BY <1>10 DEF CreateReturn, Destroy, Shutdown, CallFails
    <2>6. ReadInv'
      BY <2>4, ApartReads
    <2>7. OpenInv'
      BY <2>3, <2>5 DEF OpenInv, ProfileInv
    <2> QED BY <2>4, <2>6, <2>7, ApartKeeps DEF ProfileInv
  <1>11. ASSUME NEW t \in Threads, SelectP2P(t) PROVE ProfileInv'
    <2>1. /\ pc' = pc /\ pc[t] = "idle"
          /\ UNCHANGED <<env, uuid, login, handle, collectData, tunnels, profile, data, next,
                         uses>>
      BY <1>11 DEF SelectP2P, Goto, TypeInv, TypeOK
    <2> QED BY <1>1, <2>1 DEF Apart, ReadInv, ProfileInv, Calls
  <1>12. ASSUME NEW t \in Threads, Reject(t) \/ CreateWrongType(t) PROVE ProfileInv'
    <2>1. /\ pc' = pc /\ pc[t] = "idle"
          /\ UNCHANGED <<env, uuid, login, handle, collectData, tunnels, profile, data, next,
                         uses>>
      BY <1>12 DEF Reject, CreateWrongType, MayCall
    <2> QED BY <1>1, <2>1 DEF Apart, ReadInv, ProfileInv, Calls
  <1>13. ASSUME NEW t \in Threads, Crash(t) PROVE ProfileInv'
    <2>1. /\ pc' = pc /\ pc[t] \in {"method", "shutdown"}
          /\ UNCHANGED <<env, uuid, login, handle, collectData, tunnels, profile, data, next,
                         uses>>
      BY <1>13 DEF Crash
    <2> QED BY <1>1, <2>1 DEF Apart, ReadInv, ProfileInv, Calls
  <1>14. ASSUME NEW t \in Threads, ReleaseData(t) PROVE ProfileInv'
    <2>1. PICK d \in Data :
            /\ \A s \in Threads : data[s] # d
            /\ handle = "OZ_HANDLE" => d # session
            /\ collect' = [collect EXCEPT ![d] = NULL]
            /\ UNCHANGED <<library, osn, handle, session, pc, locals>>
      BY <1>14 DEF ReleaseData, Passed
    <2>2. \A c \in Data \ {d} : collect'[c] = collect[c]
      BY <2>1 DEF TypeInv, TypeOK
    <2>3. StoreInv'
      BY <2>1, <2>2 DEF ProfileInv, StoreInv, From, Copied
    <2>4. HandleInv'
      BY <2>1, <2>2 DEF ProfileInv, HandleInv, From, EnvNow, Uuid
    <2> QED BY <2>1, <2>3, <2>4 DEF ProfileInv, ReadInv, OpenInv
  <1>15. CASE UNCHANGED vars
    BY <1>15 DEF vars, ProfileInv, StoreInv, HandleInv, ReadInv, OpenInv, From, Copied, EnvNow, Uuid
  <1> QED
    BY <1>3, <1>4, <1>5, <1>6, <1>7, <1>8, <1>9, <1>10, <1>11, <1>12, <1>13, <1>14, <1>15,
       InitialiseKeeps
    DEF Next, CreateTunnel

-----------------------------------------------------------------------------
(* Every state of the P2P client API has its type, whatever the threads    *)
(* and the application do.                                                 *)
THEOREM TypeCorrect == Spec => []TypeOK
  <1>1. TypeInv => TypeOK
    BY DEF TypeInv
  <1> QED BY <1>1, InitTypeInv, NextTypeInv, PTL DEF Spec

(* The status in a tunnel-info structure is right whatever oz_createTunnel *)
(* returned, for any number of threads and initialisations at any moment.  *)
THEOREM InfoIsRight == Spec => []InfoTellsTruth
  <1>1. Init => TypeInv /\ TruthInv
    BY InitTypeInv, InitTruthInv
  <1>2. TypeInv /\ TruthInv /\ [Next]_vars => (TypeInv /\ TruthInv)'
    BY NextTypeInv, NextTruthInv
  <1>3. TruthInv => InfoTellsTruth
    BY DEF TruthInv, Truth, InfoTellsTruth
  <1> QED BY <1>1, <1>2, <1>3, PTL DEF Spec

ClientInv == TypeInv /\ ProfileInv

LEMMA ProfileCorrect ==
  ASSUME Careful
  PROVE  Spec => []ClientInv
  <1>1. Init => ClientInv
    BY InitTypeInv, InitProfileInv DEF ClientInv
  <1>2. ClientInv /\ [Next]_vars => ClientInv'
    BY NextTypeInv, NextProfileInv DEF ClientInv
  <1> QED BY <1>1, <1>2, PTL DEF Spec

(* No tunnel and no session of the gateway mixes two initialisations, or   *)
(* is opened with fields that were not set, for an application that        *)
(* initialises while nothing else runs and drops its handle when that      *)
(* fails.                                                                  *)
THEOREM ProfilesAreOne ==
  ASSUME Careful
  PROVE  Spec => []OneProfile
  <1>1. ClientInv => OneProfile
    BY WaitIsCoherent DEF ClientInv, OneProfile, ProfileInv, OpenInv
  <1> QED BY <1>1, ProfileCorrect, PTL

(* Such an application never has a valid handle while the environment and  *)
(* the gateway agent have different accounts, and the structure that       *)
(* client_env.uuid points into is then the one of its session, as it was   *)
(* filled for it.                                                          *)
THEOREM AccountsAgree ==
  ASSUME Careful
  PROVE  Spec => []SameAccount
  <1>1. ClientInv => SameAccount
    BY DEF ClientInv, ProfileInv, HandleInv, SameAccount, Initialising, InInit
  <1> QED BY <1>1, ProfileCorrect, PTL

-----------------------------------------------------------------------------
(* The tunnels, for an application that makes one call at a time: another  *)
(* call could change the status before oz_createTunnel returns it.         *)

OneCaller == \A s, t \in Threads : s = t

(* Structure i is named by the application or by the call of t. *)
Names(i, t) == believed[i] \/ using[t] = i

(* The structure of a call that creates a tunnel names none before         *)
(* OsnClient answers, and then none that the status denies.                *)
KnownOf(t) ==
  /\ \A p \in LocalPorts : tunnels[p] # NULL => \E i \in Infos : info[i].port = p /\ Names(i, t)
  /\ pc[t] \in {"method", "domain", "ask", "wait"} => info[using[t]].port = NULL
  /\ pc[t] = "return" => info[using[t]].port = NULL \/ status = "OSN_OK"
  /\ pc[t] = "destroy" => believed[using[t]]
  /\ pc[t] \notin Creating \cup {"destroy"} => using[t] = NULL

KnownInv == NoLostTunnel /\ \A t \in Threads : KnownOf(t)

LEMMA InitKnownInv == Init => KnownInv
  BY DEF Init, KnownInv, NoLostTunnel, KnownOf, Creating

LEMMA StepKnown ==
  ASSUME OneCaller, TypeInv, NEW t \in Threads, KnownOf(t),
         \/ Crash(t) \/ Initialise(t) \/ CreateTunnel(t) \/ SelectP2P(t) \/ ReleaseData(t)
         \/ Reject(t) \/ DestroyCall(t) \/ Destroy(t) \/ ShutdownCall(t) \/ Shutdown(t) \/ CallFails(t)
  PROVE  KnownOf(t)'
  <1>0. \A i : InUse(i) <=> using[t] = i
    BY DEF OneCaller, InUse
  <1> USE NullType
  <1> USE DEF TypeInv, TypeOK, UsingInv, Creating, library, osn, app, tunnelInfo, collectData, caller, locals
  <1>1. CASE \/ Initialise(t) \/ SelectP2P(t) \/ ReleaseData(t) \/ Reject(t) \/ Crash(t)
    <2>1. UNCHANGED <<using, info, tunnels, believed, status>>
      BY <1>1
      DEF Initialise, InitLookup, InitLookupFails, InitStore, InitSelect, Startup, StartupFails,
          CloudInit, LeaveInit, SelectP2P, ReleaseData, Reject, Crash
    <2>2. \/ UNCHANGED pc
          \/ /\ pc[t] \in {"idle", "store", "select", "startup", "cloud"}
             /\ pc'[t] \in {"idle", "store", "select", "startup", "cloud"}
      BY <1>1
      DEF Initialise, InitLookup, InitLookupFails, InitStore, InitSelect, Startup, StartupFails,
          CloudInit, LeaveInit, SelectP2P, ReleaseData, Reject, Crash, Goto
    <2> QED BY <2>1, <2>2 DEF KnownOf, Names
  <1>2. CASE CreateCall(t)
    <2>1. PICK i \in Infos :
            /\ ~believed[i] /\ using[t] # i
            /\ pc[t] = "idle" /\ pc' = [pc EXCEPT ![t] = "method"]
            /\ using' = [using EXCEPT ![t] = i]
            /\ info' = [info EXCEPT ![i] = NoTunnel]
            /\ UNCHANGED <<tunnels, believed, status>>
      BY <1>0, <1>2 DEF CreateCall, Enter, Goto, Cleared
    <2>2. info'[i].port = NULL /\ using'[t] = i /\ pc'[t] = "method"
      BY <2>1 DEF NoTunnel
    <2>3. using[t] = NULL
      BY <2>1 DEF KnownOf
    <2>4. \A j \in Infos : Names(j, t) => j # i /\ info'[j] = info[j] /\ Names(j, t)'
      BY <2>1, <2>3 DEF Names
    <2> QED BY <2>1, <2>2, <2>4 DEF KnownOf
  <1>3. CASE CreateWrongType(t)
    <2>1. PICK i \in Infos :
            /\ ~believed[i] /\ using[t] # i /\ pc[t] = "idle"
            /\ info' = [info EXCEPT ![i] = [Cleared(i) EXCEPT !.status = "OSN_ERROR_TUNNEL_TYPE"]]
            /\ UNCHANGED <<pc, using, tunnels, believed, status>>
      BY <1>0, <1>3 DEF CreateWrongType, MayCall
    <2>2. \A j \in Infos : Names(j, t) => j # i /\ info'[j] = info[j] /\ Names(j, t)'
      BY <2>1 DEF Names
    <2> QED BY <2>1, <2>2 DEF KnownOf
  <1>4. CASE CreateMethod(t) \/ CreateDomain(t) \/ AskTunnel(t)
    <2>1. /\ pc[t] \in {"method", "domain", "ask"}
          /\ pc'[t] \in {"domain", "ask", "wait", "return"}
          /\ UNCHANGED <<using, info, tunnels, believed, status>>
      BY <1>4 DEF CreateMethod, CreateDomain, AskTunnel, Goto
    <2> QED BY <2>1 DEF KnownOf, Names
  <1>5. CASE TunnelUp(t)
    <2>1. PICK p \in LocalPorts :
            /\ pc[t] = "wait" /\ pc' = [pc EXCEPT ![t] = "return"]
            /\ status' = "OSN_OK"
            /\ tunnels[p] = NULL /\ tunnels' = [tunnels EXCEPT ![p] = uses[t]]
            /\ info' = [info EXCEPT ![using[t]] = [port |-> p, status |-> "OSN_OK"]]
            /\ UNCHANGED <<using, believed>>
      BY <1>5 DEF TunnelUp, Answer, Goto, Stored
    <2>2. using[t] \in Infos /\ info[using[t]].port = NULL
      BY <2>1 DEF KnownOf
    <2>3. PICK j \in Infos : j = using[t] /\ info'[j].port = p /\ using'[t] = j
      BY <2>1, <2>2
    <2>4. ASSUME NEW q \in LocalPorts, tunnels'[q] # NULL
          PROVE  \E i \in Infos : info'[i].port = q /\ Names(i, t)'
      <3>1. CASE q = p
        BY <2>3, <3>1 DEF Names
      <3>2. CASE q # p
        <4>1. PICK i \in Infos : info[i].port = q /\ Names(i, t)
          BY <2>1, <2>4, <3>2 DEF KnownOf
        <4>2. i # using[t] /\ info'[i].port = q /\ Names(i, t)'
          BY <2>1, <2>2, <4>1 DEF Names
        <4> QED BY <4>2
      <3> QED BY <3>1, <3>2
    <2> QED BY <2>1, <2>4 DEF KnownOf
  <1>6. CASE TunnelFails(t)
    <2>1. /\ pc[t] = "wait" /\ pc'[t] = "return"
          /\ UNCHANGED <<using, info, tunnels, believed>>
      BY <1>6 DEF TunnelFails, Answer, Goto
    <2> QED BY <2>1 DEF KnownOf, Names
  <1>7. CASE CreateReturn(t)
    <2>1. /\ pc[t] = "return" /\ pc'[t] = "idle" /\ using'[t] = NULL
          /\ believed' = [believed EXCEPT ![using[t]] = (status = "OSN_OK")]
          /\ UNCHANGED <<info, tunnels, status>>
      BY <1>7 DEF CreateReturn, Leave, Goto
    <2>2. using[t] \in Infos /\ (info[using[t]].port = NULL \/ status = "OSN_OK")
      BY <2>1 DEF KnownOf
    <2>3. ASSUME NEW q \in LocalPorts, tunnels[q] # NULL
          PROVE  \E i \in Infos : info[i].port = q /\ believed'[i]
      <3>1. PICK i \in Infos : info[i].port = q /\ Names(i, t)
        BY <2>3 DEF KnownOf
      <3>2. CASE i = using[t]
        <4>1. status = "OSN_OK"
          BY <2>2, <3>1, <3>2
        <4>2. believed'[i]
          BY <2>1, <2>2, <3>2, <4>1
        <4> QED BY <3>1, <4>2
      <3>3. CASE i # using[t]
        BY <2>1, <3>1, <3>3 DEF Names
      <3> QED BY <3>2, <3>3
    <2> QED BY <2>1, <2>3 DEF KnownOf, Names
  <1>8. CASE DestroyCall(t)
    <2>1. PICK i \in Infos :
            /\ believed[i]
            /\ pc[t] = "idle" /\ pc' = [pc EXCEPT ![t] = "destroy"]
            /\ using' = [using EXCEPT ![t] = i]
            /\ UNCHANGED <<info, tunnels, believed, status>>
      BY <1>8 DEF DestroyCall, Enter, Goto
    <2>2. \A j \in Infos : Names(j, t) => believed[j]
      BY <2>1 DEF KnownOf, Names
    <2> QED BY <2>1, <2>2 DEF KnownOf, Names
  <1>9. CASE Destroy(t)
    <2>1. /\ pc[t] = "destroy" /\ pc'[t] = "idle" /\ using'[t] = NULL
          /\ tunnels' = [p \in LocalPorts |-> IF p = info[using[t]].port THEN NULL ELSE tunnels[p]]
          /\ believed' = [believed EXCEPT ![using[t]] = FALSE]
          /\ UNCHANGED <<info, status>>
      BY <1>9 DEF Destroy, Leave, Goto
    <2>2. ASSUME NEW q \in LocalPorts, tunnels'[q] # NULL
          PROVE  \E i \in Infos : info[i].port = q /\ believed'[i]
      <3>1. q # info[using[t]].port /\ tunnels[q] # NULL
        BY <2>1, <2>2
      <3>2. PICK i \in Infos : info[i].port = q /\ Names(i, t)
        BY <3>1 DEF KnownOf
      <3>3. i # using[t]
        BY <3>1, <3>2
      <3> QED BY <2>1, <3>2, <3>3 DEF Names
    <2> QED BY <2>1, <2>2 DEF KnownOf, Names
  <1>10. CASE ShutdownCall(t)
    <2>1. /\ pc[t] = "idle" /\ pc'[t] = "shutdown" /\ using'[t] = NULL
          /\ UNCHANGED <<info, tunnels, believed, status>>
      BY <1>10 DEF ShutdownCall, Enter, Goto
    <2> QED BY <2>1 DEF KnownOf, Names
  <1>11. CASE Shutdown(t)
    <2>1. pc'[t] = "idle" /\ using'[t] = NULL /\ \A p \in LocalPorts : tunnels'[p] = NULL
      BY <1>11 DEF Shutdown, Leave, Goto
    <2> QED BY <2>1 DEF KnownOf
  <1>12. CASE CallFails(t)
    <2>1. Leave(t, "shutdown") \/ Leave(t, "destroy")
      BY <1>12 DEF CallFails
    <2>2. /\ pc[t] \in {"shutdown", "destroy"} /\ pc'[t] = "idle" /\ using'[t] = NULL
          /\ UNCHANGED <<info, tunnels, believed, status>>
      BY <1>12, <2>1 DEF CallFails, Leave, Goto
    <2>3. \A j \in Infos : Names(j, t) => believed[j]
      BY <2>2 DEF KnownOf, Names
    <2> QED BY <2>2, <2>3 DEF KnownOf, Names
  <1> QED
    BY <1>1, <1>2, <1>3, <1>4, <1>5, <1>6, <1>7, <1>8, <1>9, <1>10, <1>11, <1>12 DEF CreateTunnel

LEMMA NextKnownInv ==
  ASSUME OneCaller, TypeInv, KnownInv, [Next]_vars
  PROVE  KnownInv'
  <1>1. CASE UNCHANGED vars
    BY <1>1 DEF vars, library, osn, app, tunnelInfo, collectData, caller, locals, KnownInv, NoLostTunnel, InUse, KnownOf, Names
  <1>2. ASSUME NEW t \in Threads,
               \/ Crash(t) \/ Initialise(t) \/ CreateTunnel(t) \/ SelectP2P(t) \/ ReleaseData(t)
               \/ Reject(t) \/ DestroyCall(t) \/ Destroy(t) \/ ShutdownCall(t) \/ Shutdown(t) \/ CallFails(t)
        PROVE  KnownInv'
    <2>1. KnownOf(t)'
      BY <1>2, StepKnown DEF KnownInv
    <2>2. \A s \in Threads : s = t
      BY DEF OneCaller
    <2>3. NoLostTunnel'
      BY <2>1 DEF NoLostTunnel, KnownOf, Names, InUse
    <2> QED BY <2>1, <2>2, <2>3 DEF KnownInv
  <1> QED BY <1>1, <1>2 DEF Next

(* No tunnel is lost by an application that makes one call at a time,      *)
(* whatever the method is and whatever OsnClient answers.                  *)
THEOREM TunnelsAreKnown == OneCaller => (Spec => []NoLostTunnel)
  <1> SUFFICES ASSUME OneCaller PROVE Spec => []NoLostTunnel
    OBVIOUS
  <1>1. Init => TypeInv /\ KnownInv
    BY InitTypeInv, InitKnownInv
  <1>2. TypeInv /\ KnownInv /\ [Next]_vars => (TypeInv /\ KnownInv)'
    BY NextTypeInv, NextKnownInv
  <1>3. TypeInv /\ KnownInv => NoLostTunnel
    BY DEF KnownInv
  <1> QED BY <1>1, <1>2, <1>3, PTL DEF Spec
=============================================================================
