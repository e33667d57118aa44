---------------------------- MODULE CloudSession ----------------------------
(***************************************************************************)
(* What the cloud API of OzClient promises to one thread of calls: a       *)
(* session is opened by an initialisation, requests may fail at any time   *)
(* and leave it open, and the first request that succeeds ends it: the     *)
(* next request fails until the application initialises again.             *)
(***************************************************************************)
EXTENDS Naturals

CONSTANT Threads

VARIABLES
  open,  \* are the credentials of a session there?
  call,  \* the outcome of each thread's last call, or "busy"
  dead   \* did the process die?

vars == <<open, call, dead>>

Outcomes == {"none", "busy", "ok", "fail"}

Init ==
  /\ open = FALSE
  /\ call = [t \in Threads |-> "none"]
  /\ dead = FALSE

(* An initialisation drops the session, or opens one. *)
Initialize ==
  /\ \A t \in Threads : call[t] # "busy"
  /\ open' \in BOOLEAN
  /\ UNCHANGED <<call, dead>>

Begin(t) ==
  /\ call[t] # "busy"
  /\ call' = [call EXCEPT ![t] = "busy"]
  /\ UNCHANGED <<open, dead>>

(* Success needs a session and ends it. *)
Succeed(t) ==
  /\ call[t] = "busy"
  /\ open
  /\ call' = [call EXCEPT ![t] = "ok"]
  /\ open' = FALSE
  /\ UNCHANGED dead

Fail(t) ==
  /\ call[t] = "busy"
  /\ call' = [call EXCEPT ![t] = "fail"]
  /\ UNCHANGED <<open, dead>>

Die ==
  /\ dead' = TRUE
  /\ UNCHANGED <<open, call>>

Next ==
  /\ ~dead
  /\ Initialize \/ Die \/ \E t \in Threads : Begin(t) \/ Succeed(t) \/ Fail(t)

Spec == Init /\ [][Next]_vars

TypeOK == open \in BOOLEAN /\ dead \in BOOLEAN /\ call \in [Threads -> Outcomes]
=============================================================================
