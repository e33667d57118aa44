---------------------------- MODULE MCP2PClient ----------------------------
(***************************************************************************)
(* Instances of P2PClient for TLC.                                         *)
(***************************************************************************)
EXTENDS P2PClient, TLC

(* All of these are told apart by identity only. *)
Symmetry ==
  Permutations(LocalPorts) \cup Permutations(Infos) \cup Permutations(Threads)
    \cup Permutations(Data) \cup Permutations(Profiles)

-----------------------------------------------------------------------------
(* What the future of a state and the invariants of p2p_threads depend on. *)
(* No step reads result; none reads the answer of an idle thread or the    *)
(* session of an application without a handle (CloudInit sets both), and a *)
(* structure that nobody points to is filled before it is read, so that    *)
(* what such variables hold changes neither the steps nor the invariants.  *)

Pointed(d) == d = uuid \/ Passed(d) \/ (handle = "OZ_HANDLE" /\ d = session)

LiveData ==
  << [d \in Data |-> IF Pointed(d) THEN collect[d] ELSE NULL],
     IF handle = "OZ_HANDLE" THEN session ELSE NULL >>

ControlView ==
  << library, osn, handle, tunnelInfo, LiveData, pc, profile, data, next, using, uses,
     [t \in Threads |-> IF pc[t] = "idle" THEN "none" ELSE answer[t]] >>
=============================================================================
