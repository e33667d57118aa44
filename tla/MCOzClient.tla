----------------------------- MODULE MCOzClient -----------------------------
(***************************************************************************)
(* Instances of OzClient for TLC.                                          *)
(***************************************************************************)
EXTENDS OzClient, TLC

(* All of these are told apart by identity only. *)
Symmetry ==
  Permutations(Infos) \cup Permutations(LocalPorts) \cup Permutations(Cameras)
    \cup Permutations(Profiles) \cup Permutations(Data)

(* The session of an application without a handle is set before it is read *)
(* (CloudInit), and a collect_data structure that nobody points to is      *)
(* filled before it is read: what they hold changes no step.  Neither do   *)
(* result and answer, which no step reads and only TypeOK here names.      *)
Pointed(d) == d = uuid \/ Passed(d) \/ (handle = "OZ_HANDLE" /\ d = session)

LiveData ==
  << [d \in Data |-> IF Pointed(d) THEN collect[d] ELSE NULL],
     IF handle = "OZ_HANDLE" THEN session ELSE NULL >>

ControlView ==
  <<library, osn, handle, tunnelInfo, LiveData, pc, profile, data, next, using, uses, target, peer, link, agent>>
=============================================================================
