--------------------------- MODULE MCAgentClient ---------------------------
(***************************************************************************)
(* Instances of AgentClient for TLC.                                       *)
(***************************************************************************)
EXTENDS AgentClient, TLC

(* Threads, users and descriptors are told apart by identity only, so      *)
(* their permutations are a symmetry of the invariants.                    *)
Symmetry == Permutations(Threads) \cup Permutations(Users) \cup Permutations(Fds)

(* The state without the copies that nothing reads any more: a message    *)
(* that was sent, and what a pointer referred to before it was replaced.   *)
View ==
  <<who, inPtr, outPtr, stamp, open, failures, pc, req, sock, sent, buf, arrived, result,
    [t \in Threads |-> IF pc[t] = "send" THEN message[t] ELSE NULL],
    IF inPtr = NULL THEN NULL ELSE inBlock[inPtr],
    IF outPtr = NULL THEN NULL ELSE outBlock[outPtr]>>
=============================================================================
