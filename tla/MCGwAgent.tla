----------------------------- MODULE MCGwAgent ------------------------------
(***************************************************************************)
(* Instances of GwAgent for TLC.                                           *)
(***************************************************************************)
EXTENDS GwAgent, TLC

CONSTANTS t1, t2

(* What oz_cloudApi.cpp does: GW_THREADS_NOTIF for whoever calls. *)
AllNotif == [t \in Threads |-> 0]

(* What osn_gw_threads_e is for: every thread has its own slot. *)
OwnSlots == [t \in Threads |-> IF t = t1 THEN 0 ELSE 1]

(* Handles are told apart by identity only, so their permutations are a    *)
(* symmetry of the invariants.                                             *)
HandleSymmetry == Permutations(Handles)

(* What the control of the agent, OwnReply, HandleInUseIsLive and          *)
(* OwnershipInv read.  Left out is what no guard and none of the three     *)
(* reads: whose strings they are, the time stamps and the signatures, the  *)
(* socket numbers, the history variable, whether a call that did not       *)
(* succeed failed, and the connections of handles that no slot and no      *)
(* thread has any more.  From two states that agree on the rest the same   *)
(* steps lead to states that agree on the rest.                            *)
Reachable == ({curl[s] : s \in Slots} \cup {held[t] : t \in Threads}) \ {NULL}

ControlView ==
  <<ptr, curl, retry, live, crashed, pc, req, held, reply, nextSlot, nextField,
    [t \in Threads |-> <<result[t] = "ok", params[t].body.req>>],
    [h \in Reachable |->
      <<conn[h].url, conn[h].up,
        [i \in 1 .. Len(conn[h].wire) |-> conn[h].wire[i].body.req]>>]>>
=============================================================================
