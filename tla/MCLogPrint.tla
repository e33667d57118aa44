----------------------------- MODULE MCLogPrint -----------------------------
(***************************************************************************)
(* Instances of LogPrint for TLC.                                          *)
(***************************************************************************)
EXTENDS LogPrint, TLC

(* Threads are told apart by identity only. *)
Symmetry == Permutations(Threads)

(* A line of OSNCLIENT_LOG_ERR passes every level, so no step depends on   *)
(* the levels that were registered.                                        *)
LineView == <<buff, callback, crashed, pc, locals>>
=============================================================================
