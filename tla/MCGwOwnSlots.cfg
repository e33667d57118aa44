SPECIFICATION Spec
CONSTANTS
  t1 = t1
  t2 = t2
  NULL = NULL
  NoReq = NoReq
  Threads = {t1, t2}
  NumSlots = 2
  SlotOf <- OwnSlots
  Handles = {h1, h2}
  Payloads = {d1}
  Users = {u1}
  MaxRetry = 0
  QuietInit = FALSE
SYMMETRY HandleSymmetry
VIEW ControlView
INVARIANT OwnReply
INVARIANT HandleInUseIsLive
INVARIANT OwnershipInv
