SPECIFICATION Spec
CONSTANTS
  t1 = t1
  t2 = t2
  NULL = NULL
  NoReq = NoReq
  Threads = {t1, t2}
  NumSlots = 1
  SlotOf <- AllNotif
  Handles = {h1}
  Payloads = {d1}
  Users = {u1}
  MaxRetry = 0
  QuietInit = TRUE
INVARIANT OwnReply
