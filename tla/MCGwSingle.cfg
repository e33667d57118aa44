SPECIFICATION FairSpec
CONSTANTS
  t1 = t1
  t2 = t2
  NULL = NULL
  NoReq = NoReq
  Threads = {t1}
  NumSlots = 1
  SlotOf <- AllNotif
  Handles = {h1, h2}
  Payloads = {d1, d2}
  Users = {u1, u2}
  MaxRetry = 4
  QuietInit = TRUE
INVARIANT TypeOK
INVARIANT SignedContent
INVARIANT NoUseAfterFree
INVARIANT NoHandleLeak
INVARIANT WaitsOnOwnSocket
PROPERTY ImplementsSession
PROPERTY CallReturns
