SPECIFICATION Spec
CONSTANTS
  NULL = NULL
  Threads = {t1, t2}
  Payloads = {d1}
  LongData = {}
  Users = {u1}
  Fds = {f1, f2}
  MaxChunks = 1
  QuietEnv = TRUE
SYMMETRY Symmetry
INVARIANT SignedContent
