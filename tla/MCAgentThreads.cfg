SPECIFICATION FairSpec
CONSTANTS
  NULL = NULL
  Threads = {t1, t2}
  Payloads = {d1, d2}
  LongData = {d2}
  Users = {u1}
  Fds = {f1, f2}
  MaxChunks = 2
  QuietEnv = TRUE
INVARIANT TypeOK
INVARIANT EncoderReady
INVARIANT DescriptorsCounted
INVARIANT WholePrefix
PROPERTY CallReturns
VIEW View
