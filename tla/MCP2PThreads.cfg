SPECIFICATION Spec
CONSTANTS
  NULL = NULL
  Threads = {t1, t2}
  Infos = {i1, i2}
  LocalPorts = {lp1, lp2}
  Profiles = {p1, p2}
  Data = {d1, d2}
  QuietInit = TRUE
  KeepsHandle = FALSE
  AppSelects = TRUE
SYMMETRY Symmetry
VIEW ControlView
INVARIANT OneProfile
INVARIANT InfoTellsTruth
INVARIANT SameAccount
CHECK_DEADLOCK FALSE
