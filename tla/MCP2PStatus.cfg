SPECIFICATION Spec
CONSTANTS
  NULL = NULL
  Threads = {t1, t2}
  Infos = {i1, i2}
  LocalPorts = {lp1, lp2}
  Profiles = {p1, p2}
  Data = {d1, d2}
  QuietInit = TRUE
  KeepsHandle = TRUE
  AppSelects = FALSE
SYMMETRY Symmetry
INVARIANT StatusIsOwn
