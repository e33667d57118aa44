SPECIFICATION OzSpec
CONSTANTS
  NULL = NULL
  Threads = {t1}
  Infos = {i1, i2}
  LocalPorts = {lp1}
  Profiles = {p1, p2}
  Data = {d1, d2}
  QuietInit = TRUE
  KeepsHandle = FALSE
  AppSelects = TRUE
  Workers = {w1}
  Cameras = {c1, c2}
  Sockets = {f1}
SYMMETRY Symmetry
VIEW ControlView
INVARIANT TypeOK
INVARIANT NoLostTunnel
INVARIANT OwnCamera
INVARIANT SameIdentity
CHECK_DEADLOCK FALSE
