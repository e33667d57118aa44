SPECIFICATION Spec
CONSTANTS
  NULL = NULL
  OzUtils = utils
  Threads = {t1, t2}
  Units = {utils, agent}
  Callbacks = {cb}
  Size = 4
  MaxHead = 2
  MaxText = 2
SYMMETRY Symmetry
VIEW LineView
INVARIANT TypeOK
INVARIANT SafeOutput
INVARIANT OwnLine
