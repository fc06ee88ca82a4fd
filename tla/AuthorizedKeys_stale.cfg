CONSTANTS
  Keys = {k1, k2}
  Threads = {t1, t2}
  None = None
SPECIFICATION KeysSpec
SYMMETRY Symmetric
INVARIANT RevokedStaysOut
