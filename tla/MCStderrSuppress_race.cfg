SPECIFICATION Spec
CONSTANTS
  c1 = c1
  c2 = c2
  f1 = f1
  f2 = f2
  Creators = {c1, c2}
  AppFiles = {f1, f2}
  TopFd = 6
  NoFd = NoFd
SYMMETRY Symmetry
INVARIANTS StderrRestored
