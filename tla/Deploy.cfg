\* Two processes deploy three builds, again and again.
CONSTANTS
  Pairs = {p1, p2, p3}
  NoPair = none
  Runs = {r1, r2}
  NoRun = nobody
SPECIFICATION Spec
INVARIANTS
  PairsPresent
  FilesAgree
PROPERTIES
  ActiveIsNotForgotten
  ReleaseSpec
