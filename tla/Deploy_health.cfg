\* One process deploys two builds.
CONSTANTS
  Pairs = {p1, p2}
  NoPair = none
  Runs = {r1}
  NoRun = nobody
SPECIFICATION Spec
PROPERTIES
  FailureRestores
