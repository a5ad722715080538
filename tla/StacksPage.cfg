CONSTANTS
  Stacks = {s1, s2}
  SystemStacks = {s2}
  Projects = {}
  MaxStacksCalls = 2
  MaxPolls = 2
  MaxJobs = 1
SPECIFICATION StacksSpec
INVARIANTS
  EditorBelongs
  StacksShown
  BannerTrue
PROPERTIES
  RefreshKeepsText
CHECK_DEADLOCK FALSE
