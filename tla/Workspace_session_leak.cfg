SPECIFICATION Spec
CONSTANTS
  Roots = {r1}
  Projects = {p1}
  Langs = {go, ts}
  NoProject = NoProject
  NoRoot = NoRoot
INVARIANT EverySessionReaped
