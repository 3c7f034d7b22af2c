SPECIFICATION Spec
CONSTANTS
  top = top
  inner = inner
  sub = sub
  Files = {top, inner}
  Dirs = {sub}
  DirOf <- MCDirOf
  Root = Root
  Texts = {v1, v2}
  NoText = NoText
  Others = {go}
  Drained = ts
  Buffer = 1
  MaxChanges = 3
INVARIANT AlwaysFollowsDisk
