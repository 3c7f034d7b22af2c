SPECIFICATION FairQSpec
CONSTANTS
  Roots = {r1, r2}
  Projects = {p1}
  Langs = {go, ts}
  NoProject = NoProject
  NoRoot = NoRoot
INVARIANTS
  SingleOwner
  RegisteredIsWatched
  AsksRealSessions
  AnswersAfterIndexing
  CleanReplyIsComplete
PROPERTIES
  OutcomeIsFinal
  ImplementsOwnership
  QueriesReturn
  LaunchSettles
  ShutdownCompletes
