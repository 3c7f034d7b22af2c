SPECIFICATION FairSpec
CONSTANTS
  t = t
  a = a
  b = b
  x = x
  h = h
  main = main
  lib = lib
  vendor = vendor
  NoSymbol = NoSymbol
  Symbols <- MCSymbols
  Files <- MCFiles
  Target = t
  HiddenFiles = {vendor}
  ExcludedSymbols = {x}
  RefGraphs <- MCRefGraphs
INVARIANTS
  OnlyUpstream
  CompleteUnlessWarned
PROPERTY Terminates
