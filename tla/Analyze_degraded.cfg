SPECIFICATION Spec
CONSTANTS
  go = go
  ts = ts
  m1 = m1
  m2 = m2
  n1 = n1
  a = a
  b = b
  x = x
  c = c
  Langs = {go, ts}
  FilesOf <- MCFilesOf
  SymbolsOf <- MCSymbolsOf
  NoSymbol = NoSymbol
  ExcludedSymbols = {x}
  RefGraphs <- MCRefGraphs
INVARIANT NoSilentDegradation
