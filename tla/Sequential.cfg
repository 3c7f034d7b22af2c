SPECIFICATION SequentialSpec
CONSTANTS
  MaxSymbols = 3
  MaxLine = 2
  MaxChar = 1
  Runes <- MCRunes
  MaxQuery = 2
  MaxTarget = 3
  Langs = {"go", "ts"}
  Dirs = {"src", "vendor", "node_modules", ".venv", ".."}
  Files = {"a.go", "a.ts"}
  DotNames = {".venv", ".."}
  UpNames = {".."}
  LangOf <- MCLangOf
  Defaults <- MCDefaults
  UserPatterns <- MCUserPatterns
  MaxDirs = 2
  Capacity = 3
  Lines = {"x", "y"}
  NoLine = "no line"
  MaxHistory = 8
  Roots = {"cwd", "dir"}
  Cwd = "cwd"
  Excludes = {"a", "b"}
  NoExcludes = "nothing"
  ConfigFiles <- MCConfigFiles
  NoConfig = NoConfig
  BrokenConfig = BrokenConfig
  NoRoot = "none"
INVARIANTS
  InnermostIsDeepest
  SameTopLevelSymbol
  FuzzyIsSubsequence
  OneSourceTree
  ReferencesSeeSources
  TailIsLastLines
  EveryEntryAnswered
PROPERTIES
  SameExcludes
