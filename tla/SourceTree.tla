----------------------------- MODULE SourceTree -----------------------------
(***************************************************************************)
(* Which files of a project each part of depgraph sees: the walkers of     *)
(* domain/source.go and adapters/lsp/adapter.go, the watcher's filter      *)
(* (adapters/fswatch/watcher.go), the event loop's (adapters/lsp/          *)
(* session.go), and the one of find_references (domain/project.go).        *)
(*                                                                         *)
(* A path is the sequence of its names below the root. A state is one path *)
(* and one project; whether a walk reaches a file depends only on the      *)
(* directories on the way to it. Glob matching is external: a pattern is   *)
(* well formed and names one path, a path with all that is below it, or a  *)
(* name anywhere.                                                          *)
(***************************************************************************)
EXTENDS Naturals, FiniteSets, SequencesExt

CONSTANTS
  Langs,         \* languages
  Dirs, Files,   \* names of directories and of source files
  DotNames,      \* those that begin with a dot
  UpNames,       \* those that begin with two dots, ".." itself included
  LangOf,        \* LangOf[f]: the language whose extensions f has
  Defaults,      \* Defaults[l]: the default exclude patterns of a language
  UserPatterns,  \* patterns a user may exclude
  MaxDirs        \* bound: directories between the root and a file

Patterns == [kind : {"path", "below", "name"}, at : Seq(Dirs \cup Files)]

ASSUME NamesAssumption ==
  /\ Dirs \cap Files = {}
  /\ UpNames \subseteq DotNames
  /\ LangOf \in [Files -> Langs]
  /\ Defaults \in [Langs -> SUBSET Patterns]
  /\ UserPatterns \subseteq Patterns
  /\ MaxDirs \in Nat

VARIABLES
  dotRoot,   \* the name of the root itself begins with a dot
  path,      \* a file
  lang,      \* the language of a session or an analysis
  detected,  \* the languages of the project
  excludes,  \* the user's exclude patterns
  born       \* how many of the path's directories existed when the watch began

treeVars == <<dotRoot, path, lang, detected, excludes, born>>

Below(n) == {SubSeq(path, 1, k) : k \in 1..n}

\* The path and the directories on the way to it, without the root.
Entries == Below(Len(path))

-----------------------------------------------------------------------------
\* doublestar.PathMatch (external): p, p/**, which also matches p, and **/p.
PathMatch(p, rel) == CASE p.kind = "path"  -> rel = p.at
                       [] p.kind = "below" -> IsPrefix(p.at, rel)
                       [] p.kind = "name"  -> IsSuffix(p.at, rel)

IsExcluded(rel, patterns) == \E p \in patterns : PathMatch(p, rel)

Dotted(rel) == Last(rel) \in DotNames

MatchesAnyExt(l) == LangOf[Last(path)] = l

SessionExcludes == Defaults[lang] \cup excludes

\* The watcher has the default excludes of every language of the project.
WatchExcludes == excludes \cup UNION {Defaults[l] : l \in detected}

\* A walk skips the root if its name has a dot, and an entry, with what is below
\* it, if it is a dot entry or excluded.
Reached(entries, patterns) ==
  ~dotRoot /\ \A e \in entries : ~Dotted(e) /\ ~IsExcluded(e, patterns)

\* find_symbols and the preload.
WalkSourceFiles == Reached(Entries, SessionExcludes) /\ MatchesAnyExt(lang)

\* The one-shot analysis has its own copy.
findFiles == Reached(Entries, SessionExcludes) /\ MatchesAnyExt(lang)

\* find_references: a location anywhere on the disk.
RelPathInRoot == path[1] \notin UpNames

\* Mutant: with the patterns of all languages.
FollowedUnlessAny == RelPathInRoot /\ ~IsExcluded(path, WatchExcludes)

FollowedByReferences == RelPathInRoot /\ ~IsExcluded(path, SessionExcludes)

-----------------------------------------------------------------------------
\* Mutant: dot entries pass.
DotsAllowed(rel) == ~IsExcluded(rel, WatchExcludes)

allowed(rel) == ~Dotted(rel) /\ ~IsExcluded(rel, WatchExcludes)

\* newWatcher watches the directories a walk reaches; one that appears later is
\* watched from handle or handleNewDir, if its parent is.
WalkDirectories(dirs) == Reached(dirs, WatchExcludes)

Watched ==
  /\ WalkDirectories(Below(born))
  /\ \A d \in Below(Len(path) - 1) \ Below(born) : allowed(d)

\* handle, and then runEventLoop's own test.
Reported == Watched /\ allowed(path)

matches == MatchesAnyExt(lang) /\ ~IsExcluded(path, SessionExcludes)

\* A save of the file reaches the language server.
FollowedByEvents == Reported /\ matches

-----------------------------------------------------------------------------
\* Two dots lead out of the root, as in a location in a library.
Paths ==
  {Append(dirs, f) :
     dirs \in {d \in BoundedSeq(Dirs, MaxDirs) : \A k \in 2..Len(d) : d[k] \notin UpNames},
     f \in Files}

TreeInit ==
  /\ dotRoot \in BOOLEAN
  /\ path \in Paths
  /\ detected \in SUBSET Langs
  /\ lang \in detected
  /\ excludes \in {{}} \cup {{p, q} : p, q \in UserPatterns}
  /\ born \in 0 .. Len(path) - 1

\* No path at all.
NoTree ==
  /\ dotRoot = FALSE
  /\ path = <<>>
  /\ lang = "none"
  /\ detected = {}
  /\ excludes = {}
  /\ born = 0

-----------------------------------------------------------------------------
Of(patterns) == \E e \in Entries : IsExcluded(e, patterns)

\* The parts of depgraph that read the source tree agree on it. What the analysis
\* sees, find_symbols and the preload see. A document that an event opens or changes
\* is one the preload would have opened; and whatever it opened is followed, no
\* matter which of its directories were made after the watch began, unless it lies
\* in a tree that another language of the project excludes by default.
OneSourceTree ==
  path # <<>> =>
    /\ findFiles <=> WalkSourceFiles
    /\ FollowedByEvents => WalkSourceFiles
    /\ WalkSourceFiles /\ ~Of(WatchExcludes \ SessionExcludes) => FollowedByEvents

\* find_references goes through every file find_symbols knows: no caller is dropped
\* whose symbols the other tool lists. The converse has exactly four exceptions: dot
\* entries, a root with a dot, files of another language, and patterns that exclude
\* a directory without what is below it.
ReferencesSeeSources ==
  path # <<>> =>
    /\ WalkSourceFiles => FollowedByReferences
    /\ FollowedByReferences /\ ~WalkSourceFiles =>
         \/ dotRoot
         \/ ~MatchesAnyExt(lang)
         \/ \E e \in Entries : Dotted(e)
         \/ \E p \in SessionExcludes :
              p.kind # "below" /\ \E e \in Entries \ {path} : PathMatch(p, e)
=============================================================================
