------------------------------ MODULE Startup ------------------------------
(***************************************************************************)
(* How projects come to be registered: depgraph.yaml (config/config.go),   *)
(* the MCP handlers initialize, reload_config and add_project              *)
(* (adapters/mcp/server.go), which run one after the other on the dispatch *)
(* goroutine, AddProject's checks (domain/workspace.go, lsploader), and    *)
(* the command line's use of the same file (cmd/depgraph/main.go).         *)
(*                                                                         *)
(* AddProject is one step here. What registration sets off is Workspace.   *)
(* The file and the directories are external and change at any time.       *)
(***************************************************************************)
EXTENDS Naturals, Sequences, FiniteSetsExt

CONSTANTS
  Roots,        \* directories that may be projects
  Cwd,          \* the launch directory, one of them
  Excludes,     \* what an entry of the file may exclude
  NoExcludes,   \* nothing
  ConfigFiles,  \* contents depgraph.yaml may have: sequences of entries
  NoConfig,     \* no file
  BrokenConfig, \* a file that cannot be read or parsed
  NoRoot        \* an entry without a root

Unregistered == "unregistered"

ASSUME StartupAssumption ==
  /\ Cwd \in Roots
  /\ NoRoot \notin Roots
  /\ NoExcludes \notin Excludes
  /\ Unregistered \notin Excludes \cup {NoExcludes}
  /\ NoConfig # BrokenConfig
  /\ \A f \in ConfigFiles : f \in Seq([root : Roots \cup {NoRoot}, excludes : Excludes])
  /\ \A f \in {NoConfig, BrokenConfig} :
       f \notin Seq([root : Roots \cup {NoRoot}, excludes : Excludes])

VARIABLES
  disk,        \* disk[r]: no directory, one with no supported language or without its
               \* server, or one that can be a project
  file,        \* depgraph.yaml
  loaded,      \* what it was when it was last loaded
  startupCfg,  \* Adapter.startupCfg
  startupWarn, \* Adapter.startupWarn: entries that Load dropped, by number, and 0
               \* for the whole file
  registered,  \* registered[r]: the excludes of project r, or Unregistered
  reply        \* the warnings and the projects of the last response

startupVars == <<disk, file, loaded, startupCfg, startupWarn, registered, reply>>

StartupTypeOK ==
  /\ disk \in [Roots -> {"missing", "unsupported", "supported"}]
  /\ {file, loaded} \subseteq ConfigFiles \cup {NoConfig, BrokenConfig}
  /\ registered \in [Roots -> Excludes \cup {NoExcludes, Unregistered}]
  /\ reply.to \in {"none", "initialize", "reload_config", "add_project"}
  /\ reply.dropped \subseteq Nat
  /\ reply.failed \cup reply.projects \subseteq Roots

-----------------------------------------------------------------------------
\* config.Load.

\* An entry without a root, or whose root is not a directory, is dropped.
Usable(entry) == entry.root # NoRoot /\ disk[entry.root] # "missing"

\* Mutant: an entry without a root is dropped without a word.
WarnMissing(f) == {i \in DOMAIN f : f[i].root # NoRoot /\ ~Usable(f[i])}

Warnings(f) == {i \in DOMAIN f : ~Usable(f[i])}

Kept(f) ==
  LET kept[i \in 0..Len(f)] ==
        IF i = 0 THEN <<>>
        ELSE IF Usable(f[i]) THEN Append(kept[i - 1], f[i]) ELSE kept[i - 1]
  IN kept[Len(f)]

Load(f) ==
  CASE f = NoConfig     -> [cfg |-> NoConfig, warn |-> {}]
    [] f = BrokenConfig -> [cfg |-> NoConfig, warn |-> {0}]
    [] OTHER            -> [cfg |-> Kept(f), warn |-> Warnings(f)]

-----------------------------------------------------------------------------
\* Workspace.AddProject: a root that is registered is left as it is, whatever it is
\* asked to exclude; one without a supported language, or whose language server is
\* not installed, is an error.
Fails(reg, r) == reg[r] = Unregistered /\ disk[r] # "supported"

\* Mutant: the last registration wins.
Overwrite(reg, r, e) == IF disk[r] = "supported" THEN [reg EXCEPT ![r] = e] ELSE reg

AddProject(reg, r, e) ==
  IF reg[r] = Unregistered /\ disk[r] = "supported" THEN [reg EXCEPT ![r] = e] ELSE reg

\* applyConfig: entry by entry; an error is a warning, and the next one follows.
Applied(cfg) ==
  LET reg[i \in 0..Len(cfg)] ==
        IF i = 0 THEN registered ELSE AddProject(reg[i - 1], cfg[i].root, cfg[i].excludes)
  IN reg[Len(cfg)]

FailedEntries(cfg, reg) == {cfg[i].root : i \in {k \in DOMAIN cfg : Fails(reg, cfg[k].root)}}

\* Workspace.List.
List(reg) == {r \in Roots : reg[r] # Unregistered}

\* The response is made from what the handler has found and done.
Respond(to, dropped, failed, reg) ==
  /\ registered' = reg
  /\ reply' = [to |-> to, dropped |-> dropped, failed |-> failed, projects |-> List(reg)]

Apply(to, cfg, warn) ==
  Respond(to, warn, FailedEntries(cfg, Applied(cfg)), Applied(cfg))

-----------------------------------------------------------------------------
\* main loads the file before it serves.
StartupInit ==
  /\ disk \in [Roots -> {"missing", "unsupported", "supported"}]
  /\ file \in ConfigFiles \cup {NoConfig, BrokenConfig}
  /\ loaded = file
  /\ startupCfg = Load(file).cfg
  /\ startupWarn = Load(file).warn
  /\ registered = [r \in Roots |-> Unregistered]
  /\ reply = [to |-> "none", dropped |-> {}, failed |-> {}, projects |-> {}]

\* initialize with a parsed configuration.
InitializeFromConfig ==
  /\ startupCfg # NoConfig
  /\ Apply("initialize", startupCfg, startupWarn)
  /\ UNCHANGED <<disk, file, loaded, startupCfg, startupWarn>>

\* legacyCWDAutoAdd: without one, the launch directory, if a language is detected
\* in it. One without any is not worth a warning, one without its server is.
AutoAddCwd ==
  /\ startupCfg = NoConfig
  /\ LET reg == AddProject(registered, Cwd, NoExcludes)
     IN \E failed \in SUBSET {Cwd} :
          /\ failed # {} => Fails(reg, Cwd) /\ disk[Cwd] = "unsupported"
          /\ Respond("initialize", startupWarn, failed, reg)
  /\ UNCHANGED <<disk, file, loaded, startupCfg, startupWarn>>

ReloadConfig ==
  /\ loaded' = file
  /\ startupCfg' = Load(file).cfg
  /\ startupWarn' = Load(file).warn
  /\ IF startupCfg' # NoConfig
       THEN Apply("reload_config", startupCfg', startupWarn')
       ELSE Respond("reload_config", startupWarn', {}, registered)
  /\ UNCHANGED <<disk, file>>

\* The add_project tool. It does not list the projects.
AddProjectTool(r, e) ==
  /\ registered' = AddProject(registered, r, e)
  /\ reply' = [to |-> "add_project", dropped |-> {}, projects |-> {},
               failed |-> IF Fails(registered, r) THEN {r} ELSE {}]
  /\ UNCHANGED <<disk, file, loaded, startupCfg, startupWarn>>

\* The user (external).
EditFile ==
  /\ file' \in (ConfigFiles \cup {NoConfig, BrokenConfig}) \ {file}
  /\ UNCHANGED <<disk, loaded, startupCfg, startupWarn, registered, reply>>

ChangeDisk ==
  /\ \E r \in Roots, now \in {"missing", "unsupported", "supported"} :
       now # disk[r] /\ disk' = [disk EXCEPT ![r] = now]
  /\ UNCHANGED <<file, loaded, startupCfg, startupWarn, registered, reply>>

StartupNext ==
  \/ InitializeFromConfig
  \/ AutoAddCwd
  \/ ReloadConfig
  \/ \E r \in Roots, e \in Excludes : AddProjectTool(r, e)
  \/ EditFile
  \/ ChangeDisk

StartupSpec == StartupInit /\ [][StartupNext]_startupVars

-----------------------------------------------------------------------------
\* cmd/depgraph: the entry whose excludes the one-shot analysis of r takes over.
matchingProject(cfg, r) ==
  LET hits == {i \in DOMAIN cfg : cfg[i].root = r}
  IN IF hits = {} THEN NoExcludes ELSE cfg[Min(hits)].excludes

\* No entry of the file is lost without a word: when initialize or reload_config has
\* answered, each one of the file it worked from is a project, or in a warning,
\* and a file that could not be read is in a warning too.
EveryEntryAnswered ==
  reply.to \in {"initialize", "reload_config"} =>
    /\ loaded = BrokenConfig => 0 \in reply.dropped
    /\ loaded \notin {NoConfig, BrokenConfig} =>
         \A i \in DOMAIN loaded :
           i \in reply.dropped \/ loaded[i].root \in reply.projects \cup reply.failed

\* The same file means the same to both commands: a project that initialize or
\* reload_config registers has the excludes that the one-shot analysis would use,
\* of the first entry for its root, and keeps them for good.
SameExcludes ==
  [][\A r \in Roots :
       registered'[r] # registered[r] =>
         /\ registered[r] = Unregistered
         /\ reply'.to # "add_project" =>
              registered'[r] = IF startupCfg' = NoConfig THEN NoExcludes
                                                         ELSE matchingProject(startupCfg', r)]_startupVars
=============================================================================
