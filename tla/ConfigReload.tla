---------------------------- MODULE ConfigReload ----------------------------
(***************************************************************************)
(* The config watcher of the OllinAI adapter (modules/ollinai/adapter.go   *)
(* watchConfig, checkConfigReload): every 5 s it looks at the mtime of the *)
(* config file and loads the file when it is later than the one it knows.  *)
(* Between the look and the load the file may change or go away.           *)
(*                                                                         *)
(* The file is outside src/: it is written in place, truncated first, or   *)
(* replaced by another one that keeps its mtime.  Two writes in place have *)
(* different mtimes.                                                       *)
(***************************************************************************)
EXTENDS ConfigLoader

CONSTANTS
  Contents,     \* what a file may say: partial functions on Fields
  Environments, \* the variables of the process, without their prefix
  MaxVersion    \* bound: changes of the file

Nothing == [f \in {} |-> 0]        \* an empty file

ASSUME ReloadAssumption ==
  /\ \A c \in Contents : /\ DOMAIN c \subseteq Fields
                         /\ \A f \in DOMAIN c \cap TextFields : c[f] \in Texts
                         /\ \A f \in DOMAIN c \cap NumberFields : c[f] \in Nat
  /\ \A e \in Environments : \A name \in DOMAIN e :
       e[name].text \in Texts /\ e[name].number \in Nat \cup {NoNumber}
  /\ MaxVersion \in Nat \ {0}

VARIABLES
  file,        \* [kind, content]: "missing", "broken" (does not parse) or "text"
  mtime,       \* of the file
  version,     \* history: how often the file changed; the clock of the writers
  env,         \* the environment variables
  config,      \* a.config
  configMtime, \* a.configMtime
  watcher,     \* "off", "waiting" for a tick, "reading" after the look, "stopped"
  looked,      \* the mtime of the look
  attempts,    \* history: per version, how often it was read
  lost         \* history: this version cannot be noticed any more

fileVars    == <<file, mtime, version>>
watcherVars == <<config, configMtime, watcher, looked>>
reloadVars  == <<fileVars, env, watcherVars, attempts, lost>>

Missing       == [kind |-> "missing", content |-> Nothing]
Broken        == [kind |-> "broken", content |-> Nothing]
Text(content) == [kind |-> "text", content |-> content]
Files == {Missing, Broken, Text(Nothing)} \cup {Text(c) : c \in Contents}

(* LoadConfig returns a config: read, parsed and valid *)
Loads(f) == f.kind = "text" /\ Valid(Loaded(f.content, env))

(* the adapter was given the config of the file it was started with *)
ReloadInit ==
  /\ file \in {Text(c) : c \in Contents}
  /\ env \in Environments
  /\ Loads(file)
  /\ mtime = 1
  /\ version = 1
  /\ config = Loaded(file.content, env)
  /\ configMtime = 0
  /\ watcher = "off"
  /\ looked = 0
  /\ attempts = [v \in 1..MaxVersion |-> 0]
  /\ lost = FALSE

-----------------------------------------------------------------------------
(* The file.  A version with an mtime the watcher knows is not noticed;    *)
(* neither is one from before watchConfig took its first look.             *)

Changes(f, m) ==
  /\ version < MaxVersion
  /\ version' = version + 1
  /\ file' = f
  /\ mtime' = m
  /\ lost' = \/ watcher = "off"
             \/ watcher = "waiting" /\ m <= configMtime
  /\ UNCHANGED <<env, watcherVars, attempts>>

WriteInPlace == \E f \in Files \ {Missing} : Changes(f, version + 1)
MoveInPlace  == \E c \in Contents, m \in 1..version : Changes(Text(c), m)
Remove       == file # Missing /\ Changes(Missing, mtime)

-----------------------------------------------------------------------------
(* watchConfig: the first look *)
BeginWatch ==
  /\ watcher = "off"
  /\ watcher' = "waiting"
  /\ configMtime' = IF file = Missing THEN 0 ELSE mtime
  /\ UNCHANGED <<fileVars, env, config, looked, attempts, lost>>

(* checkConfigReload at a tick: os.Stat *)
MutLook ==                                   \* compares a coarser time
  /\ watcher = "waiting"
  /\ file # Missing
  /\ mtime > configMtime + 1
  /\ watcher' = "reading"
  /\ looked' = mtime
  /\ UNCHANGED <<fileVars, env, config, configMtime, attempts, lost>>
Look ==
  /\ watcher = "waiting"
  /\ file # Missing
  /\ mtime > configMtime
  /\ watcher' = "reading"
  /\ looked' = mtime
  /\ UNCHANGED <<fileVars, env, config, configMtime, attempts, lost>>

(* LoadConfig; a file that does not load counts as seen, like one that does *)
MutRead ==                                   \* a bad file is tried again and again
  /\ watcher = "reading"
  /\ watcher' = "waiting"
  /\ attempts' = [attempts EXCEPT ![version] = @ + 1]
  /\ \/ Loads(file) /\ config' = Loaded(file.content, env) /\ configMtime' = looked
     \/ ~Loads(file) /\ UNCHANGED <<config, configMtime>>
  /\ UNCHANGED <<fileVars, env, looked, lost>>
Read ==
  /\ watcher = "reading"
  /\ watcher' = "waiting"
  /\ configMtime' = looked
  /\ attempts' = [attempts EXCEPT ![version] = @ + 1]
  /\ \/ Loads(file) /\ config' = Loaded(file.content, env)
     \/ ~Loads(file) /\ UNCHANGED config
  /\ UNCHANGED <<fileVars, env, looked, lost>>

(* the file cannot be read this once: it counts as seen as well *)
ReadFails ==
  /\ watcher = "reading"
  /\ watcher' = "waiting"
  /\ configMtime' = looked
  /\ lost' = (lost \/ mtime <= looked)
  /\ UNCHANGED <<fileVars, env, config, looked, attempts>>

(* the context is done, or stopCh is closed *)
StopWatch ==
  /\ watcher = "waiting"
  /\ watcher' = "stopped"
  /\ UNCHANGED <<fileVars, env, config, configMtime, looked, attempts, lost>>

ReloadNext ==
  \/ WriteInPlace \/ MoveInPlace \/ Remove
  \/ BeginWatch \/ Look \/ Read \/ ReadFails \/ StopWatch

ReloadSpec == ReloadInit /\ [][ReloadNext]_reloadVars

(* the ticker ticks; a read is awaited *)
ReloadFairSpec ==
  ReloadSpec /\ WF_reloadVars(BeginWatch) /\ WF_reloadVars(Look) /\ WF_reloadVars(Read \/ ReadFails)

-----------------------------------------------------------------------------
(* The active configuration is valid at all times, and what the            *)
(* environment says is in it, whatever was in the file when it was read.   *)
(* (adapter.go checkConfigReload, config.go LoadConfig)                    *)
ActiveConfigValid ==
  /\ IsConfig(config) /\ Valid(config)
  /\ \A f \in Fields : Counts(env, f) => config[f] = FromVariable(env, f)

(* No version of the file is loaded over and over, be it bad or good: at   *)
(* most once for the look that found it and once for an earlier look.      *)
(* (adapter.go checkConfigReload)                                          *)
NoReloadLoop == \A v \in 1..MaxVersion : attempts[v] <= 2

Active(v) ==
  \/ config = Loaded(file.content, env)
  \/ version # v \/ lost \/ watcher = "stopped"

(* A file that loads becomes the configuration and stays it until the file *)
(* changes again or the watcher stops, unless it could not be noticed: it  *)
(* came before the first look, kept an mtime that is already known, or     *)
(* could not be read at the moment of the look.                            *)
(* (adapter.go watchConfig, checkConfigReload)                             *)
FreshFileAdopted ==
  \A v \in 1..MaxVersion : version = v /\ Loads(file) /\ ~lost ~> [](Active(v))
=============================================================================
