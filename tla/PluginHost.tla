----------------------------- MODULE PluginHost -----------------------------
(***************************************************************************)
(* Plugins: the watcher that reloads their code while developers edit it,  *)
(* the loader that imports it, the registry of the instances, and the      *)
(* routes that enable, disable and configure a plugin for a tenant, each   *)
(* in a READ COMMITTED transaction.  Files and routes share nothing, so    *)
(* the two are not interleaved.                                            *)
(*                                                                         *)
(* Files change under the watcher's hands at any moment; every edit is     *)
(* taken to change the time stamp that it compares.                        *)
(***************************************************************************)
EXTENDS Naturals, Sequences, FiniteSets, SequencesExt, FiniteSetsExt, Functions

CONSTANTS
  PluginDirs,      \* directories, each with a plugin.py
  PluginNameOf,    \* the last component of their paths
  PathsBelow,      \* of each directory: those whose paths begin with the text of its own
  MaxEdits,        \* bound on the edits
  PluginRequests,  \* sessions of the routes, for one plugin and tenant
  NoRegistration,
  MaxSettings      \* bound on the requests

ASSUME PluginAssumption ==
  /\ DOMAIN PluginNameOf = PluginDirs /\ PathsBelow \in [PluginDirs -> SUBSET PluginDirs] /\ MaxEdits \in Nat /\ MaxSettings \in Nat
  /\ NoRegistration \notin [enabled : BOOLEAN, version : 0 .. 2, config : {"empty", "full"}]

VARIABLES
  plugin_file,   \* of each directory: its version, and whether it is "ok" or "broken"
  watching,      \* _running; _watched_dirs; _plugin_dirs; history: the version at watch()
  polling,       \* the directories that poll() has still to look at, and the one to reload
  loaded,        \* _loaded_plugins
  modules,       \* sys.modules: of the reloaded plugins, and the one the loader calls "plugin"
  registry,      \* the version registered globally and for the tenant; 0 is none
  registration,  \* the committed row
  setting,       \* what each session has looked up, seen and flushed
  setting_lock,  \* the session that holds the row, or the key of an insert
  settings_made, \* requests so far
  setting_answer         \* history: the last answer, whether it was alone; the last configuration

fileVars == <<plugin_file, watching, polling, loaded, modules>>
settingVars == <<registry, registration, setting, setting_lock, settings_made, setting_answer>>
pluginVars == <<plugin_file, watching, polling, loaded, modules, registry, registration,
                setting, setting_lock, settings_made, setting_answer>>

NotPolling == [todo |-> << >>, reload |-> {}]
Unasked == [pc |-> "idle"]

PluginInit ==
  /\ plugin_file = [d \in PluginDirs |-> [version |-> 1, code |-> "ok"]]
  /\ watching = [running |-> FALSE, snapshot |-> << >>, dirs |-> << >>, first |-> << >>]
  /\ polling = NotPolling
  /\ loaded = << >>
  /\ modules = << >>
  /\ registry = [global |-> 0, tenant |-> 0]
  /\ registration = NoRegistration
  /\ setting = [r \in PluginRequests |-> Unasked]
  /\ setting_lock = {}
  /\ settings_made = 0
  /\ setting_answer = [row |-> NoRegistration, alone |-> FALSE, config |-> "empty"]

(* The entries of the one function, and of the other what it lacks.        *)
Joined(f, g) == [k \in DOMAIN f \cup DOMAIN g |-> IF k \in DOMAIN f THEN f[k] ELSE g[k]]

RoutesUntouched == settings_made = 0 /\ registry = [global |-> 0, tenant |-> 0]

(* A developer edits the file, for better or worse; what is removed is     *)
(* broken, too.                                                            *)
EditPlugin(d) ==
  /\ RoutesUntouched
  /\ MapThenSumSet(LAMBDA o : plugin_file[o].version - 1, PluginDirs) < MaxEdits
  /\ \E code \in {"ok", "broken"} :
       plugin_file' = [plugin_file EXCEPT ![d] = [version |-> @.version + 1, code |-> code]]
  /\ UNCHANGED <<watching, polling, loaded, modules, settingVars>>

WatcherIdle == polling = NotPolling /\ RoutesUntouched

(* watch(): takes a snapshot, and loads nothing.  Of two directories with  *)
(* one name the later is the one that is reloaded.                         *)
Watch(d) ==
  /\ WatcherIdle /\ d \notin DOMAIN watching.snapshot
  /\ watching' = [watching EXCEPT !.snapshot = Joined([o \in {d} |-> plugin_file[o].version], @),
                                  !.first = Joined([o \in {d} |-> plugin_file[o].version], @),
                                  !.dirs = Joined([name \in {PluginNameOf[d]} |-> d], @)]
  /\ UNCHANGED <<plugin_file, polling, loaded, modules, settingVars>>

Without(f, keys) == Restrict(f, DOMAIN f \ keys)

StopWatching(d) ==
  /\ WatcherIdle /\ d \in DOMAIN watching.snapshot
  /\ watching' = [watching EXCEPT !.snapshot = Without(@, {d}), !.first = Without(@, {d}),
                                  !.dirs = Without(@, {PluginNameOf[d]})]
  /\ UNCHANGED <<plugin_file, polling, loaded, modules, settingVars>>

(* start() and stop(): the loop sleeps whenever it can be cancelled.       *)
StartStopWatcher ==
  /\ WatcherIdle /\ watching.snapshot # << >>
  /\ watching' = [watching EXCEPT !.running = ~@]
  /\ UNCHANGED <<plugin_file, polling, loaded, modules, settingVars>>

Poll ==
  /\ WatcherIdle /\ watching.running /\ watching.snapshot # << >>
  /\ polling' = [NotPolling EXCEPT !.todo = SetToSeq(DOMAIN watching.snapshot)]
  /\ UNCHANGED <<plugin_file, watching, loaded, modules, settingVars>>

(* The snapshot of the next directory; if it differs it is stored, and the *)
(* reload follows.                                                         *)
CompareSnapshot ==
  /\ polling.todo # << >> /\ polling.reload = {}
  /\ LET d == Head(polling.todo)
         changed == plugin_file[d].version # watching.snapshot[d]
     IN /\ watching' = IF changed THEN [watching EXCEPT !.snapshot[d] = plugin_file[d].version] ELSE watching
        /\ polling' = [todo |-> Tail(polling.todo), reload |-> IF changed THEN {PluginNameOf[d]} ELSE {}]
  /\ UNCHANGED <<plugin_file, loaded, modules, settingVars>>

(* _evict_modules(): whatever comes from a path that begins with the text  *)
(* of the directory's, which foobar's does with foo's.                     *)
Evicted(d) == Without(modules, {k \in DOMAIN modules : modules[k].dir \in PathsBelow[d]})

(* reload_plugin(): nothing under a name that nobody watches any more;     *)
(* what cannot be loaded is evicted and yet stays the plugin.              *)
ReloadPlugin ==
  /\ \E name \in polling.reload :
       IF name \notin DOMAIN watching.dirs THEN UNCHANGED <<loaded, modules>>
       ELSE LET d == watching.dirs[name]
                code == [dir |-> d, version |-> plugin_file[d].version]
            IN IF plugin_file[d].code = "ok"
               THEN /\ loaded' = Joined([k \in {name} |-> code], loaded)
                    /\ modules' = Joined([k \in {name} |-> code], Evicted(d))
               ELSE modules' = Evicted(d) /\ UNCHANGED loaded
  /\ polling' = [polling EXCEPT !.reload = {}]
  /\ UNCHANGED <<plugin_file, watching, settingVars>>

(* load_plugin_from_directory(): a module that was imported under the same *)
(* name, from wherever, is what the import returns.                        *)
LoadDirectory(d) ==
  /\ WatcherIdle
  /\ modules' = IF "plugin" \in DOMAIN modules \/ plugin_file[d].code = "broken" THEN modules
                ELSE Joined([k \in {"plugin"} |-> [dir |-> d, version |-> plugin_file[d].version]], modules)
  /\ UNCHANGED <<plugin_file, watching, polling, loaded, settingVars>>
-----------------------------------------------------------------------------
FilesUntouched == \A d \in PluginDirs : plugin_file[d].version = 1 /\ watching.snapshot = << >> /\ modules = << >>

(* register() refuses a name that is taken in its scope.                   *)
RegisterPlugin(scope, version) ==
  /\ FilesUntouched /\ registry[scope] = 0
  /\ registry' = [registry EXCEPT ![scope] = version]
  /\ UNCHANGED <<fileVars, registration, setting, setting_lock, settings_made, setting_answer>>

UnregisterPlugin(scope) ==
  /\ registry[scope] # 0
  /\ registry' = [registry EXCEPT ![scope] = 0]
  /\ UNCHANGED <<fileVars, registration, setting, setting_lock, settings_made, setting_answer>>

(* get_plugin(): the tenant's before the global one.                       *)
GetPlugin == IF registry.tenant # 0 THEN registry.tenant ELSE registry.global

Asks(r, doing) ==
  /\ FilesUntouched /\ setting[r] = Unasked /\ settings_made < MaxSettings
  /\ settings_made' = settings_made + 1
  /\ setting' = [setting EXCEPT ![r] = doing]
  /\ UNCHANGED <<fileVars, registry, registration, setting_lock, setting_answer>>

EnablePlugin(r) ==
  GetPlugin # 0 /\ Asks(r, [pc |-> "asked", fields |-> [enabled |-> TRUE, version |-> GetPlugin]])

DisablePlugin(r) == Asks(r, [pc |-> "asked", fields |-> [enabled |-> FALSE]])

UpdatePluginConfig(r) ==
  \E config \in {"empty", "full"} : Asks(r, [pc |-> "asked", fields |-> [config |-> config]])

(* The row of the tenant; only enabling may go on without one.             *)
ReadRegistration(r) ==
  /\ setting[r].pc = "asked"
  /\ setting' = [setting EXCEPT ![r] =
       IF registration = NoRegistration /\ "version" \notin DOMAIN @.fields THEN Unasked
       ELSE [pc |-> "read", fields |-> @.fields, seen |-> registration, others |-> FALSE]]
  /\ UNCHANGED <<fileVars, registry, registration, setting_lock, settings_made, setting_answer>>

(* What the session answers: the row it has seen with its own changes.     *)
Answered(r) ==
  Joined(setting[r].fields, IF setting[r].seen = NoRegistration THEN [enabled |-> TRUE, version |-> 0, config |-> "empty"]
                          ELSE setting[r].seen)

(* Fields that differ from what was seen; the others are not written.      *)
Writes(r) ==
  IF setting[r].seen = NoRegistration THEN Answered(r)
  ELSE Restrict(setting[r].fields, {f \in DOMAIN setting[r].fields : setting[r].fields[f] # setting[r].seen[f]})

(* An insert of a row that another session has committed meanwhile breaks  *)
(* the unique index and the request; nothing to write takes no lock.       *)
FlushRegistration(r) ==
  /\ setting[r].pc = "read"
  /\ Writes(r) = << >> \/ setting_lock = {}
  /\ IF setting[r].seen = NoRegistration /\ registration # NoRegistration
     THEN setting' = [setting EXCEPT ![r] = Unasked] /\ UNCHANGED setting_lock
     ELSE /\ setting' = [setting EXCEPT ![r].pc = "flushed"]
          /\ setting_lock' = IF Writes(r) = << >> THEN setting_lock ELSE {r}
  /\ UNCHANGED <<fileVars, registry, registration, settings_made, setting_answer>>

(* The audit entry is part of the transaction.                             *)
CommitRegistration(r) ==
  /\ setting[r].pc = "flushed"
  /\ registration' = IF registration = NoRegistration THEN Writes(r) ELSE Joined(Writes(r), registration)
  /\ setting_answer' = [row |-> Answered(r), alone |-> ~setting[r].others,
                config |-> IF "config" \in DOMAIN setting[r].fields /\ "config" \in DOMAIN Writes(r)
                           THEN setting[r].fields.config ELSE setting_answer.config]
  /\ setting_lock' = setting_lock \ {r}
  /\ setting' = [o \in PluginRequests |->
       IF o = r THEN Unasked
       ELSE IF setting[o].pc \in {"read", "flushed"} THEN [setting[o] EXCEPT !.others = TRUE] ELSE setting[o]]
  /\ UNCHANGED <<fileVars, registry, settings_made>>

RollbackRegistration(r) ==
  /\ setting[r] # Unasked
  /\ setting' = [setting EXCEPT ![r] = Unasked]
  /\ setting_lock' = setting_lock \ {r}
  /\ UNCHANGED <<fileVars, registry, registration, settings_made, setting_answer>>

PluginNext ==
  \/ \E d \in PluginDirs : EditPlugin(d) \/ Watch(d) \/ StopWatching(d) \/ LoadDirectory(d)
  \/ StartStopWatcher \/ Poll \/ CompareSnapshot \/ ReloadPlugin
  \/ \E scope \in {"global", "tenant"} : (\E version \in 1 .. 2 : RegisterPlugin(scope, version)) \/ UnregisterPlugin(scope)
  \/ \E r \in PluginRequests :
       \/ EnablePlugin(r) \/ DisablePlugin(r) \/ UpdatePluginConfig(r) \/ ReadRegistration(r)
       \/ FlushRegistration(r) \/ CommitRegistration(r) \/ RollbackRegistration(r)

PluginSpec == PluginInit /\ [][PluginNext]_pluginVars

-----------------------------------------------------------------------------
(* Between two polls: what has changed since a directory is watched, and   *)
(* is as the last poll has seen it, is loaded, if it can be; an edit that  *)
(* comes while its plugin is being reloaded is seen by the next poll.  Of  *)
(* directories with the same name this holds for the one that was watched  *)
(* last.                                                                   *)
ReloadsAreFresh ==
  polling = NotPolling =>
    \A d \in DOMAIN watching.snapshot :
      LET name == PluginNameOf[d] IN
      /\ watching.snapshot[d] = plugin_file[d].version
      /\ plugin_file[d].version # watching.first[d]
      /\ plugin_file[d].code = "ok"
      /\ name \in DOMAIN watching.dirs /\ watching.dirs[name] = d
      => name \in DOMAIN loaded /\ loaded[name] = [dir |-> d, version |-> plugin_file[d].version]

(* A reloaded plugin that can be imported is the one that is loaded.       *)
ImportedIsLoaded == \A name \in DOMAIN modules \ {"plugin"} : name \in DOMAIN loaded /\ modules[name] = loaded[name]

(* After a request that overlapped with no other the row is what it has    *)
(* answered, and nobody undoes a configuration by enabling or disabling.   *)
SettingsAreKept ==
  /\ setting_answer.alone => registration = setting_answer.row
  /\ registration # NoRegistration => registration.config = setting_answer.config

PluginsAreSound == ReloadsAreFresh /\ ImportedIsLoaded /\ SettingsAreKept
=============================================================================
