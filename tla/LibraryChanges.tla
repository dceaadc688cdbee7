--------------------------- MODULE LibraryChanges ---------------------------
(***************************************************************************)
(* A change of the library on its way to those who use the mount: the      *)
(* refresh round (torrent/refresh/mod.rs) changes the map of torrents,     *)
(* tells the inode cleanup of removals through a broadcast channel and the *)
(* hook worker of every change through an unbounded one.  Composes         *)
(* InodeMap and HookWorker; the shell command the worker runs looks for    *)
(* the changed torrents in the mount, as a media server does.              *)
(*                                                                         *)
(* The entries themselves, with their repair states, are the subject of    *)
(* TorrentRegistry: here a round is the keys it adds, changes and removes. *)
(***************************************************************************)
EXTENDS InodeMap, HookWorker

CONSTANT
  Scopes   \* who else is there: [keys, mount, files, hooks, events]

(* keys: the torrents there may be; mount: the mount is used; files: the   *)
(* torrent directories are used too; hooks: there is a hook worker, and    *)
(* what only concerns it happens; events: bound on what users and the      *)
(* environment do.                                                         *)
ASSUME LibraryConstants ==
  \A s \in Scopes : /\ s.keys \subseteq Torrents /\ s.events \in Nat
                     /\ s.mount \in BOOLEAN /\ s.files \in BOOLEAN /\ s.hooks \in BOOLEAN

VARIABLES
  scope,         \* the member of Scopes in this behaviour
  onRd,          \* Real-Debrid: the keys of its torrents
  touched,       \* Real-Debrid: keys whose record differs from the map's
  round,         \* the refresh round: [pc, add, chg, del, paths, store, key]
  owed,          \* history: changed keys no hook has been run for since
  unstored,      \* history: keys of rounds whose batch could not be stored
  seen,          \* the media server: the torrents it knows
  libraryEvents

refreshVars == << scope, onRd, touched, round, owed, unstored, seen, libraryEvents >>
libraryVars == << torrents, inodeVars, hookVars, refreshVars >>

NoRound == [pc |-> "idle", add |-> {}, chg |-> {}, del |-> {}, paths |-> {},
            store |-> FALSE, key |-> NoTorrent]

LibraryHappens == libraryEvents < scope.events /\ libraryEvents' = libraryEvents + 1

(* load_from_db has filled the map; Real-Debrid may have changed since.    *)
LibraryInit ==
  /\ scope \in Scopes /\ torrents \in SUBSET scope.keys /\ onRd \in SUBSET scope.keys
  /\ InodesInit /\ HookInit /\ worker = (IF scope.hooks THEN "running" ELSE "stopped")
  /\ touched = {} /\ round = NoRound /\ owed = {} /\ unstored = {}
  /\ seen = torrents /\ libraryEvents = 0

-----------------------------------------------------------------------------
(* The refresh round.  It is one task: its steps are the points where      *)
(* others can see what it has done.                                        *)
Diff == [NoRound EXCEPT !.pc = "apply", !.add = onRd \ torrents, !.del = torrents \ onRd,
                        !.chg = touched \cap torrents \cap onRd,
                        !.store = onRd \ torrents # {} \/ touched \cap torrents \cap onRd # {}]

(* The comparison of LibraryState that may skip a round, and the torrents  *)
(* under repair that it leaves alone, are in TorrentRegistry.              *)
RefreshRound ==
  /\ round.pc = "idle" /\ ~down
  /\ onRd # torrents \/ touched \cap torrents # {}
  /\ round' = Diff
  /\ UNCHANGED << torrents, inodeVars, hookVars, scope, onRd, touched, owed, unstored, seen,
                  libraryEvents >>

(* A change is owed to the hook while there is a worker.                   *)
Owing(k) == IF worker = "running" THEN owed \cup {k} ELSE owed

(* The files of an entry whose info is loaded are as Real-Debrid has them. *)
LoadedFiles(k) == IF scope.files THEN Selections ELSE {selection[k]}

RefreshAdd(k) ==
  /\ round.pc = "apply" /\ k \in round.add
  /\ torrents' = torrents \cup {k} /\ owed' = Owing(k)
  /\ \E new \in LoadedFiles(k) : Reload(k, new)
  /\ round' = [round EXCEPT !.add = @ \ {k}, !.paths = @ \cup {k}]
  /\ UNCHANGED << scope, entryVars, hookVars, onRd, touched, unstored, seen, libraryEvents >>

RefreshChange(k) ==
  /\ round.pc = "apply" /\ round.add = {} /\ k \in round.chg
  /\ touched' = touched \ {k} /\ owed' = Owing(k)
  /\ round' = [round EXCEPT !.chg = @ \ {k}, !.paths = @ \cup {k}]
  /\ UNCHANGED << torrents, inodeVars, hookVars, scope, onRd, unstored, seen, libraryEvents >>

RefreshRemove(k) ==
  /\ round.pc = "apply" /\ round.add = {} /\ round.chg = {} /\ k \in round.del
  /\ torrents' = torrents \ {k} /\ owed' = Owing(k)
  /\ round' = [round EXCEPT !.pc = "notify", !.del = @ \ {k}, !.paths = @ \cup {k}, !.key = k]
  /\ UNCHANGED << scope, inodeVars, hookVars, onRd, touched, unstored, seen, libraryEvents >>

RefreshNotifyForgotten ==
  /\ round.pc = "notify"
  /\ round' = [round EXCEPT !.pc = "apply", !.key = NoTorrent]
  /\ UNCHANGED << torrents, inodeVars, hookVars, scope, onRd, touched, owed, unstored, seen,
                  libraryEvents >>

RefreshNotify ==
  /\ round.pc = "notify"
  /\ NotifyTorrentRemoved(round.key)
  /\ round' = [round EXCEPT !.pc = "apply", !.key = NoTorrent]
  /\ UNCHANGED << scope, torrents, listing, keyToInode, inodeToKey, given, reading, purge, fileVars, hookVars,
                  onRd, touched, owed, unstored, seen, libraryEvents >>

Applied == round.pc = "apply" /\ round.add = {} /\ round.chg = {} /\ round.del = {}

(* The rows are stored, if there are any; then the hook is told.           *)
RefreshTrigger ==
  /\ Applied
  /\ TriggerLibraryUpdate(round.paths)
  /\ round' = NoRound
  /\ UNCHANGED << scope, torrents, inodeVars, command, pending, armed, worker, batches, executing, down,
                  onRd, touched, owed, unstored, seen, libraryEvents >>

(* The batch fails: run_once returns before it tells the hook, and no      *)
(* later round finds a difference for these keys.                          *)
StoreFails ==
  /\ Applied /\ round.store /\ scope.hooks /\ LibraryHappens
  /\ unstored' = unstored \cup round.paths
  /\ round' = NoRound
  /\ UNCHANGED << torrents, inodeVars, hookVars, scope, onRd, touched, owed, seen >>

RefreshStep ==
  \/ RefreshRound \/ RefreshNotify \/ RefreshTrigger
  \/ \E k \in Torrents : RefreshAdd(k) \/ RefreshChange(k) \/ RefreshRemove(k)

-----------------------------------------------------------------------------
(* The shell command: for the paths it is run with, the media server looks *)
(* into __all__.                                                           *)
HookCommand(paths) ==
  /\ HookRuns(paths)
  /\ listing' = GetSortedKeys
  /\ seen' = (seen \ paths) \cup (paths \cap listing'.keys \cap torrents)
  /\ owed' = owed \ paths
  /\ UNCHANGED << scope, torrents, keyToInode, inodeToKey, given, reading, removed, lag, purge, leaked,
                  fileVars, onRd, touched, round, unstored, libraryEvents >>

HookSkips ==
  /\ HookEmpty
  /\ owed' = owed \ Head(executing).paths
  /\ UNCHANGED << scope, torrents, inodeVars, onRd, touched, round, unstored, seen, libraryEvents >>

HookStep == \/ WorkerStep /\ UNCHANGED << torrents, inodeVars, refreshVars >>
            \/ HookSkips
BatchStep == \/ HookAcquire /\ UNCHANGED << torrents, inodeVars, refreshVars >>
             \/ \E paths \in SUBSET Torrents : HookCommand(paths)

(* The cleanup task prefers the shutdown token.                            *)
CleanerStep ==
  /\ \/ ~down /\ (CleanupLagged \/ CleanupKey)
     \/ CleanupInode
  /\ UNCHANGED << torrents, hookVars, refreshVars >>

-----------------------------------------------------------------------------
(* What others do: the user on Real-Debrid, the configuration, the signal. *)
RdAddsOrDrops(k) ==
  /\ k \in scope.keys /\ LibraryHappens
  /\ onRd' = (onRd \cup {k}) \ (onRd \cap {k}) /\ touched' = touched \ {k}
  /\ UNCHANGED << scope, torrents, inodeVars, hookVars, round, owed, unstored, seen >>

RdTouches(k) ==
  /\ scope.hooks /\ k \in onRd \cap torrents /\ k \notin touched /\ LibraryHappens
  /\ touched' = touched \cup {k}
  /\ UNCHANGED << torrents, inodeVars, hookVars, scope, onRd, round, owed, unstored, seen >>

(* The entry gets other ids, from a refresh round or a repair, and its     *)
(* info is dropped: the record that is loaded next may select other files. *)
RdReselects(k) ==
  /\ scope.files /\ k \in torrents /\ LibraryHappens
  /\ \E new \in Selections \ {selection[k]} : Reload(k, new)
  /\ UNCHANGED << torrents, entryVars, hookVars, scope, onRd, touched, round, owed, unstored, seen >>

RdStep == \E k \in Torrents : RdAddsOrDrops(k) \/ RdTouches(k) \/ RdReselects(k)
ProcessStep ==
  /\ scope.hooks /\ LibraryHappens
  /\ Shutdown \/ \E c \in Commands : HookReload(c)
  /\ UNCHANGED << scope, torrents, inodeVars, onRd, touched, round, owed, unstored, seen >>
MountStep ==
  /\ \/ scope.mount /\ DirectoryStep
     \/ scope.files /\ FileStep
  /\ UNCHANGED << torrents, hookVars, refreshVars >>

LibraryNext ==
  \/ RefreshStep \/ StoreFails \/ HookStep \/ BatchStep \/ CleanerStep
  \/ RdStep \/ ProcessStep \/ MountStep

LibraryFairness ==
  WF_libraryVars(RefreshStep) /\ WF_libraryVars(HookStep) /\ WF_libraryVars(BatchStep)

LibrarySpec == LibraryInit /\ [][LibraryNext]_libraryVars /\ LibraryFairness

-----------------------------------------------------------------------------
(* fs.rs: the cleanup task purges a removed torrent.  The entry of a key   *)
(* that is not in the library is about to be purged: its removal is being  *)
(* sent or is queued.  The exceptions are those of the code: an event lost *)
(* in a full channel, an entry that a readdir makes for a torrent which    *)
(* was removed after its test, and the shutdown.                           *)
DeadInodesPurged ==
  \A k \in Torrents \ torrents :
    keyToInode[k] # 0 => \/ Queued(k) \/ round.key = k
                         \/ k \in leaked \/ down

(* README: "Shell command executed when the library changes."  Every key   *)
(* the round has added, changed or removed gets a hook that is run after   *)
(* the change, however rounds, debouncing and running batches overlap,     *)
(* unless the worker is stopped or the database fails.                     *)
ChangesReachHook ==
  \A k \in Torrents : []<>(k \notin owed \/ k \in unstored \/ worker = "stopped")

-----------------------------------------------------------------------------
(* fs_helpers.rs, invalidate_cached_all_dir: "Force-expire the             *)
(* `cached_all_dir` cache so the next `readdir` rebuilds it. Called on     *)
(* torrent add, remove, or rename."  Then the command that the hook runs   *)
(* finds what has changed: once changes cease, the media server knows the  *)
(* library.                                                                *)
HookFindsChange == <>[](seen = torrents \/ unstored # {} \/ down \/ command = "none")
=============================================================================
