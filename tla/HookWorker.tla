----------------------------- MODULE HookWorker -----------------------------
(***************************************************************************)
(* torrent/hook.rs: the worker that collects changed paths, waits until    *)
(* half a second has passed without another message, and runs the          *)
(* on_library_update command for them, one batch at a time.                *)
(*                                                                         *)
(* A path is the access key it is made from.  The deadline is armed or     *)
(* not: when it is, it may pass.  What the command does is left to the     *)
(* module that composes this one.                                          *)
(***************************************************************************)
EXTENDS Integers, Sequences, SequencesExt

CONSTANTS
  Commands   \* of "none", "once" (no %s) and "each": what may be configured

VARIABLES
  command,   \* on_library_update.command of the configuration in force
  messages,  \* the unbounded channel: sets of paths
  pending,   \* pending_paths
  armed,     \* flush_deadline.is_some()
  worker,    \* "running" or "stopped"
  batches,   \* spawned tasks that wait for the permit: [cmd, paths]
  executing, \* the batch that has the permit, or nothing: a sequence
  down       \* the shutdown token is cancelled

hookVars == << command, messages, pending, armed, worker, batches, executing, down >>

(* Whether the worker is running is up to the module that composes this.   *)
HookInit ==
  /\ command \in Commands /\ messages = << >> /\ pending = {} /\ armed = FALSE
  /\ batches = << >> /\ executing = << >> /\ down = FALSE

(* trigger_library_update; the channel is gone when the worker is.         *)
TriggerLibraryUpdate(paths) ==
  messages' = IF paths = {} \/ worker = "stopped" THEN messages ELSE Append(messages, paths)

(* A message restarts the timer.                                           *)
HookRecv ==
  /\ worker = "running" /\ messages # << >>
  /\ pending' = pending \cup Head(messages) /\ messages' = Tail(messages)
  /\ armed' = TRUE
  /\ UNCHANGED << command, worker, batches, executing, down >>

HookFlushTryAcquire ==
  /\ worker = "running" /\ armed
  /\ pending' = {} /\ armed' = FALSE
  /\ batches' = IF pending = {} \/ executing # << >> THEN batches
                ELSE Append(batches, [cmd |-> command, paths |-> pending])
  /\ UNCHANGED << command, messages, worker, executing, down >>

(* The timer expires: the command is read now, the batch is spawned.       *)
HookFlush ==
  /\ worker = "running" /\ armed
  /\ pending' = {} /\ armed' = FALSE
  /\ batches' = IF pending = {} THEN batches
                ELSE Append(batches, [cmd |-> command, paths |-> pending])
  /\ UNCHANGED << command, messages, worker, executing, down >>

(* The semaphore gives its permit to a waiting task.                       *)
HookAcquire ==
  /\ executing = << >>
  /\ \E i \in DOMAIN batches : /\ executing' = << batches[i] >>
                               /\ batches' = RemoveAt(batches, i)
  /\ UNCHANGED << command, messages, pending, armed, worker, down >>

(* execute_hook: the paths that the next shell command stands for.         *)
HookRuns(paths) ==
  /\ executing # << >> /\ paths # {}
  /\ LET b == Head(executing)
     IN  /\ CASE b.cmd = "each" -> \E k \in b.paths : paths = {k}
              [] b.cmd = "once" -> paths = b.paths
              [] OTHER -> FALSE
         /\ executing' = IF paths = b.paths THEN << >>
                         ELSE << [b EXCEPT !.paths = @ \ paths] >>
  /\ UNCHANGED << command, messages, pending, armed, worker, batches, down >>

(* Without a command there is nothing to run.                              *)
HookEmpty ==
  /\ executing # << >> /\ Head(executing).cmd = "none"
  /\ executing' = << >>
  /\ UNCHANGED << command, messages, pending, armed, worker, batches, down >>

HookReload(c) ==
  /\ c # command /\ command' = c
  /\ UNCHANGED << messages, pending, armed, worker, batches, executing, down >>

(* The shutdown token, and the worker that sees it: what is pending or in  *)
(* the channel is dropped, spawned batches go on.                          *)
Shutdown ==
  /\ ~down /\ down' = TRUE
  /\ UNCHANGED << command, messages, pending, armed, worker, batches, executing >>
HookStop ==
  /\ down /\ worker = "running"
  /\ worker' = "stopped" /\ messages' = << >> /\ pending' = {} /\ armed' = FALSE
  /\ UNCHANGED << command, batches, executing, down >>

WorkerStep == HookRecv \/ HookFlush \/ HookStop
=============================================================================
