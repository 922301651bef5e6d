-------------------------- MODULE TrainerCheckpoint --------------------------
(***************************************************************************)
(* Saving and resuming in the supervised trainer (xtuner/v1/train/         *)
(* trainer.py) with the pieces it drives: TrainEngine.save_dcp and         *)
(* async_save_dcp, BaseModel.save_hf and async_save_hf, AsyncSaveMonitor.  *)
(*                                                                         *)
(* The threads of rank 0, the rank that touches the file system:           *)
(*   - the main thread, Trainer.fit (variable pc);                         *)
(*   - for each of the two kinds of save, "dcp" and "hf", the background   *)
(*     save and its commit thread (future), on which the done callbacks    *)
(*     run (callback, finalize_done) and in them the finalizer (fin); a    *)
(*     synchronous save runs its finalizer on the main thread;             *)
(*   - the monitor, which ends the job when a watched save failed.         *)
(* The other ranks take part through collectives; what one of them can add *)
(* is the failure of a save, which is nondeterministic here.               *)
(*                                                                         *)
(* The file system is the meta file, the checkpoint directories with the   *)
(* parts that are in them, the Hugging Face exports and the hf-latest      *)
(* link.  A directory is removed, and the meta file rewritten, in two      *)
(* steps, so a crash can fall in the middle.  Temporary ".incomplete"      *)
(* directories are not kept: nothing reads them, and a save that finds one *)
(* removes it first.                                                       *)
(***************************************************************************)
EXTENDS Integers, Sequences, FiniteSets

CONSTANTS
  TotalStep,     \* total_step of the job
  Configs,       \* the configurations a job may be started with
  TornWrites     \* fault model: may a crash fall inside the meta file's rewrite

\* The fields of TrainerConfig that matter here, and two bounds.
ASSUME ConstantsAssumption ==
  /\ TotalStep \in Nat \ {0}
  /\ TornWrites \in BOOLEAN
  /\ Configs \subseteq
       [ckpt : Nat \cup {-1},    \* checkpoint_interval: 0 is None, -1 "at the end"
        snapshot : Nat \cup {-1},\* snapshot_interval, likewise
        hf : Nat,                \* hf_interval, 0 is None
        maxkeep : Nat,           \* checkpoint_maxkeep, 0 is "keep all" (None, -1)
        hf_max_keep : Nat,       \* 0 is None
        async_checkpoint : BOOLEAN,
        async_hf_export : BOOLEAN,
        crashes : Nat,           \* bound: crashes of the job
        failures : Nat]          \* bound: background saves that fail

Steps == 1..TotalStep
Saves == {"dcp", "hf"}
Dcp == {"ckpt", "snapshot"}   \* the two lists a DCP save can go to
Lists == Dcp \cup {"hf"}
Parts == {"dir", "weights", "partial", "state"}

VARIABLES
  config,        \* the job's configuration
  step,          \* _cur_step
  pc,            \* where the main thread is
  saving,        \* is_snapshot of the DCP save under way
  mem,           \* meta.latest_exp: the three lists of checkpoints
  meta,          \* the meta file
  dirs,          \* checkpoint directories: the parts present
  hf,            \* exports: "none", "partial" or "whole"
  link,          \* hf-latest, 0 when there is none
  future,        \* per kind of save: the background save
  callback,      \* per kind: the done callbacks of that future
  pending,       \* per kind: the trainer's _pending_* field is set
  finalize_done, \* per kind: the event of the pending save
  fin,           \* per kind: the finalizer
  lock,          \* _save_finalize_lock
  handle,        \* BaseModel._pending_async_hf is set
  failed,        \* a watched future has failed and was not examined yet
  crashes, failures

main == <<step, pc, saving>>
disk == <<meta, dirs, hf, link>>
background == <<future, callback, pending, finalize_done, handle, failed>>
finalizer == <<mem, fin, lock>>
job == <<config, crashes, failures>>
vars == <<main, disk, background, finalizer, job>>

AsyncCkpt == config.async_checkpoint
AsyncHf == config.async_hf_export

NoLists == [l \in Lists |-> <<>>]
NoFuture == [state |-> "none", step |-> 0, to |-> "ckpt"]
Idle == [pc |-> "idle", step |-> 0, to |-> "ckpt", doomed |-> <<>>]

\* A checkpoint directory from which _load_checkpoint succeeds.
Whole(l, s) == /\ {"dir", "weights", "state"} \subseteq dirs[l][s]
               /\ "partial" \notin dirs[l][s]

-----------------------------------------------------------------------------
(* The meta file. *)

\* ExpInfo.latest_checkpoint with _get_latest_checkpoint: the later of the two
\* lists' last entries, the snapshot when they are of the same step; step 0
\* when both lists are empty.
LastOf(lists, l) == IF lists[l] = <<>> THEN 0 ELSE lists[l][Len(lists[l])]
LatestCheckpoint(lists) ==
  IF LastOf(lists, "ckpt") > LastOf(lists, "snapshot")
  THEN [to |-> "ckpt", step |-> LastOf(lists, "ckpt")]
  ELSE [to |-> "snapshot", step |-> LastOf(lists, "snapshot")]

Init ==
  /\ config \in Configs
  /\ step = 0 /\ pc = "Train" /\ saving = "ckpt"
  /\ mem = NoLists
  /\ meta = [state |-> "empty", lists |-> NoLists]
  /\ dirs = [l \in Dcp |-> [s \in Steps |-> {}]]
  /\ hf = [s \in Steps |-> "none"] /\ link = 0
  /\ future = [k \in Saves |-> NoFuture]
  /\ callback = [k \in Saves |-> "none"]
  /\ pending = [k \in Saves |-> FALSE]
  /\ finalize_done = [k \in Saves |-> FALSE]
  /\ fin = [k \in Saves |-> Idle]
  /\ lock = "none" /\ handle = FALSE /\ failed = FALSE
  /\ crashes = 0 /\ failures = 0

Goto(from, to) == pc = from /\ pc' = to

\* Mutant: the wait covers the background save, not its callbacks.
SettledByFuture(k) == pending[k] => future[k].state \in {"done", "failed"}

\* The event a wait for the pending save k blocks on: wait([future]), then
\* finalize_done.wait().
Settled(k) == pending[k] => /\ future[k].state \in {"done", "failed"}
                            /\ finalize_done[k]

-----------------------------------------------------------------------------
(* The main thread: one training step, then the saves that are due. *)

\* Mutant: the loop runs past total_step.
TrainPastTheEnd == /\ step' = step + 1
                   /\ Goto("Train", "HF")
                   /\ UNCHANGED <<saving, disk, background, finalizer, job>>

\* One round of fit up to the saves.
TrainStep == /\ step < TotalStep
             /\ step' = step + 1
             /\ Goto("Train", "HF")
             /\ UNCHANGED <<saving, disk, background, finalizer, job>>

HfDue == /\ config.hf # 0
         /\ step % config.hf = 0 \/ step = TotalStep

SkipHF == /\ ~HfDue
          /\ Goto("HF", "Ckpt")
          /\ UNCHANGED <<step, saving, disk, background, finalizer, job>>

\* engine.save_hf: the export is written in place.
SaveHFBegin == /\ HfDue /\ ~AsyncHf
               /\ Goto("HF", "HFWriting")
               /\ hf' = [hf EXCEPT ![step] = "partial"]
               /\ UNCHANGED <<step, saving, meta, dirs, link, background, finalizer, job>>

SaveHFEnd == /\ Goto("HFWriting", "HFFinalizing")
             /\ hf' = [hf EXCEPT ![step] = "whole"]
             /\ fin' = [fin EXCEPT !["hf"] = [Idle EXCEPT !.pc = "append", !.step = step]]
             /\ UNCHANGED <<step, saving, meta, dirs, link, background, mem, lock, job>>

HFFinalized == /\ fin["hf"].pc = "idle"
               /\ Goto("HFFinalizing", "Ckpt")
               /\ UNCHANGED <<step, saving, disk, background, finalizer, job>>

\* _wait_for_pending_async_hf and _wait_for_pending_checkpoint.
WaitForPending(k) == /\ Settled(k)
                     /\ pending' = [pending EXCEPT ![k] = FALSE]
                     /\ UNCHANGED <<future, callback, finalize_done, handle, failed>>

WaitHF == /\ HfDue /\ AsyncHf
          /\ WaitForPending("hf")
          /\ Goto("HF", "HFLaunch")
          /\ UNCHANGED <<step, saving, disk, finalizer, job>>

\* BaseModel.async_save_hf refuses a second export while one is pending;
\* otherwise the writer is started and the future registered with the monitor.
LaunchHF == /\ Goto("HFLaunch", IF handle THEN "Raised" ELSE "HFRegister")
            /\ IF handle THEN UNCHANGED <<handle, future, finalize_done>>
               ELSE /\ handle' = TRUE
                    /\ future' = [future EXCEPT !["hf"] =
                                    [NoFuture EXCEPT !.state = "writing", !.step = step]]
                    /\ finalize_done' = [finalize_done EXCEPT !["hf"] = FALSE]
            /\ UNCHANGED <<step, saving, disk, callback, pending, failed, finalizer, job>>

\* add_done_callback(finalize_hf_save).  The export's own callback is already
\* registered and runs first.
RegisterHF == /\ Goto("HFRegister", "Ckpt")
              /\ callback' = [callback EXCEPT !["hf"] = "registered"]
              /\ pending' = [pending EXCEPT !["hf"] = TRUE]
              /\ UNCHANGED <<step, saving, disk, future, finalize_done, handle, failed, finalizer, job>>

\* Mutant: nothing is saved after the last step unless the interval asks for it.
DueAtInterval(l) == LET interval == config[l]
                    IN  interval # 0 /\ step % interval = 0

\* The condition of _maybe_save.
Due(l) == LET interval == config[l]
          IN  /\ interval # 0
              /\ IF interval = -1 THEN step = TotalStep
                 ELSE step % interval = 0 \/ (l = "ckpt" /\ step = TotalStep)

\* _maybe_save is asked for a checkpoint and, when none was due, for a snapshot.
MkDir(l) == /\ dirs' = [dirs EXCEPT ![l][step] = @ \cup {"dir"}]
            /\ saving' = l
            /\ pc' = "Wait"

MaybeSaveCkpt == /\ pc = "Ckpt"
                 /\ \/ Due("ckpt") /\ MkDir("ckpt")
                    \/ ~Due("ckpt") /\ pc' = "Snap" /\ UNCHANGED <<dirs, saving>>
                 /\ UNCHANGED <<step, meta, hf, link, background, finalizer, job>>

MaybeSaveSnap == /\ pc = "Snap"
                 /\ \/ Due("snapshot") /\ MkDir("snapshot")
                    \/ ~Due("snapshot") /\ pc' = "Train" /\ UNCHANGED <<dirs, saving>>
                 /\ UNCHANGED <<step, meta, hf, link, background, finalizer, job>>

WaitCkpt == /\ WaitForPending("dcp")
            /\ Goto("Wait", "Weights")
            /\ UNCHANGED <<step, saving, disk, finalizer, job>>

\* Mutant: the weights are left to be written while the save goes on.
SaveDcpUnfinished == /\ ~AsyncCkpt
                     /\ Goto("Weights", "State")
                     /\ dirs' = [dirs EXCEPT ![saving][step] = @ \cup {"weights", "partial"}]
                     /\ UNCHANGED <<step, saving, meta, hf, link, background, finalizer, job>>

\* Mutant: the synchronous save refuses a directory an earlier attempt left.
SaveDcpRefusing == /\ ~AsyncCkpt
                   /\ Goto("Weights", IF "weights" \in dirs[saving][step] THEN "Raised"
                                      ELSE "WeightsWriting")
                   /\ dirs' = [dirs EXCEPT ![saving][step] = @ \cup {"weights", "partial"}]
                   /\ UNCHANGED <<step, saving, meta, hf, link, background, finalizer, job>>

\* TrainEngine.save_dcp writes into the directory itself.
SaveDcpBegin == /\ ~AsyncCkpt
                /\ Goto("Weights", "WeightsWriting")
                /\ dirs' = [dirs EXCEPT ![saving][step] = @ \cup {"weights", "partial"}]
                /\ UNCHANGED <<step, saving, meta, hf, link, background, finalizer, job>>

SaveDcpEnd == /\ Goto("WeightsWriting", "State")
              /\ dirs' = [dirs EXCEPT ![saving][step] = @ \ {"partial"}]
              /\ UNCHANGED <<step, saving, meta, hf, link, background, finalizer, job>>

\* TrainEngine.async_save_dcp raises when the weights directory exists.
LaunchDcp == LET taken == "weights" \in dirs[saving][step]
             IN  /\ AsyncCkpt
                 /\ Goto("Weights", IF taken THEN "Raised" ELSE "State")
                 /\ IF taken THEN UNCHANGED <<future, finalize_done>>
                    ELSE /\ future' = [future EXCEPT !["dcp"] =
                                         [state |-> "writing", step |-> step, to |-> saving]]
                         /\ finalize_done' = [finalize_done EXCEPT !["dcp"] = FALSE]
                 /\ UNCHANGED <<step, saving, disk, callback, pending, handle, failed,
                                finalizer, job>>

\* Dataloader, scheduler, configuration and train state, then the finalizer:
\* here, or as a callback of the future.
SaveState == /\ Goto("State", IF AsyncCkpt THEN "Register" ELSE "Finalizing")
             /\ dirs' = [dirs EXCEPT ![saving][step] = @ \cup {"state"}]
             /\ fin' = IF AsyncCkpt THEN fin
                       ELSE [fin EXCEPT !["dcp"] =
                               [Idle EXCEPT !.pc = "append", !.step = step, !.to = saving]]
             /\ UNCHANGED <<step, saving, meta, hf, link, background, mem, lock, job>>

\* add_done_callback runs the callback at once, on this thread, when the future
\* is already done.
RegisterDcp == /\ Goto("Register", IF future["dcp"].state = "writing" THEN "Train" ELSE "Inline")
               /\ callback' = [callback EXCEPT !["dcp"] = "registered"]
               /\ pending' = [pending EXCEPT !["dcp"] = TRUE]
               /\ UNCHANGED <<step, saving, disk, future, finalize_done, handle, failed, finalizer, job>>

DcpFinalized == /\ \/ fin["dcp"].pc = "idle" /\ Goto("Finalizing", "Train")
                   \/ finalize_done["dcp"] /\ Goto("Inline", "Train")
                /\ UNCHANGED <<step, saving, disk, background, finalizer, job>>

\* The end of fit: wait for both saves, then stop the monitor, whose last look
\* at the futures ends the job if one failed.
DrainHF == /\ step = TotalStep
           /\ WaitForPending("hf")
           /\ Goto("Train", "DrainDcp")
           /\ UNCHANGED <<step, saving, disk, finalizer, job>>

DrainDcp == /\ WaitForPending("dcp")
            /\ Goto("DrainDcp", "Stop")
            /\ UNCHANGED <<step, saving, disk, finalizer, job>>

\* Mutant: stop() does not look at the futures once more.
StopMonitorBlind == /\ Goto("Stop", "Done")
                    /\ UNCHANGED <<step, saving, disk, background, finalizer, job>>

StopMonitor == /\ ~failed
               /\ Goto("Stop", "Done")
               /\ UNCHANGED <<step, saving, disk, background, finalizer, job>>

-----------------------------------------------------------------------------
(* The background saves. *)

\* commit_async_save: the temporary directory is renamed.
CommitDcp == /\ future["dcp"].state = "writing"
             /\ future' = [future EXCEPT !["dcp"].state = "done"]
             /\ dirs' = [dirs EXCEPT ![future["dcp"].to][future["dcp"].step] = @ \cup {"weights"}]
             /\ UNCHANGED <<main, meta, hf, link, callback, pending, finalize_done, handle,
                            failed, finalizer, job>>

\* _commit_async_hf_save: an export that is already there is removed, then the
\* temporary directory renamed.  Forking, writing and joining the writer takes
\* longer than the two statements up to RegisterHF.
CommitHF == LET s == future["hf"].step
            IN  /\ future["hf"].state = "writing" /\ callback["hf"] = "registered"
                /\ IF hf[s] # "none"
                   THEN hf' = [hf EXCEPT ![s] = "none"] /\ UNCHANGED future
                   ELSE /\ hf' = [hf EXCEPT ![s] = "whole"]
                        /\ future' = [future EXCEPT !["hf"].state = "done"]
                /\ UNCHANGED <<main, meta, dirs, link, callback, pending, finalize_done, handle,
                               failed, finalizer, job>>

\* A writer dies or times out, or another rank reports a failure.
FailSave(k) == /\ failures < config.failures
               /\ future[k].state = "writing"
               /\ k = "hf" => callback[k] = "registered"
               /\ failures' = failures + 1
               /\ future' = [future EXCEPT ![k].state = "failed"]
               /\ failed' = TRUE
               /\ UNCHANGED <<main, disk, callback, pending, finalize_done, handle, finalizer,
                              config, crashes>>

\* Mutant: the pending export is forgotten only when it succeeded.
ClearPendingOnSuccess == /\ callback["hf"] = "registered"
                         /\ future["hf"].state \in {"done", "failed"}
                         /\ callback' = [callback EXCEPT !["hf"] = "cleared"]
                         /\ handle' = (future["hf"].state = "failed")
                         /\ UNCHANGED <<main, disk, future, pending, finalize_done, failed,
                                        finalizer, job>>

\* The first callback of an export: _clear_pending_async_hf.
ClearPendingHF == /\ callback["hf"] = "registered"
                  /\ future["hf"].state \in {"done", "failed"}
                  /\ callback' = [callback EXCEPT !["hf"] = "cleared"]
                  /\ handle' = FALSE
                  /\ UNCHANGED <<main, disk, future, pending, finalize_done, failed, finalizer, job>>

\* finalize_dcp_save and finalize_hf_save: done_future.result() raises for a
\* failed save, and the event is set in any case.
RunCallback(k) == /\ callback[k] = (IF k = "hf" THEN "cleared" ELSE "registered")
                  /\ \/ /\ future[k].state = "done"
                        /\ fin' = [fin EXCEPT ![k] = [Idle EXCEPT !.pc = "append",
                                      !.step = future[k].step, !.to = future[k].to]]
                        /\ callback' = [callback EXCEPT ![k] = "running"]
                        /\ UNCHANGED finalize_done
                     \/ /\ future[k].state = "failed"
                        /\ callback' = [callback EXCEPT ![k] = "none"]
                        /\ finalize_done' = [finalize_done EXCEPT ![k] = TRUE]
                        /\ UNCHANGED fin
                  /\ UNCHANGED <<main, disk, future, pending, handle, failed, mem, lock, job>>

-----------------------------------------------------------------------------
(* The finalizers, _finalize_dcp_save and _finalize_hf_save. *)

ListOf(k) == IF k = "hf" THEN "hf" ELSE fin[k].to

\* Mutant: one checkpoint too few is kept.
KeepOneLess(k) == IF k = "hf" THEN config.hf_max_keep ELSE IF fin[k].to = "ckpt" THEN config.maxkeep - 1 ELSE 1

\* Mutant: one export less is kept than configured.
KeepOneExportLess(k) == IF k = "hf" THEN config.hf_max_keep - 1 ELSE IF fin[k].to = "ckpt" THEN config.maxkeep ELSE 1

KeepOf(k) == IF k = "hf" THEN config.hf_max_keep ELSE IF fin[k].to = "ckpt" THEN config.maxkeep ELSE 1

\* Mutant: the finalizers do not take the lock.
FinAppendUnlocked(k) ==
  LET l == ListOf(k)
      longer == Append(mem[l], fin[k].step)
      over == IF KeepOf(k) > 0 /\ Len(longer) > KeepOf(k) THEN Len(longer) - KeepOf(k) ELSE 0
  IN  /\ fin[k].pc = "append"
      /\ lock' = k
      /\ mem' = [mem EXCEPT ![l] = SubSeq(longer, over + 1, Len(longer))]
      /\ fin' = [fin EXCEPT ![k].pc = "prune", ![k].doomed = SubSeq(longer, 1, over)]
      /\ UNCHANGED <<main, disk, background, job>>

\* Append to the list and cut it to the number kept; what is cut off goes.
FinAppend(k) ==
  LET l == ListOf(k)
      longer == Append(mem[l], fin[k].step)
      over == IF KeepOf(k) > 0 /\ Len(longer) > KeepOf(k) THEN Len(longer) - KeepOf(k) ELSE 0
  IN  /\ fin[k].pc = "append"
      /\ lock = "none"
      /\ lock' = k
      /\ mem' = [mem EXCEPT ![l] = SubSeq(longer, over + 1, Len(longer))]
      /\ fin' = [fin EXCEPT ![k].pc = "prune", ![k].doomed = SubSeq(longer, 1, over)]
      /\ UNCHANGED <<main, disk, background, job>>

\* rmtree of the next directory to go, if it exists: it is no longer whole, and
\* then it is gone.
FinPrune(k) ==
  LET l == ListOf(k)
      s == Head(fin[k].doomed)
      gone == IF k = "hf" THEN hf[s] = "none" ELSE dirs[l][s] = {}
  IN  /\ fin[k].pc \in {"prune", "removing"}
      /\ fin[k].doomed # <<>>
      /\ IF fin[k].pc = "prune" /\ ~gone
         THEN /\ fin' = [fin EXCEPT ![k].pc = "removing"]
              /\ IF k = "hf" THEN hf' = [hf EXCEPT ![s] = "partial"] /\ UNCHANGED dirs
                 ELSE dirs' = [dirs EXCEPT ![l][s] = @ \cup {"partial"}] /\ UNCHANGED hf
         ELSE /\ fin' = [fin EXCEPT ![k].pc = "prune", ![k].doomed = Tail(@)]
              /\ IF k = "hf" THEN hf' = [hf EXCEPT ![s] = "none"] /\ UNCHANGED dirs
                 ELSE dirs' = [dirs EXCEPT ![l][s] = {}] /\ UNCHANGED hf
      /\ UNCHANGED <<main, meta, link, background, mem, lock, job>>

\* The tokenizer goes beside the export (creating the directory if need be) and
\* hf-latest is pointed at it.
FinLink == LET s == fin["hf"].step
           IN  /\ fin["hf"].pc = "prune" /\ fin["hf"].doomed = <<>>
               /\ hf' = [hf EXCEPT ![s] = IF @ = "none" THEN "partial" ELSE @]
               /\ link' = s
               /\ fin' = [fin EXCEPT !["hf"].pc = "open"]
               /\ UNCHANGED <<main, meta, dirs, background, mem, lock, job>>

\* open("w") truncates the meta file; what is written is the whole of mem.
FinOpen(k) == /\ \/ fin[k].pc = "open"
                 \/ k = "dcp" /\ fin[k].pc = "prune" /\ fin[k].doomed = <<>>
              /\ meta' = [meta EXCEPT !.state = "torn"]
              /\ fin' = [fin EXCEPT ![k].pc = "write"]
              /\ UNCHANGED <<main, dirs, hf, link, background, mem, lock, job>>

FinWrite(k) == /\ fin[k].pc = "write"
               /\ meta' = [state |-> "ok", lists |-> mem]
               /\ lock' = "none"
               /\ fin' = [fin EXCEPT ![k].pc = "hook"]
               /\ UNCHANGED <<main, dirs, hf, link, background, mem, job>>

\* Mutant: the callback returns without setting the event.
FinHookSilent(k) == /\ fin[k].pc = "hook"
                    /\ fin' = [fin EXCEPT ![k] = Idle]
                    /\ callback' = [callback EXCEPT ![k] = "none"]
                    /\ UNCHANGED <<main, disk, future, pending, finalize_done, handle, failed, mem,
                                   lock, job>>

\* The AFTER_SAVE_* hooks; an asynchronous save then sets its event.
FinHook(k) == /\ fin[k].pc = "hook"
              /\ fin' = [fin EXCEPT ![k] = Idle]
              /\ IF callback[k] = "running"
                 THEN /\ callback' = [callback EXCEPT ![k] = "none"]
                      /\ finalize_done' = [finalize_done EXCEPT ![k] = TRUE]
                 ELSE UNCHANGED <<callback, finalize_done>>
              /\ UNCHANGED <<main, disk, future, pending, handle, failed, mem, lock, job>>

-----------------------------------------------------------------------------
(* The end of the process, and the restart. *)

Alive == pc \notin {"Down", "Done", "Unloadable"}

\* Everything in memory goes; the step is gone with it.
Die == /\ Alive
       /\ pc' = "Down" /\ step' = 0 /\ saving' = "ckpt"
       /\ mem' = NoLists
       /\ future' = [k \in Saves |-> NoFuture]
       /\ callback' = [k \in Saves |-> "none"]
       /\ pending' = [k \in Saves |-> FALSE]
       /\ finalize_done' = [k \in Saves |-> FALSE]
       /\ fin' = [k \in Saves |-> Idle]
       /\ lock' = "none" /\ handle' = FALSE /\ failed' = FALSE
       /\ UNCHANGED <<disk, config, failures>>

Crash == /\ crashes < config.crashes
         /\ TornWrites \/ meta.state # "torn"
         /\ crashes' = crashes + 1
         /\ Die

\* AsyncSaveMonitor._terminate_failure: SIGTERM to the process group.
Terminate == /\ failed
             /\ TornWrites \/ meta.state # "torn"
             /\ Die
             /\ UNCHANGED crashes

\* Mutant: the step after the checkpoint counts as trained.
RestartAhead ==
  LET last == LatestCheckpoint(meta.lists)
  IN  /\ Goto("Down", "Train")
      /\ step' = IF last.step < TotalStep THEN last.step + 1 ELSE last.step
      /\ mem' = meta.lists
      /\ UNCHANGED <<saving, disk, background, fin, lock, job>>

\* _init_xtuner_meta and _load_checkpoint with auto_resume.  A meta file without
\* an experiment starts a new one, in a directory of its own.
Restart ==
  LET last == LatestCheckpoint(meta.lists)
      ready == \/ meta.state = "empty"
               \/ meta.state = "ok" /\ (last.step = 0 \/ Whole(last.to, last.step))
  IN  /\ Goto("Down", IF ready THEN "Train" ELSE "Unloadable")
      /\ step' = IF ready THEN last.step ELSE 0
      /\ mem' = meta.lists
      /\ IF meta.state = "empty"
         THEN /\ dirs' = [l \in Dcp |-> [s \in Steps |-> {}]]
              /\ hf' = [s \in Steps |-> "none"]
              /\ link' = 0
         ELSE UNCHANGED <<dirs, hf, link>>
      /\ UNCHANGED <<saving, meta, background, fin, lock, job>>

\* A finished job, one that cannot be resumed, and one whose main thread raised:
\* the monitor's thread is never told to stop, so the process stays.
Rest == pc \in {"Done", "Unloadable", "Raised"} /\ UNCHANGED vars

MainStep == \/ TrainStep \/ SkipHF \/ SaveHFBegin \/ SaveHFEnd \/ HFFinalized \/ WaitHF
            \/ LaunchHF \/ RegisterHF \/ MaybeSaveCkpt \/ MaybeSaveSnap
            \/ WaitCkpt \/ SaveDcpBegin \/ SaveDcpEnd \/ LaunchDcp
            \/ SaveState \/ RegisterDcp \/ DcpFinalized \/ DrainHF \/ DrainDcp \/ StopMonitor

SaveStep(k) == \/ k = "dcp" /\ CommitDcp
               \/ k = "hf" /\ (CommitHF \/ ClearPendingHF)
               \/ RunCallback(k)

FinStep(k) == \/ FinAppend(k) \/ FinPrune(k) \/ (k = "hf" /\ FinLink) \/ FinOpen(k)
              \/ FinWrite(k) \/ FinHook(k)

Next == \/ MainStep
        \/ \E k \in Saves : SaveStep(k) \/ FailSave(k) \/ FinStep(k)
        \/ Crash \/ Terminate \/ Restart \/ Rest

\* Every thread runs, a background save ends (the writers have time limits), and
\* a job that went down is started again.
Fairness == /\ WF_vars(MainStep)
            /\ \A k \in Saves : WF_vars(SaveStep(k)) /\ WF_vars(FinStep(k))
            /\ WF_vars(Terminate) /\ WF_vars(Restart)

Spec == Init /\ [][Next]_vars
FairSpec == Spec /\ Fairness

-----------------------------------------------------------------------------
(* Properties. *)

FinPcs == {"idle", "append", "prune", "removing", "open", "write", "hook"}
MainPcs == {"Train", "HF", "HFWriting", "HFFinalizing", "HFLaunch", "HFRegister", "Ckpt",
            "Snap", "Wait", "Weights", "WeightsWriting", "State", "Register", "Finalizing",
            "Inline", "DrainDcp", "Stop", "Done", "Raised", "Down", "Unloadable"}

\* Type invariant: positions of the threads, steps, and the files on disk.
TypeOK ==
  /\ step \in 0..TotalStep /\ pc \in MainPcs /\ saving \in Dcp
  /\ mem \in [Lists -> Seq(Steps)]
  /\ meta \in [state : {"empty", "torn", "ok"}, lists : [Lists -> Seq(Steps)]]
  /\ dirs \in [Dcp -> [Steps -> SUBSET Parts]]
  /\ hf \in [Steps -> {"none", "partial", "whole"}]
  /\ link \in 0..TotalStep
  /\ future \in [Saves -> [state : {"none", "writing", "done", "failed"},
                          step : 0..TotalStep, to : Dcp]]
  /\ callback \in [Saves -> {"none", "registered", "cleared", "running"}]
  /\ pending \in [Saves -> BOOLEAN] /\ finalize_done \in [Saves -> BOOLEAN]
  /\ fin \in [Saves -> [pc : FinPcs, step : 0..TotalStep, to : Dcp, doomed : Seq(Steps)]]
  /\ lock \in Saves \cup {"none"} /\ handle \in BOOLEAN /\ failed \in BOOLEAN
  /\ config \in Configs /\ crashes \in Nat /\ failures \in Nat

\* A job that went down can be resumed: the meta file parses and the checkpoint
\* it names last is complete.  It was written entirely before it was recorded, and
\* while a newer one is recorded only older directories go (_finalize_dcp_save).
RestartSucceeds == pc # "Unloadable"

\* Outside the critical section of _save_finalize_lock the meta file holds
\* exactly what the process knows: whatever order the two finalizers ran in,
\* neither lost or overwrote an entry of the other, and none left it torn.
MetaAgrees == Alive /\ lock = "none" => meta.state # "torn" /\ meta.lists = mem

\* fit returns only when the last checkpoint and the last export are complete
\* and recorded in the meta file, and hf-latest points at that export: the waits
\* at its end cover the callbacks, not only the background writers.  Only an
\* asynchronous export that went down with the process is not made up for: the
\* checkpoint of its step may be recorded, and the resumed job starts behind it.
DoneIsDurable ==
  pc = "Done" =>
    /\ config.ckpt # 0 => /\ LastOf(meta.lists, "ckpt") = TotalStep
                           /\ Whole("ckpt", TotalStep)
    /\ config.hf # 0 /\ (AsyncHf => crashes = 0 /\ failures = 0) =>
                        /\ LastOf(meta.lists, "hf") = TotalStep
                         /\ hf[TotalStep] = "whole" /\ link = TotalStep
    /\ \A k \in Saves : fin[k].pc = "idle" /\ future[k].state # "writing"

\* When the AFTER_SAVE_* hooks of a save run, what they are handed is complete
\* on disk (pruning never took it away).
HookSeesTheSave ==
  /\ fin["hf"].pc = "hook" => hf[fin["hf"].step] = "whole"
  /\ fin["dcp"].pc = "hook" => Whole(fin["dcp"].to, fin["dcp"].step)

\* No export is refused: when async_save_hf is called, the one before it is no longer
\* pending in the model, whether it succeeded or failed (the model clears its handle
\* in a callback of its own, the trainer waits for the event of another).
NeverRefused == pc = "HFLaunch" => ~handle

\* The job finishes, however often (boundedly) it is killed and restarted.
Finishes == <>(pc = "Done")

\* A background save that failed brings the job down, also when it fails while
\* fit is already waiting for its last saves.
FailureEndsTheJob == failed ~> pc = "Down"

\* The promise to whoever runs the job.  While the file is being rewritten its
\* content counts as the one about to be written.
Lasting == LatestCheckpoint(IF meta.state = "torn" THEN mem ELSE meta.lists).step
Promise == INSTANCE DurableProgress WITH
             Total <- TotalStep,
             step <- IF pc = "Down" THEN Lasting ELSE step,
             saved <- Lasting,
             mode <- CASE pc = "Down" -> "down"
                       [] pc = "Done" -> "done"
                       [] pc = "Unloadable" -> "lost"
                       [] OTHER -> "up"
KeepsPromise == Promise!Spec
==============================================================================
