----------------------------- MODULE RLCheckpoint -----------------------------
(***************************************************************************)
(* Checkpoints, exports and resuming in the RL trainers (rl_trainer.py:    *)
(* _maybe_save_checkpoint, _maybe_save_hf, _resume_train_controller_and_   *)
(* state; trainer.py: XTunerMeta.build), with a crash between any two      *)
(* steps that touch the disk.                                              *)
(*                                                                         *)
(* One process saves.  The colocated trainer does so after every train     *)
(* step, the disaggregated one whenever it synchronises weights: at its    *)
(* sync interval, after the last step, and whenever the producer reports   *)
(* expired rollouts, which may be after any step, but at most once per     *)
(* step.                                                                   *)
(***************************************************************************)
EXTENDS Integers, Sequences, FiniteSets

CONSTANTS
  TotalSteps,    \* total_train_steps
  CkptInterval,  \* checkpoint_interval, 0 for None and -1
  HfInterval,    \* hf_interval, 0 for None and -1
  MaxKeep,       \* checkpoint_maxkeep, 0 for None and -1
  HfMaxKeep,     \* hf_max_keep, 0 for None and -1
  Colocate,      \* the trainer: every step is followed by a save point
  TornWrites,    \* fault model: may a crash fall inside the meta file's rewrite
  MaxCrashes     \* bound: crashes of the job

ASSUME RLConstantsAssumption ==
  /\ TotalSteps \in Nat \ {0}
  /\ CkptInterval \in Nat /\ HfInterval \in Nat
  /\ MaxKeep \in Nat /\ HfMaxKeep \in Nat
  /\ Colocate \in BOOLEAN /\ TornWrites \in BOOLEAN
  /\ MaxCrashes \in Nat

Steps == 1..TotalSteps
Parts == {"manager", "dcp", "train_state"}

VARIABLES
  step,     \* the step just trained, _cur_step after a resume
  synced,   \* the last step that had its save point
  pc,       \* where the trainer is
  list,     \* latest_exp.checkpoint_list in memory
  hf_list,  \* latest_exp.hf_checkpoint_list in memory
  doomed,   \* checkpoints the pruning has still to remove
  meta,     \* the meta file: state and the two lists
  dirs,     \* checkpoint directories: the parts present
  hf,       \* exports: "none", "partial" or "whole"
  crashes

vars == <<step, synced, pc, list, hf_list, doomed, meta, dirs, hf, crashes>>

Whole(s) == dirs[s] = Parts
Last(l) == IF Len(l) = 0 THEN 0 ELSE l[Len(l)]
NoDirs == [s \in Steps |-> {}]
NoExports == [s \in Steps |-> "none"]

Init == /\ step = 0 /\ synced = 0 /\ pc = "Train"
        /\ list = <<>> /\ hf_list = <<>> /\ doomed = {}
        /\ meta = [state |-> "empty", list |-> <<>>, hfs |-> <<>>]
        /\ dirs = NoDirs /\ hf = NoExports
        /\ crashes = 0

-----------------------------------------------------------------------------
\* Mutant: the loop runs past total_train_steps.
TrainPastTheEnd == /\ pc = "Train"
                   /\ Colocate => synced = step
                   /\ step' = step + 1
                   /\ UNCHANGED <<synced, pc, list, hf_list, doomed, meta, dirs, hf, crashes>>

Train == /\ pc = "Train"
         /\ step < TotalSteps
         /\ Colocate => synced = step
         /\ step' = step + 1
         /\ UNCHANGED <<synced, pc, list, hf_list, doomed, meta, dirs, hf, crashes>>

CkptDue == CkptInterval # 0 /\ step % CkptInterval = 0
HfDue == HfInterval # 0 /\ (step % HfInterval = 0 \/ step = TotalSteps)

\* _sync_weights_and_save.
SyncPoint == /\ pc = "Train" /\ synced < step
             /\ synced' = step
             /\ pc' = IF CkptDue THEN "Manager" ELSE "HF"
             /\ UNCHANGED <<step, list, hf_list, doomed, meta, dirs, hf, crashes>>

\* Mutant: mkdir without exist_ok.
SaveManagerAnew == /\ pc = "Manager"
                   /\ dirs' = [dirs EXCEPT ![step] = {"manager"}]
                   /\ pc' = IF dirs[step] = {} THEN "DCP" ELSE "Unloadable"
                   /\ UNCHANGED <<step, synced, list, hf_list, doomed, meta, hf, crashes>>

\* mkdir and AgentLoopManager.save.  What an interrupted attempt left in the
\* directory is overwritten part by part.
SaveManager == /\ pc = "Manager"
               /\ dirs' = [dirs EXCEPT ![step] = {"manager"}]
               /\ pc' = "DCP"
               /\ UNCHANGED <<step, synced, list, hf_list, doomed, meta, hf, crashes>>

\* train_controller.save, then the train state.
SaveDCP == /\ pc = "DCP"
           /\ dirs' = [dirs EXCEPT ![step] = @ \cup {"dcp"}]
           /\ pc' = "TrainState"
           /\ UNCHANGED <<step, synced, list, hf_list, doomed, meta, hf, crashes>>

SaveTrainState == /\ pc = "TrainState"
                  /\ dirs' = [dirs EXCEPT ![step] = @ \cup {"train_state"}]
                  /\ pc' = "Append"
                  /\ UNCHANGED <<step, synced, list, hf_list, doomed, meta, hf, crashes>>

\* Mutant: one entry too few is kept.
OverByOne(l, keep) == IF keep > 0 /\ Len(l) >= keep THEN Len(l) - keep + 1 ELSE 0

\* The part of a list that keeping the newest `keep` entries cuts off.
Over(l, keep) == IF keep > 0 /\ Len(l) > keep THEN Len(l) - keep ELSE 0
Cut(l, keep) == SubSeq(l, Over(l, keep) + 1, Len(l))
CutOff(l, keep) == {l[i] : i \in 1..Over(l, keep)}

\* The new checkpoint joins the list in memory, the oldest ones leave it.
AppendMeta == /\ pc = "Append"
              /\ list' = Cut(Append(list, step), MaxKeep)
              /\ doomed' = CutOff(Append(list, step), MaxKeep)
              /\ pc' = "Prune"
              /\ UNCHANGED <<step, synced, hf_list, meta, dirs, hf, crashes>>

\* rmtree of one of them; a crash may fall between two.
Prune == /\ pc = "Prune"
         /\ \E d \in doomed : /\ dirs' = [dirs EXCEPT ![d] = {}]
                              /\ doomed' = doomed \ {d}
         /\ UNCHANGED <<step, synced, pc, list, hf_list, meta, hf, crashes>>

\* The meta file is truncated and written anew.
OpenMeta == /\ pc = "Prune" /\ doomed = {}
            /\ meta' = [meta EXCEPT !.state = "torn"]
            /\ pc' = "Write"
            /\ UNCHANGED <<step, synced, list, hf_list, doomed, dirs, hf, crashes>>

WriteMeta == /\ pc = "Write"
             /\ meta' = [state |-> "ok", list |-> list, hfs |-> hf_list]
             /\ pc' = "HF"
             /\ UNCHANGED <<step, synced, list, hf_list, doomed, dirs, hf, crashes>>

\* _maybe_save_hf: the export is listed, the oldest ones removed, then it is
\* written.  The meta file hears of it with the next checkpoint.
SaveHFBegin == /\ pc = "HF" /\ HfDue
               /\ hf_list' = Cut(Append(hf_list, step), HfMaxKeep)
               /\ LET cut == CutOff(Append(hf_list, step), HfMaxKeep)
                  IN  hf' = [s \in Steps |-> IF s \in cut THEN "none"
                                             ELSE IF s = step THEN "partial" ELSE hf[s]]
               /\ pc' = "HFWriting"
               /\ UNCHANGED <<step, synced, list, doomed, meta, dirs, crashes>>

\* Mutant: the finished export goes to the meta file at once.
SaveHFEndRecorded == /\ pc = "HFWriting"
                     /\ hf' = [hf EXCEPT ![step] = "whole"]
                     /\ meta' = [meta EXCEPT !.hfs = hf_list]
                     /\ pc' = "Train"
                     /\ UNCHANGED <<step, synced, list, hf_list, doomed, dirs, crashes>>

SaveHFEnd == /\ pc = "HFWriting"
             /\ hf' = [hf EXCEPT ![step] = "whole"]
             /\ pc' = "Train"
             /\ UNCHANGED <<step, synced, list, hf_list, doomed, meta, dirs, crashes>>

SkipHF == /\ pc = "HF" /\ ~HfDue
          /\ pc' = "Train"
          /\ UNCHANGED <<step, synced, list, hf_list, doomed, meta, dirs, hf, crashes>>

Finish == /\ pc = "Train" /\ step = TotalSteps /\ synced = step
          /\ pc' = "Done"
          /\ UNCHANGED <<step, synced, list, hf_list, doomed, meta, dirs, hf, crashes>>

-----------------------------------------------------------------------------
Alive == pc \notin {"Down", "Done", "Unloadable"}

Crash == /\ Alive /\ crashes < MaxCrashes
         /\ TornWrites \/ meta.state # "torn"
         /\ crashes' = crashes + 1
         /\ pc' = "Down" /\ step' = 0 /\ synced' = 0
         /\ list' = <<>> /\ hf_list' = <<>> /\ doomed' = {}
         /\ UNCHANGED <<meta, dirs, hf>>

\* XTunerMeta.build with auto_resume: a meta file without an experiment starts a
\* new one in a directory of its own.
RestartFresh == /\ pc = "Down" /\ meta.state = "empty"
                /\ pc' = "Train"
                /\ dirs' = NoDirs /\ hf' = NoExports
                /\ UNCHANGED <<step, synced, list, hf_list, doomed, meta, crashes>>

\* Mutant: the step after the checkpoint counts as trained.
RestartAhead == LET last == Last(meta.list)
                IN  /\ pc = "Down" /\ meta.state # "empty"
                    /\ pc' = "Train"
                    /\ step' = IF last < TotalSteps THEN last + 1 ELSE last
                    /\ synced' = last
                    /\ list' = meta.list /\ hf_list' = meta.hfs
                    /\ UNCHANGED <<doomed, meta, dirs, hf, crashes>>

\* _resolve_load_checkpoint_cfg and the resume of controller, state and manager,
\* which raise when the meta file does not parse or a part is missing.
Restart == LET last == Last(meta.list)
               ready == meta.state = "ok" /\ (last # 0 => Whole(last))
           IN  /\ pc = "Down" /\ meta.state # "empty"
               /\ pc' = IF ready THEN "Train" ELSE "Unloadable"
               /\ step' = IF ready THEN last ELSE 0
               /\ synced' = step'
               /\ list' = meta.list /\ hf_list' = meta.hfs
               /\ UNCHANGED <<doomed, meta, dirs, hf, crashes>>

Rest == pc \in {"Done", "Unloadable"} /\ UNCHANGED vars

Work == \/ Train \/ SyncPoint \/ SaveManager \/ SaveDCP \/ SaveTrainState \/ AppendMeta
        \/ Prune \/ OpenMeta \/ WriteMeta \/ SaveHFBegin \/ SaveHFEnd \/ SkipHF \/ Finish
        \/ RestartFresh \/ Restart

Next == Work \/ Crash \/ Rest

Spec == Init /\ [][Next]_vars
FairSpec == Spec /\ WF_vars(Work)

-----------------------------------------------------------------------------
(* Properties. *)

\* Type invariant.
TypeOK ==
  /\ step \in 0..TotalSteps /\ synced \in 0..TotalSteps
  /\ pc \in {"Train", "Manager", "DCP", "TrainState", "Append", "Prune", "Write", "HF",
             "HFWriting", "Done", "Down", "Unloadable"}
  /\ list \in Seq(Steps) /\ hf_list \in Seq(Steps)
  /\ doomed \in SUBSET Steps
  /\ meta \in [state : {"empty", "torn", "ok"}, list : Seq(Steps), hfs : Seq(Steps)]
  /\ dirs \in [Steps -> SUBSET Parts]
  /\ hf \in [Steps -> {"none", "partial", "whole"}]
  /\ crashes \in 0..MaxCrashes

\* The checkpoint a restart would load is complete at every moment, so a crash
\* between any two steps of _maybe_save_checkpoint leaves a job to resume.
ResumePointIsWhole == meta.state = "ok" /\ Last(meta.list) # 0 => Whole(Last(meta.list))

\* An export is removed only for HfMaxKeep newer ones, complete or being written.
\* _maybe_save_hf prunes by position in a list that a resume takes from an older meta
\* file, so exports may be made again and listed ones may be gone: no export may be
\* in the list twice, and those that are gone have to be the oldest of it.  (A job
\* that starts anew leaves the old directory.)
OnlyOldExportsGo ==
  [][\A s \in Steps : hf[s] = "whole" /\ hf'[s] = "none" /\ pc # "Down" =>
        Cardinality({t \in Steps : t > s /\ (hf[t] = "whole" \/ t = step)}) >= HfMaxKeep]_vars

\* Killed and restarted a bounded number of times, the job finishes.
Finishes == <>(pc = "Done")

\* The promise to whoever runs the job.
Lasting == Last(IF meta.state = "torn" THEN list ELSE meta.list)
Promise == INSTANCE DurableProgress WITH
             Total <- TotalSteps,
             step <- IF pc = "Down" THEN Lasting ELSE step,
             saved <- Lasting,
             mode <- IF pc = "Down" THEN "down" ELSE IF pc = "Done" THEN "done"
                     ELSE IF pc = "Unloadable" THEN "lost" ELSE "up"
KeepsPromise == Promise!Spec
===============================================================================
