# Verification of XTuner's training protocols

XTuner V1 fine-tunes models and trains policies with reinforcement learning on a Ray cluster. The numerical work
(models, optimisers, kernels) is sequential per step; what is hard to get right is the *protocol* around it: rollouts
are produced while the policy changes, inference engines crash and are restarted while the trainer wants their devices,
checkpoints are written by background threads while training goes on, and a job that died is resumed, perhaps with
another number of ranks, from what it left on disk. This directory models these protocols in TLA+, checks small
instances with TLC and proves the main safety properties for every configuration with TLAPS.

All source paths below are relative to `src/xtuner/v1/`.

## 1. Inventory

| Component | State | Operations | Module |
|---|---|---|---|
| Disaggregated manager (`rl/agent_loop_manager/disagg_agent_loop_manager.py`) | `_status`, `_update_event`, `_finish_event`, `_model_step`, progress counters | `produce_loop`, `get_batch`, `pause_produce`, `continue_produce`, `shutdown`, `save` | `DisaggManager` |
| Its produce strategy and pending tasks (`disagg_producer.py`, `produce_utils.py`) | `_PendingTasks`, `DisaggProduceContext`, sampling pools | `produce_batch`, `pause_produce`, `put_generated_group`, `refresh_for_all_tasks` | `DisaggManager` |
| Disaggregated trainer (`train/rl_trainer.py`, `RLDisaggregatedTrainer`) | `train_step`, model step | `_fit`, `_sync_weights_and_save` | `DisaggManager`, saves in `RLCheckpoint` |
| Colocated manager, both strategies (`agent_loop_manager.py`, `producer.py`) | pending tasks of one step, `sample_expired` | `produce_batch`, `pause_produce`, `take_train_batch`, `save`, `resume` | `ColocateManager` |
| Colocated trainer (`RLColocateTrainer`) | `train_step`, `model_step`, phase of the devices | `_fit`, `_sync_weights_and_save`, `bind_train_rollout`, resume | `ColocateManager` (steps), `RolloutRecovery` (devices), `RLCheckpoint` (saves) |
| Replay buffer (`rl/replay_buffer.py`) | groups by status, model steps of their tokens | `put`, `get`, `count`, `refresh_staleness`, `is_ready`, `take_batch` | `Staleness` and the two managers |
| Sampler (`sampler.py`) | dataloader, pools | `sample` | the two managers; its loader in `DataOrder` |
| Rollout controller, registry (`rl/rollout/controller.py`, `worker_registry.py`) | lifecycle state per worker group | pause/continue, on/offload, mark state, weight-update targets | `RolloutRecovery` |
| Rollout health manager (`rl/rollout/health_manager.py`) | pause event, `recovery_done`, failure counts, lifecycle lock | probe, mark, restart, shutdown barrier | `RolloutRecovery` |
| RL health manager (`rl/health_manager.py`) | availability event, update lock | recovery update, drain, `weight_update_guard` | `RolloutRecovery` |
| Routed proxy (`proxy_manager.py`) | registered session URLs | register, delete | `RolloutRecovery` |
| Supervised trainer's saves (`train/trainer.py`, `engine/train_engine.py`, `model/base.py`, `AsyncSaveMonitor`) | meta file, directories, pending futures, finalize lock | `_maybe_save`, `_maybe_save_hf`, finalizers, background commit, monitor, resume | `TrainerCheckpoint` |
| RL trainers' saves (`_maybe_save_checkpoint`, `_maybe_save_hf`, `XTunerMeta.build`) | meta file, directories | save, prune, export, resume | `RLCheckpoint` |
| Data order (`datasets/sampler.py`, `preset_sampler.py`, `dataloader.py`, `Trainer._data_iter`) | epoch and step of each rank's sampler, prefetched indices, consumed counts | iterate, `set_epoch`, `get_state_dict`, `load_state_dict`, resume | `DataOrder` |
| Engines, request routing, session server, trace store, agent loops, judgers, training workers, numerical code, legacy v0 | — | — | environment of the models |

What is hard here: coroutines that suspend in the middle of an update (pause against put), labels read long before
they are used, two locks and three events shared by three threads, restarts of engines with empty weights, error paths
that run after the barrier that was meant to clean up, notifications delivered after the state they announce has
changed, directories and the meta file written in several steps by several threads with a crash between any two,
loaders that have drawn further than training has come. The list with source lines is `hazards` in `PROJECT.json`.

## 2. Modules

| Module | Role |
|---|---|
| `Staleness` | staleness arithmetic: thresholds, `seq_staleness`, what is stale |
| `DisaggManager`, `DisaggManagerProofs`, `ProductionProofs`, `MCDisagg` | producer, consumer, replay buffer and trainer loop of disaggregated training |
| `ColocateManager`, `ColocateProofs`, `MCColocate` | colocated steps: strategies of every task, drain, batch, checkpoint, weight sync, restart |
| `RolloutRecovery`, `RecoveryProofs`, `MCRecovery` | colocated trainer, rollout health thread, recovery-update thread, engines, registry, proxy |
| `DurableProgress` | abstract specification: what a trainer with checkpoints promises |
| `TrainerCheckpoint`, `CheckpointProofs`, `DurabilityProofs`, `MCTrainer` | synchronous and background saves of the supervised trainer; implements `DurableProgress` |
| `RLCheckpoint`, `RLCheckpointProofs` | saves and resume of the RL trainers; implements `DurableProgress` |
| `DataOrder`, `DataOrderProofs` | which samples a job trains on, across restarts |

### 2.1 DisaggManager

One asyncio loop runs `produce_loop`, one `produce_batch` coroutine per task, the trainer and the drain of
`pause_produce`. `runner` is the coroutine that holds the loop: it keeps it from one suspension point to the next, so
only code that really awaits interleaves. Ray generations (`Generate`) finish at any time.

* A rollout group is a slot with a place (`running`/`done` = in `_PendingTasks`, `claimed`/`draining` = taken out of
  it by `produce_batch` or `pause_produce`, the three `Status` names = in the buffer, `batch` = being trained), an
  outcome and a set of tokens. A token is its recorded model step (`label`) and, as a ghost, the step of the weights
  that really produced it (`gen`). The prompt, the text and the rewards are abstracted away.
* `LoopStartRound` .. `LoopEndRound` are `_produce_batch_to_buffer`; `Task*` are the points of `produce_batch` between
  its awaits; `Drain*` are `pause_pending_tasks`, with its timeout and cancellation; `Trainer*` are the points of
  `_fit`, `get_batch`, `pause_produce`, `continue_produce`, `save` and the weight update.
* `Refreshed` and `PutGenerated` apply the staleness lifecycle as the buffer does: a stale group is dropped or, when
  retries are on, becomes EXPIRED keeping only fresh parts if partial rollout allows.
* Slots are reused when a group is discarded, so `Gids` bounds the groups alive at one time and not the run.

### 2.2 RolloutRecovery

Three threads share the engines:

* **trainer**: `_fit` of the colocated trainer with the controller calls it makes: `StartRollout`
  (availability event, `continue_generation`), `PauseChecks` .. `AbortActive` (`pause_generation`),
  `ShutGate` .. `DrainUpdate` (`set_rollout_resources_available(False)`), `OffloadRollout`, `Train`,
  `SyncLock` .. `Push` (guard, `bind_train_rollout`, registration, push), `OnloadKvCache`;
* **health**: `_run_loop` and `run_once` (`HealthWake` .. `HealthNotify`), recovery
  (`HealthGate`, `HealthClaim`, `RestartShutdown/Launch/Offload` per group in the pool, `HealthFinish`, `HealthSignal`);
* **pending**: the loop of `RLHealthManager` (`PendingPoll` .. `PendingNotify`), only with the checkpoint engine.

Modelling choices:

* The registry always writes whole lifecycle groups, so a *group* is the unit; one failure counter stands for the
  counters of its ranks.
* An engine is: running or not (`up`), what it has in memory (`resident`), the version of its weights
  (`weights`, `Empty` after a restart with `skip_load_weights`), and the worker's abort flag.
* Sleep keeps the weight version and wake-up brings it back. This is an assumption about the engine; with the
  level-2 sleep of LMDeploy and `sync_weights_interval > 1` it depends on the engine whether it holds.
* A dead server fails its probe; an engine that is not fully in memory may pass or fail it (external); an awake one
  passes. Slow but healthy engines are not modelled as failures.
* Faults (`crash`, failed `shutdown`, failed `restart`, failed `update`, `timeout` of a wait) are chosen by the
  environment, at most `MaxFaults` in a behaviour. The clean-up shutdown after a failed restart is assumed to work.
* Reading `was_paused` and setting the pause event is one step (nothing in between can be told apart by a property).
* The controller is an asyncio actor whose synchronous methods exclude one another; the model lets calls of the
  driver's two threads interleave more freely than that, so the properties shown hold for the code as well. The three
  counterexamples (section 4) only use interleavings of the health thread or of calls that do not block the actor.
* Batch production is one state (`produce`): the groups are the subject of `DisaggManager` and `ColocateManager`, requests and
  their routing of neither.

### 2.3 ColocateManager

One train step is `begin` (refresh and start the coroutines), `produce`, `drain`, `train`, `save`, `sync`. Groups are
records as in `DisaggManager`, without the claimed states: in colocated mode a task's groups are touched by its own
coroutine only, so one iteration of a strategy's loop (`Schedule`, `Collect`) is one step, and coroutines of different
tasks interleave between iterations. `StartSync` is `SyncProduceStrategy`, which starts a whole batch first and forgets
its remaining tasks on return; `StartAsync` is `AsyncProduceStrategy`, which decides once per step whether the EXPIRED
pool is used. A group takes the label `model_step` when it is put; a ghost field has the weights that made it.
A synchronous task has no threshold when a group is put and threshold 1 at the refresh, as in the code. The checkpoint
is one step here; `RLCheckpoint` has its parts. `Crash` also stands for an exception of a generation, which leaves
`_fit`. New prompts take any free slot (one is chosen, slots being alike); which of several stored groups a policy
picks is left open.

### 2.4 TrainerCheckpoint, RLCheckpoint, DurableProgress

`TrainerCheckpoint` has the main thread's walk through `_maybe_save` and `_maybe_save_hf` (`pc`), the background save
and the callbacks of its future per kind of save, the finalizer they run under `_save_finalize_lock`, the handle of
`BaseModel`'s asynchronous export, the monitor thread that ends the job after a failed save, the crash and the resume
from the meta file. The disk is the meta file, the parts present in every checkpoint directory, the exports and the
`hf-latest` link; removing a directory and rewriting the meta file take two steps each. A job runs with one
configuration out of `Configs`: intervals, numbers kept, what is asynchronous, and how many faults it meets.

`RLCheckpoint` is the sequential counterpart: directory, replay buffer and sampler, weights, train state, pruning, meta
file, export, each a step with a possible crash after it; the disaggregated trainer may also save after any step at
which the producer reported expired rollouts.

`DurableProgress` says what both promise: training moves one step at a time, the point a restart resumes from only
moves forward and never past what was trained, and a failure costs the steps since that point and nothing else. Both
modules instantiate it (`KeepsPromise`), mapping `saved` to the last entry of the meta file on disk.

### 2.5 DataOrder

Every rank has a loader that draws indices from its sampler up to `Ahead` batches before it delivers them; a training
step needs a batch of every rank. A sample is a position in the shuffled order of a pass, and that order is a function
of the sampler's epoch and of the group size. `Restart` is a crash at any point and a launch with any number of ranks
in `Worlds`; it restores the sampler from the consumed samples stored in the checkpoint.

## 3. Properties, runs and bounds

| Run (`cfg`) | Instance | Shows |
|---|---|---|
| `retry` (DisaggRetry) | 1 task, 6 slots, batch 1, oversample 1, staleness 1, tail trigger 1, no partial rollout, 3 steps | `TypeOK`; `LabelNotNewerThanWeights`: a label is never newer than the producing weights; `BufferFresh`; `TrainedWithinStaleness`: the off-policy bound holds for real weights; `NoSyncUnderGeneration`; `ExpiredProducerLeftABatch`: the RuntimeError of `get_batch` is unreachable; `OverproductionBounded` |
| `two_tasks` (DisaggTwoTasks) | 2 tasks, 4 slots, generations may raise, sync and save every 2 of 3 steps, fair | `StatusFollowsDocs`, `TrainingCompletes`, `ProducerResumed` |
| `recovery` (RecoveryMain) | 2 groups, threshold 1, checkpoint engine, 2 steps, 2 faults of every kind, fair | `TypeOK`, `RoutedGroupsAreCurrent`, `RestartUndisturbed`, `NoPendingUpdateInTraining`, `PauseWaitsForRecovery`, `TrainingEnds` |
| `colocated` (Colocate) | an asynchronous task (oversample 1, staleness 1, tail trigger 2) and a synchronous one, 5 slots, sync every 2, checkpoint every 4 of 9 steps, 1 crash, fair | `TypeOK`, `BatchIsWhole`, `NothingRunsInTraining`, `BatchIsFresh`, `HoldingsBounded`, `TrainingCompletes` |
| `ckpt` (Ckpt) | 5 steps, three configurations: all saves on the main thread with 2 crashes and 3 exports kept; background exports with a crash and 2 failures; everything in the background with snapshots and one export kept; fair | `TypeOK`, `RestartSucceeds`, `MetaAgrees`, `DoneIsDurable`, `HookSeesTheSave`, `NeverRefused`, `FailureEndsTheJob`, `KeepsPromise` (refinement), `Finishes` |
| `rl_ckpt` (RLCkpt) | 8 steps, checkpoint every 2, export every 3, 2 of each kept, 2 crashes, fair | `TypeOK`, `ResumePointIsWhole`, `KeepsPromise` (refinement), `Finishes`; `OnlyOldExportsGo`: an export is pruned only for two newer ones, although a resume goes back to an older list of exports |
| `data_order` (DataOrder) | 12 samples in batches of 4, 1, 2 or 4 ranks, 2 batches prefetched, 5 steps, 2 restarts | `TypeOK`, `EachSampleOnce`, `OneOrderPerPass`, `NewPassNewOrder` |
| `late_write`, `pause_lost`, `memory_held`, `proxy_late`, `ckpt_relaunch` | — | disagreements, section 4 |

Why the bounds are enough to be interesting. Three disaggregated steps give a first sync, a round produced with old
labels and a consumption after it; six slots hold a batch, its oversampling and leftovers of the round before. Two
engine groups let one be restarted while the other serves or is restarted too, and two faults let a recovery itself
fail or a second engine fail during it. Nine colocated steps with staleness threshold 4 let a group expire, a tail batch
be triggered by two of them, and a crash fall between two checkpoints and in the middle of a sync interval. With
intervals 2 and 3 and two checkpoints kept, five supervised steps prune, let a background save meet the next one, and
save both kinds at one step. Eight RL steps with intervals 2 and 3 prune both kinds and let a crash fall between an
export and the checkpoint that would have recorded it, before and after a pruning. Five batches of a pass of three
reach the second pass, with a restart on either side of its boundary. Deadlock is checked in every run; final states
stutter explicitly. Engine groups are interchangeable, so the recovery runs without liveness use symmetry.

**Fairness.** In `DisaggManager` and `ColocateManager`, asyncio resumes every runnable coroutine and Ray answers every
call, so each coroutine is weakly fair; a generation always ends because of `rollout_timeout`; and one that is started
again and again is not aborted or failed for ever (strong fairness of its completion, without which no progress can be
expected). In `RolloutRecovery` every thread is weakly fair. `TrainerLock`, the trainer's two blocking acquisitions of
the lifecycle lock, is strongly fair: the health thread gives the lock up for at least a whole
`health_check_interval_seconds` between two checks, in which a blocked acquirer gets it. In the checkpoint modules the
main thread, the background saves, the finalizers, the monitor's termination and the relaunch of a dead job are weakly
fair; crashes and failures never have to happen.

## 4. Disagreements found

1. `late_write` — a `produce_batch` suspended in a trace release writes claimed groups into the buffer after
   `pause_produce` has returned, although the trainer pauses "to keep pending rollouts from writing the buffer"
   (`produce_utils.py:841`, `rl_trainer.py:1919`).
2. `pause_lost` — `_background_health_checks_paused` restores a pause flag it read before the whole recovery; a
   `pause_generation` that arrives during the recovery is undone by its `resume()`, and health checks go on, restarts
   included, while training uses the devices (`rollout/health_manager.py:294-301`, `controller.py:177-181`).
3. `memory_held` — `set_rollout_resources_available(False)` shuts inactive engines down before it drains the pending
   update; an update failing in between leaves an inactive engine with its weights in device memory
   (`rl/health_manager.py:116-139`).
4. `proxy_late` — lifecycle listeners are notified after the registry changed and without a lock shared with the health
   thread; a failure found in between is announced first and the late "active" leaves an inactive group registered
   (`controller.py:231-239`).
5. `ckpt_relaunch` — a crash after an asynchronous checkpoint's weights were committed and before the meta file records
   it leaves a directory at which the resumed job raises `FileExistsError` when it reaches that step again, at every
   relaunch; the export's commit, whose semantics it is said to match, removes such a directory
   (`engine/train_engine.py:436-441`, `model/base.py:1136`).

Observed while modelling, without a run of their own:

* The meta file is rewritten in place: a crash inside the write leaves a file that cannot be parsed. Nothing promises
  more, so no property is about it: the passing runs and the theorems about restarting assume `~TornWrites`. With
  `checkpoint_maxkeep = 1` the old checkpoint is removed before the meta file names the new one; they also assume
  `MaxKeep # 1`, and the passing runs keep two.
* Snapshots are kept one at a time whatever `checkpoint_maxkeep` says, so a crash between the removal of the old snapshot
  and the rewrite of the meta file leaves a file that names a snapshot which is gone. The theorem about restarting the
  supervised trainer therefore assumes no snapshots (or no fault).
* The supervised trainer records every export at once, so a resumed job makes a listed export again and lists it twice;
  pruning by position then removes the directory both entries name. A test expects the last two of `hf_max_keep = 2`
  (`tests/train/test_trainer.py:192-195`, without a restart); after a resume one of them may be missing, and once a step
  is made again `hf_max_keep` times it is the one just written (`train/trainer.py:1934-1941`). `HookSeesTheSave` holds in
  the run `ckpt` because two restarts meet three exports kept; its mutant keeps two.
* The RL trainers change the list of exports in memory and persist it only with the next checkpoint. Nothing is listed
  twice that way (`OnlyOldExportsGo`), but after a crash in between, the export of the step the job resumes from is on
  disk and on no list, and is never pruned: more than `hf_max_keep` stay (`train/rl_trainer.py:840-849`, docstring 413).
* A background export lost with the process is not made again.
* An exception of the main thread leaves the monitor thread running.
* A job resumed from a checkpoint written exactly at the end of a pass shuffles the next pass like the one before; the
  docstring of `set_epoch` promises a different order for each epoch (`datasets/sampler.py:151`, 125-126).
  `EachSampleOnce` covers the position at that boundary, `NewPassNewOrder` is about every other boundary.
* The RL sampler's group and rollout ids continue, after a resume, from the step within the pass, so a second pass may
  reuse ids of groups in the buffer (`sampler.py:153`; a hazard without a property yet).

## 5. Proofs

All proofs are of `Spec`, without fairness, for every value of the constants allowed by the named assumptions:
non-empty sets, natural-number parameters, positive intervals, and what the constructors validate; for counting
groups, that the slots are finitely many.

**DisaggManagerProofs.** Proved: `TypeOK`, `LabelNotNewerThanWeights`, `BufferFresh`, `TrainedWithinStaleness`,
`NoSyncUnderGeneration`, `StatusFollowsDocs`. None of the safety properties is inductive alone. The strengthening
`IInv` has two sides. *Control*: what the trainer's position says of the status, the update event and the steps still
to drain (`ControlInv`), and the order of the model steps: `ctx_model <= model_step <= weights` outside the window in
which `save` has moved the label ahead of the weights, `model_step < train_step` while a batch is consumed
(`StepInv`). *Groups*: a generation in flight runs on weights at least as new as the label it will get
(`LabelsReady`), only a coroutine inside `_put_claimed_tasks` holds claimed groups, a drained task has nothing in
flight until generation resumes, and an outcome COMPLETED has tokens. Lemmas state what the lifecycle, `put` and
`refresh` do to one record; the step lemmas go action by action.

**ProductionProofs.** Proved on top of `IInv`: `OverproductionBounded` and `ExpiredProducerLeftABatch`. The budget
(`BudgetInv`) counts, per task, what is consumed, COMPLETED, pending, claimed or draining; every step but two only
moves groups within that set or out of it. `schedule_one` adds a group after counting the pending tasks alone: that is
enough because a coroutine that schedules holds no claimed group, and a drain (`DrainHeld`) excludes scheduling through
the update event. `take_train_batch` turns exactly as many groups into consumed samples as it removes. That an expired
producer left a batch needs the pace of the two loops: targets and consumption are whole train steps (`TargetInv`,
`ConsumedInv`), a round only starts within the staleness bound of its model, so the producer is never more than one step
beyond it and every sync gives it at least one more round (`PaceInv`). It can then stop before the first step after a
sync only at the end of a round of the newest model that every task finished with its whole target, and until that
step takes its batch nothing of it goes stale, since the refresh of `get_batch` repeats one the buffer is already fresh
for (`StockInv`).

**RecoveryProofs.** Proved: `RoutedGroupsAreCurrent`, `RestartUndisturbed`, `NoPendingUpdateInTraining`,
`PauseWaitsForRecovery`, `TypeOK` (a group at the failure threshold is INACTIVE until a restart clears its count, and
training is only ever followed by a rollout while a step is left). `RoutedGroupsAreCurrent` speaks of one phase only; it is true because of facts about every
other phase. `IInv` says who holds which lock at which program counter and that `recovery_done` is clear exactly while
a recovery is under way (`Locks`), that no update is admitted or running once drained (`Quiet`), that claimed groups
are INACTIVE, probed ones ACTIVE and the targets of an update PENDING until the update marks them (`Claims`), that
restarted groups have a clear abort flag (`Flags`), what is in memory at each point of the switch (`Engines`) and that
the registered checkpoint and the weights of the routed groups equal the last synced version outside the sync's own
window (`Contents`). The proof has one lemma per thread and one case per action.

**ColocateProofs.** Proved: `TypeOK`, `BatchIsWhole`, `NothingRunsInTraining`, `BatchIsFresh`, `HoldingsBounded`. That a batch is whole
needs, for every task, that a strategy which has ended left a full share (`ShareInv`) and that nothing takes a share
away again; for a synchronous task, whose forgotten tasks no count would show, it needs that groups in flight and
completed together never exceed the batch (`SyncInv`, a disjoint-union count), so that a full share means nothing is in
flight. Labels are honest because `model_step = weights` with a lag of at most one sync interval (`StepsInv`, by
divisibility of the step numbers) and because a checkpoint is only taken at a multiple of the sync interval, so that a
restart computes the same label as it loads (`SavedInv`). The holdings stay bounded because within a step nothing
expires: everything kept was refreshed against the step's label and new tokens lag by at most one sync interval
(`HInv`). A new prompt is therefore drawn only when the groups in flight, the completed ones and fewer than the
trigger's number of expired ones are all there is.

**CheckpointProofs.** Proved for the supervised trainer, in every configuration: `TypeOK`, `MetaAgrees` (outside the
finalizers' critical section the file on disk lists exactly what the process knows) and `NeverRefused` (the model's
"already pending" error of an export is unreachable; that an asynchronous checkpoint can be refused is `ckpt_relaunch`).
The invariant says who holds the finalize lock at which point (`LockInv`), that a future's callbacks run once and after
it is done (`CallbackInv`), that the handle follows the future (`HandleInv`), what a dead process leaves (`DownInv`),
and how the step relates to the save under way (`StepInv`).

**DurabilityProofs.** Proved about what is on disk: `RestartSucceeds` and the refinement `KeepsPromise`, for `~TornWrites`
and jobs that use no snapshots and do not keep exactly one checkpoint, or meet no fault (`Survivable`);
`HookSeesTheSave` and `DoneIsDurable`, where for exports either none are pruned or the job never went down (`HfSafe`; the
checkpoint half needs neither). The conditions are needed: without them the code removes the directory the meta file
still names, or an export it has just written (section 4). The invariant `Durable` adds to the one of
`CheckpointProofs`: the lists of checkpoints are in order and the file lags behind memory by exactly what the finalizer
with the lock has in hand (`Progress`), a directory is doomed only once it is off the list and complete once its
finalizer runs (`Files`), the file never names an incomplete checkpoint last (`Resume`), what has been waited for is
over (`DrainInv`), the final step is recorded as a checkpoint (`FinalInv`, `TotalIsWhole`), and exports are recorded in
order and out when fit has waited for them (`HfOrder`, `HfFiles`, `SyncOut`, `AsyncOut`). For the refinement, the resume
point moves only when the finalizer rewrites the file, and then to a step newer than the last.

**RLCheckpointProofs.** Proved in every configuration: `TypeOK`. Proved for `MaxKeep # 1` and `~TornWrites`:
`ResumePointIsWhole`, `OnlyOldExportsGo`, and that `RLCheckpoint` implements `DurableProgress` (`KeepsPromise`). The
invariant `Inv` orders the list of checkpoints, relates it to the meta file and to the step at every point of a save,
and says that whatever the meta file names last is complete while the next one is written and old ones are pruned; that
the job is never `Unloadable` is one of its conjuncts. `OnlyOldExportsGo` needs `HfInv` on top of it: the lists of
exports, in memory and in the file, are in order and behind the step, the exports of a list that are gone are a prefix
of it, and an export of the file's list that is still there is on the list in memory too. The file hears of an export only
together with the checkpoint a resume starts from, so no export is ever listed twice; the mutant, which records it at
once, is what the supervised trainer does (section 4).

**DataOrderProofs.** Proved without further conditions, for every pass, batch, prefetch depth, set of rank numbers
dividing the batch and any number of restarts: `TypeOK`, `EachSampleOnce`, `OneOrderPerPass`, `NewPassNewOrder`. The
loaders run ahead of training and of each other, so the invariant gives each rank's shuffle and position as a function
of how many passes it has begun since the launch (`LaunchInv`, which speaks of the launch's epoch, pass and step as
numbers that exist), says that what is drawn and delivered is whole batches (`LoaderInv`, `BatchInv`), that the counters
a checkpoint stores equal the samples the weights have seen (`CountInv`), and that the checkpoint holds a run in order
with the state at its end (`SavedInv`). A batch of all ranks covers its block once by division with remainder; the sum
of the counters over the ranks, a recursive function, is computed by a minimal counterexample over well-founded
numbers, not by the library's induction rules.

**Only model-checked:** liveness (`TrainingCompletes`, `ProducerResumed`, `TrainingEnds`, `FailureEndsTheJob`, `Finishes`),
which needs fairness and is out of the prover's reach. The five properties of the runs that expect a violation are
false. Every other property of a run is stated by a theorem; those of `TrainerCheckpoint` about restarts and exports
under the conditions named above.

## 6. Not modelled

`stop()`/`shutdown()` of the health managers and the controller; `restart_inactive_workers` (nothing calls it);
evaluation between steps; debug modes; request routing, session affinity and the HTTP workers; agent loops and judgers;
weight transport (one step of the models); the tokens' texts, masks and rewards and the statistics about them; storage
backends of the replay buffer; packing and tokenisation; HTTP, Ray and engine internals; models, optimisers, kernels
and the rest of the numerical code, which is most of the repository and has no protocol of its own; the legacy v0 code.

## 7. Plan

1. Proofs: positive counterparts of the disagreements (which writes a paused producer can still make, which groups may
   be restarted during training).
2. An abstract specification of the consumer's view (a stream of batches within the staleness bound), implemented by
   `DisaggManager` and `ColocateManager`.
3. Ids of groups and rollouts in the buffer across a resume.
4. Request routing: session affinity and replacement of inactive workers; per-request abort and timeout in the worker.
5. Pure algorithms against reference definitions: `allocate_task_batch_sizes`, the status of a group from its samples,
   preservation of fresh members on expiry.
