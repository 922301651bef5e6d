-------------------------- MODULE ColocateManager --------------------------
(***************************************************************************)
(* Colocated RL training: trainer and rollout engine share the GPUs and    *)
(* take turns.  One train step of RLColocateTrainer._fit is                *)
(* AgentLoopManager.produce_batch (one SyncProduceStrategy or              *)
(* AsyncProduceStrategy coroutine per task, then pause, drain and take),   *)
(* a training step, a checkpoint and the return to the rollout engine with *)
(* new weights.                                                            *)
(*                                                                         *)
(* While the strategies run, a task's groups are touched by its own        *)
(* coroutine and by the rollout engine only, so a loop iteration of a      *)
(* strategy is one step.  The order in which the replay policies pick      *)
(* groups is left open; the checkpoint is atomic here (RLCheckpoint has    *)
(* its steps).                                                             *)
(***************************************************************************)
EXTENDS Staleness, FiniteSets

CONSTANTS
    Tasks,         \* task_runners that get a share of the batch
    Gids,          \* slots for the rollout groups that are alive at one time
    TaskOf,        \* the task a slot belongs to
    Sync,          \* the tasks whose strategy is SyncProduceStrategy
    BatchSize,     \* allocate_task_batch_sizes
    Oversample,    \* ceil(over_sample_threshold * task_batch_size)
    MaxPending,    \* max_pending_tasks, 0 for None
    MaxStaleness,  \* max_staleness
    Trigger,       \* tail_batch_trigger_size
    Partial,       \* enable_partial_rollout
    SyncInterval,  \* sync_weights_interval
    CkptInterval,  \* checkpoint_interval, 0 for None and -1
    TotalSteps,    \* total_train_steps
    EvalAtEnd,     \* an evaluation follows the last step
    MaxCrashes     \* bound: deaths of the job

ASSUME ColocateAssumption ==
    /\ IsFiniteSet(Gids) /\ Tasks # {} /\ Sync \subseteq Tasks
    /\ TaskOf \in [Gids -> Tasks]
    /\ BatchSize \in [Tasks -> Nat \ {0}]
    /\ Oversample \in [Tasks -> Nat] /\ MaxPending \in [Tasks -> Nat]
    /\ MaxStaleness \in [Tasks -> Nat]
    /\ Trigger \in [Tasks -> Nat \cup {-1}]
    /\ \A t \in Sync : Oversample[t] = 0 /\ MaxPending[t] = 0 /\ Trigger[t] = -1
    /\ Partial \in BOOLEAN /\ EvalAtEnd \in BOOLEAN
    /\ SyncInterval \in Nat \ {0} /\ TotalSteps \in Nat \ {0}
    \* _validate_sync_intervals
    /\ CkptInterval \in Nat /\ CkptInterval % SyncInterval = 0
    /\ MaxCrashes \in Nat

VARIABLES
    group,        \* every rollout group: where it is and what it holds
    phase,        \* where the trainer is in its step
    train_step,   \* train_step of _fit
    model_step,   \* model_step of _fit, the label of the tokens of this step
    weights,      \* the step of the weights the rollout engine holds
    paused,       \* the rollout engine was told to pause
    task_pc,      \* where each strategy's produce_batch is: "off", "start", "loop"
    use_expired,  \* sample_expired of each AsyncProduceStrategy.produce_batch call
    saved,        \* the latest checkpoint: its step and the replay buffer
    crashes

vars == <<group, phase, train_step, model_step, weights, paused, task_pc, use_expired, saved,
          crashes>>

-----------------------------------------------------------------------------
Pending == {"running", "done"}
Stored  == {"COMPLETED", "ABORTED", "EXPIRED"}

NoStep  == -1
NoGroup == [at |-> "free", out |-> "none", tokens |-> {}, gen |-> NoStep]

In(t, place) == {g \in Gids : TaskOf[g] = t /\ group[g].at = place}
PendingOf(t) == {g \in Gids : TaskOf[g] = t /\ group[g].at \in Pending}
Held(t)      == {g \in Gids : TaskOf[g] = t /\ group[g].at \in Pending \cup Stored}

Threshold(t) == StaleThreshold(MaxStaleness[t], SyncInterval)
Retryable(t) == Trigger[t] >= 0

\* _apply_staleness_lifecycle: a group with a stale member leaves for the EXPIRED
\* pool, keeping at most the members that hold fresh tokens only.
Lifecycle(rec, t, threshold, keep) ==
    IF ~HasStale(rec.tokens, train_step, threshold) THEN rec
    ELSE IF ~Retryable(t) THEN NoGroup
    ELSE [at |-> "EXPIRED", out |-> rec.out, gen |-> rec.gen,
          tokens |-> IF keep THEN FreshPart(rec.tokens, train_step, threshold) ELSE {}]

\* Mutant: a synchronous task's new groups are judged as refresh_for_all_tasks does.
PutGeneratedSyncThreshold(rec, t, keep) ==
    IF rec.out = "FAILED" THEN NoGroup
    ELSE LET labelled == IF rec.gen = NoStep THEN rec.tokens
                         ELSE rec.tokens \cup {[label |-> model_step, gen |-> rec.gen]}
             stored == [at |-> rec.out, out |-> "none", tokens |-> labelled, gen |-> NoStep]
         IN  Lifecycle(stored, t, IF t \in Sync THEN 1 ELSE Threshold(t), keep)

\* put_generated_group: FAILED and FILTERED groups are dropped; the new tokens of
\* the others get this step's label.  A synchronous task has no threshold.
PutGenerated(rec, t, keep) ==
    IF rec.out = "FAILED" THEN NoGroup
    ELSE LET labelled == IF rec.gen = NoStep THEN rec.tokens
                         ELSE rec.tokens \cup {[label |-> model_step, gen |-> rec.gen]}
             stored == [at |-> rec.out, out |-> "none", tokens |-> labelled, gen |-> NoStep]
         IN  IF t \in Sync THEN stored ELSE Lifecycle(stored, t, Threshold(t), keep)

\* refresh_for_all_tasks: a synchronous task is judged with threshold 1.
Refreshed(g, keep) ==
    IF group[g].at \notin Stored THEN group[g]
    ELSE Lifecycle(group[g], TaskOf[g], IF TaskOf[g] \in Sync THEN 1 ELSE Threshold(TaskOf[g]), keep)

\* _get_colocate_rollout_model_step.
RolloutModelStep(step) == (step - 1) - ((step - 1) % SyncInterval)

Init ==
    /\ group = [g \in Gids |-> NoGroup]
    /\ phase = "begin"
    /\ train_step = 1 /\ model_step = RolloutModelStep(1) /\ weights = 0
    /\ paused = FALSE
    /\ task_pc = [t \in Tasks |-> "off"]
    /\ use_expired = [t \in Tasks |-> FALSE]
    /\ saved = [step |-> 0, group |-> [g \in Gids |-> NoGroup]]
    /\ crashes = 0

-----------------------------------------------------------------------------
(* AgentLoopManager.produce_batch.                                         *)

\* continue_generation, refresh_for_all_tasks, one coroutine per active task.
Begin ==
    /\ phase = "begin"
    /\ paused' = FALSE
    /\ \E kept \in SUBSET {g \in Gids : group[g].at \in Stored /\ Refreshed(g, TRUE).tokens # {}} :
          group' = [g \in Gids |-> Refreshed(g, g \in kept)]
    /\ task_pc' = [t \in Tasks |-> "start"]
    /\ phase' = "produce"
    /\ UNCHANGED <<train_step, model_step, weights, use_expired, saved, crashes>>

Running(g) == [at |-> "running", out |-> "none", tokens |-> group[g].tokens, gen |-> weights]

\* A group the dataloader gives: any free slot will do.
NewGroup(t) == IF In(t, "free") = {} THEN {} ELSE {CHOOSE g \in In(t, "free") : TRUE}

\* SyncProduceStrategy.produce_batch starts a whole batch of new groups at once.
StartSync(t) ==
    /\ t \in Sync /\ task_pc[t] = "start"
    /\ \E new \in SUBSET In(t, "free") :
          /\ Cardinality(new) = BatchSize[t]
          /\ group' = [g \in Gids |-> IF g \in new THEN Running(g) ELSE group[g]]
    /\ task_pc' = [task_pc EXCEPT ![t] = "loop"]
    /\ UNCHANGED <<phase, train_step, model_step, weights, paused, use_expired, saved, crashes>>

\* AsyncProduceStrategy.produce_batch decides once whether to use the EXPIRED pool.
StartAsync(t) ==
    /\ t \notin Sync /\ task_pc[t] = "start"
    /\ LET expired_count == Cardinality(In(t, "EXPIRED"))
       IN  use_expired' = [use_expired EXCEPT ![t] =
               Trigger[t] >= 0 /\ expired_count > 0 /\ expired_count >= Trigger[t]]
    /\ task_pc' = [task_pc EXCEPT ![t] = "loop"]
    /\ UNCHANGED <<group, phase, train_step, model_step, weights, paused, saved, crashes>>

\* Mutant: every stored group counts, whatever its status.
AvailableAnyStatus(t) == Cardinality({g \in Gids : TaskOf[g] = t /\ group[g].at \in Stored})

\* completed_count; SyncProduceStrategy keeps the same number in a local variable.
Available(t) == Cardinality(In(t, "COMPLETED"))

\* How many tasks the strategy wants pending: a tail batch does without the
\* oversampling budget, and max_pending_tasks caps the rest.
DesiredPending(t) ==
    LET budget == IF use_expired[t] /\ Trigger[t] > 0 THEN 0 ELSE Oversample[t]
        missing == BatchSize[t] + budget - Available(t)
    IN  IF MaxPending[t] > 0 /\ MaxPending[t] < missing THEN MaxPending[t] ELSE missing

\* Mutant: new prompts are drawn before unfinished groups.
SamplePoolNewFirst(t) ==
    IF In(t, "free") # {} THEN NewGroup(t) ELSE In(t, "ABORTED") \cup In(t, "EXPIRED")

\* Sampler.sample: a synchronous task always takes a new group.
SamplePool(t) ==
    IF use_expired[t] /\ In(t, "EXPIRED") # {} THEN In(t, "EXPIRED")
    ELSE IF t \notin Sync /\ In(t, "ABORTED") # {} THEN In(t, "ABORTED")
    ELSE NewGroup(t)

WantsMore(t) == task_pc[t] = "loop" /\ Available(t) < BatchSize[t]

\* One more sampled group becomes a pending task.
Schedule(t) ==
    /\ WantsMore(t)
    /\ Cardinality(PendingOf(t)) < DesiredPending(t)
    /\ \E g \in SamplePool(t) : group' = [group EXCEPT ![g] = Running(g)]
    /\ UNCHANGED <<phase, train_step, model_step, weights, paused, task_pc, use_expired, saved,
                   crashes>>

\* The groups of t that have ended are claimed and put into the buffer.
PutDone(t) ==
    /\ \E kept \in SUBSET In(t, "done") :
          group' = [g \in Gids |-> IF g \in In(t, "done") THEN PutGenerated(group[g], t, g \in kept)
                                   ELSE group[g]]
    /\ UNCHANGED <<phase, train_step, model_step, weights, paused, task_pc, use_expired, saved,
                   crashes>>

\* Everything wanted is scheduled: asyncio.wait, then _put_claimed_tasks.
Collect(t) ==
    /\ WantsMore(t)
    /\ Cardinality(PendingOf(t)) >= DesiredPending(t)
    /\ In(t, "done") # {}
    /\ PutDone(t)

\* should_continue_fn (default_should_continue_fn): enough groups are available.
Enough(t) ==
    /\ task_pc[t] = "loop" /\ Available(t) >= BatchSize[t]
    /\ task_pc' = [task_pc EXCEPT ![t] = "off"]
    /\ UNCHANGED <<group, phase, train_step, model_step, weights, paused, use_expired, saved, crashes>>

\* The rollout engine ends a generation.  Only a paused engine aborts; without
\* partial rollout the aborted members restart from the prompt.
Generate(g, out) ==
    /\ phase \in {"produce", "drain"}
    /\ group[g].at = "running"
    /\ out = "ABORTED" => paused
    /\ \E old \in IF Partial /\ TaskOf[g] \notin Sync THEN {group[g].tokens}
                  ELSE SUBSET group[g].tokens :
       \E made \in BOOLEAN :
          /\ out = "COMPLETED" => made \/ old # {}
          /\ ~made /\ out = "ABORTED" => old = group[g].tokens
          /\ group' = [group EXCEPT ![g] =
                 [at |-> "done", out |-> out,
                  tokens |-> IF out = "FAILED" THEN {} ELSE old,
                  gen |-> IF made /\ out # "FAILED" THEN @.gen ELSE NoStep]]
    /\ UNCHANGED <<phase, train_step, model_step, weights, paused, task_pc, use_expired, saved,
                   crashes>>

\* gather returns: pause_generation, then pause_produce of every active task.
Pause ==
    /\ phase = "produce" /\ \A t \in Tasks : task_pc[t] = "off"
    /\ paused' = TRUE
    /\ phase' = "drain"
    /\ UNCHANGED <<group, train_step, model_step, weights, task_pc, use_expired, saved, crashes>>

\* pause_pending_tasks: what ends within the timeout still reaches the buffer.
DrainPut(t) == phase = "drain" /\ t \notin Sync /\ In(t, "done") # {} /\ PutDone(t)

\* The drain timeout: what is still pending is cancelled and lost.
DrainCancel(t) ==
    /\ phase = "drain" /\ t \notin Sync /\ PendingOf(t) # {}
    /\ group' = [g \in Gids |-> IF g \in PendingOf(t) THEN NoGroup ELSE group[g]]
    /\ UNCHANGED <<phase, train_step, model_step, weights, paused, task_pc, use_expired, saved,
                   crashes>>

\* Mutant: the pause signal is sent, but nobody waits for the tasks.
DrainedAtOnce(t) == TRUE

\* A synchronous task has nothing to drain: its pending_task_count is always 0.
Drained(t) == t \in Sync \/ PendingOf(t) = {}

\* take_train_batch: at most task_batch_size COMPLETED groups of every task.
Take ==
    /\ phase = "drain" /\ \A t \in Tasks : Drained(t)
    /\ \E taken \in SUBSET {g \in Gids : group[g].at = "COMPLETED"} :
          /\ \A t \in Tasks :
                LET stock == Cardinality(In(t, "COMPLETED"))
                IN  Cardinality({g \in taken : TaskOf[g] = t}) =
                        IF stock < BatchSize[t] THEN stock ELSE BatchSize[t]
          /\ group' = [g \in Gids |-> IF g \in taken THEN [group[g] EXCEPT !.at = "batch"]
                                      ELSE group[g]]
    /\ phase' = "train"
    /\ UNCHANGED <<train_step, model_step, weights, paused, task_pc, use_expired, saved, crashes>>

-----------------------------------------------------------------------------
(* RLColocateTrainer._fit.                                                 *)

\* _train_one_batch, after the assertion that there is a batch.
Train ==
    /\ phase = "train"
    /\ \E g \in Gids : group[g].at = "batch"
    /\ group' = [g \in Gids |-> IF group[g].at = "batch" THEN NoGroup ELSE group[g]]
    /\ phase' = "save"
    /\ UNCHANGED <<train_step, model_step, weights, paused, task_pc, use_expired, saved, crashes>>

CkptDue == CkptInterval # 0 /\ train_step % CkptInterval = 0

\* _maybe_save_checkpoint, which refuses to save while tasks are pending.
SaveCheckpoint ==
    /\ phase = "save"
    /\ CkptDue => \A t \in Tasks : Drained(t)
    /\ saved' = IF CkptDue THEN [step |-> train_step, group |-> group] ELSE saved
    /\ phase' = "sync"
    /\ UNCHANGED <<group, train_step, model_step, weights, paused, task_pc, use_expired, crashes>>

\* Mutant: the loop runs past total_train_steps.
ToNextStepPastEnd ==
    /\ phase = "sync"
    /\ phase' = IF train_step > TotalSteps THEN "finished" ELSE "begin"
    /\ train_step' = train_step + 1

\* for train_step in range(init_train_step, total_train_steps + 1).
ToNextStep ==
    /\ phase = "sync"
    /\ phase' = IF train_step = TotalSteps THEN "finished" ELSE "begin"
    /\ train_step' = IF train_step = TotalSteps THEN train_step ELSE train_step + 1

\* Mutant: the step is advanced although the weights stayed.
SyncWeightsAlwaysRelabels ==
    /\ ToNextStep
    /\ weights' = IF train_step % SyncInterval = 0 THEN train_step ELSE weights
    /\ model_step' = train_step
    /\ UNCHANGED <<group, paused, task_pc, use_expired, saved, crashes>>

\* The rest of _sync_weights_and_save: new weights every SyncInterval steps, none
\* after the last one unless an evaluation needs them.
SyncWeights ==
    /\ ToNextStep
    /\ LET synced == /\ train_step % SyncInterval = 0
                     /\ train_step < TotalSteps \/ EvalAtEnd
       IN  /\ weights' = IF synced THEN train_step ELSE weights
           /\ model_step' = IF synced THEN train_step ELSE model_step
    /\ UNCHANGED <<group, paused, task_pc, use_expired, saved, crashes>>

\* The job dies: a crash, or an exception of a generation that task.result()
\* re-raises through gather and produce_batch out of _fit.
Crash ==
    /\ crashes < MaxCrashes /\ phase \notin {"finished", "down"}
    /\ crashes' = crashes + 1
    /\ phase' = "down"
    /\ UNCHANGED <<group, train_step, model_step, weights, paused, task_pc, use_expired, saved>>

\* A relaunch loads the checkpoint and gives its weights to the rollout engine
\* (skip_load_weights is forced when a checkpoint is loaded).
Restart ==
    /\ phase = "down"
    /\ group' = saved.group
    /\ train_step' = IF saved.step >= TotalSteps THEN TotalSteps ELSE saved.step + 1
    /\ phase' = IF saved.step >= TotalSteps THEN "finished" ELSE "begin"
    /\ model_step' = RolloutModelStep(saved.step + 1)
    /\ weights' = saved.step
    /\ paused' = FALSE
    /\ task_pc' = [t \in Tasks |-> "off"]
    /\ use_expired' = [t \in Tasks |-> FALSE]
    /\ UNCHANGED <<saved, crashes>>

Finished == phase = "finished" /\ UNCHANGED vars

TaskStep(t) ==
    /\ phase = "produce"
    /\ StartSync(t) \/ StartAsync(t) \/ Schedule(t) \/ Collect(t) \/ Enough(t)

Outcomes == {"COMPLETED", "ABORTED", "FAILED"}

Next ==
    \/ Begin \/ Pause \/ Take \/ Train \/ SaveCheckpoint \/ SyncWeights
    \/ Crash \/ Restart \/ Finished
    \/ \E t \in Tasks : TaskStep(t) \/ DrainPut(t) \/ DrainCancel(t)
    \/ \E g \in Gids, out \in Outcomes : Generate(g, out)

Spec == Init /\ [][Next]_vars

\* The event loop runs what is ready and the trainer goes on; every generation
\* ends; and they do not fail for ever: one that is retried without end is
\* completed some time.  The job is relaunched after a crash.
Fairness ==
    /\ WF_vars(Begin \/ Pause \/ Take \/ Train \/ SaveCheckpoint \/ SyncWeights)
    /\ WF_vars(Restart)
    /\ \A t \in Tasks : WF_vars(TaskStep(t)) /\ WF_vars(DrainPut(t) \/ DrainCancel(t))
    /\ \A g \in Gids : SF_vars(Generate(g, "COMPLETED"))

FairSpec == Spec /\ Fairness

-----------------------------------------------------------------------------
GroupType ==
    [at : Pending \cup Stored \cup {"free", "batch"}, out : Outcomes \cup {"none"},
     tokens : SUBSET [label : 0..TotalSteps, gen : 0..TotalSteps], gen : -1..TotalSteps]

\* Type invariant.
TypeOK ==
    /\ group \in [Gids -> GroupType]
    /\ phase \in {"begin", "produce", "drain", "train", "save", "sync", "finished", "down"}
    /\ train_step \in 1..TotalSteps
    /\ model_step \in 0..TotalSteps /\ weights \in 0..TotalSteps
    /\ paused \in BOOLEAN
    /\ task_pc \in [Tasks -> {"off", "start", "loop"}]
    /\ use_expired \in [Tasks -> BOOLEAN]
    /\ saved.step \in 0..TotalSteps /\ saved.group \in [Gids -> GroupType]
    /\ crashes \in 0..MaxCrashes

\* produce_batch asserts that its batch is not empty; it is in fact whole: every task
\* contributes its share, whatever failed, was aborted or expired in the meantime.
BatchIsWhole == phase = "train" => \A t \in Tasks : Cardinality(In(t, "batch")) = BatchSize[t]

\* While the GPUs belong to the trainer no generation is under way in the engine that
\* has been offloaded, and a checkpoint misses no group: not even one of a
\* SyncProduceStrategy, whose forgotten tasks pending_task_count would not show.
NothingRunsInTraining ==
    phase \in {"train", "save", "sync", "begin"} => \A t \in Tasks : PendingOf(t) = {}

\* Every token that is trained on carries the step of the weights that made it, also
\* after a restart and between weight syncs, and is within its task's staleness.
BatchIsFresh ==
    phase = "train" =>
        \A g \in Gids : group[g].at = "batch" =>
            /\ \A k \in group[g].tokens : k.label = k.gen
            /\ ~HasStale(group[g].tokens, train_step, Threshold(TaskOf[g]))

\* Aborted and expired groups come back before new prompts are drawn: what a task
\* holds, in the buffer and in flight, never outgrows one oversampled batch and the
\* expired groups that do not yet trigger a tail batch.
HoldingsBounded ==
    \A t \in Tasks :
        Cardinality(Held(t)) <=
            BatchSize[t] + Oversample[t] + (IF Trigger[t] > 0 THEN Trigger[t] - 1 ELSE 0)

\* Training reaches its last step, in spite of failed generations, cancelled drains
\* and crashes.
TrainingCompletes == <>[](phase = "finished" /\ train_step = TotalSteps)
=============================================================================
