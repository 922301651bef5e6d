--------------------------- MODULE DisaggManager ---------------------------
(***************************************************************************)
(* Disaggregated RL training: a background producer (produce_loop and one  *)
(* DisaggAsyncProduceStrategy per task) fills the replay buffer while the  *)
(* trainer (RLDisaggregatedTrainer._fit) consumes batches, trains, pauses  *)
(* the producer, moves new weights into the rollout engine and resumes it. *)
(*                                                                         *)
(* Everything runs in one asyncio loop.  `runner` is the coroutine that    *)
(* holds the loop: a coroutine keeps it from one suspension point to the   *)
(* next, so only code that really awaits something can interleave.  The    *)
(* replay buffer's own lock is never contended (no await inside it).       *)
(***************************************************************************)
EXTENDS Staleness, FiniteSets

CONSTANTS
    Tasks,          \* task_runners, the tasks of the mixed dataset
    Gids,           \* slots for the rollout groups that are alive at one time
    TaskOf,         \* the task a slot belongs to
    BatchSize,      \* allocate_task_batch_sizes: groups per task and train step
    Oversample,     \* ceil(over_sample_threshold * task_batch_size)
    MaxStaleness,   \* max_staleness of each task's strategy
    Trigger,        \* tail_batch_trigger_size of each task's strategy
    Partial,        \* enable_partial_rollout
    SyncInterval,   \* sync_weights_interval
    SaveInterval,   \* checkpoint_interval, in train steps
    TotalSteps,     \* total_train_steps
    Outcomes        \* how a generation may end, see GenOutcome

GenOutcome == {"COMPLETED", "ABORTED", "FAILED", "RAISED"}

Idle     == "idle"
Producer == "produce_loop"
Trainer  == "trainer"

ASSUME TasksAssumption ==
    /\ Tasks # {}
    /\ Tasks \cap {Idle, Producer, Trainer} = {}
    /\ TaskOf \in [Gids -> Tasks]
    /\ IsFiniteSet(Gids)

ASSUME ConfigAssumption ==
    /\ BatchSize \in [Tasks -> Nat]
    /\ Oversample \in [Tasks -> Nat]
    /\ MaxStaleness \in [Tasks -> Nat]
    /\ Trigger \in [Tasks -> Nat \cup {-1}]
    /\ Partial \in BOOLEAN
    /\ SyncInterval \in Nat \ {0}
    /\ SaveInterval \in Nat \ {0}
    /\ TotalSteps \in Nat \ {0}
    /\ Outcomes \subseteq GenOutcome

VARIABLES
    group,              \* every rollout group: where it is and what it holds
    status,             \* DisaggAgentLoopManager._status
    update_event,       \* _update_event.is_set()
    finish_event,       \* _finish_event.is_set()
    model_step,         \* _model_step, the step the producer labels tokens with
    weights,            \* the step of the weights the rollout engine holds
    producer_future_step, next_consumer_step, target_upto_future_step,
    target_samples, consumed_samples,       \* DisaggProduceProgress
    runner,             \* the coroutine that holds the event loop, or Idle
    loop_pc,            \* produce_loop: "top", "gather", "exited", "raised"
    ctx_model,          \* DisaggProduceContext.model_step of the running round
    task_pc,            \* where each task's produce_batch coroutine is
    use_expired,        \* sample_expired of each produce_batch call
    trainer_pc,         \* where the trainer coroutine is
    train_step,         \* train_step of _fit
    sync_step,          \* sync_model_step of _fit
    batch_status,       \* status of the last ProduceBatchResult
    to_drain,           \* tasks pause_produce has still to drain
    failed              \* _fit is unwinding because of an exception

groupVars    == <<group>>
managerVars  == <<status, update_event, finish_event, model_step>>
progressVars == <<producer_future_step, next_consumer_step, target_upto_future_step,
                  target_samples, consumed_samples>>
producerVars == <<loop_pc, ctx_model, task_pc, use_expired>>
trainerVars  == <<trainer_pc, train_step, sync_step, batch_status, to_drain, failed>>
vars == <<groupVars, managerVars, weights, progressVars, runner, producerVars, trainerVars>>

-----------------------------------------------------------------------------
(* Rollout groups.                                                         *)

\* "running"/"done" groups are the asyncio tasks of _PendingTasks; "claimed"
\* ones were taken out of it by produce_batch and "draining" ones by
\* pause_produce; the three Status names are records of the replay buffer;
\* "batch" is the batch being trained; a "free" slot holds no group.
Pending  == {"running", "done"}
Stored   == {"COMPLETED", "ABORTED", "EXPIRED"}
Place    == Pending \cup Stored \cup {"free", "claimed", "draining", "batch"}

NoStep == -1
NoGroup == [at |-> "free", out |-> "none", tokens |-> {}, gen |-> NoStep]

Threshold(t) == StaleThreshold(MaxStaleness[t], SyncInterval)
Retryable(t) == Trigger[t] >= 0

Moved(rec, place) == [at |-> place, out |-> rec.out, tokens |-> rec.tokens, gen |-> rec.gen]

In(t, place)    == {g \in Gids : TaskOf[g] = t /\ group[g].at = place}
PendingOf(t)    == {g \in Gids : TaskOf[g] = t /\ group[g].at \in Pending}

\* Mutant: the count ignores the group status.
AvailableAnyStatus(t) ==
    consumed_samples[t] + Cardinality({g \in Gids : TaskOf[g] = t /\ group[g].at \in Stored})

\* DisaggProduceContext.available_count.
Available(t) == consumed_samples[t] + Cardinality(In(t, "COMPLETED"))

\* total_target plus the oversampling budget, which a tail batch does without.
ScheduledTarget(t) ==
    target_samples[t] + (IF use_expired[t] /\ Trigger[t] > 0 THEN 0 ELSE Oversample[t])

\* A coroutine runs when it holds the loop or when the loop is free to resume it.
RunAs(c) == runner \in {Idle, c}

\* release_and_discard_rollout_groups suspends only when a trace session has to
\* be released by RPC; otherwise the coroutine keeps the loop.
MaySuspend(c, released) == runner' \in (IF released THEN {c, Idle} ELSE {c})

\* Mutant: staleness judged one step late.
LifecycleOneStepLate(rec, t, step, keep) ==
    IF ~HasStale(rec.tokens, step - 1, Threshold(t)) THEN rec ELSE NoGroup

\* _apply_staleness_lifecycle at `step`: a group with a stale member leaves for
\* the EXPIRED pool, keeping at most the members that hold fresh tokens only.
Lifecycle(rec, t, step, keep) ==
    IF ~HasStale(rec.tokens, step, Threshold(t)) THEN rec
    ELSE IF ~Retryable(t) THEN NoGroup
    ELSE [at |-> "EXPIRED", out |-> rec.out, gen |-> rec.gen,
          tokens |-> IF keep THEN FreshPart(rec.tokens, step, Threshold(t)) ELSE {}]

\* Mutant: a label is appended even when no token was generated.
PutGeneratedAlwaysLabels(rec, t, label, step, keep) ==
    IF rec.out = "FAILED" THEN NoGroup
    ELSE Lifecycle([at |-> rec.out, out |-> "none", gen |-> NoStep,
                    tokens |-> rec.tokens \cup {[label |-> label, gen |-> rec.gen]}],
                   t, step, keep)

\* put_generated_group: FAILED and FILTERED groups are dropped; every other group
\* gets its new tokens labelled with the context's model step and is stored under
\* the status the staleness lifecycle leaves it.
PutGenerated(rec, t, label, step, keep) ==
    IF rec.out = "FAILED" THEN NoGroup
    ELSE LET labelled == IF rec.gen = NoStep THEN rec.tokens
                         ELSE rec.tokens \cup {[label |-> label, gen |-> rec.gen]}
             stored   == [at |-> rec.out, out |-> "none", tokens |-> labelled, gen |-> NoStep]
         IN  Lifecycle(stored, t, step, keep)

\* Mutant: only COMPLETED records are refreshed.
RefreshedCompletedOnly(g, step, kept) ==
    IF group[g].at = "COMPLETED" THEN Lifecycle(group[g], TaskOf[g], step, g \in kept)
    ELSE group[g]

\* refresh_for_all_tasks at `step`, with `kept` the groups that keep fresh members.
Refreshed(g, step, kept) ==
    IF group[g].at \in Stored THEN Lifecycle(group[g], TaskOf[g], step, g \in kept)
    ELSE group[g]
Expiring(step) ==
    {g \in Gids : /\ group[g].at \in Stored
                  /\ HasStale(group[g].tokens, step, Threshold(TaskOf[g]))}
PartlyFresh(step) ==
    {g \in Expiring(step) : FreshPart(group[g].tokens, step, Threshold(TaskOf[g])) # {}}
Discarding(step) == {g \in Expiring(step) : ~Retryable(TaskOf[g])}

-----------------------------------------------------------------------------
Init ==
    /\ group = [g \in Gids |-> NoGroup]
    /\ status = "NORMAL"
    /\ update_event = FALSE
    /\ finish_event = FALSE
    /\ model_step = 0
    /\ weights = 0
    /\ producer_future_step = 1
    /\ next_consumer_step = 1
    /\ target_upto_future_step = 0
    /\ target_samples = [t \in Tasks |-> 0]
    /\ consumed_samples = [t \in Tasks |-> 0]
    /\ runner = Idle
    /\ loop_pc = "top"
    /\ ctx_model = 0
    /\ task_pc = [t \in Tasks |-> "off"]
    /\ use_expired = [t \in Tasks |-> FALSE]
    /\ trainer_pc = "get"
    /\ train_step = 1
    /\ sync_step = 0
    /\ batch_status = "NORMAL"
    /\ to_drain = {}
    /\ failed = FALSE

-----------------------------------------------------------------------------
(* produce_loop.                                                           *)

IsModelExpired(t, step, model) == IsStale(model, step, Threshold(t))

\* ensure_target_upto: the target grows by one allocation per new future step.
EnsureTargetUpto ==
    LET missing == IF producer_future_step > target_upto_future_step
                   THEN producer_future_step - target_upto_future_step ELSE 0
    IN  /\ target_samples' = [t \in Tasks |-> target_samples[t] + missing * BatchSize[t]]
        /\ target_upto_future_step' = target_upto_future_step + missing

LoopExit ==
    /\ loop_pc = "top" /\ runner = Idle
    /\ finish_event \/ status = "FINISH"
    /\ loop_pc' = "exited"
    /\ UNCHANGED <<groupVars, managerVars, weights, progressVars, runner, ctx_model, task_pc,
                   use_expired, trainerVars>>

\* Mutant: the loop starts a round without looking at the status.
LoopIgnoresStatus ==
    /\ loop_pc = "top" /\ runner = Idle
    /\ ~finish_event
    /\ EnsureTargetUpto

\* While the status is UPDATE_WEIGHT_AND_ABORT or EXPIRED_BATCH the loop polls it
\* (_wait_for_status_exit), which changes nothing.
LoopMayProduce ==
    /\ loop_pc = "top" /\ runner = Idle
    /\ ~finish_event
    /\ status = "NORMAL"
    /\ EnsureTargetUpto

\* Some task's model is too old for the next step: stop at once.
LoopExpired ==
    /\ LoopMayProduce
    /\ \E t \in Tasks : IsModelExpired(t, producer_future_step, model_step)
    /\ status' = "EXPIRED_BATCH"
    /\ UNCHANGED <<groupVars, update_event, finish_event, model_step, weights,
                   producer_future_step, next_consumer_step, consumed_samples, runner,
                   producerVars, trainerVars>>

\* Start one produce_batch coroutine per task that has a target.
LoopStartRound ==
    /\ LoopMayProduce
    /\ \A t \in Tasks : ~IsModelExpired(t, producer_future_step, model_step)
    /\ ctx_model' = model_step
    /\ task_pc' = [t \in Tasks |-> IF target_samples'[t] > 0 THEN "start" ELSE "off"]
    /\ loop_pc' = "gather"
    /\ UNCHANGED <<groupVars, managerVars, weights, producer_future_step, next_consumer_step,
                   consumed_samples, runner, use_expired, trainerVars>>

\* gather returns: only a round every task finished normally advances the step.
LoopEndRound ==
    /\ loop_pc = "gather" /\ runner = Idle
    /\ \A t \in Tasks : task_pc[t] \in {"off", "normal", "aborted"}
    /\ producer_future_step' = IF \E t \in Tasks : task_pc[t] = "aborted"
                               THEN producer_future_step ELSE producer_future_step + 1
    /\ task_pc' = [t \in Tasks |-> "off"]
    /\ loop_pc' = "top"
    /\ UNCHANGED <<groupVars, managerVars, weights, next_consumer_step, target_upto_future_step,
                   target_samples, consumed_samples, runner, ctx_model, use_expired, trainerVars>>

\* gather re-raises the first exception; the other coroutines keep running.
LoopRaise ==
    /\ loop_pc = "gather" /\ runner = Idle
    /\ \E t \in Tasks : task_pc[t] = "raised"
    /\ loop_pc' = "raised"
    /\ UNCHANGED <<groupVars, managerVars, weights, progressVars, runner, ctx_model, task_pc,
                   use_expired, trainerVars>>

-----------------------------------------------------------------------------
(* DisaggAsyncProduceStrategy.produce_batch, one coroutine per task.       *)
(* Its own is_model_expired checks repeat LoopStartRound's test on the     *)
(* same two numbers and can never succeed.                                 *)

TaskAbort(t) ==
    /\ task_pc[t] \in {"start", "recycled", "head"} /\ RunAs(t)
    /\ update_event
    /\ task_pc' = [task_pc EXCEPT ![t] = "aborted"]
    /\ runner' = Idle
    /\ UNCHANGED <<groupVars, managerVars, weights, progressVars, loop_pc, ctx_model,
                   use_expired, trainerVars>>

\* _PendingTasks.claim_ready, or the second claim of wait_and_claim after the
\* asyncio.wait (which may also time out with nothing done).
TaskClaim(t) ==
    /\ runner = Idle
    /\ \/ task_pc[t] = "start" /\ ~update_event
       \/ task_pc[t] = "waiting"
    /\ group' = [g \in Gids |-> IF g \in In(t, "done")
                                THEN Moved(group[g], "claimed") ELSE group[g]]
    /\ task_pc' = [task_pc EXCEPT ![t] = IF task_pc[t] = "start" THEN "recycle" ELSE "put"]
    /\ runner' = t
    /\ UNCHANGED <<managerVars, weights, progressVars, loop_pc, ctx_model, use_expired,
                   trainerVars>>

\* Mutant: tokens get the manager's current step instead of the round's snapshot.
TaskPutCurrentStep(t) ==
    /\ task_pc[t] \in {"recycle", "put"} /\ RunAs(t)
    /\ \E g \in In(t, "claimed"), keep \in BOOLEAN :
          /\ group[g].out # "RAISED"
          /\ group' = [group EXCEPT ![g] = PutGenerated(@, t, model_step, next_consumer_step, keep)]
          /\ MaySuspend(t, group'[g] = NoGroup)
    /\ UNCHANGED <<managerVars, weights, progressVars, producerVars, trainerVars>>

\* _put_claimed_tasks: one group after the other, in any order.
TaskPut(t) ==
    /\ task_pc[t] \in {"recycle", "put"} /\ RunAs(t)
    /\ \E g \in In(t, "claimed"), keep \in BOOLEAN :
          /\ group[g].out # "RAISED"
          /\ group' = [group EXCEPT ![g] = PutGenerated(@, t, ctx_model, next_consumer_step, keep)]
          /\ MaySuspend(t, group'[g] = NoGroup)
    /\ UNCHANGED <<managerVars, weights, progressVars, producerVars, trainerVars>>

\* task.result() re-raises: the coroutine dies and the groups it still holds with it.
TaskRaise(t) ==
    /\ task_pc[t] \in {"recycle", "put"} /\ RunAs(t)
    /\ \E g \in In(t, "claimed") : group[g].out = "RAISED"
    /\ group' = [g \in Gids |-> IF g \in In(t, "claimed") THEN NoGroup ELSE group[g]]
    /\ task_pc' = [task_pc EXCEPT ![t] = "raised"]
    /\ runner' = Idle
    /\ UNCHANGED <<managerVars, weights, progressVars, loop_pc, ctx_model, use_expired,
                   trainerVars>>

TaskPutDone(t) ==
    /\ task_pc[t] \in {"recycle", "put"} /\ RunAs(t)
    /\ In(t, "claimed") = {}
    /\ task_pc' = [task_pc EXCEPT ![t] = IF @ = "recycle" THEN "recycled" ELSE "head"]
    /\ runner' = t
    /\ UNCHANGED <<groupVars, managerVars, weights, progressVars, loop_pc, ctx_model,
                   use_expired, trainerVars>>

\* Tail-batch decision, taken once per produce_batch call.
TaskChoosePool(t) ==
    /\ task_pc[t] = "recycled" /\ RunAs(t)
    /\ ~update_event
    /\ LET expired_count == Cardinality(In(t, "EXPIRED"))
       IN  use_expired' = [use_expired EXCEPT ![t] =
               Trigger[t] >= 0 /\ expired_count > 0 /\ expired_count >= Trigger[t]]
    /\ task_pc' = [task_pc EXCEPT ![t] = "head"]
    /\ runner' = t
    /\ UNCHANGED <<groupVars, managerVars, weights, progressVars, loop_pc, ctx_model, trainerVars>>

\* should_continue_fn (default_should_continue_fn): enough samples are available.
TaskEnough(t) ==
    /\ task_pc[t] = "head" /\ RunAs(t)
    /\ ~update_event
    /\ Available(t) >= target_samples[t]
    /\ task_pc' = [task_pc EXCEPT ![t] = "normal"]
    /\ runner' = Idle
    /\ UNCHANGED <<groupVars, managerVars, weights, progressVars, loop_pc, ctx_model,
                   use_expired, trainerVars>>

\* Sampler.sample: the EXPIRED pool first when the tail batch asks for it, then
\* the ABORTED pool, else a new group of the dataloader.  StalenessReplayPolicy
\* picks a stalest ABORTED group; the staleness recorded for an EXPIRED group dates
\* from before its reset, so any of them may come first.
Stalest(S) ==
    {g \in S : \A h \in S :
        AtLeastAsStale(group[g].tokens, group[h].tokens, next_consumer_step)}
SamplePool(t) ==
    IF use_expired[t] /\ In(t, "EXPIRED") # {} THEN In(t, "EXPIRED")
    ELSE IF In(t, "ABORTED") # {} THEN Stalest(In(t, "ABORTED"))
    ELSE LET free == In(t, "free")
         IN  IF free = {} THEN {} ELSE {CHOOSE g \in free : TRUE}

\* Mutant: off by one in the number of pending tasks.
TaskScheduleOneMore(t) ==
    /\ task_pc[t] = "head" /\ RunAs(t)
    /\ ~update_event
    /\ Available(t) < target_samples[t]
    /\ Available(t) + Cardinality(PendingOf(t)) <= ScheduledTarget(t)
    /\ \E g \in SamplePool(t) :
          group' = [group EXCEPT ![g] = [at |-> "running", out |-> "none", tokens |-> @.tokens,
                                          gen |-> weights]]
    /\ runner' = t
    /\ UNCHANGED <<managerVars, weights, progressVars, producerVars, trainerVars>>

\* schedule_one: the sampled group becomes a pending generation task.
TaskSchedule(t) ==
    /\ task_pc[t] = "head" /\ RunAs(t)
    /\ ~update_event
    /\ Available(t) < target_samples[t]
    /\ Available(t) + Cardinality(PendingOf(t)) < ScheduledTarget(t)
    /\ \E g \in SamplePool(t) :
          group' = [group EXCEPT ![g] = [at |-> "running", out |-> "none", tokens |-> @.tokens,
                                          gen |-> weights]]
    /\ runner' = t
    /\ UNCHANGED <<managerVars, weights, progressVars, producerVars, trainerVars>>

\* Everything is scheduled: suspend in asyncio.wait.  The target is not reached,
\* so something is pending.
TaskWait(t) ==
    /\ task_pc[t] = "head" /\ RunAs(t)
    /\ ~update_event
    /\ Available(t) < target_samples[t]
    /\ Available(t) + Cardinality(PendingOf(t)) >= ScheduledTarget(t)
    /\ task_pc' = [task_pc EXCEPT ![t] = "waiting"]
    /\ runner' = Idle
    /\ UNCHANGED <<groupVars, managerVars, weights, progressVars, loop_pc, ctx_model,
                   use_expired, trainerVars>>

\* The rollout engine and the agent loop end a generation.  Only a paused engine
\* aborts; an engine that already refuses requests leaves the group as it is
\* (no new token), and without partial rollout the aborted members restart from
\* the prompt, so that any of the old tokens may be gone.
Generate(g) ==
    /\ runner = Idle
    /\ group[g].at = "running"
    /\ \E out \in Outcomes \cap (IF update_event THEN GenOutcome ELSE GenOutcome \ {"ABORTED"}) :
       \E old \in IF Partial THEN {group[g].tokens} ELSE SUBSET group[g].tokens :
       \E made \in BOOLEAN :
          /\ out = "COMPLETED" => made \/ old # {}
          /\ ~made /\ out = "ABORTED" => old = group[g].tokens
          /\ group' = [group EXCEPT ![g] =
                 IF out \in {"FAILED", "RAISED"}
                 THEN [at |-> "done", out |-> out, tokens |-> {}, gen |-> NoStep]
                 ELSE [at |-> "done", out |-> out, tokens |-> old,
                       gen |-> IF made THEN @.gen ELSE NoStep]]
    /\ UNCHANGED <<managerVars, weights, progressVars, runner, producerVars, trainerVars>>

-----------------------------------------------------------------------------
(* The trainer: get_batch.                                                 *)

Refresh(step) ==
    \E kept \in SUBSET PartlyFresh(step) :
        group' = [g \in Gids |-> Refreshed(g, step, kept)]

TrainerGetBatch ==
    /\ trainer_pc = "get" /\ runner = Idle
    /\ next_consumer_step' = train_step
    /\ Refresh(train_step)
    /\ trainer_pc' = "poll"
    /\ MaySuspend(Trainer, Discarding(train_step) # {})
    /\ UNCHANGED <<managerVars, weights, producer_future_step, target_upto_future_step,
                   target_samples, consumed_samples, producerVars, train_step, sync_step,
                   batch_status, to_drain, failed>>

IsReady == \A t \in Tasks : Cardinality(In(t, "COMPLETED")) >= BatchSize[t]
NewerModelExists == train_step - 1 > model_step

\* Mutant: an expired producer is left alone and polled for ever.
EmptyExpiredIgnored ==
    /\ trainer_pc = "poll" /\ RunAs(Trainer)
    /\ status = "EXPIRED_BATCH" /\ NewerModelExists
    /\ runner' = Idle
    /\ UNCHANGED <<groupVars, managerVars, weights, progressVars, producerVars, trainerVars>>

\* The rollout model is expired and a newer one exists: no batch, sync at once.
TrainerEmptyExpired ==
    /\ trainer_pc = "poll" /\ RunAs(Trainer)
    /\ status = "EXPIRED_BATCH" /\ NewerModelExists
    /\ batch_status' = "EMPTY_EXPIRED"
    /\ sync_step' = train_step - 1
    /\ trainer_pc' = "pause"
    /\ runner' = Idle
    /\ UNCHANGED <<groupVars, managerVars, weights, progressVars, producerVars, train_step,
                   to_drain, failed>>

\* take_train_batch of a stalest batch, then finish_consume and the refresh for
\* the next step.
IsBatch(B) ==
    \A t \in Tasks :
        LET C == In(t, "COMPLETED") IN
        /\ Cardinality(B \cap C) = BatchSize[t]
        /\ \A g \in B \cap C, h \in C \ B :
              AtLeastAsStale(group[g].tokens, group[h].tokens, train_step)

TrainerTakeBatch ==
    /\ trainer_pc = "poll" /\ RunAs(Trainer)
    /\ ~(status = "EXPIRED_BATCH" /\ NewerModelExists)
    /\ IsReady
    /\ \E B \in SUBSET {g \in Gids : group[g].at = "COMPLETED"},
          kept \in SUBSET PartlyFresh(train_step + 1) :
          /\ IsBatch(B)
          /\ group' = [g \in Gids |-> IF g \in B THEN Moved(group[g], "batch")
                                      ELSE Refreshed(g, train_step + 1, kept)]
    /\ consumed_samples' = [t \in Tasks |-> consumed_samples[t] + BatchSize[t]]
    /\ next_consumer_step' = train_step + 1
    /\ batch_status' = IF status = "EXPIRED_BATCH" THEN "EXPIRED_BATCH" ELSE "NORMAL"
    /\ trainer_pc' = "taken"
    /\ runner' = Idle
    /\ UNCHANGED <<managerVars, weights, producer_future_step, target_upto_future_step,
                   target_samples, producerVars, train_step, sync_step, to_drain, failed>>

\* Nothing ready: sleep and poll again, or raise when the producer has stopped and
\* there is no newer model that could restart it.
TrainerNotReady ==
    /\ trainer_pc = "poll" /\ RunAs(Trainer)
    /\ ~(status = "EXPIRED_BATCH" /\ NewerModelExists)
    /\ ~IsReady
    /\ trainer_pc' = IF status = "EXPIRED_BATCH" THEN "finish" ELSE "poll"
    /\ failed' = (status = "EXPIRED_BATCH")
    /\ runner' = Idle
    /\ UNCHANGED <<groupVars, managerVars, weights, progressVars, producerVars, train_step,
                   sync_step, batch_status, to_drain>>

\* _get_batch_or_raise_producer_failure: the producer ended while get_batch runs.
TrainerSeesDeadProducer ==
    /\ trainer_pc \in {"get", "poll", "taken"} /\ runner = Idle
    /\ loop_pc \in {"exited", "raised"}
    /\ trainer_pc' = "finish"
    /\ failed' = TRUE
    /\ UNCHANGED <<groupVars, managerVars, weights, progressVars, runner, producerVars,
                   train_step, sync_step, batch_status, to_drain>>

\* get_batch returns and the batch goes to the training thread.
TrainerStartTraining ==
    /\ trainer_pc = "taken" /\ runner = Idle
    /\ loop_pc \notin {"exited", "raised"}
    /\ trainer_pc' = "train"
    /\ UNCHANGED <<groupVars, managerVars, weights, progressVars, runner, producerVars,
                   train_step, sync_step, batch_status, to_drain, failed>>

-----------------------------------------------------------------------------
(* The trainer: train, pause, sync, resume.                                *)

NeedSync ==
    \/ batch_status = "EXPIRED_BATCH"
    \/ train_step % SyncInterval = 0
    \/ train_step = TotalSteps

TrainerTrained ==
    /\ trainer_pc = "train" /\ runner = Idle
    /\ group' = [g \in Gids |-> IF group[g].at = "batch" THEN NoGroup ELSE group[g]]
    /\ sync_step' = train_step
    /\ trainer_pc' = IF NeedSync THEN "pause" ELSE "get"
    /\ train_step' = IF NeedSync THEN train_step ELSE train_step + 1
    /\ runner' = IF NeedSync THEN Trainer ELSE Idle
    /\ UNCHANGED <<managerVars, weights, progressVars, producerVars, batch_status, to_drain,
                   failed>>

\* pause_produce up to the pause_generation RPC, which it awaits.
TrainerPause ==
    /\ trainer_pc = "pause" /\ RunAs(Trainer)
    /\ status' = "UPDATE_WEIGHT_AND_ABORT"
    /\ update_event' = TRUE
    /\ trainer_pc' = "pausing"
    /\ runner' = Idle
    /\ UNCHANGED <<groupVars, finish_event, model_step, weights, progressVars, producerVars,
                   train_step, sync_step, batch_status, to_drain, failed>>

TrainerPaused ==
    /\ trainer_pc = "pausing" /\ runner = Idle
    /\ trainer_pc' = "drain"
    /\ to_drain' = Tasks
    /\ runner' = Trainer
    /\ UNCHANGED <<groupVars, managerVars, weights, progressVars, producerVars, train_step,
                   sync_step, batch_status, failed>>

\* pause_pending_tasks drains the tasks one after the other.
Draining == CHOOSE t \in to_drain : TRUE
AtDrain == trainer_pc = "drain" /\ to_drain # {}

\* Nothing claimed yet and tasks still pending: wait up to a second.
DrainWait ==
    /\ AtDrain /\ runner = Trainer
    /\ In(Draining, "draining") = {}
    /\ PendingOf(Draining) # {}
    /\ runner' = Idle
    /\ UNCHANGED <<groupVars, managerVars, weights, progressVars, producerVars, trainerVars>>

DrainClaim ==
    /\ AtDrain /\ runner = Idle
    /\ In(Draining, "draining") = {}
    /\ In(Draining, "done") # {}
    /\ group' = [g \in Gids |-> IF g \in In(Draining, "done")
                                THEN Moved(group[g], "draining") ELSE group[g]]
    /\ runner' = Trainer
    /\ UNCHANGED <<managerVars, weights, progressVars, producerVars, trainerVars>>

DrainPut ==
    /\ AtDrain /\ RunAs(Trainer)
    /\ \E g \in In(Draining, "draining"), keep \in BOOLEAN :
          /\ group[g].out # "RAISED"
          /\ group' = [group EXCEPT ![g] =
                 PutGenerated(@, Draining, model_step, next_consumer_step, keep)]
          /\ MaySuspend(Trainer, group'[g] = NoGroup)
    /\ UNCHANGED <<managerVars, weights, progressVars, producerVars, trainerVars>>

DrainRaise ==
    /\ AtDrain /\ RunAs(Trainer)
    /\ \E g \in In(Draining, "draining") : group[g].out = "RAISED"
    /\ group' = [g \in Gids |-> IF g \in In(Draining, "draining") THEN NoGroup ELSE group[g]]
    /\ trainer_pc' = "finish"
    /\ failed' = TRUE
    /\ to_drain' = {}
    /\ runner' = Trainer
    /\ UNCHANGED <<managerVars, weights, progressVars, producerVars, train_step, sync_step,
                   batch_status>>

\* PRODUCER_PAUSE_PENDING_TASK_TIMEOUT_S is over: cancel what is left.
DrainTimeout ==
    /\ AtDrain /\ RunAs(Trainer)
    /\ In(Draining, "draining") = {}
    /\ PendingOf(Draining) # {}
    /\ group' = [g \in Gids |-> IF g \in PendingOf(Draining) THEN NoGroup ELSE group[g]]
    /\ runner' = Idle
    /\ UNCHANGED <<managerVars, weights, progressVars, producerVars, trainerVars>>

\* Mutant: the drain of a task ends with the first claimed generations.
DrainNextEarly ==
    /\ AtDrain /\ RunAs(Trainer)
    /\ In(Draining, "draining") = {}
    /\ to_drain' = to_drain \ {Draining}
    /\ runner' \in {Trainer, Idle}
    /\ UNCHANGED <<groupVars, managerVars, weights, progressVars, producerVars, trainer_pc,
                   train_step, sync_step, batch_status, failed>>

\* Leaving the task may wait for the outstanding pause requests.
DrainNext ==
    /\ AtDrain /\ RunAs(Trainer)
    /\ In(Draining, "draining") = {}
    /\ PendingOf(Draining) = {}
    /\ to_drain' = to_drain \ {Draining}
    /\ runner' \in {Trainer, Idle}
    /\ UNCHANGED <<groupVars, managerVars, weights, progressVars, producerVars, trainer_pc,
                   train_step, sync_step, batch_status, failed>>

\* _maybe_save_checkpoint: the manager refuses to save while tasks are pending,
\* and takes over the step it is saved with.
SaveDue == sync_step % SaveInterval = 0
NothingPending == \A t \in Tasks : PendingOf(t) = {}

TrainerSave ==
    /\ trainer_pc = "drain" /\ to_drain = {} /\ RunAs(Trainer)
    /\ SaveDue
    /\ model_step' = IF NothingPending THEN sync_step ELSE model_step
    /\ trainer_pc' = IF NothingPending THEN "update" ELSE "finish"
    /\ failed' = ~NothingPending
    /\ runner' = Idle
    /\ UNCHANGED <<groupVars, status, update_event, finish_event, weights, progressVars,
                   producerVars, train_step, sync_step, batch_status, to_drain>>

\* offload, onload_weights, bind, weight_update and onload_kvcache block the loop.
TrainerWeightUpdate ==
    /\ \/ trainer_pc = "drain" /\ to_drain = {} /\ ~SaveDue
       \/ trainer_pc = "update"
    /\ RunAs(Trainer)
    /\ weights' = sync_step
    /\ trainer_pc' = "resume"
    /\ runner' \in {Trainer, Idle}      \* an evaluation suspends
    /\ UNCHANGED <<groupVars, managerVars, progressVars, producerVars, train_step, sync_step,
                   batch_status, to_drain, failed>>

\* continue_produce up to the continue_generation RPC.
TrainerContinue ==
    /\ trainer_pc = "resume" /\ RunAs(Trainer)
    /\ model_step' = sync_step
    /\ trainer_pc' = "resuming"
    /\ runner' = Idle
    /\ UNCHANGED <<groupVars, status, update_event, finish_event, weights, progressVars,
                   producerVars, train_step, sync_step, batch_status, to_drain, failed>>

\* Mutant: continue_produce forgets to clear the update event.
TrainerResumedEventSet ==
    /\ trainer_pc = "resuming" /\ runner = Idle
    /\ status' = "NORMAL"
    /\ LET retry == batch_status = "EMPTY_EXPIRED"
           last  == ~retry /\ train_step = TotalSteps
       IN  /\ trainer_pc' = IF last THEN "finish" ELSE "get"
           /\ train_step' = IF retry \/ last THEN train_step ELSE train_step + 1
           /\ runner' = IF last THEN Trainer ELSE Idle
    /\ UNCHANGED <<groupVars, update_event, finish_event, model_step, weights, progressVars,
                   producerVars, sync_step, batch_status, to_drain, failed>>

\* An empty expired batch retries the same step.
TrainerResumed ==
    /\ trainer_pc = "resuming" /\ runner = Idle
    /\ status' = "NORMAL"
    /\ update_event' = FALSE
    /\ LET retry == batch_status = "EMPTY_EXPIRED"
           last  == ~retry /\ train_step = TotalSteps
       IN  /\ trainer_pc' = IF last THEN "finish" ELSE "get"
           /\ train_step' = IF retry \/ last THEN train_step ELSE train_step + 1
           /\ runner' = IF last THEN Trainer ELSE Idle
    /\ UNCHANGED <<groupVars, finish_event, model_step, weights, progressVars, producerVars,
                   sync_step, batch_status, to_drain, failed>>

\* The finally block of _fit: shutdown, then `await producer_task`, which re-raises
\* what the producer died of.
TrainerShutdown ==
    /\ trainer_pc = "finish" /\ RunAs(Trainer)
    /\ status' = "FINISH"
    /\ update_event' = TRUE
    /\ finish_event' = TRUE
    /\ trainer_pc' = "join"
    /\ runner' = Idle
    /\ UNCHANGED <<groupVars, model_step, weights, progressVars, producerVars, train_step,
                   sync_step, batch_status, to_drain, failed>>

TrainerJoin ==
    /\ trainer_pc = "join" /\ runner = Idle
    /\ loop_pc \in {"exited", "raised"}
    /\ trainer_pc' = "done"
    /\ failed' = (failed \/ loop_pc = "raised")
    /\ UNCHANGED <<groupVars, managerVars, weights, progressVars, runner, producerVars,
                   train_step, sync_step, batch_status, to_drain>>

-----------------------------------------------------------------------------
LoopStep == LoopExit \/ LoopExpired \/ LoopStartRound \/ LoopEndRound \/ LoopRaise

TaskStep(t) ==
    \/ TaskAbort(t) \/ TaskClaim(t) \/ TaskPut(t) \/ TaskRaise(t) \/ TaskPutDone(t)
    \/ TaskChoosePool(t) \/ TaskEnough(t) \/ TaskSchedule(t) \/ TaskWait(t)

DrainStep == DrainWait \/ DrainClaim \/ DrainPut \/ DrainRaise \/ DrainNext

TrainerStep ==
    \/ TrainerGetBatch \/ TrainerEmptyExpired \/ TrainerTakeBatch \/ TrainerNotReady
    \/ TrainerSeesDeadProducer \/ TrainerStartTraining \/ TrainerTrained \/ TrainerPause
    \/ TrainerPaused \/ DrainStep \/ TrainerSave \/ TrainerWeightUpdate \/ TrainerContinue
    \/ TrainerResumed \/ TrainerShutdown \/ TrainerJoin

Terminated == trainer_pc = "done" /\ UNCHANGED vars

Next ==
    \/ LoopStep
    \/ \E t \in Tasks : TaskStep(t)
    \/ \E g \in Gids : Generate(g)
    \/ TrainerStep
    \/ DrainTimeout
    \/ Terminated

Spec == Init /\ [][Next]_vars

\* asyncio resumes every runnable coroutine and Ray answers every RPC, so each
\* coroutine is weakly fair; a generation always ends (rollout_timeout), and one
\* that is started again and again is not aborted or failed forever.
Fairness ==
    /\ WF_vars(LoopStep)
    /\ \A t \in Tasks : WF_vars(TaskStep(t))
    /\ WF_vars(TrainerStep)
    /\ \A g \in Gids : WF_vars(Generate(g))
    /\ \A g \in Gids : SF_vars(Generate(g) /\ group'[g].out = "COMPLETED")
FairSpec == Spec /\ Fairness

-----------------------------------------------------------------------------
(* Properties.                                                             *)

GroupRecord ==
    [at : Place, out : GenOutcome \cup {"none"}, tokens : SUBSET Token, gen : Nat \cup {NoStep}]

\* Type invariant of the manager, its progress, the producer and the trainer.
ManagerTypeOK ==
    /\ status \in {"NORMAL", "UPDATE_WEIGHT_AND_ABORT", "EXPIRED_BATCH", "FINISH"}
    /\ update_event \in BOOLEAN /\ finish_event \in BOOLEAN
    /\ model_step \in Nat /\ weights \in Nat
    /\ producer_future_step \in Nat /\ next_consumer_step \in Nat
    /\ target_upto_future_step \in Nat
    /\ target_samples \in [Tasks -> Nat] /\ consumed_samples \in [Tasks -> Nat]
CoroutineTypeOK ==
    /\ runner \in Tasks \cup {Idle, Trainer}
    /\ loop_pc \in {"top", "gather", "exited", "raised"}
    /\ ctx_model \in Nat
    /\ task_pc \in [Tasks -> {"off", "start", "recycle", "recycled", "head", "waiting", "put",
                              "normal", "aborted", "raised"}]
    /\ use_expired \in [Tasks -> BOOLEAN]
    /\ trainer_pc \in {"get", "poll", "taken", "train", "pause", "pausing", "drain", "update",
                       "resume", "resuming", "finish", "join", "done"}
    /\ train_step \in Nat \ {0} /\ sync_step \in Nat
    /\ batch_status \in {"NORMAL", "EXPIRED_BATCH", "EMPTY_EXPIRED"}
    /\ to_drain \subseteq Tasks
    /\ failed \in BOOLEAN
TypeOK == group \in [Gids -> GroupRecord] /\ ManagerTypeOK /\ CoroutineTypeOK

\* The step recorded for a token is never newer than the weights that produced it,
\* although the label is a snapshot taken when the round started and the token is
\* stored after any number of pauses and weight syncs (update_sample_version).
LabelNotNewerThanWeights ==
    \A g \in Gids : \A k \in group[g].tokens : k.label <= k.gen

\* A group the consumer may take, or the producer may continue, is fresh at the
\* step that will be consumed next: put and refresh never let a stale one through.
BufferFresh ==
    \A g \in Gids : group[g].at \in {"COMPLETED", "ABORTED"} =>
        ~HasStale(group[g].tokens, next_consumer_step, Threshold(TaskOf[g]))

\* What is trained was produced by weights less than stale_threshold steps old: the
\* off-policy bound holds for the real weights, not only for the recorded labels.
TrainedWithinStaleness ==
    \A g \in Gids : group[g].at = "batch" =>
        /\ group[g].tokens # {}
        /\ \A k \in group[g].tokens : ~IsStale(k.gen, train_step, Threshold(TaskOf[g]))

\* get_batch never raises "EXPIRED_BATCH without a newer model or a ready batch":
\* when the producer has stopped and no newer model exists, a batch is ready.
ExpiredProducerLeftABatch ==
    trainer_pc = "poll" /\ status = "EXPIRED_BATCH" /\ ~NewerModelExists => IsReady

\* Over-production is bounded: what a task has consumed, stored as COMPLETED and
\* in flight never exceeds its target plus the oversampling budget.
InFlight(t) ==
    {g \in Gids : TaskOf[g] = t /\ group[g].at \in Pending \cup {"claimed", "draining"}}
OverproductionBounded ==
    \A t \in Tasks : Available(t) + Cardinality(InFlight(t)) <= target_samples[t] + Oversample[t]

\* Weights and the producer's model step change only while no generation is in
\* flight: a response never mixes two models without a label for each of them.
NoSyncUnderGeneration ==
    [][weights' # weights \/ model_step' # model_step => NothingPending /\ update_event]_vars

\* _status moves only along the transitions AgentLoopManagerStatus documents.
DocumentedTransition(from, to) ==
    \/ from = to
    \/ to = "FINISH"
    \/ <<from, to>> \in {<<"NORMAL", "UPDATE_WEIGHT_AND_ABORT">>,
                         <<"UPDATE_WEIGHT_AND_ABORT", "NORMAL">>,
                         <<"NORMAL", "EXPIRED_BATCH">>,
                         <<"EXPIRED_BATCH", "UPDATE_WEIGHT_AND_ABORT">>}
StatusFollowsDocs == [][DocumentedTransition(status, status')]_status

\* Between the end of pause_produce and continue_produce no rollout is written to
\* the buffer ("pause the producer before the sync, so that pending rollouts do not
\* go on writing the buffer").
PausedProducerIsSilent ==
    [][\A g \in Gids :
          trainer_pc \in {"update", "resume", "resuming"} /\ group'[g].at \in Stored
              => group[g].at \in Stored]_vars

\* Training ends, the producer joined: after the last step, or failed because a
\* generation raised.
TrainingCompletes ==
    <>/\ trainer_pc = "done"
      /\ IF failed THEN "RAISED" \in Outcomes ELSE train_step = TotalSteps

\* A paused or expired producer is always resumed or told to finish.
ProducerResumed == status # "NORMAL" ~> status \in {"NORMAL", "FINISH"}
=============================================================================
