-------------------------- MODULE ProductionProofs --------------------------
(***************************************************************************)
(* Proofs about how much the producer of DisaggManager makes: never more   *)
(* than its targets and the oversampling budget, and never so little that  *)
(* the trainer finds it stopped without a batch.                           *)
(***************************************************************************)
EXTENDS DisaggManagerProofs, FiniteSetTheorems

-----------------------------------------------------------------------------
(* The inductive invariant: what is in flight.                             *)

\* pause_produce drains one task at a time and stores what it claimed before it
\* leaves the task.
DrainHeld ==
    \A g \in Gids : group[g].at = "draining" => AtDrain /\ TaskOf[g] = Draining

\* What counts against the budget of a task besides what was consumed.
Counting == Pending \cup {"claimed", "draining", "COMPLETED"}
Counted(t) == {g \in Gids : TaskOf[g] = t /\ group[g].at \in Counting}
BudgetInv ==
    \A t \in Tasks :
        consumed_samples[t] + Cardinality(Counted(t)) <= target_samples[t] + Oversample[t]

FlightInv == DrainHeld /\ BudgetInv

-----------------------------------------------------------------------------
(* The inductive invariant: the pace of the producer and of the trainer.   *)

\* The samples of `n` whole train steps, task by task.
Whole(n) == [t \in Tasks |-> n * BatchSize[t]]

\* A round for `step` is within the staleness bound of every task for `model`.
Within(step, model) == \A t \in Tasks : ~IsModelExpired(t, step, model)

Pausing == {"pause"} \cup Syncing
Retrying == batch_status = "EMPTY_EXPIRED"

\* The targets are whole train steps, up to the step that is being produced.
TargetInv ==
    /\ target_samples = Whole(target_upto_future_step)
    /\ target_upto_future_step \in {producer_future_step, producer_future_step - 1}
    /\ loop_pc = "gather" => target_upto_future_step = producer_future_step

\* So is what was consumed; between two steps the buffer is fresh for the next one.
ConsumedInv ==
    /\ trainer_pc \in {"get", "poll"} =>
          next_consumer_step = train_step /\ consumed_samples = Whole(train_step - 1)
    /\ trainer_pc \in {"taken", "train"} =>
          next_consumer_step = train_step + 1 /\ consumed_samples = Whole(train_step)
    /\ trainer_pc \in Pausing =>
          /\ sync_step = IF Retrying THEN train_step - 1 ELSE train_step
          /\ next_consumer_step = sync_step + 1 /\ consumed_samples = Whole(sync_step)

\* A round starts within the bound, so the producer is at most one step beyond it, and
\* a sync to a newer model always gives it at least one round more.
PaceInv ==
    /\ Within(producer_future_step - 1, model_step)
    /\ loop_pc = "gather" => Within(producer_future_step, ctx_model)
    /\ trainer_pc \in Pausing =>
          ctx_model < sync_step /\ Within(producer_future_step, sync_step)
    /\ trainer_pc \in {"pause", "pausing", "drain"} => model_step < sync_step
    /\ status = "EXPIRED_BATCH" =>
          ~Within(producer_future_step, model_step) /\ loop_pc # "gather"

\* In the first step after a sync nothing the new model's rounds made goes stale: once
\* the producer has run out of steps for it, whole steps of samples are there.
FirstStep == trainer_pc \in {"get", "poll"} /\ train_step = model_step + 1
RoundInv ==
    \A t \in Tasks :
        /\ task_pc[t] = "normal" => Available(t) >= target_samples[t]
        /\ task_pc[t] = "off" => target_samples[t] = 0
StockInv ==
    FirstStep =>
        /\ ~Within(producer_future_step, model_step) =>
              \A t \in Tasks : Available(t) >= Whole(producer_future_step - 1)[t]
        /\ loop_pc = "gather" /\ ctx_model = model_step => RoundInv

StepsInv == TargetInv /\ ConsumedInv /\ PaceInv
ProductionInv == IInv /\ FlightInv /\ StepsInv /\ StockInv

-----------------------------------------------------------------------------
(* Steps and staleness.                                                    *)

\* A threshold is at least one period of at least one step.
LEMMA ThresholdPositive == ASSUME NEW t \in Tasks PROVE Threshold(t) \in Nat \ {0}
  <1> PICK m \in Nat : m = MaxStaleness[t]
    BY ConfigAssumption
  <1> PICK s \in Nat \ {0} : s = SyncInterval
    BY ConfigAssumption
  <1>1. (m + 1) * s = m * s + s /\ m * s \in Nat
    BY Z3
  <1> QED
    BY <1>1 DEF Threshold, StaleThreshold

\* The bound is monotone: an earlier step or a newer model stays within it.
LEMMA WithinMonotone ==
    ASSUME NEW s1 \in Int, NEW m1 \in Int, NEW s2 \in Int, NEW m2 \in Int,
           s2 - m2 <= s1 - m1, Within(s1, m1)
    PROVE  Within(s2, m2)
  BY ThresholdType DEF Within, IsModelExpired, IsStale, SeqStaleness

\* The step right after a model's own is always within the bound.
LEMMA WithinNext == ASSUME NEW m \in Int PROVE Within(m + 1, m) /\ Within(m, m)
  BY ThresholdPositive DEF Within, IsModelExpired, IsStale, SeqStaleness

\* Some more steps are as many more batches of every task.
LEMMA WholeNext ==
    ASSUME NEW n \in Nat, NEW k \in Nat
    PROVE  [t \in Tasks |-> Whole(n)[t] + k * BatchSize[t]] = Whole(n + k)
  <1>1. ASSUME NEW t \in Tasks PROVE Whole(n)[t] + k * BatchSize[t] = (n + k) * BatchSize[t]
    <2> PICK b \in Nat : b = BatchSize[t]
      BY ConfigAssumption
    <2>1. n * b + k * b = (n + k) * b
      BY Z3
    <2> QED
      BY <2>1 DEF Whole
  <1> QED
    BY <1>1 DEF Whole

\* One more step is one more batch of every task.
LEMMA WholeOneMore ==
    ASSUME NEW n \in Nat
    PROVE  [t \in Tasks |-> Whole(n)[t] + BatchSize[t]] = Whole(n + 1)
  <1>1. ASSUME NEW t \in Tasks PROVE Whole(n)[t] + BatchSize[t] = (n + 1) * BatchSize[t]
    <2> PICK b \in Nat : b = BatchSize[t]
      BY ConfigAssumption
    <2>1. (n + 1) * b = n * b + b /\ n * b \in Nat
      BY Z3
    <2> QED
      BY <2>1 DEF Whole
  <1> QED
    BY <1>1 DEF Whole

\* More steps are more samples.
LEMMA WholeMonotone ==
    ASSUME NEW n \in Nat, NEW m \in Nat, n <= m, NEW t \in Tasks
    PROVE  /\ Whole(n)[t] \in Nat /\ Whole(m)[t] \in Nat /\ Whole(n)[t] <= Whole(m)[t]
           /\ Whole(n + 1)[t] = Whole(n)[t] + BatchSize[t]
  <1> PICK b \in Nat : b = BatchSize[t]
    BY ConfigAssumption
  <1>1. /\ n * b \in Nat /\ m * b \in Nat /\ (n + 1) * b = n * b + b
        /\ n * b <= m * b
    BY Z3
  <1> QED
    BY <1>1 DEF Whole

\* ensure_target_upto brings the targets up to the producer's step.
LEMMA EnsureTarget ==
    ASSUME ManagerTypeOK, TargetInv, EnsureTargetUpto
    PROVE  /\ target_samples' = Whole(producer_future_step)
           /\ target_upto_future_step' = producer_future_step
           /\ \A t \in Tasks : target_samples'[t] >= target_samples[t]
  <1> DEFINE missing == IF producer_future_step > target_upto_future_step
                        THEN producer_future_step - target_upto_future_step ELSE 0
  <1>1. missing \in Nat /\ target_upto_future_step + missing = producer_future_step
    BY DEF ManagerTypeOK, TargetInv
  <1>2. /\ target_samples' = [t \in Tasks |-> target_samples[t] + missing * BatchSize[t]]
        /\ target_upto_future_step' = target_upto_future_step + missing
    BY DEF EnsureTargetUpto
  <1>3. target_upto_future_step <= producer_future_step
    BY <1>1 DEF ManagerTypeOK
  <1> HIDE DEF missing
  <1>4. target_samples' = Whole(producer_future_step)
    <2>1. target_upto_future_step \in Nat /\ target_samples = Whole(target_upto_future_step)
      BY DEF ManagerTypeOK, TargetInv
    <2>2. [t \in Tasks |-> target_samples[t] + missing * BatchSize[t]]
             = Whole(target_upto_future_step + missing)
      BY <1>1, <2>1, WholeNext
    <2> QED
      BY <1>1, <1>2, <2>2
  <1>5. \A t \in Tasks : target_samples'[t] >= target_samples[t]
    BY <1>3, <1>4, WholeMonotone DEF ManagerTypeOK, TargetInv
  <1> QED
    BY <1>1, <1>2, <1>4, <1>5

-----------------------------------------------------------------------------
(* How a step moves the groups.                                            *)

\* What most steps do to a group: nothing COMPLETED is lost, nothing is added to what
\* counts against the budget, and only the drain of a task marks its groups.
Flow(g) ==
    /\ group[g].at = "COMPLETED" => group'[g].at = "COMPLETED"
    /\ group'[g].at \in Counting => group[g].at \in Counting
    /\ group'[g].at = "draining" => group[g].at = "draining" \/ (AtDrain /\ TaskOf[g] = Draining)

\* A group that is not touched flows.
LEMMA StillFlows == ASSUME UNCHANGED group PROVE \A g \in Gids : Flow(g)
  BY DEF Flow

\* So does every group when only some in flight are dropped.
LEMMA DropFlows ==
    ASSUME \A g \in Gids : \/ group'[g] = group[g]
                           \/ group'[g] = NoGroup /\ group[g].at # "COMPLETED"
    PROVE  \A g \in Gids : Flow(g)
  BY FreeSlot DEF Flow, Counting, Pending

\* So does every group when one that is claimed is stored.
LEMMA PutFlows ==
    ASSUME IInv, NEW h \in Gids, NEW t \in Tasks, NEW label \in Nat, NEW keep \in BOOLEAN,
           group[h].at \in {"claimed", "draining"},
           group[h].out # "RAISED",
           group[h].gen # NoStep => label <= group[h].gen,
           group' = [group EXCEPT ![h] = PutGenerated(@, t, label, next_consumer_step, keep)]
    PROVE  \A g \in Gids : Flow(g)
  <1> DEFINE r == PutGenerated(group[h], t, label, next_consumer_step, keep)
  <1>1. group \in [Gids -> GroupRecord] /\ next_consumer_step \in Nat
    BY DEF IInv, GroupInv, GroupsTyped, ManagerTypeOK
  <1>2. /\ group[h] \in GroupRecord /\ group[h].out \in GenOutcome \ {"RAISED"}
        /\ \A k \in group[h].tokens : k.label <= k.gen
    BY <1>1 DEF IInv, GroupInv, OutcomeKnown, LabelNotNewerThanWeights
  <1>3. r.at \in {"free"} \cup Stored
    BY <1>1, <1>2, PutResult
  <1>4. group' = [group EXCEPT ![h] = r]
    OBVIOUS
  <1> HIDE DEF r
  <1>5. \A g \in Gids : group'[g] = IF g = h THEN r ELSE group[g]
    BY <1>1, <1>4
  <1> QED
    BY <1>3, <1>5 DEF Flow, Counting, Pending, Stored

\* So does every group when finished ones are claimed.
LEMMA ClaimFlows ==
    ASSUME NEW t \in Tasks, NEW place \in {"claimed", "draining"},
           place = "draining" => AtDrain /\ t = Draining,
           group' = [g \in Gids |-> IF g \in In(t, "done")
                                    THEN Moved(group[g], place) ELSE group[g]]
    PROVE  \A g \in Gids : Flow(g)
  <1> SUFFICES ASSUME NEW g \in Gids PROVE Flow(g)
    OBVIOUS
  <1>1. CASE g \in In(t, "done")
    <2>1. TaskOf[g] = t /\ group[g].at = "done" /\ group'[g].at = place
      BY <1>1, MovedFields DEF In
    <2> QED
      BY <2>1 DEF Flow, Counting, Pending
  <1>2. CASE g \notin In(t, "done")
    BY <1>2 DEF Flow
  <1> QED
    BY <1>1, <1>2

\* The sampler takes groups that do not count yet.
LEMMA SampleNotCounted ==
    ASSUME NEW t \in Tasks, NEW g \in SamplePool(t)
    PROVE  g \in Gids /\ TaskOf[g] = t /\ group[g].at \in {"EXPIRED", "ABORTED", "free"}
  BY Zenon DEF SamplePool, In, Stalest

\* Only the scheduling of a group, the refresh of get_batch and take_train_batch do more.
LEMMA FlowStep ==
    ASSUME IInv, [Next]_vars
    PROVE  \/ \A g \in Gids : Flow(g)
           \/ \E t \in Tasks : TaskSchedule(t)
           \/ TrainerGetBatch
           \/ TrainerTakeBatch
  <1> USE DEF groupVars
  <1>1. CASE LoopStep
    BY <1>1, StillFlows
       DEF LoopStep, LoopExit, LoopExpired, LoopStartRound, LoopEndRound, LoopRaise
  <1>2. ASSUME NEW t \in Tasks, TaskStep(t), ~TaskSchedule(t) PROVE \A g \in Gids : Flow(g)
    <2>1. CASE TaskAbort(t) \/ TaskPutDone(t) \/ TaskChoosePool(t) \/ TaskEnough(t) \/ TaskWait(t)
      BY <2>1, StillFlows DEF TaskAbort, TaskPutDone, TaskChoosePool, TaskEnough, TaskWait
    <2>2. CASE TaskClaim(t)
      BY <2>2, ClaimFlows DEF TaskClaim
    <2>3. CASE TaskPut(t)
      <3>1. PICK h \in In(t, "claimed"), keep \in BOOLEAN :
               /\ group[h].out # "RAISED"
               /\ group' = [group EXCEPT ![h] =
                      PutGenerated(@, t, ctx_model, next_consumer_step, keep)]
        BY <2>3 DEF TaskPut
      <3>2. h \in Gids /\ group[h].at = "claimed" /\ ctx_model \in Nat
        BY DEF In, IInv, CoroutineTypeOK
      <3>3. group[h].gen # NoStep => ctx_model <= group[h].gen
        BY <3>2 DEF IInv, GroupInv, LabelsReady
      <3> QED
        BY <3>1, <3>2, <3>3, PutFlows
    <2>4. CASE TaskRaise(t)
      BY <2>4, DropFlows DEF TaskRaise, In
    <2> QED
      BY <1>2, <2>1, <2>2, <2>3, <2>4 DEF TaskStep
  <1>3. ASSUME NEW h \in Gids, Generate(h) PROVE \A g \in Gids : Flow(g)
    <2>1. PICK r : group' = [group EXCEPT ![h] = r] /\ r.at = "done"
      <3>1. PICK out \in GenOutcome, old \in SUBSET group[h].tokens, made \in BOOLEAN :
               group' = [group EXCEPT ![h] =
                      IF out \in {"FAILED", "RAISED"}
                      THEN [at |-> "done", out |-> out, tokens |-> {}, gen |-> NoStep]
                      ELSE [at |-> "done", out |-> out, tokens |-> old,
                            gen |-> IF made THEN group[h].gen ELSE NoStep]]
        BY <1>3, GenerateForm
      <3> DEFINE r == IF out \in {"FAILED", "RAISED"}
                      THEN [at |-> "done", out |-> out, tokens |-> {}, gen |-> NoStep]
                      ELSE [at |-> "done", out |-> out, tokens |-> old,
                            gen |-> IF made THEN group[h].gen ELSE NoStep]
      <3>2. r.at = "done" /\ group' = [group EXCEPT ![h] = r]
        BY <3>1
      <3> QED
        BY <3>2
    <2>2. group[h].at = "running" /\ group \in [Gids -> GroupRecord]
      BY <1>3 DEF Generate, IInv, GroupInv, GroupsTyped
    <2>3. \A g \in Gids : group'[g] = IF g = h THEN r ELSE group[g]
      BY <2>1, <2>2
    <2> QED
      BY <2>1, <2>2, <2>3 DEF Flow, Counting, Pending
  <1>4. CASE DrainStep \/ DrainTimeout
    <2>1. CASE DrainWait \/ DrainNext
      BY <2>1, StillFlows DEF DrainWait, DrainNext
    <2>2. CASE DrainClaim
      <3>1. AtDrain /\ Draining \in Tasks
        BY <2>2, DrainingTask DEF DrainClaim, AtDrain, IInv, CoroutineTypeOK
      <3> QED
        BY <2>2, <3>1, ClaimFlows DEF DrainClaim
    <2>3. CASE DrainPut
      <3>1. PICK h \in In(Draining, "draining"), keep \in BOOLEAN :
               /\ group[h].out # "RAISED"
               /\ group' = [group EXCEPT ![h] =
                      PutGenerated(@, Draining, model_step, next_consumer_step, keep)]
        BY <2>3 DEF DrainPut
      <3>2. h \in Gids /\ group[h].at = "draining" /\ model_step \in Nat /\ Draining \in Tasks
        BY <2>3, DrainingTask DEF In, IInv, ManagerTypeOK, CoroutineTypeOK, DrainPut, AtDrain
      <3>3. group[h].gen # NoStep => model_step <= group[h].gen
        BY <3>2 DEF IInv, GroupInv, LabelsReady
      <3> QED
        BY <3>1, <3>2, <3>3, PutFlows
    <2>4. CASE DrainRaise
      BY <2>4, DropFlows DEF DrainRaise, In
    <2>5. CASE DrainTimeout
      BY <2>5, DropFlows DEF DrainTimeout, PendingOf, Pending
    <2> QED
      BY <1>4, <2>1, <2>2, <2>3, <2>4, <2>5 DEF DrainStep
  <1>5. CASE TrainerTrained
    BY <1>5, DropFlows DEF TrainerTrained
  <1>6. CASE TrainerStep /\ ~(TrainerGetBatch \/ TrainerTakeBatch \/ TrainerTrained \/ DrainStep)
    BY <1>6, StillFlows
       DEF TrainerStep, TrainerEmptyExpired, TrainerNotReady, TrainerSeesDeadProducer,
           TrainerStartTraining, TrainerPause, TrainerPaused, TrainerSave, TrainerWeightUpdate,
           TrainerContinue, TrainerResumed, TrainerShutdown, TrainerJoin
  <1>7. CASE UNCHANGED vars
    BY <1>7, StillFlows DEF vars
  <1> QED
    BY <1>1, <1>2, <1>3, <1>4, <1>5, <1>6, <1>7 DEF Next, Terminated, TrainerStep

-----------------------------------------------------------------------------
(* Over-production.                                                        *)

\* Every set of groups is finite, so its size is a number.
LEMMA GroupSets ==
    ASSUME NEW S \in SUBSET Gids
    PROVE  IsFiniteSet(S) /\ Cardinality(S) \in Nat
  BY TasksAssumption, FS_Subset, FS_CardinalityType

\* Fewer groups, smaller size.
LEMMA FewerGroups ==
    ASSUME NEW S \in SUBSET Gids, NEW T \in SUBSET S
    PROVE  Cardinality(T) <= Cardinality(S)
  BY GroupSets, FS_Subset

\* The sizes of disjoint sets of groups add up.
LEMMA DisjointGroups ==
    ASSUME NEW S \in SUBSET Gids, NEW T \in SUBSET Gids, S \cap T = {}
    PROVE  Cardinality(S \cup T) = Cardinality(S) + Cardinality(T)
  <1>1. IsFiniteSet(S) /\ IsFiniteSet(T)
    BY GroupSets
  <1>2. Cardinality(S \cup T) = Cardinality(S) + Cardinality(T) - Cardinality(S \cap T)
    BY <1>1, FS_Union
  <1>3. Cardinality(S) \in Nat /\ Cardinality(T) \in Nat
    BY GroupSets
  <1>4. Cardinality(S \cap T) = 0
    BY FS_EmptySet, Zenon
  <1> QED
    BY <1>2, <1>3, <1>4

\* Only take_train_batch consumes, and targets never shrink.
LEMMA ProgressStep ==
    ASSUME IInv, TargetInv, [Next]_vars
    PROVE  /\ UNCHANGED consumed_samples \/ TrainerTakeBatch
           /\ \A t \in Tasks : target_samples'[t] >= target_samples[t]
  <1> USE DEF progressVars
  <1>1. \A t \in Tasks : target_samples[t] \in Nat
    BY DEF IInv, ManagerTypeOK
  <1>2. CASE LoopExpired \/ LoopStartRound
    BY <1>2, EnsureTarget DEF LoopExpired, LoopStartRound, LoopMayProduce, IInv
  <1>3. CASE LoopExit \/ LoopEndRound \/ LoopRaise
    BY <1>1, <1>3 DEF LoopExit, LoopEndRound, LoopRaise
  <1>4. ASSUME NEW t \in Tasks, TaskStep(t) PROVE UNCHANGED <<consumed_samples, target_samples>>
    BY <1>4 DEF TaskStep, TaskAbort, TaskClaim, TaskPut, TaskRaise, TaskPutDone, TaskChoosePool,
                TaskEnough, TaskSchedule, TaskWait
  <1>5. ASSUME NEW g \in Gids, Generate(g) PROVE UNCHANGED <<consumed_samples, target_samples>>
    BY <1>5 DEF Generate
  <1>6. CASE TrainerStep
    <2>1. UNCHANGED target_samples
      BY <1>6 DEF TrainerStep, TrainerGetBatch, TrainerEmptyExpired, TrainerTakeBatch,
                  TrainerNotReady, TrainerSeesDeadProducer, TrainerStartTraining,
                  TrainerTrained, TrainerPause, TrainerPaused, DrainStep, DrainWait, DrainClaim,
                  DrainPut, DrainRaise, DrainNext, TrainerSave, TrainerWeightUpdate,
                  TrainerContinue, TrainerResumed, TrainerShutdown, TrainerJoin
    <2>2. ~TrainerTakeBatch => UNCHANGED consumed_samples
      BY <1>6
         DEF TrainerStep, TrainerGetBatch, TrainerEmptyExpired, TrainerNotReady,
             TrainerSeesDeadProducer, TrainerStartTraining, TrainerTrained, TrainerPause,
             TrainerPaused, DrainStep, DrainWait, DrainClaim, DrainPut, DrainRaise, DrainNext,
             TrainerSave, TrainerWeightUpdate, TrainerContinue, TrainerResumed,
             TrainerShutdown, TrainerJoin
    <2> QED
      BY <1>1, <2>1, <2>2
  <1>7. CASE DrainTimeout \/ UNCHANGED vars
    BY <1>1, <1>7 DEF DrainTimeout, vars
  <1> QED
    BY <1>1, <1>2, <1>3, <1>4, <1>5, <1>6, <1>7 DEF Next, LoopStep, Terminated

\* A step that adds nothing keeps within the budget.
LEMMA BudgetKept ==
    ASSUME IInv, BudgetInv, UNCHANGED consumed_samples, NEW t \in Tasks,
           target_samples'[t] \in Nat, target_samples'[t] >= target_samples[t],
           \A g \in Gids : group'[g].at \in Counting => group[g].at \in Counting
    PROVE  consumed_samples'[t] + Cardinality(Counted(t)') <= target_samples'[t] + Oversample[t]
  <1>1. Counted(t)' \subseteq Counted(t) /\ Counted(t) \subseteq Gids
    BY DEF Counted
  <1>2. Cardinality(Counted(t)') <= Cardinality(Counted(t))
    BY <1>1, FewerGroups
  <1>3. Cardinality(Counted(t)') \in Nat /\ Cardinality(Counted(t)) \in Nat
    BY <1>1, GroupSets
  <1>4. consumed_samples[t] \in Nat /\ target_samples[t] \in Nat /\ Oversample[t] \in Nat
    BY ConfigAssumption DEF IInv, ManagerTypeOK
  <1>5. consumed_samples[t] + Cardinality(Counted(t)) <= target_samples[t] + Oversample[t]
    BY DEF BudgetInv
  <1> QED
    BY <1>2, <1>3, <1>4, <1>5

\* schedule_one stays within the budget: what it does not look at, claimed and
\* draining groups, cannot exist while the coroutine schedules.
LEMMA BudgetSchedule ==
    ASSUME IInv, FlightInv, NEW t \in Tasks, TaskSchedule(t)
    PROVE  BudgetInv'
  <1>1. PICK h \in SamplePool(t) : group' =
           [group EXCEPT ![h] = [at |-> "running", out |-> "none", tokens |-> @.tokens,
                                 gen |-> weights]]
    BY DEF TaskSchedule
  <1>2. h \in Gids /\ TaskOf[h] = t /\ group[h].at \in {"EXPIRED", "ABORTED", "free"}
    BY SampleNotCounted
  <1>3. group \in [Gids -> GroupRecord]
    BY DEF IInv, GroupInv, GroupsTyped
  <1>4. \A g \in Gids : group'[g].at = IF g = h THEN "running" ELSE group[g].at
    BY <1>1, <1>2, <1>3
  <1>5. UNCHANGED <<consumed_samples, target_samples>>
    BY DEF TaskSchedule, progressVars
  <1>6. \A g \in Gids : TaskOf[g] = t => group[g].at \notin {"claimed", "draining"}
    <2>1. task_pc[t] = "head" /\ ~update_event
      BY DEF TaskSchedule
    <2>2. trainer_pc # "drain"
      BY <2>1 DEF IInv, ControlInv, Syncing
    <2> QED
      BY <2>1, <2>2 DEF IInv, GroupInv, ClaimsHeld, FlightInv, DrainHeld, AtDrain
  <1>7. Cardinality(Counted(t)) = Cardinality(In(t, "COMPLETED")) + Cardinality(PendingOf(t))
    <2>1. Counted(t) = In(t, "COMPLETED") \cup PendingOf(t)
      BY <1>6 DEF Counted, Counting, In, PendingOf, Pending
    <2>2. /\ In(t, "COMPLETED") \cap PendingOf(t) = {}
          /\ In(t, "COMPLETED") \in SUBSET Gids /\ PendingOf(t) \in SUBSET Gids
      BY DEF In, PendingOf, Pending
    <2> QED
      BY <2>1, <2>2, DisjointGroups
  <1>8. /\ Cardinality(In(t, "COMPLETED")) \in Nat /\ Cardinality(PendingOf(t)) \in Nat
        /\ Cardinality(Counted(t)) \in Nat
    BY GroupSets DEF In, PendingOf, Counted
  <1>9. \A s \in Tasks : /\ consumed_samples[s] \in Nat /\ target_samples[s] \in Nat
                         /\ Oversample[s] \in Nat
    BY ConfigAssumption DEF IInv, ManagerTypeOK
  <1>10. consumed_samples[t] + Cardinality(Counted(t)) < target_samples[t] + Oversample[t]
    <2>1. Available(t) + Cardinality(PendingOf(t)) < ScheduledTarget(t)
      BY DEF TaskSchedule
    <2> QED
      BY <1>7, <1>8, <1>9, <2>1 DEF Available, ScheduledTarget
  <1>11. Cardinality(Counted(t)') = Cardinality(Counted(t)) + 1
    <2>1. Counted(t)' = Counted(t) \cup {h}
      BY <1>2, <1>4 DEF Counted, Counting, Pending
    <2>2. h \notin Counted(t) /\ IsFiniteSet(Counted(t))
      BY <1>2, GroupSets DEF Counted, Counting, Pending
    <2> QED
      BY <2>1, <2>2, FS_AddElement
  <1>12. \A s \in Tasks : s # t => Counted(s)' = Counted(s)
    BY <1>2, <1>4 DEF Counted
  <1>13. ASSUME NEW s \in Tasks
         PROVE  consumed_samples[s] + Cardinality(Counted(s)') <= target_samples[s] + Oversample[s]
    <2>1. CASE s = t
      BY <1>8, <1>9, <1>10, <1>11, <2>1
    <2>2. CASE s # t
      BY <1>12, <2>2 DEF FlightInv, BudgetInv
    <2> QED
      BY <2>1, <2>2
  <1> QED
    BY <1>5, <1>13 DEF BudgetInv

\* take_train_batch consumes exactly the groups it removes.
LEMMA BudgetTake ==
    ASSUME IInv, BudgetInv, TrainerTakeBatch
    PROVE  BudgetInv'
  <1>1. PICK B \in SUBSET {h \in Gids : group[h].at = "COMPLETED"},
              kept \in SUBSET PartlyFresh(train_step + 1) :
           /\ IsBatch(B)
           /\ group' = [h \in Gids |-> IF h \in B THEN Moved(group[h], "batch")
                                       ELSE Refreshed(h, train_step + 1, kept)]
    BY Zenon DEF TrainerTakeBatch
  <1>2. GroupsTyped /\ train_step + 1 \in Nat
    BY DEF IInv, GroupInv, CoroutineTypeOK
  <1>3. \A g \in Gids : group'[g].at \in Counting => g \notin B /\ group[g].at \in Counting
    <2>1. \A g \in B : group'[g].at = "batch"
      BY <1>1, MovedFields
    <2>2. \A g \in Gids \ B : RefreshedOK(group[g], group'[g], TaskOf[g], train_step + 1)
      BY <1>1, <1>2, RefreshedResult
    <2> QED
      BY <2>1, <2>2, FreeSlot DEF RefreshedOK, Counting, Pending
  <1>4. /\ consumed_samples' = [t \in Tasks |-> consumed_samples[t] + BatchSize[t]]
        /\ UNCHANGED target_samples
    BY DEF TrainerTakeBatch
  <1>5. ASSUME NEW t \in Tasks
        PROVE  consumed_samples'[t] + Cardinality(Counted(t)') <= target_samples[t] + Oversample[t]
    <2> DEFINE D == B \cap In(t, "COMPLETED")
               R == Counted(t) \ D
    <2>1. Cardinality(D) = BatchSize[t]
      BY <1>1 DEF IsBatch
    <2>2. D \subseteq Counted(t) /\ Counted(t) \subseteq Gids
      BY DEF In, Counted, Counting
    <2>3. Counted(t)' \subseteq R
      BY <1>3 DEF Counted
    <2>4. Counted(t) = D \cup R /\ D \cap R = {} /\ R \in SUBSET Gids /\ D \in SUBSET Gids
      BY <2>2
    <2> HIDE DEF D, R
    <2>5. Cardinality(Counted(t)) = Cardinality(D) + Cardinality(R)
      BY <2>4, DisjointGroups
    <2>6. Cardinality(Counted(t)') <= Cardinality(R)
      BY <2>3, <2>4, FewerGroups
    <2>7. /\ Cardinality(Counted(t)') \in Nat /\ Cardinality(R) \in Nat
          /\ Cardinality(Counted(t)) \in Nat
      BY <2>2, <2>3, <2>4, GroupSets
    <2>8. /\ consumed_samples[t] \in Nat /\ target_samples[t] \in Nat /\ Oversample[t] \in Nat
          /\ BatchSize[t] \in Nat
      BY ConfigAssumption DEF IInv, ManagerTypeOK
    <2>9. consumed_samples[t] + Cardinality(Counted(t)) <= target_samples[t] + Oversample[t]
      BY DEF BudgetInv
    <2> QED
      BY <1>4, <2>1, <2>5, <2>6, <2>7, <2>8, <2>9
  <1> QED
    BY <1>4, <1>5 DEF BudgetInv

\* Every step keeps within the budget of every task.
LEMMA BudgetStep ==
    ASSUME IInv, IInv', FlightInv, TargetInv, [Next]_vars
    PROVE  BudgetInv'
  <1>1. CASE \E t \in Tasks : TaskSchedule(t)
    BY <1>1, BudgetSchedule
  <1>2. CASE TrainerTakeBatch
    BY <1>2, BudgetTake DEF FlightInv
  <1>3. CASE ~TrainerTakeBatch /\ \A g \in Gids : group'[g].at \in Counting => group[g].at \in Counting
    <2>1. UNCHANGED consumed_samples
      BY <1>3, ProgressStep
    <2>2. ASSUME NEW t \in Tasks
          PROVE  consumed_samples'[t] + Cardinality(Counted(t)') <= target_samples'[t] + Oversample[t]
      <3>1. target_samples'[t] \in Nat /\ target_samples'[t] >= target_samples[t]
        BY ProgressStep DEF IInv, ManagerTypeOK
      <3> QED
        BY <1>3, <2>1, <3>1, BudgetKept DEF FlightInv
    <2> QED
      BY <2>2 DEF BudgetInv
  <1>4. CASE TrainerGetBatch /\ ~TrainerTakeBatch
    <2>1. PICK kept \in SUBSET PartlyFresh(train_step) :
             group' = [h \in Gids |-> Refreshed(h, train_step, kept)]
      BY <1>4 DEF TrainerGetBatch, Refresh
    <2>2. GroupsTyped /\ train_step \in Nat
      BY DEF IInv, GroupInv, CoroutineTypeOK
    <2>3. \A g \in Gids : RefreshedOK(group[g], group'[g], TaskOf[g], train_step)
      BY <2>1, <2>2, RefreshedResult
    <2>4. \A g \in Gids : group'[g].at \in Counting => group[g].at \in Counting
      BY <2>3, FreeSlot DEF RefreshedOK, Counting, Pending
    <2> QED
      BY <1>3, <1>4, <2>4
  <1> QED
    BY <1>1, <1>2, <1>3, <1>4, FlowStep DEF Flow

\* Every step leaves claimed-by-the-drain groups to the drain of their task.
LEMMA DrainHeldStep ==
    ASSUME IInv, IInv', DrainHeld, [Next]_vars
    PROVE  DrainHeld'
  <1> USE DEF DrainHeld, groupVars, trainerVars
  <1>1. ASSUME NEW g \in Gids, group'[g].at = "draining"
        PROVE  group[g].at = "draining" \/ (AtDrain /\ TaskOf[g] = Draining)
    <2>1. CASE Flow(g)
      BY <1>1, <2>1 DEF Flow
    <2>2. ASSUME NEW t \in Tasks, TaskSchedule(t) PROVE group[g].at = "draining"
      <3>1. PICK h \in SamplePool(t) : group' =
               [group EXCEPT ![h] = [at |-> "running", out |-> "none", tokens |-> @.tokens,
                                     gen |-> weights]]
        BY <2>2 DEF TaskSchedule
      <3>2. group \in [Gids -> GroupRecord] /\ h \in Gids
        BY SampleNotCounted DEF IInv, GroupInv, GroupsTyped
      <3> QED
        BY <1>1, <3>1, <3>2
    <2>3. CASE TrainerGetBatch
      <3>1. PICK kept \in SUBSET PartlyFresh(train_step) :
               group' = [h \in Gids |-> Refreshed(h, train_step, kept)]
        BY <2>3 DEF TrainerGetBatch, Refresh
      <3>2. GroupsTyped /\ train_step \in Nat
        BY DEF IInv, GroupInv, CoroutineTypeOK
      <3>3. RefreshedOK(group[g], group'[g], TaskOf[g], train_step)
        BY <3>1, <3>2, RefreshedResult
      <3> QED
        BY <1>1, <3>3, FreeSlot DEF RefreshedOK
    <2>4. CASE TrainerTakeBatch
      <3>1. PICK B \in SUBSET {h \in Gids : group[h].at = "COMPLETED"},
                  kept \in SUBSET PartlyFresh(train_step + 1) :
               group' = [h \in Gids |-> IF h \in B THEN Moved(group[h], "batch")
                                        ELSE Refreshed(h, train_step + 1, kept)]
        BY <2>4, TakeBatchForm
      <3>2. GroupsTyped /\ train_step + 1 \in Nat
        BY DEF IInv, GroupInv, CoroutineTypeOK
      <3>3. g \notin B
        BY <1>1, <3>1, MovedFields
      <3>4. RefreshedOK(group[g], group'[g], TaskOf[g], train_step + 1)
        BY <3>1, <3>2, <3>3, RefreshedResult
      <3> QED
        BY <1>1, <3>4, FreeSlot DEF RefreshedOK
    <2> QED
      BY <2>1, <2>2, <2>3, <2>4, FlowStep
  <1>2. \A g \in Gids : group'[g].at = "draining" => AtDrain /\ TaskOf[g] = Draining
    BY <1>1
  <1>3. CASE DrainRaise
    <2>1. \A g \in Gids : group'[g].at # "draining"
      <3>1. \A g \in Gids : group'[g] = IF g \in In(Draining, "draining") THEN NoGroup ELSE group[g]
        BY <1>3 DEF DrainRaise
      <3> QED
        BY <1>2, <3>1, FreeSlot DEF In
    <2> QED
      BY <2>1
  <1>4. CASE DrainNext
    BY <1>4 DEF DrainNext, In
  <1>5. CASE TrainerSave \/ TrainerWeightUpdate
    BY <1>2, <1>5 DEF TrainerSave, TrainerWeightUpdate, AtDrain, IInv, ControlInv
  <1>6. CASE UNCHANGED <<trainer_pc, to_drain>>
    BY <1>2, <1>6 DEF AtDrain, Draining
  <1>7. CASE trainer_pc # "drain"
    BY <1>2, <1>7 DEF AtDrain
  <1>8. CASE DrainStep \/ DrainTimeout
    BY <1>3, <1>4, <1>6, <1>8 DEF DrainStep, DrainWait, DrainClaim, DrainPut, DrainTimeout
  <1>9. CASE LoopStep
    BY <1>6, <1>9
       DEF LoopStep, LoopExit, LoopExpired, LoopStartRound, LoopEndRound, LoopRaise
  <1>10. ASSUME NEW t \in Tasks, TaskStep(t) PROVE DrainHeld'
    BY <1>6, <1>10 DEF TaskStep, TaskAbort, TaskClaim, TaskPut, TaskRaise, TaskPutDone,
                       TaskChoosePool, TaskEnough, TaskSchedule, TaskWait
  <1>11. ASSUME NEW g \in Gids, Generate(g) PROVE DrainHeld'
    BY <1>6, <1>11 DEF Generate
  <1>12. CASE TrainerStep
    BY <1>5, <1>7, <1>8, <1>12
       DEF TrainerStep, TrainerGetBatch, TrainerEmptyExpired, TrainerTakeBatch,
           TrainerNotReady, TrainerSeesDeadProducer, TrainerStartTraining, TrainerTrained,
           TrainerPause, TrainerPaused, TrainerContinue, TrainerResumed, TrainerShutdown,
           TrainerJoin
  <1>13. CASE UNCHANGED vars
    BY <1>6, <1>13 DEF vars
  <1> QED
    BY <1>8, <1>9, <1>10, <1>11, <1>12, <1>13 DEF Next, Terminated

-----------------------------------------------------------------------------
(* The pace of the producer and of the trainer.                            *)

\* produce_loop's steps: each action keeps the pace; the rest of the producer and the
\* rollout engine do not touch it.
LEMMA LoopPace ==
    ASSUME IInv, StepsInv, LoopStep
    PROVE  StepsInv'
  <1> USE DEF IInv, ManagerTypeOK, CoroutineTypeOK, ControlInv, StepInv, Syncing, Pausing,
          StepsInv, Retrying, managerVars, progressVars, producerVars, trainerVars
  <1>1. CASE LoopExit \/ LoopRaise
    BY <1>1 DEF LoopExit, LoopRaise, TargetInv, ConsumedInv, PaceInv
  <1>2. CASE LoopExpired
    <2>1. TargetInv'
      BY <1>2, EnsureTarget DEF LoopExpired, LoopMayProduce, TargetInv
    <2>2. ConsumedInv'
      BY <1>2 DEF LoopExpired, ConsumedInv
    <2>3. PaceInv'
      BY <1>2 DEF LoopExpired, LoopMayProduce, PaceInv, Within
    <2> QED
      BY <2>1, <2>2, <2>3
  <1>3. CASE LoopStartRound
    <2>1. TargetInv'
      BY <1>3, EnsureTarget DEF LoopStartRound, LoopMayProduce, TargetInv
    <2>2. ConsumedInv'
      BY <1>3 DEF LoopStartRound, ConsumedInv
    <2>3. Within(producer_future_step, model_step)
      BY <1>3 DEF LoopStartRound, Within
    <2>4. PaceInv'
      BY <1>3, <2>3 DEF LoopStartRound, LoopMayProduce, PaceInv
    <2> QED
      BY <2>1, <2>2, <2>4
  <1>4. CASE LoopEndRound
    <2>1. /\ producer_future_step' \in {producer_future_step, producer_future_step + 1}
          /\ loop_pc = "gather" /\ loop_pc' = "top"
          /\ UNCHANGED <<managerVars, trainerVars, ctx_model, next_consumer_step, target_samples,
                         target_upto_future_step, consumed_samples>>
      BY <1>4 DEF LoopEndRound
    <2>2. TargetInv' /\ ConsumedInv'
      <3>1. /\ target_upto_future_step = producer_future_step
            /\ target_samples = Whole(target_upto_future_step)
        BY <2>1 DEF TargetInv
      <3>2. target_upto_future_step' \in {producer_future_step', producer_future_step' - 1}
        <4> PICK p \in Nat : p = producer_future_step
          OBVIOUS
        <4>1. target_upto_future_step' = p /\ producer_future_step' \in {p, p + 1}
          BY <2>1, <3>1
        <4>2. producer_future_step' = p + 1 => producer_future_step' - 1 = p
          OBVIOUS
        <4> QED
          BY <4>1, <4>2, Zenon
      <3>3. TargetInv'
        BY <2>1, <3>1, <3>2 DEF TargetInv
      <3>4. ConsumedInv'
        BY <2>1 DEF ConsumedInv
      <3> QED
        BY <3>3, <3>4
    <2>3. Within(producer_future_step, ctx_model)
      BY <2>1 DEF PaceInv
    <2>4. Within(producer_future_step' - 1, model_step)
      BY <2>1, <2>3, WithinMonotone
    <2>5. trainer_pc \in Pausing => Within(producer_future_step', sync_step)
      <3>1. trainer_pc \in Pausing => ctx_model < sync_step
        BY DEF PaceInv
      <3> QED
        BY <2>1, <2>3, <3>1, WithinMonotone
    <2>6. PaceInv'
      BY <2>1, <2>4, <2>5 DEF PaceInv
    <2> QED
      BY <2>2, <2>6
  <1> QED
    BY <1>1, <1>2, <1>3, <1>4 DEF LoopStep

\* What the producer's tasks, the rollout engine and the drain leave alone.
LEMMA QuietPace ==
    ASSUME StepsInv,
           UNCHANGED <<status, model_step, progressVars, loop_pc, ctx_model, trainer_pc,
                       train_step, sync_step, batch_status>>
    PROVE  StepsInv'
  BY DEF StepsInv, TargetInv, ConsumedInv, PaceInv, Retrying, progressVars

\* The trainer's steps: consuming a batch is one whole step, and a sync starts from a
\* model that is older than the one it brings.
LEMMA TrainerPace ==
    ASSUME IInv, StepsInv, TrainerStep, ~DrainStep
    PROVE  StepsInv'
  <1> USE DEF IInv, ManagerTypeOK, CoroutineTypeOK, ControlInv, StepInv, Syncing, Pausing,
          StepsInv, Retrying, managerVars, progressVars, producerVars, trainerVars
  <1>1. CASE TrainerGetBatch
    BY <1>1 DEF TrainerGetBatch, TargetInv, ConsumedInv, PaceInv
  <1>2. CASE TrainerEmptyExpired
    <2>1. Within(producer_future_step, train_step - 1)
      BY <1>2, WithinMonotone DEF TrainerEmptyExpired, NewerModelExists, PaceInv
    <2> QED
      BY <1>2, <2>1 DEF TrainerEmptyExpired, NewerModelExists, TargetInv, ConsumedInv, PaceInv
  <1>3. CASE TrainerTakeBatch
    <2>1. consumed_samples' = Whole(train_step)
      <3>1. /\ consumed_samples = Whole(train_step - 1)
            /\ consumed_samples' = [t \in Tasks |-> consumed_samples[t] + BatchSize[t]]
        BY <1>3 DEF TrainerTakeBatch, ConsumedInv
      <3>2. PICK n \in Nat : n = train_step - 1 /\ n + 1 = train_step
        OBVIOUS
      <3>3. [t \in Tasks |-> Whole(n)[t] + BatchSize[t]] = Whole(n + 1)
        BY WholeOneMore
      <3> QED
        BY <3>1, <3>2, <3>3
    <2> QED
      BY <1>3, <2>1 DEF TrainerTakeBatch, TargetInv, ConsumedInv, PaceInv
  <1>4. CASE TrainerNotReady \/ TrainerSeesDeadProducer \/ TrainerStartTraining
    BY <1>4 DEF TrainerNotReady, TrainerSeesDeadProducer, TrainerStartTraining, TargetInv,
                ConsumedInv, PaceInv
  <1>5. CASE TrainerTrained
    <2>1. Within(producer_future_step, train_step)
      BY <1>5, WithinMonotone DEF TrainerTrained, PaceInv
    <2>2. TargetInv' /\ ConsumedInv'
      BY <1>5 DEF TrainerTrained, TargetInv, ConsumedInv
    <2>3. PaceInv'
      BY <1>5, <2>1 DEF TrainerTrained, PaceInv
    <2> QED
      BY <2>2, <2>3
  <1>6. CASE TrainerPause \/ TrainerPaused
    BY <1>6 DEF TrainerPause, TrainerPaused, TargetInv, ConsumedInv, PaceInv
  <1>7. CASE TrainerSave \/ TrainerContinue
    <2>1. /\ trainer_pc \in {"drain", "resume"} /\ model_step' \in {model_step, sync_step}
          /\ trainer_pc' \in {"update", "finish", "resuming"}
          /\ UNCHANGED <<status, progressVars, producerVars, train_step, sync_step, batch_status>>
      BY <1>7 DEF TrainerSave, TrainerContinue
    <2>2. Within(producer_future_step - 1, model_step')
      <3>1. Within(producer_future_step - 1, model_step)
        BY DEF PaceInv
      <3>2. Within(producer_future_step - 1, sync_step)
        BY <2>1, WithinMonotone DEF PaceInv
      <3> QED
        BY <2>1, <3>1, <3>2
    <2>3. TargetInv' /\ ConsumedInv'
      BY <2>1 DEF TargetInv, ConsumedInv
    <2>4. status # "EXPIRED_BATCH"
      BY <2>1
    <2>5. PaceInv'
      BY <2>1, <2>2, <2>4 DEF PaceInv
    <2> QED
      BY <2>3, <2>5
  <1>8. CASE TrainerWeightUpdate
    BY <1>8 DEF TrainerWeightUpdate, TargetInv, ConsumedInv, PaceInv
  <1>9. CASE TrainerResumed
    <2>1. TargetInv' /\ PaceInv'
      BY <1>9 DEF TrainerResumed, TargetInv, PaceInv
    <2>2. ConsumedInv'
      BY <1>9 DEF TrainerResumed, ConsumedInv
    <2> QED
      BY <2>1, <2>2
  <1>10. CASE TrainerShutdown \/ TrainerJoin
    BY <1>10 DEF TrainerShutdown, TrainerJoin, TargetInv, ConsumedInv, PaceInv
  <1> QED
    BY <1>1, <1>2, <1>3, <1>4, <1>5, <1>6, <1>7, <1>8, <1>9, <1>10 DEF TrainerStep

\* Every step keeps the pace.
LEMMA StepsStep ==
    ASSUME IInv, StepsInv, [Next]_vars
    PROVE  StepsInv'
  <1> USE DEF managerVars, producerVars, trainerVars
  <1>1. CASE LoopStep
    BY <1>1, LoopPace
  <1>2. ASSUME NEW t \in Tasks, TaskStep(t) PROVE StepsInv'
    BY <1>2, QuietPace
       DEF TaskStep, TaskAbort, TaskClaim, TaskPut, TaskRaise, TaskPutDone, TaskChoosePool,
           TaskEnough, TaskSchedule, TaskWait
  <1>3. ASSUME NEW g \in Gids, Generate(g) PROVE StepsInv'
    BY <1>3, QuietPace DEF Generate
  <1>4. CASE DrainRaise
    BY <1>4 DEF DrainRaise, AtDrain, StepsInv, TargetInv, ConsumedInv, PaceInv, Pausing,
                Syncing, progressVars
  <1>5. CASE (DrainStep /\ ~DrainRaise) \/ DrainTimeout
    BY <1>5, QuietPace
       DEF DrainStep, DrainWait, DrainClaim, DrainPut, DrainNext, DrainTimeout
  <1>6. CASE TrainerStep /\ ~DrainStep
    BY <1>6, TrainerPace
  <1>7. CASE UNCHANGED vars
    BY <1>7, QuietPace DEF vars
  <1> QED
    BY <1>1, <1>2, <1>3, <1>4, <1>5, <1>6, <1>7 DEF Next, Terminated, TrainerStep

-----------------------------------------------------------------------------
(* The stock of the first step after a sync.                               *)

\* What is available is a number, and grows with what is COMPLETED.
LEMMA AvailableGrows ==
    ASSUME IInv, NEW t \in Tasks, UNCHANGED consumed_samples,
           \A g \in Gids : group[g].at = "COMPLETED" => group'[g].at = "COMPLETED"
    PROVE  Available(t) \in Nat /\ Available(t)' \in Nat /\ Available(t)' >= Available(t)
  <1>1. In(t, "COMPLETED") \subseteq In(t, "COMPLETED")' /\ In(t, "COMPLETED")' \subseteq Gids
    BY DEF In
  <1>2. Cardinality(In(t, "COMPLETED")) <= Cardinality(In(t, "COMPLETED")')
    BY <1>1, FewerGroups
  <1>3. Cardinality(In(t, "COMPLETED")) \in Nat /\ Cardinality(In(t, "COMPLETED")') \in Nat
    BY <1>1, GroupSets
  <1>4. consumed_samples[t] \in Nat
    BY DEF IInv, ManagerTypeOK
  <1> QED
    BY <1>2, <1>3, <1>4 DEF Available

\* While the first step waits for its batch nothing COMPLETED leaves the buffer: its
\* refresh repeats the one that the buffer is already fresh for.
LEMMA FirstStepKeeps ==
    ASSUME IInv, TargetInv, ConsumedInv, [Next]_vars,
           trainer_pc \in {"get", "poll"}, trainer_pc' \in {"get", "poll"}
    PROVE  \A t \in Tasks :
              Available(t) \in Nat /\ Available(t)' \in Nat /\ Available(t)' >= Available(t)
  <1>1. ~TrainerTakeBatch
    BY DEF TrainerTakeBatch
  <1>2. UNCHANGED consumed_samples
    BY <1>1, ProgressStep
  <1>3. \A g \in Gids : group[g].at = "COMPLETED" => group'[g].at = "COMPLETED"
    <2>1. CASE \A g \in Gids : Flow(g)
      BY <2>1 DEF Flow
    <2>2. ASSUME NEW t \in Tasks, TaskSchedule(t)
          PROVE  \A g \in Gids : group[g].at = "COMPLETED" => group'[g].at = "COMPLETED"
      <3>1. PICK h \in SamplePool(t) : group' =
               [group EXCEPT ![h] = [at |-> "running", out |-> "none", tokens |-> @.tokens,
                                     gen |-> weights]]
        BY <2>2 DEF TaskSchedule
      <3>2. group[h].at # "COMPLETED"
        BY SampleNotCounted
      <3>3. \A g \in Gids : g # h => group'[g] = group[g]
        BY <3>1 DEF IInv, GroupInv, GroupsTyped
      <3> QED
        BY <3>2, <3>3
    <2>3. CASE TrainerGetBatch
      <3>1. PICK kept \in SUBSET PartlyFresh(train_step) :
               group' = [h \in Gids |-> Refreshed(h, train_step, kept)]
        BY <2>3 DEF TrainerGetBatch, Refresh
      <3>2. ASSUME NEW g \in Gids, group[g].at = "COMPLETED" PROVE group'[g] = group[g]
        <4>1. ~HasStale(group[g].tokens, train_step, Threshold(TaskOf[g]))
          BY <3>2 DEF ConsumedInv, IInv, GroupInv, BufferFresh
        <4> QED
          BY <3>1, <4>1 DEF Refreshed, Lifecycle
      <3> QED
        BY <3>2
    <2> QED
      BY <1>1, <2>1, <2>2, <2>3, FlowStep
  <1> QED
    BY <1>2, <1>3, AvailableGrows

\* A step that leaves the producer's round alone, but for tasks that move on, keeps
\* the stock.
LEMMA StockKept ==
    ASSUME IInv, TargetInv, ConsumedInv, StockInv, FirstStep, [Next]_vars,
           trainer_pc' \in {"get", "poll"},
           UNCHANGED <<model_step, producer_future_step, target_samples, ctx_model>>,
           loop_pc' = "gather" => loop_pc = "gather",
           \A t \in Tasks :
              /\ task_pc'[t] = "off" => task_pc[t] = "off"
              /\ task_pc'[t] = "normal" =>
                    task_pc[t] = "normal" \/ Available(t) >= target_samples[t]
    PROVE  StockInv'
  <1>1. \A t \in Tasks :
           Available(t) \in Nat /\ Available(t)' \in Nat /\ Available(t)' >= Available(t)
    BY FirstStepKeeps DEF FirstStep
  <1>2. producer_future_step \in Nat /\ \A t \in Tasks : target_samples[t] \in Nat
    BY DEF IInv, ManagerTypeOK
  <1>3. ASSUME ~Within(producer_future_step, model_step), NEW t \in Tasks
        PROVE  Available(t)' >= Whole(producer_future_step - 1)[t]
    <2>1. Available(t) >= Whole(producer_future_step - 1)[t]
      BY <1>3 DEF StockInv
    <2>2. Whole(producer_future_step - 1)[t] \in Int
      <3> PICK b \in Nat : b = BatchSize[t]
        BY ConfigAssumption
      <3> PICK p \in Int : p = producer_future_step - 1
        BY <1>2
      <3>1. p * b \in Int
        BY Z3
      <3> QED
        BY <3>1 DEF Whole
    <2> QED
      BY <1>1, <2>1, <2>2
  <1>4. loop_pc = "gather" /\ ctx_model = model_step => RoundInv'
    <2> SUFFICES ASSUME loop_pc = "gather", ctx_model = model_step, NEW t \in Tasks
                 PROVE  /\ task_pc'[t] = "normal" => Available(t)' >= target_samples[t]
                        /\ task_pc'[t] = "off" => target_samples[t] = 0
      BY DEF RoundInv
    <2>1. RoundInv
      BY DEF StockInv
    <2> QED
      BY <1>1, <1>2, <2>1 DEF RoundInv
  <1> QED
    BY <1>3, <1>4 DEF StockInv

\* The end of a round of the newest model: if the producer may not go on, every task has
\* all the samples of the round.
LEMMA StockRound ==
    ASSUME IInv, StepsInv, StockInv, FirstStep, LoopEndRound
    PROVE  StockInv'
  <1>1. /\ loop_pc = "gather" /\ loop_pc' = "top"
        /\ UNCHANGED <<group, model_step, target_samples, consumed_samples, ctx_model>>
    BY DEF LoopEndRound, groupVars, managerVars
  <1>2. /\ producer_future_step \in Nat /\ ctx_model \in Nat /\ model_step \in Nat
        /\ ctx_model <= model_step
    BY DEF IInv, ManagerTypeOK, CoroutineTypeOK, StepInv
  <1>3. Within(producer_future_step, ctx_model)
    BY <1>1 DEF StepsInv, PaceInv
  <1>4. ASSUME ~Within(producer_future_step', model_step), NEW t \in Tasks
        PROVE  Available(t) >= Whole(producer_future_step' - 1)[t]
    <2>1. producer_future_step' = producer_future_step + 1
      <3>1. Within(producer_future_step, model_step)
        BY <1>2, <1>3, WithinMonotone
      <3> QED
        BY <1>4, <3>1 DEF LoopEndRound
    <2>2. ctx_model = model_step
      <3>1. CASE ctx_model < model_step
        <4>1. Within(producer_future_step + 1, model_step)
          BY <1>2, <1>3, <3>1, WithinMonotone
        <4> QED
          BY <1>4, <2>1, <4>1
      <3> QED
        BY <1>2, <3>1
    <2>3. task_pc[t] \in {"off", "normal"}
      <3>1. \A s \in Tasks : task_pc[s] # "aborted"
        BY <1>2, <2>1 DEF LoopEndRound
      <3> QED
        BY <3>1 DEF LoopEndRound
    <2>4. RoundInv
      BY <1>1, <2>2 DEF StockInv
    <2>5. target_samples = Whole(producer_future_step) /\ target_samples[t] \in Nat
      BY <1>1 DEF StepsInv, TargetInv, IInv, ManagerTypeOK
    <2>6. Available(t) \in Nat
      <3>1. Cardinality(In(t, "COMPLETED")) \in Nat
        BY GroupSets DEF In
      <3> QED
        BY <3>1 DEF Available, IInv, ManagerTypeOK
    <2>7. Available(t) >= target_samples[t]
      BY <2>3, <2>4, <2>5, <2>6 DEF RoundInv
    <2>8. producer_future_step' - 1 = producer_future_step
      BY <1>2, <2>1
    <2> QED
      BY <2>5, <2>7, <2>8
  <1>5. \A t \in Tasks : Available(t)' = Available(t)
    BY <1>1 DEF Available, In
  <1> QED
    BY <1>1, <1>4, <1>5 DEF StockInv

\* Every step keeps the stock.
LEMMA StockStep ==
    ASSUME IInv, StepsInv, StockInv, [Next]_vars
    PROVE  StockInv'
  <1> SUFFICES ASSUME FirstStep' PROVE StockInv'
    BY DEF StockInv
  <1> USE DEF IInv, ManagerTypeOK, CoroutineTypeOK, ControlInv, StepInv, Syncing, Pausing,
          StepsInv, Retrying, FirstStep, managerVars, progressVars, producerVars, trainerVars
  <1>1. CASE TrainerResumed
    <2>1. model_step = sync_step /\ ctx_model < sync_step /\ Within(producer_future_step, sync_step)
      BY <1>1 DEF TrainerResumed, PaceInv
    <2> QED
      BY <1>1, <2>1 DEF TrainerResumed, StockInv
  <1>2. CASE TrainerTrained
    BY <1>2 DEF TrainerTrained
  <1>3. CASE TrainerGetBatch \/ TrainerNotReady
    BY <1>3, StockKept DEF TrainerGetBatch, TrainerNotReady
  <1>4. CASE \/ TrainerEmptyExpired \/ TrainerTakeBatch \/ TrainerSeesDeadProducer
             \/ TrainerStartTraining \/ TrainerPause \/ TrainerPaused
    BY <1>4 DEF TrainerEmptyExpired, TrainerTakeBatch, TrainerSeesDeadProducer,
                TrainerStartTraining, TrainerPause, TrainerPaused
  <1>5. CASE TrainerSave \/ TrainerWeightUpdate \/ TrainerContinue \/ TrainerShutdown \/ TrainerJoin
    BY <1>5 DEF TrainerSave, TrainerWeightUpdate, TrainerContinue, TrainerShutdown, TrainerJoin
  <1>6. CASE DrainStep \/ DrainTimeout
    BY <1>6 DEF DrainStep, DrainWait, DrainClaim, DrainPut, DrainRaise, DrainNext, DrainTimeout,
                AtDrain
  <1>7. CASE LoopEndRound
    <2>1. FirstStep
      BY <1>7 DEF LoopEndRound
    <2> QED
      BY <1>7, <2>1, StockRound
  <1>8. CASE LoopExpired
    <2>1. FirstStep /\ loop_pc = "top" /\ loop_pc' = "top"
      BY <1>8 DEF LoopExpired, LoopMayProduce
    <2>2. \A t \in Tasks : Available(t)' = Available(t)
      BY <1>8 DEF LoopExpired, Available, In, groupVars
    <2> QED
      BY <1>8, <2>1, <2>2 DEF LoopExpired, StockInv
  <1>9. CASE LoopStartRound
    <2>1. Within(producer_future_step, model_step)
      BY <1>9 DEF LoopStartRound, Within
    <2>2. RoundInv'
      <3>1. target_samples' \in [Tasks -> Nat]
        BY <1>9, TargetType DEF LoopStartRound, LoopMayProduce
      <3>2. \A t \in Tasks : task_pc'[t] = IF target_samples'[t] > 0 THEN "start" ELSE "off"
        BY <1>9 DEF LoopStartRound
      <3> QED
        BY <3>1, <3>2 DEF RoundInv
    <2> QED
      BY <1>9, <2>1, <2>2 DEF LoopStartRound, StockInv
  <1>10. CASE LoopExit \/ LoopRaise
    BY <1>10, StockKept DEF LoopExit, LoopRaise
  <1>11. ASSUME NEW t \in Tasks, TaskStep(t) PROVE StockInv'
    <2>1. /\ UNCHANGED <<model_step, producer_future_step, target_samples, loop_pc, ctx_model,
                         trainer_pc, train_step>>
          /\ \A s \in Tasks \ {t} : task_pc'[s] = task_pc[s]
      BY <1>11 DEF TaskStep, TaskAbort, TaskClaim, TaskPut, TaskRaise, TaskPutDone,
                   TaskChoosePool, TaskEnough, TaskSchedule, TaskWait
    <2>2. /\ task_pc'[t] = "off" => task_pc[t] = "off"
          /\ task_pc'[t] = "normal" =>
                task_pc[t] = "normal" \/ Available(t) >= target_samples[t]
      BY <1>11 DEF TaskStep, TaskAbort, TaskClaim, TaskPut, TaskRaise, TaskPutDone,
                   TaskChoosePool, TaskEnough, TaskSchedule, TaskWait
    <2> QED
      BY <2>1, <2>2, StockKept
  <1>12. ASSUME NEW g \in Gids, Generate(g) PROVE StockInv'
    BY <1>12, StockKept DEF Generate
  <1>13. CASE UNCHANGED vars
    BY <1>13, StockKept DEF vars
  <1> QED
    BY <1>1, <1>2, <1>3, <1>4, <1>5, <1>6, <1>7, <1>8, <1>9, <1>10, <1>11, <1>12, <1>13
       DEF Next, LoopStep, TrainerStep, Terminated

-----------------------------------------------------------------------------
(* The theorems.                                                           *)

\* The program starts in a state that satisfies the invariant.
LEMMA ProductionInit == Init => ProductionInv
  <1> SUFFICES ASSUME Init PROVE ProductionInv
    OBVIOUS
  <1>1. Whole(0) = [t \in Tasks |-> 0]
    <2>1. \A t \in Tasks : 0 * BatchSize[t] = 0
      BY ConfigAssumption
    <2> QED
      BY <2>1 DEF Whole
  <1>2. FlightInv
    <2>1. \A g \in Gids : group[g].at = "free"
      BY FreeSlot DEF Init
    <2>2. \A t \in Tasks : Counted(t) = {}
      BY <2>1 DEF Counted, Counting, Pending
    <2>3. \A t \in Tasks : consumed_samples[t] = 0 /\ target_samples[t] = 0
      BY DEF Init
    <2>4. \A t \in Tasks : Cardinality(Counted(t)) = 0
      BY <2>2, FS_EmptySet
    <2>5. BudgetInv
      BY <2>3, <2>4, ConfigAssumption DEF BudgetInv
    <2> QED
      BY <2>1, <2>5 DEF FlightInv, DrainHeld
  <1>3. Within(1, 0) /\ Within(0, 0)
    <2>1. Within(0 + 1, 0) /\ Within(0, 0)
      BY WithinNext
    <2> QED
      BY <2>1
  <1>4. TargetInv
    BY <1>1 DEF Init, TargetInv
  <1>5. ConsumedInv
    BY <1>1 DEF Init, ConsumedInv, Pausing, Syncing
  <1>6. PaceInv
    BY <1>3 DEF Init, PaceInv, Pausing, Syncing
  <1>7. StockInv
    BY <1>3 DEF Init, StockInv
  <1> QED
    BY <1>2, <1>4, <1>5, <1>6, <1>7, InvInit DEF ProductionInv, StepsInv

\* Every reachable state satisfies the invariant.
THEOREM ProductionHolds == Spec => []ProductionInv
  <1>1. Init => ProductionInv
    BY ProductionInit
  <1>2. IInv' /\ ProductionInv /\ [Next]_vars => ProductionInv'
    <2> SUFFICES ASSUME IInv', ProductionInv, [Next]_vars PROVE ProductionInv'
      OBVIOUS
    <2>1. IInv /\ FlightInv /\ StepsInv /\ StockInv
      BY DEF ProductionInv
    <2>2. BudgetInv'
      BY <2>1, BudgetStep DEF StepsInv
    <2>3. DrainHeld'
      BY <2>1, DrainHeldStep DEF FlightInv
    <2>4. StepsInv' /\ StockInv'
      BY <2>1, StepsStep, StockStep
    <2> QED
      BY <2>2, <2>3, <2>4 DEF ProductionInv, FlightInv
  <1> QED
    BY <1>1, <1>2, InvariantHolds, PTL DEF Spec

\* Over-production is bounded: whatever is consumed, stored as COMPLETED and in flight
\* for a task stays within its target plus the oversampling budget, although schedule_one
\* counts the pending tasks only and not the claimed ones.
THEOREM BudgetIsKept == Spec => []OverproductionBounded
  <1>1. ProductionInv => OverproductionBounded
    <2> SUFFICES ASSUME ProductionInv, NEW t \in Tasks
                 PROVE  Available(t) + Cardinality(InFlight(t))
                           <= target_samples[t] + Oversample[t]
      BY DEF OverproductionBounded
    <2>1. Counted(t) = In(t, "COMPLETED") \cup InFlight(t)
      BY DEF Counted, Counting, In, InFlight, Pending
    <2>2. /\ In(t, "COMPLETED") \cap InFlight(t) = {}
          /\ In(t, "COMPLETED") \in SUBSET Gids /\ InFlight(t) \in SUBSET Gids
      BY DEF In, InFlight, Pending
    <2>3. Cardinality(Counted(t)) = Cardinality(In(t, "COMPLETED")) + Cardinality(InFlight(t))
      BY <2>1, <2>2, DisjointGroups
    <2>4. Cardinality(In(t, "COMPLETED")) \in Nat /\ Cardinality(InFlight(t)) \in Nat
      BY <2>2, GroupSets
    <2>5. consumed_samples[t] \in Nat
      BY DEF ProductionInv, IInv, ManagerTypeOK
    <2>6. consumed_samples[t] + Cardinality(Counted(t)) <= target_samples[t] + Oversample[t]
      BY DEF ProductionInv, FlightInv, BudgetInv
    <2> QED
      BY <2>3, <2>4, <2>5, <2>6 DEF Available
  <1> QED
    BY <1>1, ProductionHolds, PTL

\* get_batch never raises "EXPIRED_BATCH without a newer model or a ready batch": a
\* producer that stopped at the staleness bound of the newest model has left a batch of
\* every task, so the RuntimeError is unreachable for every configuration.
THEOREM ExpiredMeansReady == Spec => []ExpiredProducerLeftABatch
  <1>1. ProductionInv => ExpiredProducerLeftABatch
    <2> SUFFICES ASSUME ProductionInv, trainer_pc = "poll", status = "EXPIRED_BATCH",
                        ~NewerModelExists, NEW t \in Tasks
                 PROVE  Cardinality(In(t, "COMPLETED")) >= BatchSize[t]
      BY DEF ExpiredProducerLeftABatch, IsReady
    <2>1. /\ train_step \in Nat \ {0} /\ model_step \in Nat /\ producer_future_step \in Nat
          /\ model_step < train_step
      BY DEF ProductionInv, IInv, ManagerTypeOK, CoroutineTypeOK, StepInv
    <2>2. train_step = model_step + 1
      BY <2>1 DEF NewerModelExists
    <2>3. ~Within(producer_future_step, model_step)
      BY DEF ProductionInv, StepsInv, PaceInv
    <2>4. Available(t) >= Whole(producer_future_step - 1)[t]
      BY <2>2, <2>3 DEF ProductionInv, StockInv, FirstStep
    <2>5. producer_future_step >= train_step + 1
      <3>1. ASSUME producer_future_step <= train_step PROVE FALSE
        <4>1. Within(model_step + 1, model_step)
          BY <2>1, WithinNext
        <4>2. Within(producer_future_step, model_step)
          BY <2>1, <2>2, <3>1, <4>1, WithinMonotone
        <4> QED
          BY <2>3, <4>2
      <3> QED
        BY <2>1, <3>1
    <2>6. consumed_samples[t] = Whole(train_step - 1)[t]
      BY DEF ProductionInv, StepsInv, ConsumedInv
    <2>7. PICK n \in Nat, m \in Nat :
             n = train_step - 1 /\ m = producer_future_step - 1 /\ n + 1 <= m
      BY <2>1, <2>5
    <2>8. /\ Whole(n + 1)[t] = Whole(n)[t] + BatchSize[t] /\ Whole(n)[t] \in Nat
          /\ Whole(n + 1)[t] <= Whole(m)[t] /\ Whole(m)[t] \in Nat /\ BatchSize[t] \in Nat
      BY <2>7, WholeMonotone, ConfigAssumption
    <2>9. Cardinality(In(t, "COMPLETED")) \in Nat
      BY GroupSets DEF In
    <2> QED
      BY <2>4, <2>6, <2>7, <2>8, <2>9 DEF Available
  <1> QED
    BY <1>1, ProductionHolds, PTL
===============================================================================
