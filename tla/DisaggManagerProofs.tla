------------------------ MODULE DisaggManagerProofs ------------------------
(***************************************************************************)
(* Proofs about DisaggManager for every set of tasks, every pool of group  *)
(* slots and every configuration.                                          *)
(***************************************************************************)
EXTENDS DisaggManager, TLAPS

-----------------------------------------------------------------------------
(* What the operators on groups return.                                    *)

\* A task's staleness threshold is a natural number (calculate_stale_threshold).
LEMMA ThresholdType == ASSUME NEW t \in Tasks PROVE Threshold(t) \in Nat
  <1>1. MaxStaleness[t] + 1 \in Nat /\ SyncInterval \in Nat
    BY ConfigAssumption
  <1> QED
    BY <1>1, SMT DEF Threshold, StaleThreshold

\* _apply_staleness_lifecycle either leaves a record alone, and then it is fresh,
\* or frees it, or moves it to EXPIRED with some of its tokens.
LEMMA LifecycleResult ==
    ASSUME NEW rec \in GroupRecord, NEW t \in Tasks, NEW step \in Nat, NEW keep \in BOOLEAN
    PROVE  LET r == Lifecycle(rec, t, step, keep) IN
           /\ r \in GroupRecord
           /\ \/ r = rec /\ ~HasStale(rec.tokens, step, Threshold(t))
              \/ r = NoGroup
              \/ /\ r.at = "EXPIRED" /\ r.out = rec.out /\ r.gen = rec.gen
                 /\ r.tokens \subseteq rec.tokens
  <1>1. NoGroup \in GroupRecord
    BY DEF NoGroup, GroupRecord, Place, Pending, Stored, NoStep
  <1>2. FreshPart(rec.tokens, step, Threshold(t)) \subseteq rec.tokens
    BY DEF FreshPart
  <1> QED
    BY <1>1, <1>2 DEF Lifecycle, GroupRecord, Place, Pending, Stored

\* put_generated_group stores a finished generation as COMPLETED or ABORTED only
\* when it is fresh, with every new token labelled; everything else is freed or
\* becomes EXPIRED.
LEMMA PutResult ==
    ASSUME NEW rec \in GroupRecord, NEW t \in Tasks, NEW label \in Nat, NEW step \in Nat,
           NEW keep \in BOOLEAN,
           rec.out \in GenOutcome \ {"RAISED"},
           rec.gen # NoStep => label <= rec.gen,
           \A k \in rec.tokens : k.label <= k.gen
    PROVE  LET r == PutGenerated(rec, t, label, step, keep) IN
           /\ r \in GroupRecord
           /\ r.at \in {"free"} \cup Stored
           /\ \A k \in r.tokens : k.label <= k.gen
           /\ r.at \in {"COMPLETED", "ABORTED"} => ~HasStale(r.tokens, step, Threshold(t))
           /\ r.at = "COMPLETED" =>
                 /\ rec.out = "COMPLETED"
                 /\ rec.tokens # {} \/ rec.gen # NoStep => r.tokens # {}
  <1> DEFINE labelled == IF rec.gen = NoStep THEN rec.tokens
                         ELSE rec.tokens \cup {[label |-> label, gen |-> rec.gen]}
             stored == [at |-> rec.out, out |-> "none", tokens |-> labelled, gen |-> NoStep]
  <1>1. CASE rec.out = "FAILED"
    <2>1. PutGenerated(rec, t, label, step, keep) = NoGroup
      BY <1>1 DEF PutGenerated
    <2> QED
      BY <2>1 DEF NoGroup, GroupRecord, Place, Pending, Stored, NoStep
  <1>2. CASE rec.out # "FAILED"
    <2>1. rec.out \in {"COMPLETED", "ABORTED"}
      BY <1>2 DEF GenOutcome
    <2>2. labelled \subseteq Token /\ \A k \in labelled : k.label <= k.gen
      BY DEF GroupRecord, Token, NoStep
    <2>3. stored \in GroupRecord
      BY <2>1, <2>2 DEF GroupRecord, Place, Pending, Stored, NoStep
    <2>4. PutGenerated(rec, t, label, step, keep) = Lifecycle(stored, t, step, keep)
      BY <1>2 DEF PutGenerated
    <2>5. rec.tokens # {} \/ rec.gen # NoStep => labelled # {}
      OBVIOUS
    <2> HIDE DEF labelled
    <2> QED
      BY <2>1, <2>2, <2>3, <2>4, <2>5, LifecycleResult
         DEF NoGroup, Stored
  <1> QED
    BY <1>1, <1>2

-----------------------------------------------------------------------------
(* Type correctness.                                                       *)

\* While pause_produce drains, the task it works on is one of those left.
LEMMA DrainingTask == ASSUME to_drain # {} PROVE Draining \in to_drain
  BY Zenon DEF Draining

\* ensure_target_upto keeps the targets natural numbers.
LEMMA TargetType ==
    ASSUME ManagerTypeOK, EnsureTargetUpto
    PROVE  target_samples' \in [Tasks -> Nat] /\ target_upto_future_step' \in Nat
  <1> DEFINE missing == IF producer_future_step > target_upto_future_step
                        THEN producer_future_step - target_upto_future_step ELSE 0
  <1>1. missing \in Nat
    BY DEF ManagerTypeOK
  <1>2. /\ target_samples' = [t \in Tasks |-> target_samples[t] + missing * BatchSize[t]]
        /\ target_upto_future_step' = target_upto_future_step + missing
    BY DEF EnsureTargetUpto
  <1> HIDE DEF missing
  <1>3. ASSUME NEW t \in Tasks PROVE target_samples[t] + missing * BatchSize[t] \in Nat
    <2>1. target_samples[t] \in Nat /\ BatchSize[t] \in Nat
      BY ConfigAssumption DEF ManagerTypeOK
    <2>2. missing * BatchSize[t] \in Nat
      BY <1>1, <2>1
    <2> QED
      BY <2>1, <2>2
  <1> QED
    BY <1>1, <1>2, <1>3 DEF ManagerTypeOK

\* Every step keeps the types of the manager's and the coroutines' state.
LEMMA ControlTypeStep ==
    ASSUME TypeOK, [Next]_vars
    PROVE  ManagerTypeOK' /\ CoroutineTypeOK'
  <1> USE ConfigAssumption, TasksAssumption DEF TypeOK, ManagerTypeOK, CoroutineTypeOK,
          groupVars, managerVars, progressVars, producerVars, trainerVars
  <1>1. CASE LoopExit
    BY <1>1 DEF LoopExit
  <1>2. CASE LoopExpired
    BY <1>2, TargetType DEF LoopExpired, LoopMayProduce
  <1>3. CASE LoopStartRound
    <2>1. target_samples' \in [Tasks -> Nat] /\ target_upto_future_step' \in Nat
      BY <1>3, TargetType DEF LoopStartRound, LoopMayProduce
    <2>2. task_pc' \in [Tasks -> {"off", "start"}]
      BY <1>3 DEF LoopStartRound
    <2> QED
      BY <1>3, <2>1, <2>2 DEF LoopStartRound
  <1>4. CASE LoopEndRound
    BY <1>4 DEF LoopEndRound
  <1>5. CASE LoopRaise
    BY <1>5 DEF LoopRaise
  <1>6. ASSUME NEW t \in Tasks, TaskAbort(t) PROVE ManagerTypeOK' /\ CoroutineTypeOK'
    BY <1>6 DEF TaskAbort
  <1>7. ASSUME NEW t \in Tasks, TaskClaim(t) PROVE ManagerTypeOK' /\ CoroutineTypeOK'
    BY <1>7 DEF TaskClaim
  <1>8. ASSUME NEW t \in Tasks, TaskPut(t) PROVE ManagerTypeOK' /\ CoroutineTypeOK'
    BY <1>8 DEF TaskPut, MaySuspend
  <1>9. ASSUME NEW t \in Tasks, TaskRaise(t) PROVE ManagerTypeOK' /\ CoroutineTypeOK'
    BY <1>9 DEF TaskRaise
  <1>10. ASSUME NEW t \in Tasks, TaskPutDone(t) PROVE ManagerTypeOK' /\ CoroutineTypeOK'
    BY <1>10 DEF TaskPutDone
  <1>11. ASSUME NEW t \in Tasks, TaskChoosePool(t) PROVE ManagerTypeOK' /\ CoroutineTypeOK'
    BY <1>11 DEF TaskChoosePool
  <1>12. ASSUME NEW t \in Tasks, TaskEnough(t) PROVE ManagerTypeOK' /\ CoroutineTypeOK'
    BY <1>12 DEF TaskEnough
  <1>13. ASSUME NEW t \in Tasks, TaskSchedule(t) PROVE ManagerTypeOK' /\ CoroutineTypeOK'
    BY <1>13 DEF TaskSchedule
  <1>14. ASSUME NEW t \in Tasks, TaskWait(t) PROVE ManagerTypeOK' /\ CoroutineTypeOK'
    BY <1>14 DEF TaskWait
  <1>15. ASSUME NEW g \in Gids, Generate(g) PROVE ManagerTypeOK' /\ CoroutineTypeOK'
    BY <1>15 DEF Generate
  <1>16. CASE TrainerGetBatch
    BY <1>16 DEF TrainerGetBatch, MaySuspend
  <1>17. CASE TrainerEmptyExpired
    BY <1>17 DEF TrainerEmptyExpired, NewerModelExists
  <1>18. CASE TrainerTakeBatch
    BY <1>18 DEF TrainerTakeBatch
  <1>19. CASE TrainerNotReady
    BY <1>19 DEF TrainerNotReady
  <1>20. CASE TrainerSeesDeadProducer
    BY <1>20 DEF TrainerSeesDeadProducer
  <1>21. CASE TrainerStartTraining
    BY <1>21 DEF TrainerStartTraining
  <1>22. CASE TrainerTrained
    BY <1>22 DEF TrainerTrained
  <1>23. CASE TrainerPause
    BY <1>23 DEF TrainerPause
  <1>24. CASE TrainerPaused
    BY <1>24 DEF TrainerPaused
  <1>25. CASE DrainWait
    BY <1>25 DEF DrainWait
  <1>26. CASE DrainClaim
    BY <1>26 DEF DrainClaim
  <1>27. CASE DrainPut
    BY <1>27 DEF DrainPut, MaySuspend
  <1>28. CASE DrainRaise
    BY <1>28 DEF DrainRaise
  <1>29. CASE DrainNext
    BY <1>29 DEF DrainNext
  <1>30. CASE TrainerSave
    BY <1>30 DEF TrainerSave
  <1>31. CASE TrainerWeightUpdate
    BY <1>31 DEF TrainerWeightUpdate
  <1>32. CASE TrainerContinue
    BY <1>32 DEF TrainerContinue
  <1>33. CASE TrainerResumed
    <2>1. /\ trainer_pc' \in {"finish", "get"}
          /\ train_step' \in {train_step, train_step + 1}
          /\ runner' \in {Trainer, Idle}
      BY <1>33 DEF TrainerResumed
    <2>2. train_step' \in Nat \ {0}
      BY <2>1
    <2> QED
      BY <1>33, <2>1, <2>2 DEF TrainerResumed
  <1>34. CASE TrainerShutdown
    BY <1>34 DEF TrainerShutdown
  <1>35. CASE TrainerJoin
    BY <1>35 DEF TrainerJoin
  <1>36. CASE DrainTimeout
    BY <1>36 DEF DrainTimeout
  <1>37. CASE UNCHANGED vars
    BY <1>37 DEF vars
  <1> QED
    BY <1>1, <1>2, <1>3, <1>4, <1>5, <1>6, <1>7, <1>8, <1>9, <1>10, <1>11, <1>12, <1>13, <1>14, <1>15, <1>16, <1>17, <1>18, <1>19, <1>20, <1>21, <1>22, <1>23, <1>24, <1>25, <1>26, <1>27, <1>28, <1>29, <1>30, <1>31, <1>32, <1>33, <1>34, <1>35, <1>36, <1>37
       DEF Next, LoopStep, TaskStep, TrainerStep, DrainStep, Terminated

-----------------------------------------------------------------------------
(* The inductive invariant.                                                *)

Syncing == {"pausing", "drain", "update", "resume", "resuming"}

\* The coroutines' side: what the trainer's position says of the events, the status
\* and the model steps.
ControlInv ==
    /\ loop_pc = "top" => \A t \in Tasks : task_pc[t] = "off"
    /\ trainer_pc \in Syncing => update_event /\ status = "UPDATE_WEIGHT_AND_ABORT"
    /\ trainer_pc \in {"get", "poll", "taken", "train", "pause"} => status # "FINISH"
    /\ trainer_pc = "poll" => next_consumer_step = train_step
    /\ trainer_pc \in {"update", "resume", "resuming"} => to_drain = {}
\* Model steps: labels never run ahead of the engine's weights, and the weights
\* never run ahead of what is trained.
StepInv ==
    /\ ctx_model <= model_step
    /\ trainer_pc # "update" => model_step <= weights
    /\ trainer_pc \in {"get", "poll", "taken", "train"} => model_step < train_step
    /\ trainer_pc \in {"taken", "train"} => batch_status # "EMPTY_EXPIRED"
    /\ trainer_pc \in {"pause"} \cup Syncing =>
          /\ model_step <= sync_step /\ sync_step <= train_step
          /\ batch_status = "EMPTY_EXPIRED" => sync_step < train_step
    /\ trainer_pc \in {"resume", "resuming"} => weights = sync_step
    /\ trainer_pc = "resuming" => model_step = sync_step

\* The groups' side, one conjunct per question.
GroupsTyped == group \in [Gids -> GroupRecord]
OutcomeKnown ==
    \A g \in Gids : group[g].at \in {"done", "claimed", "draining"} =>
        /\ group[g].out \in GenOutcome
        /\ group[g].out = "COMPLETED" => group[g].tokens # {} \/ group[g].gen # NoStep
TokensKept == \A g \in Gids : group[g].at = "COMPLETED" => group[g].tokens # {}
\* A generation in flight runs on weights at least as new as the label it will get.
LabelsReady ==
    \A g \in Gids :
        /\ group[g].at = "running" => group[g].gen # NoStep
        /\ group[g].at \in {"running", "done", "draining"} /\ group[g].gen # NoStep =>
              model_step <= group[g].gen
        /\ group[g].at = "claimed" /\ group[g].gen # NoStep => ctx_model <= group[g].gen
\* Only a coroutine inside _put_claimed_tasks holds claimed groups.
ClaimsHeld ==
    \A g \in Gids : group[g].at = "claimed" => task_pc[TaskOf[g]] \in {"recycle", "put"}
\* A drained task has nothing in flight until generation is resumed.
Drained ==
    trainer_pc \in {"drain", "update", "resume", "resuming"} =>
        \A g \in Gids : group[g].at \in {"running", "done", "draining"} =>
            TaskOf[g] \in to_drain
BatchHeld ==
    \A g \in Gids : group[g].at = "batch" =>
        trainer_pc \in {"taken", "train", "finish", "join", "done"}

GroupInv ==
    /\ GroupsTyped /\ OutcomeKnown /\ TokensKept /\ LabelsReady /\ ClaimsHeld /\ Drained
    /\ BatchHeld /\ LabelNotNewerThanWeights /\ BufferFresh /\ TrainedWithinStaleness
IInv == ManagerTypeOK /\ CoroutineTypeOK /\ ControlInv /\ StepInv /\ GroupInv

\* Every step keeps the coroutines' side of the invariant.
LEMMA ControlStep ==
    ASSUME IInv, [Next]_vars
    PROVE  ControlInv' /\ StepInv'
  <1> USE DEF IInv, ManagerTypeOK, CoroutineTypeOK, ControlInv, StepInv, Syncing,
          groupVars, managerVars, progressVars, producerVars, trainerVars
  <1>1. CASE LoopExit
    BY <1>1 DEF LoopExit
  <1>2. CASE LoopExpired
    BY <1>2 DEF LoopExpired, LoopMayProduce
  <1>3. CASE LoopStartRound
    BY <1>3 DEF LoopStartRound, LoopMayProduce
  <1>4. CASE LoopEndRound
    BY <1>4 DEF LoopEndRound
  <1>5. CASE LoopRaise
    BY <1>5 DEF LoopRaise
  <1>6. ASSUME NEW t \in Tasks, TaskAbort(t) PROVE ControlInv' /\ StepInv'
    BY <1>6 DEF TaskAbort
  <1>7. ASSUME NEW t \in Tasks, TaskClaim(t) PROVE ControlInv' /\ StepInv'
    BY <1>7 DEF TaskClaim
  <1>8. ASSUME NEW t \in Tasks, TaskPut(t) PROVE ControlInv' /\ StepInv'
    BY <1>8 DEF TaskPut
  <1>9. ASSUME NEW t \in Tasks, TaskRaise(t) PROVE ControlInv' /\ StepInv'
    BY <1>9 DEF TaskRaise
  <1>10. ASSUME NEW t \in Tasks, TaskPutDone(t) PROVE ControlInv' /\ StepInv'
    BY <1>10 DEF TaskPutDone
  <1>11. ASSUME NEW t \in Tasks, TaskChoosePool(t) PROVE ControlInv' /\ StepInv'
    BY <1>11 DEF TaskChoosePool
  <1>12. ASSUME NEW t \in Tasks, TaskEnough(t) PROVE ControlInv' /\ StepInv'
    BY <1>12 DEF TaskEnough
  <1>13. ASSUME NEW t \in Tasks, TaskSchedule(t) PROVE ControlInv' /\ StepInv'
    BY <1>13 DEF TaskSchedule
  <1>14. ASSUME NEW t \in Tasks, TaskWait(t) PROVE ControlInv' /\ StepInv'
    BY <1>14 DEF TaskWait
  <1>15. ASSUME NEW g \in Gids, Generate(g) PROVE ControlInv' /\ StepInv'
    BY <1>15 DEF Generate
  <1>16. CASE TrainerGetBatch
    BY <1>16 DEF TrainerGetBatch
  <1>17. CASE TrainerEmptyExpired
    BY <1>17 DEF TrainerEmptyExpired, NewerModelExists
  <1>18. CASE TrainerTakeBatch
    BY <1>18 DEF TrainerTakeBatch
  <1>19. CASE TrainerNotReady
    BY <1>19 DEF TrainerNotReady
  <1>20. CASE TrainerSeesDeadProducer
    BY <1>20 DEF TrainerSeesDeadProducer
  <1>21. CASE TrainerStartTraining
    BY <1>21 DEF TrainerStartTraining
  <1>22. CASE TrainerTrained
    BY <1>22 DEF TrainerTrained
  <1>23. CASE TrainerPause
    BY <1>23 DEF TrainerPause
  <1>24. CASE TrainerPaused
    BY <1>24 DEF TrainerPaused
  <1>25. CASE DrainWait
    BY <1>25 DEF DrainWait
  <1>26. CASE DrainClaim
    BY <1>26 DEF DrainClaim
  <1>27. CASE DrainPut
    BY <1>27 DEF DrainPut
  <1>28. CASE DrainRaise
    BY <1>28 DEF DrainRaise, AtDrain
  <1>29. CASE DrainNext
    BY <1>29 DEF DrainNext, AtDrain
  <1>30. CASE TrainerSave
    BY <1>30 DEF TrainerSave
  <1>31. CASE TrainerWeightUpdate
    BY <1>31 DEF TrainerWeightUpdate
  <1>32. CASE TrainerContinue
    BY <1>32 DEF TrainerContinue
  <1>33. CASE TrainerResumed
    BY <1>33 DEF TrainerResumed
  <1>34. CASE TrainerShutdown
    BY <1>34 DEF TrainerShutdown
  <1>35. CASE TrainerJoin
    BY <1>35 DEF TrainerJoin
  <1>36. CASE DrainTimeout
    BY <1>36 DEF DrainTimeout
  <1>37. CASE UNCHANGED vars
    BY <1>37 DEF vars
  <1> QED
    BY <1>1, <1>2, <1>3, <1>4, <1>5, <1>6, <1>7, <1>8, <1>9, <1>10, <1>11, <1>12, <1>13,
       <1>14, <1>15, <1>16, <1>17, <1>18, <1>19, <1>20, <1>21, <1>22, <1>23, <1>24,
       <1>25, <1>26, <1>27, <1>28, <1>29, <1>30, <1>31, <1>32, <1>33, <1>34, <1>35,
       <1>36, <1>37
       DEF Next, LoopStep, TaskStep, TrainerStep, DrainStep, Terminated

\* Moving a group changes its place only.
LEMMA MovedFields ==
    ASSUME NEW rec, NEW place
    PROVE  /\ Moved(rec, place).at = place /\ Moved(rec, place).out = rec.out
           /\ Moved(rec, place).tokens = rec.tokens /\ Moved(rec, place).gen = rec.gen
  BY DEF Moved

\* The group part of a generation's end.
LEMMA GenerateForm ==
    ASSUME NEW g \in Gids, Generate(g)
    PROVE  \E out \in GenOutcome, old \in SUBSET group[g].tokens, made \in BOOLEAN :
              /\ out = "COMPLETED" => made \/ old # {}
              /\ group' = [group EXCEPT ![g] =
                     IF out \in {"FAILED", "RAISED"}
                     THEN [at |-> "done", out |-> out, tokens |-> {}, gen |-> NoStep]
                     ELSE [at |-> "done", out |-> out, tokens |-> old,
                           gen |-> IF made THEN group[g].gen ELSE NoStep]]
  <1>1. Outcomes \cap (IF update_event THEN GenOutcome ELSE GenOutcome \ {"ABORTED"})
           \subseteq GenOutcome
    OBVIOUS
  <1>2. (IF Partial THEN {group[g].tokens} ELSE SUBSET group[g].tokens)
           \subseteq SUBSET group[g].tokens
    OBVIOUS
  <1> QED
    BY <1>1, <1>2, Zenon DEF Generate

\* The group part of take_train_batch and the refresh that follows it.
LEMMA TakeBatchForm ==
    ASSUME TrainerTakeBatch
    PROVE  \E B \in SUBSET {h \in Gids : group[h].at = "COMPLETED"},
              kept \in SUBSET PartlyFresh(train_step + 1) :
              group' = [h \in Gids |-> IF h \in B THEN Moved(group[h], "batch")
                                       ELSE Refreshed(h, train_step + 1, kept)]
  BY Zenon DEF TrainerTakeBatch

\* A free slot is a group record without tokens.
LEMMA FreeSlot == NoGroup \in GroupRecord /\ NoGroup.at = "free" /\ NoGroup.tokens = {}
  BY DEF NoGroup, GroupRecord, Place, Pending, Stored, NoStep

\* The next group comes from the task's own slots (Sampler.sample).
LEMMA SampleFromTask ==
    ASSUME NEW t \in Tasks PROVE SamplePool(t) \subseteq {g \in Gids : TaskOf[g] = t}
  BY Zenon DEF SamplePool, In, Stalest

\* What a refresh may do to one record: leave it, and then it is fresh; free it; or
\* move it to EXPIRED with some of its tokens.
RefreshedOK(old, new, t, step) ==
    /\ new \in GroupRecord
    /\ \/ new = old /\ (old.at \in Stored => ~HasStale(old.tokens, step, Threshold(t)))
       \/ new = NoGroup
       \/ new.at = "EXPIRED" /\ new.tokens \subseteq old.tokens

LEMMA RefreshedResult ==
    ASSUME GroupsTyped, NEW g \in Gids, NEW step \in Nat, NEW kept
    PROVE  RefreshedOK(group[g], Refreshed(g, step, kept), TaskOf[g], step)
  <1>1. TaskOf[g] \in Tasks /\ group[g] \in GroupRecord /\ (g \in kept) \in BOOLEAN
    BY TasksAssumption DEF GroupsTyped
  <1>2. CASE group[g].at \in Stored
    <2>1. Refreshed(g, step, kept) = Lifecycle(group[g], TaskOf[g], step, g \in kept)
      BY <1>2 DEF Refreshed
    <2> DEFINE keep == g \in kept
               r == Lifecycle(group[g], TaskOf[g], step, keep)
    <2>2. keep \in BOOLEAN
      OBVIOUS
    <2> HIDE DEF keep
    <2>3. /\ r \in GroupRecord
          /\ \/ r = group[g] /\ ~HasStale(group[g].tokens, step, Threshold(TaskOf[g]))
             \/ r = NoGroup
             \/ r.at = "EXPIRED" /\ r.tokens \subseteq group[g].tokens
      BY <1>1, <2>2, LifecycleResult
    <2> QED
      BY <2>1, <2>3 DEF RefreshedOK, keep
  <1>3. CASE group[g].at \notin Stored
    BY <1>1, <1>3 DEF Refreshed, RefreshedOK
  <1> QED
    BY <1>2, <1>3

\* Every step keeps the groups' side of the invariant.
LEMMA GroupStep ==
    ASSUME IInv, [Next]_vars
    PROVE  GroupInv'
  <1> USE TasksAssumption
      DEF IInv, ManagerTypeOK, CoroutineTypeOK, ControlInv, StepInv, Syncing, GroupInv,
          GroupsTyped, OutcomeKnown, TokensKept, LabelsReady, ClaimsHeld, Drained, BatchHeld,
          LabelNotNewerThanWeights, BufferFresh, TrainedWithinStaleness,
          groupVars, managerVars, progressVars, producerVars, trainerVars
  <1>1. CASE LoopExit
    BY <1>1 DEF LoopExit
  <1>2. CASE LoopExpired
    BY <1>2 DEF LoopExpired, LoopMayProduce
  <1>3. CASE LoopStartRound
    BY <1>3 DEF LoopStartRound, LoopMayProduce
  <1>4. CASE LoopEndRound
    BY <1>4 DEF LoopEndRound
  <1>5. CASE LoopRaise
    BY <1>5 DEF LoopRaise
  <1>6. ASSUME NEW t \in Tasks, TaskAbort(t) PROVE GroupInv'
    BY <1>6 DEF TaskAbort
  <1>7. ASSUME NEW t \in Tasks, TaskClaim(t) PROVE GroupInv'
    <2>1. \A h \in Gids : group'[h] = IF h \in In(t, "done")
                                      THEN Moved(group[h], "claimed") ELSE group[h]
      BY <1>7 DEF TaskClaim
    <2>2. \A h \in Gids : Moved(group[h], "claimed") \in GroupRecord
      BY DEF Moved, GroupRecord, Place
    <2>3. group' \in [Gids -> GroupRecord]
      BY <1>7, <2>1, <2>2 DEF TaskClaim
    <2>4. ASSUME NEW h \in Gids
          PROVE  /\ group'[h].out = group[h].out /\ group'[h].tokens = group[h].tokens
                 /\ group'[h].gen = group[h].gen
                 /\ IF TaskOf[h] = t /\ group[h].at = "done"
                    THEN group'[h].at = "claimed" ELSE group'[h].at = group[h].at
      <3>1. CASE h \in In(t, "done")
        <4>1. group'[h] = Moved(group[h], "claimed")
          BY <2>1, <3>1
        <4>2. TaskOf[h] = t /\ group[h].at = "done"
          BY <3>1 DEF In
        <4> QED
          BY <4>1, <4>2, MovedFields
      <3>2. CASE h \notin In(t, "done")
        BY <2>1, <3>2 DEF In
      <3> QED
        BY <3>1, <3>2
    <2>5. /\ UNCHANGED <<model_step, ctx_model, next_consumer_step, trainerVars>>
          /\ \A s \in Tasks \ {t} : task_pc'[s] = task_pc[s]
          /\ task_pc'[t] \in {"recycle", "put"}
      BY <1>7 DEF TaskClaim
    <2>6. ClaimsHeld'
      BY <2>4, <2>5
    <2>7. LabelsReady'
      BY <2>3, <2>4, <2>5 DEF GroupRecord
    <2>8. OutcomeKnown' /\ TokensKept' /\ Drained' /\ BatchHeld'
      BY <2>4, <2>5
    <2>9. LabelNotNewerThanWeights' /\ BufferFresh' /\ TrainedWithinStaleness'
      BY <2>4, <2>5
    <2> QED
      BY <2>3, <2>6, <2>7, <2>8, <2>9
  <1>8. ASSUME NEW t \in Tasks, TaskPut(t) PROVE GroupInv'
    <2>1. PICK h \in In(t, "claimed"), keep \in BOOLEAN :
             /\ group[h].out # "RAISED"
             /\ group' = [group EXCEPT ![h] =
                    PutGenerated(@, t, ctx_model, next_consumer_step, keep)]
      BY <1>8 DEF TaskPut
    <2>2. h \in Gids /\ TaskOf[h] = t /\ group[h].at = "claimed"
      BY DEF In
    <2> DEFINE r == PutGenerated(group[h], t, ctx_model, next_consumer_step, keep)
    <2>3. /\ r \in GroupRecord
          /\ r.at \in {"free"} \cup Stored
          /\ \A k \in r.tokens : k.label <= k.gen
          /\ r.at \in {"COMPLETED", "ABORTED"} =>
                ~HasStale(r.tokens, next_consumer_step, Threshold(t))
          /\ r.at = "COMPLETED" => r.tokens # {}
      <3>1. /\ group[h] \in GroupRecord /\ t \in Tasks
            /\ ctx_model \in Nat /\ next_consumer_step \in Nat
        BY <2>2
      <3>2. /\ group[h].out \in GenOutcome \ {"RAISED"}
            /\ group[h].gen # NoStep => ctx_model <= group[h].gen
            /\ \A k \in group[h].tokens : k.label <= k.gen
            /\ group[h].out = "COMPLETED" => group[h].tokens # {} \/ group[h].gen # NoStep
        BY <2>1, <2>2
      <3> HIDE DEF IInv
      <3> QED
        BY <3>1, <3>2, PutResult
    <2>4. group' = [group EXCEPT ![h] = r]
      BY <2>1
    <2> HIDE DEF r
    <2>5. UNCHANGED <<managerVars, weights, progressVars, producerVars, trainerVars>>
      BY <1>8 DEF TaskPut
    <2> QED
      BY <2>2, <2>3, <2>4, <2>5 DEF Stored
  <1>9. ASSUME NEW t \in Tasks, TaskRaise(t) PROVE GroupInv'
    <2>1. \A h \in Gids : group'[h] \in {group[h], NoGroup}
      BY <1>9 DEF TaskRaise
    <2>2. group' \in [Gids -> GroupRecord]
      BY <1>9, <2>1, FreeSlot DEF TaskRaise
    <2> QED
      BY <1>9, <2>1, <2>2, FreeSlot DEF TaskRaise, In
  <1>10. ASSUME NEW t \in Tasks, TaskPutDone(t) PROVE GroupInv'
    BY <1>10 DEF TaskPutDone, In
  <1>11. ASSUME NEW t \in Tasks, TaskChoosePool(t) PROVE GroupInv'
    BY <1>11 DEF TaskChoosePool
  <1>12. ASSUME NEW t \in Tasks, TaskEnough(t) PROVE GroupInv'
    BY <1>12 DEF TaskEnough
  <1>13. ASSUME NEW t \in Tasks, TaskSchedule(t) PROVE GroupInv'
    <2>1. PICK h \in SamplePool(t) : group' =
             [group EXCEPT ![h] = [at |-> "running", out |-> "none", tokens |-> @.tokens,
                                   gen |-> weights]]
      BY <1>13 DEF TaskSchedule
    <2>2. h \in Gids
      BY SampleFromTask
    <2>3. group'[h] \in GroupRecord
      BY <2>1, <2>2 DEF GroupRecord, Place, Pending
    <2>4. \A k \in Gids : k # h => group'[k] = group[k]
      BY <2>1
    <2>5. /\ group'[h].at = "running" /\ group'[h].tokens = group[h].tokens
          /\ group'[h].gen = weights
      BY <2>1, <2>2
    <2>6. group' \in [Gids -> GroupRecord]
      BY <2>1, <2>2, <2>3, <2>4
    <2> QED
      BY <1>13, <2>2, <2>4, <2>5, <2>6, FreeSlot DEF TaskSchedule, NoStep
  <1>14. ASSUME NEW t \in Tasks, TaskWait(t) PROVE GroupInv'
    BY <1>14 DEF TaskWait
  <1>15. ASSUME NEW g \in Gids, Generate(g) PROVE GroupInv'
    <2>1. PICK r \in GroupRecord :
             /\ group' = [group EXCEPT ![g] = r]
             /\ r.at = "done" /\ r.out \in GenOutcome
             /\ r.tokens \subseteq group[g].tokens
             /\ r.out = "COMPLETED" => r.tokens # {} \/ r.gen # NoStep
             /\ r.gen # NoStep => r.gen = group[g].gen
      <3>1. PICK out \in GenOutcome, old \in SUBSET group[g].tokens, made \in BOOLEAN :
               /\ out = "COMPLETED" => made \/ old # {}
               /\ group' = [group EXCEPT ![g] =
                      IF out \in {"FAILED", "RAISED"}
                      THEN [at |-> "done", out |-> out, tokens |-> {}, gen |-> NoStep]
                      ELSE [at |-> "done", out |-> out, tokens |-> old,
                            gen |-> IF made THEN group[g].gen ELSE NoStep]]
        BY <1>15, GenerateForm
      <3> DEFINE r == IF out \in {"FAILED", "RAISED"}
                      THEN [at |-> "done", out |-> out, tokens |-> {}, gen |-> NoStep]
                      ELSE [at |-> "done", out |-> out, tokens |-> old,
                            gen |-> IF made THEN group[g].gen ELSE NoStep]
      <3>2. r \in GroupRecord
        BY DEF GroupRecord, Place, Pending
      <3>3. group[g].at = "running" /\ group[g].gen # NoStep
        BY <1>15 DEF Generate
      <3>4. /\ r.at = "done" /\ r.out = out /\ r.tokens \subseteq group[g].tokens
            /\ r.out = "COMPLETED" => r.tokens # {} \/ r.gen # NoStep
            /\ r.gen # NoStep => r.gen = group[g].gen
        BY <3>1, <3>3
      <3>5. group' = [group EXCEPT ![g] = r]
        BY <3>1
      <3> HIDE DEF r
      <3> QED
        BY <3>2, <3>4, <3>5
    <2>2. \A h \in Gids : group'[h] = IF h = g THEN r ELSE group[h]
      BY <2>1
    <2>3. group' \in [Gids -> GroupRecord]
      BY <2>1, <2>2
    <2> QED
      BY <1>15, <2>1, <2>2, <2>3 DEF Generate
  <1>16. CASE TrainerGetBatch
    <2>1. PICK kept \in SUBSET PartlyFresh(train_step) :
             group' = [h \in Gids |-> Refreshed(h, train_step, kept)]
      BY <1>16 DEF TrainerGetBatch, Refresh
    <2>2. \A h \in Gids : RefreshedOK(group[h], group'[h], TaskOf[h], train_step)
      BY <2>1, RefreshedResult
    <2>3. group' \in [Gids -> GroupRecord]
      BY <2>1, <2>2 DEF RefreshedOK
    <2> QED
      BY <1>16, <2>2, <2>3, FreeSlot DEF TrainerGetBatch, RefreshedOK, Stored
  <1>17. CASE TrainerEmptyExpired
    BY <1>17 DEF TrainerEmptyExpired, NewerModelExists
  <1>18. CASE TrainerTakeBatch
    <2>1. PICK B \in SUBSET {h \in Gids : group[h].at = "COMPLETED"},
                kept \in SUBSET PartlyFresh(train_step + 1) :
             group' = [h \in Gids |-> IF h \in B THEN Moved(group[h], "batch")
                                      ELSE Refreshed(h, train_step + 1, kept)]
      BY <1>18, TakeBatchForm
    <2>2. \A h \in Gids \ B : RefreshedOK(group[h], group'[h], TaskOf[h], train_step + 1)
      BY <2>1, RefreshedResult
    <2>3. \A h \in B : /\ group'[h] \in GroupRecord
                        /\ group'[h].at = "batch" /\ group'[h].tokens = group[h].tokens
      BY <2>1 DEF Moved, GroupRecord, Place
    <2>4. group' \in [Gids -> GroupRecord]
      BY <2>1, <2>2, <2>3 DEF RefreshedOK
    <2>5. ASSUME NEW h \in B, NEW k \in group[h].tokens
          PROVE  ~IsStale(k.gen, train_step, Threshold(TaskOf[h]))
      <3>1. group[h].at = "COMPLETED" /\ h \in Gids /\ next_consumer_step = train_step
        BY <1>18 DEF TrainerTakeBatch
      <3>2. ~IsStale(k.label, train_step, Threshold(TaskOf[h])) /\ k.label <= k.gen
        BY <3>1 DEF HasStale
      <3>3. k.label \in Nat /\ k.gen \in Nat /\ Threshold(TaskOf[h]) \in Nat
        BY <3>1, ThresholdType DEF GroupRecord, Token
      <3> QED
        BY <3>2, <3>3 DEF IsStale, SeqStaleness
    <2>6. \A h \in Gids : group[h].at # "batch"
      BY <1>18 DEF TrainerTakeBatch
    <2>7. /\ UNCHANGED <<model_step, ctx_model, task_pc, train_step>>
          /\ next_consumer_step' = train_step + 1 /\ trainer_pc' = "taken"
      BY <1>18 DEF TrainerTakeBatch, managerVars, producerVars
    <2>8. TokensKept' /\ LabelNotNewerThanWeights' /\ BatchHeld' /\ OutcomeKnown'
      BY <2>2, <2>3, <2>4, <2>6, <2>7, FreeSlot DEF RefreshedOK, Stored
    <2>9. TrainedWithinStaleness'
      BY <2>2, <2>3, <2>4, <2>5, <2>6, <2>7, FreeSlot DEF RefreshedOK, Stored
    <2>10. BufferFresh'
      BY <2>2, <2>3, <2>4, <2>6, <2>7, FreeSlot DEF RefreshedOK, Stored
    <2>11. LabelsReady' /\ ClaimsHeld' /\ Drained'
      BY <2>2, <2>3, <2>4, <2>6, <2>7, FreeSlot DEF RefreshedOK, Stored
    <2> QED
      BY <2>4, <2>8, <2>9, <2>10, <2>11
  <1>19. CASE TrainerNotReady
    BY <1>19 DEF TrainerNotReady
  <1>20. CASE TrainerSeesDeadProducer
    BY <1>20 DEF TrainerSeesDeadProducer
  <1>21. CASE TrainerStartTraining
    BY <1>21 DEF TrainerStartTraining
  <1>22. CASE TrainerTrained
    <2>1. \A h \in Gids : group'[h] \in {group[h], NoGroup}
      BY <1>22 DEF TrainerTrained
    <2>2. group' \in [Gids -> GroupRecord]
      BY <1>22, <2>1, FreeSlot DEF TrainerTrained
    <2> QED
      BY <1>22, <2>1, <2>2, FreeSlot DEF TrainerTrained
  <1>23. CASE TrainerPause
    BY <1>23 DEF TrainerPause
  <1>24. CASE TrainerPaused
    BY <1>24 DEF TrainerPaused
  <1>25. CASE DrainWait
    BY <1>25 DEF DrainWait
  <1>26. CASE DrainClaim
    <2>1. \A h \in Gids : group'[h] = IF h \in In(Draining, "done")
                                      THEN Moved(group[h], "draining") ELSE group[h]
      BY <1>26 DEF DrainClaim
    <2>2. \A h \in Gids : Moved(group[h], "draining") \in GroupRecord
      BY DEF Moved, GroupRecord, Place
    <2>3. group' \in [Gids -> GroupRecord]
      BY <1>26, <2>1, <2>2 DEF DrainClaim
    <2>4. ASSUME NEW h \in Gids
          PROVE  /\ group'[h].out = group[h].out /\ group'[h].tokens = group[h].tokens
                 /\ group'[h].gen = group[h].gen
                 /\ IF TaskOf[h] = Draining /\ group[h].at = "done"
                    THEN group'[h].at = "draining" ELSE group'[h].at = group[h].at
      <3>1. CASE h \in In(Draining, "done")
        <4>1. group'[h] = Moved(group[h], "draining")
          BY <2>1, <3>1
        <4>2. TaskOf[h] = Draining /\ group[h].at = "done"
          BY <3>1 DEF In
        <4> QED
          BY <4>1, <4>2, MovedFields
      <3>2. CASE h \notin In(Draining, "done")
        BY <2>1, <3>2 DEF In
      <3> QED
        BY <3>1, <3>2
    <2> QED
      BY <1>26, <2>3, <2>4 DEF DrainClaim, AtDrain
  <1>27. CASE DrainPut
    <2>1. PICK h \in In(Draining, "draining"), keep \in BOOLEAN :
             /\ group[h].out # "RAISED"
             /\ group' = [group EXCEPT ![h] =
                    PutGenerated(@, Draining, model_step, next_consumer_step, keep)]
      BY <1>27 DEF DrainPut
    <2>2. h \in Gids /\ TaskOf[h] = Draining /\ group[h].at = "draining"
      BY DEF In
    <2> DEFINE r == PutGenerated(group[h], Draining, model_step, next_consumer_step, keep)
    <2>3. /\ r \in GroupRecord
          /\ r.at \in {"free"} \cup Stored
          /\ \A k \in r.tokens : k.label <= k.gen
          /\ r.at \in {"COMPLETED", "ABORTED"} =>
                ~HasStale(r.tokens, next_consumer_step, Threshold(Draining))
          /\ r.at = "COMPLETED" => r.tokens # {}
      <3>1. /\ group[h] \in GroupRecord /\ Draining \in Tasks
            /\ model_step \in Nat /\ next_consumer_step \in Nat
        BY <2>2
      <3>2. /\ group[h].out \in GenOutcome \ {"RAISED"}
            /\ group[h].gen # NoStep => model_step <= group[h].gen
            /\ \A k \in group[h].tokens : k.label <= k.gen
            /\ group[h].out = "COMPLETED" => group[h].tokens # {} \/ group[h].gen # NoStep
        BY <2>1, <2>2
      <3> HIDE DEF IInv
      <3> QED
        BY <3>1, <3>2, PutResult
    <2>4. group' = [group EXCEPT ![h] = r]
      BY <2>1
    <2> HIDE DEF r
    <2>5. UNCHANGED <<managerVars, weights, progressVars, producerVars, trainerVars>>
      BY <1>27 DEF DrainPut
    <2> QED
      BY <2>2, <2>3, <2>4, <2>5 DEF Stored
  <1>28. CASE DrainRaise
    <2>1. \A h \in Gids : group'[h] \in {group[h], NoGroup}
      BY <1>28 DEF DrainRaise
    <2>2. group' \in [Gids -> GroupRecord]
      BY <1>28, <2>1, FreeSlot DEF DrainRaise
    <2> QED
      BY <1>28, <2>1, <2>2, FreeSlot DEF DrainRaise, AtDrain
  <1>29. CASE DrainNext
    BY <1>29 DEF DrainNext, AtDrain, In, PendingOf, Pending
  <1>30. CASE TrainerSave
    BY <1>30 DEF TrainerSave
  <1>31. CASE TrainerWeightUpdate
    BY <1>31 DEF TrainerWeightUpdate
  <1>32. CASE TrainerContinue
    BY <1>32 DEF TrainerContinue
  <1>33. CASE TrainerResumed
    BY <1>33 DEF TrainerResumed
  <1>34. CASE TrainerShutdown
    BY <1>34 DEF TrainerShutdown
  <1>35. CASE TrainerJoin
    BY <1>35 DEF TrainerJoin
  <1>36. CASE DrainTimeout
    <2>1. \A h \in Gids : group'[h] \in {group[h], NoGroup}
      BY <1>36 DEF DrainTimeout
    <2>2. group' \in [Gids -> GroupRecord]
      BY <1>36, <2>1, FreeSlot DEF DrainTimeout
    <2> QED
      BY <1>36, <2>1, <2>2, FreeSlot DEF DrainTimeout
  <1>37. CASE UNCHANGED vars
    BY <1>37 DEF vars
  <1> QED
    BY <1>1, <1>2, <1>3, <1>4, <1>5, <1>6, <1>7, <1>8, <1>9, <1>10, <1>11, <1>12, <1>13,
       <1>14, <1>15, <1>16, <1>17, <1>18, <1>19, <1>20, <1>21, <1>22, <1>23, <1>24,
       <1>25, <1>26, <1>27, <1>28, <1>29, <1>30, <1>31, <1>32, <1>33, <1>34, <1>35,
       <1>36, <1>37
       DEF Next, LoopStep, TaskStep, TrainerStep, DrainStep, Terminated

-----------------------------------------------------------------------------
(* The theorems.                                                           *)

\* The program starts in a state that satisfies the invariant.
LEMMA InvInit == Init => IInv
  <1> SUFFICES ASSUME Init PROVE IInv
    OBVIOUS
  <1>1. ManagerTypeOK /\ CoroutineTypeOK
    <2>1. ManagerTypeOK
      BY DEF Init, ManagerTypeOK
    <2>2. /\ task_pc \in [Tasks -> {"off", "start", "recycle", "recycled", "head", "waiting",
                                 "put", "normal", "aborted", "raised"}]
          /\ ctx_model \in Nat /\ sync_step \in Nat /\ train_step \in Nat \ {0}
      BY DEF Init
    <2>3. use_expired \in [Tasks -> BOOLEAN] /\ to_drain \subseteq Tasks /\ failed \in BOOLEAN
      BY DEF Init
    <2>4. CoroutineTypeOK
      BY <2>2, <2>3 DEF Init, CoroutineTypeOK
    <2> QED
      BY <2>1, <2>4
  <1>2. ControlInv /\ StepInv
    BY DEF Init, ControlInv, StepInv, Syncing
  <1>3. \A g \in Gids : group[g] = NoGroup
    BY DEF Init
  <1>4. GroupsTyped
    BY FreeSlot DEF Init, GroupsTyped
  <1>5. GroupInv
    BY <1>3, <1>4, FreeSlot
       DEF GroupInv, OutcomeKnown, TokensKept, LabelsReady, ClaimsHeld, Drained, BatchHeld,
           LabelNotNewerThanWeights, BufferFresh, TrainedWithinStaleness
  <1> QED
    BY <1>1, <1>2, <1>5 DEF IInv

\* Every reachable state satisfies the invariant.
THEOREM InvariantHolds == Spec => []IInv
  <1>1. Init => IInv
    BY InvInit
  <1>2. IInv /\ [Next]_vars => IInv'
    <2> SUFFICES ASSUME IInv, [Next]_vars PROVE IInv'
      OBVIOUS
    <2>1. ManagerTypeOK' /\ CoroutineTypeOK'
      BY ControlTypeStep DEF IInv, GroupInv, GroupsTyped, TypeOK
    <2> QED
      BY <2>1, ControlStep, GroupStep DEF IInv
  <1> QED
    BY <1>1, <1>2, PTL DEF Spec

\* Type correctness: every variable keeps its type in every reachable state.
THEOREM TypeCorrect == Spec => []TypeOK
  <1>1. IInv => TypeOK
    BY DEF IInv, GroupInv, GroupsTyped, TypeOK
  <1> QED
    BY <1>1, InvariantHolds, PTL

\* The step update_sample_version records for a token is never newer than the weights
\* that produced it, for any number of tasks, groups, pauses and syncs.
THEOREM LabelsAreHonest == Spec => []LabelNotNewerThanWeights
  <1>1. IInv => LabelNotNewerThanWeights
    BY DEF IInv, GroupInv
  <1> QED
    BY <1>1, InvariantHolds, PTL

\* put_generated_group and refresh_staleness keep every usable record of the buffer
\* fresh for the step that is consumed next.
THEOREM BufferStaysFresh == Spec => []BufferFresh
  <1>1. IInv => BufferFresh
    BY DEF IInv, GroupInv
  <1> QED
    BY <1>1, InvariantHolds, PTL

\* Whatever is trained was produced by weights less than stale_threshold steps old.
THEOREM TrainingIsBoundedOffPolicy == Spec => []TrainedWithinStaleness
  <1>1. IInv => TrainedWithinStaleness
    BY DEF IInv, GroupInv
  <1> QED
    BY <1>1, InvariantHolds, PTL

\* A step that moves the weights or the model step finds no generation in flight.
LEMMA SyncStep ==
    ASSUME IInv, [Next]_vars
    PROVE  weights' # weights \/ model_step' # model_step => NothingPending /\ update_event
  <1>1. CASE LoopStep
    BY <1>1 DEF LoopStep, LoopExit, LoopExpired, LoopStartRound, LoopEndRound, LoopRaise,
                managerVars
  <1>2. ASSUME NEW t \in Tasks, TaskStep(t) PROVE UNCHANGED <<weights, model_step>>
    BY <1>2 DEF TaskStep, TaskAbort, TaskClaim, TaskPut, TaskRaise, TaskPutDone, TaskChoosePool,
                TaskEnough, TaskSchedule, TaskWait, managerVars
  <1>3. ASSUME NEW g \in Gids, Generate(g) PROVE UNCHANGED <<weights, model_step>>
    BY <1>3 DEF Generate, managerVars
  <1>4. CASE TrainerSave \/ TrainerWeightUpdate \/ TrainerContinue
    <2>1. trainer_pc \in {"drain", "update", "resume"} /\ to_drain = {} /\ update_event
      BY <1>4 DEF TrainerSave, TrainerWeightUpdate, TrainerContinue, IInv, ControlInv, Syncing
    <2> QED
      BY <2>1 DEF IInv, GroupInv, Drained, NothingPending, PendingOf, Pending
  <1>5. CASE TrainerStep /\ ~(TrainerSave \/ TrainerWeightUpdate \/ TrainerContinue)
    BY <1>5 DEF TrainerStep, TrainerGetBatch, TrainerEmptyExpired, TrainerTakeBatch,
                TrainerNotReady, TrainerSeesDeadProducer, TrainerStartTraining, TrainerTrained,
                TrainerPause, TrainerPaused, DrainStep, DrainWait, DrainClaim, DrainPut,
                DrainRaise, DrainNext, TrainerResumed, TrainerShutdown, TrainerJoin, managerVars
  <1>6. CASE DrainTimeout \/ UNCHANGED vars
    BY <1>6 DEF DrainTimeout, vars, managerVars
  <1> QED
    BY <1>1, <1>2, <1>3, <1>4, <1>5, <1>6 DEF Next, Terminated

\* Weights and model step only move while no generation is in flight and the update
\* event is set (pause_produce before weight_update, continue_produce after it).
THEOREM SyncIsQuiet == Spec => NoSyncUnderGeneration
  <1>1. IInv /\ [Next]_vars =>
           [weights' # weights \/ model_step' # model_step => NothingPending /\ update_event]_vars
    BY SyncStep
  <1> QED
    BY <1>1, InvariantHolds, PTL DEF Spec, NoSyncUnderGeneration

\* A step changes the status along a documented transition only.
LEMMA StatusStep ==
    ASSUME IInv, [Next]_vars
    PROVE  DocumentedTransition(status, status')
  <1> USE DEF DocumentedTransition, managerVars
  <1>1. CASE LoopStep
    BY <1>1 DEF LoopStep, LoopExit, LoopExpired, LoopMayProduce, LoopStartRound, LoopEndRound,
                LoopRaise
  <1>2. ASSUME NEW t \in Tasks, TaskStep(t) PROVE status' = status
    BY <1>2 DEF TaskStep, TaskAbort, TaskClaim, TaskPut, TaskRaise, TaskPutDone, TaskChoosePool,
                TaskEnough, TaskSchedule, TaskWait
  <1>3. ASSUME NEW g \in Gids, Generate(g) PROVE status' = status
    BY <1>3 DEF Generate
  <1>4. CASE TrainerPause
    BY <1>4 DEF TrainerPause, IInv, ControlInv, ManagerTypeOK
  <1>5. CASE TrainerResumed
    BY <1>5 DEF TrainerResumed, IInv, ControlInv, Syncing
  <1>6. CASE TrainerShutdown
    BY <1>6 DEF TrainerShutdown
  <1>7. CASE TrainerStep /\ ~(TrainerPause \/ TrainerResumed \/ TrainerShutdown)
    BY <1>7 DEF TrainerStep, TrainerGetBatch, TrainerEmptyExpired, TrainerTakeBatch,
                TrainerNotReady, TrainerSeesDeadProducer, TrainerStartTraining, TrainerTrained,
                TrainerPaused, DrainStep, DrainWait, DrainClaim, DrainPut, DrainRaise,
                DrainNext, TrainerSave, TrainerWeightUpdate, TrainerContinue, TrainerJoin
  <1>8. CASE DrainTimeout \/ UNCHANGED vars
    BY <1>8 DEF DrainTimeout, vars
  <1> QED
    BY <1>1, <1>2, <1>3, <1>4, <1>5, <1>6, <1>7, <1>8 DEF Next, Terminated

\* _status follows the transitions the AgentLoopManagerStatus comments document.
THEOREM StatusIsDocumented == Spec => StatusFollowsDocs
  <1>1. IInv /\ [Next]_vars => [DocumentedTransition(status, status')]_status
    BY StatusStep
  <1> QED
    BY <1>1, InvariantHolds, PTL DEF Spec, StatusFollowsDocs
=============================================================================
