--------------------------- MODULE ColocateProofs ---------------------------
(***************************************************************************)
(* Proofs about ColocateManager, for every set of tasks and every          *)
(* configuration: its types, that a batch is whole, fresh and honestly     *)
(* labelled, that nothing generates while the trainer has the GPUs, and    *)
(* that what a task holds stays bounded.                                   *)
(***************************************************************************)
EXTENDS ColocateManager, FiniteSetTheorems, TLAPS

-----------------------------------------------------------------------------
(* The inductive invariant.                                                *)

Honest(tokens) == \A k \in tokens : k.label = k.gen

\* Groups of t that hold a place of its batch: in flight or completed.
Busy(t) == {g \in Gids : TaskOf[g] = t /\ group[g].at \in Pending \cup {"COMPLETED"}}

\* What a group holds, wherever it is.
RecordInv ==
    \A g \in Gids :
        /\ Honest(group[g].tokens)
        /\ group[g].at = "free" => group[g].tokens = {}
        /\ group[g].at = "done" => group[g].out \in Outcomes
        /\ TaskOf[g] \in Sync => /\ group[g].at \notin {"ABORTED", "EXPIRED"}
                                 /\ group[g].at \in Pending =>
                                       group[g].tokens = {} /\ group[g].out # "ABORTED"

\* What the phase says of the groups.
PhaseInv ==
    phase # "down" =>
        \A g \in Gids :
            /\ group[g].at \in Pending => /\ phase \in {"produce", "drain"}
                                          /\ group[g].gen \in {NoStep, weights}
            /\ group[g].at = "batch" => phase = "train"

\* Whatever may end up in the batch of this step is fresh enough for it.
FreshInv ==
    phase \in {"produce", "drain", "train"} =>
        \A g \in Gids : group[g].at \in {"COMPLETED", "batch"} =>
            ~HasStale(group[g].tokens, train_step, Threshold(TaskOf[g]))

\* The label of new tokens is the step of the engine's weights, at most one sync
\* interval behind.
StepsInv ==
    /\ model_step = weights
    /\ phase \notin {"finished", "down"} =>
           model_step % SyncInterval = 0 /\ train_step - model_step \in 1..SyncInterval

\* The strategies run while the engine is not paused, and only then.
ControlInv ==
    /\ phase \notin {"produce", "down"} => \A t \in Tasks : task_pc[t] = "off"
    /\ phase = "produce" => ~paused
    /\ \A t \in Sync : ~use_expired[t]

\* A synchronous task never has more groups in flight or completed than its batch.
SyncInv ==
    phase # "down" =>
        \A t \in Sync :
            /\ Cardinality(Busy(t)) <= BatchSize[t]
            /\ phase \in {"begin", "train", "save", "sync"} => Busy(t) = {}
            /\ phase = "produce" /\ task_pc[t] = "start" => Busy(t) = {}
            /\ phase = "produce" /\ task_pc[t] = "off" => PendingOf(t) = {}
            /\ phase = "drain" => PendingOf(t) = {}

\* A strategy that has ended has left a whole share of the batch.
ShareInv ==
    \A t \in Tasks :
        phase = "drain" \/ (phase = "produce" /\ task_pc[t] = "off") =>
            Cardinality(In(t, "COMPLETED")) >= BatchSize[t]

\* What a restart would start from.
SavedInv ==
    /\ saved.step % SyncInterval = 0
    /\ \A g \in Gids :
          /\ saved.group[g].at \in Stored \cup {"free"}
          /\ Honest(saved.group[g].tokens)
          /\ saved.group[g].at = "free" => saved.group[g].tokens = {}
          /\ TaskOf[g] \in Sync => saved.group[g].at = "free"

IInv == /\ TypeOK /\ RecordInv /\ PhaseInv /\ FreshInv /\ StepsInv /\ ControlInv
        /\ SyncInv /\ ShareInv /\ BatchIsWhole /\ SavedInv

-----------------------------------------------------------------------------
(* Numbers and finite sets.                                                *)

LEMMA DivMod ==
    ASSUME NEW n \in Nat, NEW s \in Nat \ {0}
    PROVE  n = s * (n \div s) + (n % s) /\ n % s \in 0..(s - 1) /\ n \div s \in Nat
  OBVIOUS

LEMMA MultipleMod == ASSUME NEW q \in Nat, NEW s \in Nat \ {0} PROVE (s * q) % s = 0
  OBVIOUS

\* A multiple of the checkpoint interval is a multiple of the sync interval.
LEMMA ModTransitive ==
    ASSUME NEW a \in Nat, NEW b \in Nat \ {0}, NEW c \in Nat \ {0}, a % b = 0, b % c = 0
    PROVE  a % c = 0
<1> DEFINE p == a \div b
<1> DEFINE q == b \div c
<1>1. p \in Nat /\ q \in Nat /\ a = b * p /\ b = c * q
  BY DivMod
<1> HIDE DEF p, q
<1>2. a = c * (q * p) /\ q * p \in Nat
  BY <1>1
<1> QED BY <1>2, MultipleMod

LEMMA ModNext == ASSUME NEW m \in Nat, NEW s \in Nat \ {0}, m % s = 0 PROVE (m + s) % s = 0
<1> DEFINE p == m \div s
<1>1. p \in Nat /\ m = s * p
  BY DivMod
<1> HIDE DEF p
<1>2. m + s = s * (p + 1) /\ p + 1 \in Nat
  BY <1>1
<1> QED BY <1>2, MultipleMod

\* The label after a restart: the last sync before the step.
LEMMA ModelStepIs ==
    ASSUME NEW s \in Nat
    PROVE  RolloutModelStep(s + 1) \in 0..s /\ (s % SyncInterval = 0 => RolloutModelStep(s + 1) = s)
<1> DEFINE m == s % SyncInterval
<1>1. m \in Nat /\ m <= s
  <2> DEFINE q == s \div SyncInterval
  <2>1. s = SyncInterval * q + m /\ m \in 0..(SyncInterval - 1) /\ q \in Nat
    BY DivMod, ColocateAssumption
  <2> HIDE DEF m, q
  <2>2. SyncInterval * q \in Nat
    BY <2>1, ColocateAssumption
  <2> QED BY <2>1, <2>2, ColocateAssumption
<1>2. RolloutModelStep(s + 1) = s - m
  BY DEF RolloutModelStep
<1> HIDE DEF m
<1>3. RolloutModelStep(s + 1) \in 0..s /\ (m = 0 => RolloutModelStep(s + 1) = s)
  BY <1>1, <1>2
<1> QED BY <1>3 DEF m

\* No threshold is below one sync interval.
LEMMA ThresholdIs ==
    ASSUME NEW t \in Tasks
    PROVE  Threshold(t) \in Nat /\ Threshold(t) >= SyncInterval /\ SyncInterval >= 1
<1> DEFINE m == MaxStaleness[t]
<1>1. m \in Nat /\ SyncInterval \in Nat \ {0}
  BY ColocateAssumption
<1> HIDE DEF m
<1>2. (m + 1) * SyncInterval = m * SyncInterval + SyncInterval /\ m * SyncInterval \in Nat
  BY <1>1
<1> QED BY <1>1, <1>2 DEF Threshold, StaleThreshold, m

LEMMA FiniteGroups == ASSUME NEW S \in SUBSET Gids PROVE IsFiniteSet(S) /\ Cardinality(S) \in Nat
  BY FS_Subset, FS_CardinalityType, ColocateAssumption

LEMMA Monotone ==
    ASSUME NEW T \in SUBSET Gids, NEW S \in SUBSET T PROVE Cardinality(S) <= Cardinality(T)
  BY FS_Subset, FiniteGroups

\* A subset as large as the set is the set.
LEMMA SameSize ==
    ASSUME NEW T \in SUBSET Gids, NEW S \in SUBSET T, Cardinality(S) >= Cardinality(T)
    PROVE  S = T
<1>1. IsFiniteSet(T) /\ Cardinality(T) \in Nat
  BY FiniteGroups
<1>2. Cardinality(S) \in Nat
  <2>1. S \in SUBSET Gids
    OBVIOUS
  <2> QED BY <2>1, FiniteGroups
<1>3. Cardinality(S) <= Cardinality(T)
  BY Monotone
<1>4. Cardinality(T) = Cardinality(S)
  BY <1>1, <1>2, <1>3
<1> QED BY <1>1, <1>4, FS_Subset

-----------------------------------------------------------------------------
(* One record.                                                             *)

Places == Pending \cup Stored \cup {"free", "batch"}
Tokens == [label : 0..TotalSteps, gen : 0..TotalSteps]

LEMMA RecordFields ==
    ASSUME NEW r \in GroupType
    PROVE  /\ r.at \in Places /\ r.out \in Outcomes \cup {"none"}
           /\ r.tokens \in SUBSET Tokens /\ r.gen \in -1..TotalSteps
  BY DEF GroupType, Places, Tokens

LEMMA NoGroupIs == NoGroup \in GroupType /\ NoGroup.at = "free" /\ NoGroup.tokens = {}
  BY ColocateAssumption DEF NoGroup, NoStep, GroupType, Outcomes

\* What _apply_staleness_lifecycle makes of a stored group.
LEMMA LifecycleIs ==
    ASSUME NEW r \in GroupType, NEW t \in Tasks, NEW threshold, NEW keep,
           NEW x, x = Lifecycle(r, t, threshold, keep)
    PROVE  /\ x \in GroupType
           /\ \/ x = r /\ ~HasStale(r.tokens, train_step, threshold)
              \/ x = NoGroup
              \/ x.at = "EXPIRED" /\ x.tokens \subseteq r.tokens /\ Retryable(t)
<1>1. CASE ~HasStale(r.tokens, train_step, threshold)
  BY <1>1 DEF Lifecycle
<1>2. CASE HasStale(r.tokens, train_step, threshold) /\ ~Retryable(t)
  BY <1>2, NoGroupIs DEF Lifecycle
<1>3. CASE HasStale(r.tokens, train_step, threshold) /\ Retryable(t)
  <2> DEFINE kept == IF keep THEN FreshPart(r.tokens, train_step, threshold) ELSE {}
  <2>1. kept \subseteq r.tokens
    BY DEF FreshPart
  <2>2. x = [at |-> "EXPIRED", out |-> r.out, gen |-> r.gen, tokens |-> kept]
    BY <1>3 DEF Lifecycle
  <2> HIDE DEF kept
  <2>3. kept \in SUBSET Tokens
    BY <2>1, RecordFields
  <2>4. x \in GroupType
    BY <2>2, <2>3, RecordFields DEF GroupType, Tokens, Stored
  <2> QED BY <1>3, <2>1, <2>2, <2>4
<1> QED BY <1>1, <1>2, <1>3

\* A task without a tail batch never retries: a synchronous one keeps nothing stale.
LEMMA SyncNotRetryable == ASSUME NEW t \in Sync PROVE ~Retryable(t)
  BY ColocateAssumption DEF Retryable

\* What put_generated_group makes of a group that has ended.
LEMMA PutIs ==
    ASSUME TypeOK, StepsInv, phase \notin {"finished", "down"},
           NEW r \in GroupType, r.at = "done", r.out \in Outcomes, Honest(r.tokens),
           r.gen \in {NoStep, weights},
           NEW t \in Tasks, t \in Sync => r.tokens = {} /\ r.out # "ABORTED",
           NEW keep, NEW x, x = PutGenerated(r, t, keep)
    PROVE  /\ x \in GroupType /\ Honest(x.tokens)
           /\ x = NoGroup \/ x.at \in Stored
           /\ t \in Sync => x.at \in {"free", "COMPLETED"}
           /\ x.at = "COMPLETED" => ~HasStale(x.tokens, train_step, Threshold(t))
<1>1. CASE r.out = "FAILED"
  BY <1>1, NoGroupIs DEF PutGenerated, Honest
<1>2. CASE r.out # "FAILED"
  <2> DEFINE labelled == IF r.gen = NoStep THEN r.tokens
                         ELSE r.tokens \cup {[label |-> model_step, gen |-> r.gen]}
  <2> DEFINE stored == [at |-> r.out, out |-> "none", tokens |-> labelled, gen |-> NoStep]
  <2>1. x = IF t \in Sync THEN stored ELSE Lifecycle(stored, t, Threshold(t), keep)
    BY <1>2 DEF PutGenerated
  <2>2. labelled \in SUBSET Tokens
    BY RecordFields DEF Tokens, TypeOK, StepsInv
  <2>3. Honest(labelled)
    BY DEF Honest, StepsInv
  <2>4. t \in Sync => ~HasStale(labelled, train_step, Threshold(t))
    BY ThresholdIs, ColocateAssumption DEF HasStale, IsStale, SeqStaleness, StepsInv, TypeOK
  <2> HIDE DEF labelled
  <2>5. stored \in GroupType
    BY <1>2, <2>2, ColocateAssumption DEF GroupType, Tokens, Stored, Outcomes, NoStep
  <2>6. /\ stored.at = r.out /\ stored.tokens = labelled
        /\ r.out \in {"COMPLETED", "ABORTED"}
    BY <1>2 DEF Outcomes
  <2> HIDE DEF stored
  <2>7. CASE t \in Sync
    BY <2>1, <2>3, <2>4, <2>5, <2>6, <2>7 DEF Stored
  <2>8. CASE t \notin Sync
    <3>1. /\ x \in GroupType
          /\ \/ x = stored /\ ~HasStale(stored.tokens, train_step, Threshold(t))
             \/ x = NoGroup
             \/ x.at = "EXPIRED" /\ x.tokens \subseteq stored.tokens
      BY <2>1, <2>5, <2>8, LifecycleIs
    <3> QED BY <3>1, <2>3, <2>6, <2>8, NoGroupIs DEF Stored, Honest
  <2> QED BY <2>7, <2>8
<1> QED BY <1>1, <1>2

-----------------------------------------------------------------------------
(* The steps that move no group.                                           *)

LEMMA SameGroups ==
    ASSUME group' = group, RecordInv
    PROVE  /\ RecordInv'
           /\ \A t \in Tasks : /\ PendingOf(t)' = PendingOf(t) /\ Busy(t)' = Busy(t)
                               /\ In(t, "COMPLETED")' = In(t, "COMPLETED")
                               /\ In(t, "batch")' = In(t, "batch")
  BY DEF RecordInv, PendingOf, Busy, In, Honest

LEMMA SyncTasks == ASSUME NEW t \in Sync PROVE t \in Tasks
  BY ColocateAssumption

LEMMA EmptyFits == ASSUME NEW t \in Sync, NEW S, S = {} PROVE Cardinality(S) <= BatchSize[t]
<1>1. Cardinality(S) = 0
  BY FS_EmptySet
<1>2. BatchSize[t] \in Nat
  BY SyncTasks, ColocateAssumption
<1> QED BY <1>1, <1>2

LEMMA PauseInv == ASSUME IInv, Pause PROVE IInv'
<1> USE DEF IInv, Pause
<1>1. TypeOK'
  BY DEF TypeOK
<1>2. PhaseInv' /\ StepsInv' /\ ControlInv' /\ SavedInv'
  BY DEF PhaseInv, StepsInv, ControlInv, SavedInv
<1>3. FreshInv'
  BY DEF FreshInv, HasStale, IsStale, Threshold
<1>4. RecordInv' /\ SyncInv' /\ ShareInv' /\ BatchIsWhole'
  BY SameGroups, SyncTasks DEF SyncInv, ShareInv, BatchIsWhole
<1> QED BY <1>1, <1>2, <1>3, <1>4

LEMMA EnoughInv == ASSUME IInv, phase = "produce", NEW t \in Tasks, Enough(t) PROVE IInv'
<1> USE DEF IInv, Enough
<1>1. TypeOK'
  BY DEF TypeOK
<1>2. PhaseInv' /\ StepsInv' /\ ControlInv' /\ SavedInv'
  BY DEF PhaseInv, StepsInv, ControlInv, SavedInv
<1>3. FreshInv'
  BY DEF FreshInv, HasStale, IsStale, Threshold
<1>4. RecordInv' /\ BatchIsWhole'
  BY SameGroups DEF BatchIsWhole
<1>5. ShareInv'
  BY SameGroups DEF ShareInv, Available, TypeOK
<1>6. ASSUME t \in Sync PROVE PendingOf(t) = {}
  <2>1. Cardinality(In(t, "COMPLETED")) >= Cardinality(Busy(t))
    <3>1. Cardinality(Busy(t)) \in Nat /\ Cardinality(In(t, "COMPLETED")) \in Nat
      BY FiniteGroups DEF Busy, In
    <3>2. Cardinality(Busy(t)) <= BatchSize[t] /\ BatchSize[t] <= Cardinality(In(t, "COMPLETED"))
      BY <1>6 DEF SyncInv, Available
    <3> QED BY <3>1, <3>2, ColocateAssumption
  <2>2. In(t, "COMPLETED") \in SUBSET Busy(t) /\ Busy(t) \in SUBSET Gids
    BY DEF In, Busy
  <2>3. In(t, "COMPLETED") = Busy(t)
    BY <2>1, <2>2, SameSize
  <2> QED BY <2>3 DEF In, Busy, PendingOf, Pending
<1>7. SyncInv'
  BY <1>6, SameGroups, SyncTasks DEF SyncInv, TypeOK
<1> QED BY <1>1, <1>2, <1>3, <1>4, <1>5, <1>7

LEMMA StartAsyncInv == ASSUME IInv, phase = "produce", NEW t \in Tasks, StartAsync(t) PROVE IInv'
<1> USE DEF IInv, StartAsync
<1>1. TypeOK'
  BY DEF TypeOK
<1>2. PhaseInv' /\ StepsInv' /\ SavedInv'
  BY DEF PhaseInv, StepsInv, SavedInv
<1>3. ControlInv'
  BY DEF ControlInv, TypeOK
<1>4. FreshInv'
  BY DEF FreshInv, HasStale, IsStale, Threshold
<1>5. RecordInv' /\ BatchIsWhole'
  BY SameGroups DEF BatchIsWhole
<1>6. ShareInv'
  BY SameGroups DEF ShareInv, TypeOK
<1>7. SyncInv'
  BY SameGroups, SyncTasks DEF SyncInv, TypeOK
<1> QED BY <1>1, <1>2, <1>3, <1>4, <1>5, <1>6, <1>7

LEMMA SaveInv == ASSUME IInv, SaveCheckpoint PROVE IInv'
<1> USE DEF IInv, SaveCheckpoint
<1>1. TypeOK'
  BY DEF TypeOK
<1>2. PhaseInv' /\ StepsInv' /\ ControlInv' /\ FreshInv'
  BY DEF PhaseInv, StepsInv, ControlInv, FreshInv
<1>3. RecordInv' /\ BatchIsWhole' /\ ShareInv'
  BY SameGroups DEF BatchIsWhole, ShareInv
<1>4. SyncInv'
  BY SameGroups, SyncTasks DEF SyncInv
<1>5. SavedInv'
  <2>1. CASE ~CkptDue
    BY <2>1 DEF SavedInv, Honest
  <2>2. CASE CkptDue
    <3>1. train_step % SyncInterval = 0
      <4>1. train_step \in Nat
        BY ColocateAssumption DEF TypeOK
      <4>2. CkptInterval \in Nat \ {0} /\ train_step % CkptInterval = 0
        BY <2>2, ColocateAssumption DEF CkptDue
      <4>3. SyncInterval \in Nat \ {0} /\ CkptInterval % SyncInterval = 0
        BY ColocateAssumption
      <4> QED BY <4>1, <4>2, <4>3, ModTransitive
    <3>2. \A g \in Gids : group[g].at \in Stored \cup {"free"}
      BY RecordFields DEF PhaseInv, TypeOK, Places
    <3>3. \A g \in Gids : TaskOf[g] \in Sync => group[g].at = "free"
      <4> SUFFICES ASSUME NEW g \in Gids, TaskOf[g] \in Sync PROVE group[g].at = "free"
        OBVIOUS
      <4>1. Busy(TaskOf[g]) = {}
        BY DEF SyncInv
      <4> QED BY <4>1, <3>2 DEF Busy, RecordInv, Stored
    <3>4. saved' = [step |-> train_step, group |-> group]
      BY <2>2
    <3>5. saved'.step = train_step /\ saved'.group = group
      BY <3>4
    <3> QED BY <3>1, <3>2, <3>3, <3>5 DEF SavedInv, RecordInv, Honest
  <2> QED BY <2>1, <2>2
<1> QED BY <1>1, <1>2, <1>3, <1>4, <1>5

LEMMA CrashInv == ASSUME IInv, Crash PROVE IInv'
<1> USE DEF IInv, Crash
<1>1. TypeOK'
  BY ColocateAssumption DEF TypeOK
<1>2. PhaseInv' /\ StepsInv' /\ ControlInv' /\ FreshInv' /\ SavedInv'
  BY DEF PhaseInv, StepsInv, ControlInv, FreshInv, SavedInv, Honest
<1>3. RecordInv' /\ BatchIsWhole' /\ ShareInv' /\ SyncInv'
  BY SameGroups DEF BatchIsWhole, ShareInv, SyncInv
<1> QED BY <1>1, <1>2, <1>3

\* Between weight syncs the lag grows by one; a sync resets it.
LEMMA SyncWeightsInv == ASSUME IInv, SyncWeights PROVE IInv'
<1> USE DEF IInv, SyncWeights, ToNextStep
<1>1. TypeOK'
  BY ColocateAssumption DEF TypeOK
<1>2. PhaseInv' /\ ControlInv' /\ FreshInv' /\ SavedInv'
  BY DEF PhaseInv, ControlInv, FreshInv, SavedInv, Honest
<1>3. RecordInv' /\ BatchIsWhole' /\ ShareInv' /\ SyncInv'
  BY SameGroups, SyncTasks DEF BatchIsWhole, ShareInv, SyncInv
<1>4. StepsInv'
  <2>1. model_step' = weights'
    BY DEF StepsInv
  <2>2. CASE train_step = TotalSteps
    BY <2>1, <2>2 DEF StepsInv
  <2>3. CASE train_step # TotalSteps
    <3>1. train_step' = train_step + 1 /\ train_step < TotalSteps /\ train_step \in Nat
      BY <2>3, ColocateAssumption DEF TypeOK
    <3>2. /\ model_step % SyncInterval = 0 /\ train_step - model_step \in 1..SyncInterval
          /\ model_step \in Nat /\ SyncInterval \in Nat \ {0}
      BY ColocateAssumption DEF StepsInv, TypeOK
    <3>3. CASE train_step % SyncInterval = 0
      <4>1. model_step' = train_step
        BY <3>1, <3>3
      <4> QED BY <2>1, <3>1, <3>2, <3>3, <4>1 DEF StepsInv
    <3>4. CASE train_step % SyncInterval # 0
      <4>1. model_step' = model_step
        BY <3>4
      <4>2. train_step # model_step + SyncInterval
        BY <3>2, <3>4, ModNext
      <4>3. train_step + 1 - model_step \in 1..SyncInterval
        BY <3>1, <3>2, <4>2
      <4> QED BY <2>1, <3>1, <3>2, <4>1, <4>3 DEF StepsInv
    <3> QED BY <3>3, <3>4
  <2> QED BY <2>2, <2>3
<1> QED BY <1>1, <1>2, <1>3, <1>4

-----------------------------------------------------------------------------
(* The steps of a strategy and of the engine that move groups.             *)

\* What a group may be while the strategies run or are drained.
GroupOk(r, t) ==
    /\ r \in GroupType /\ Honest(r.tokens)
    /\ r.at = "free" => r.tokens = {}
    /\ r.at = "done" => r.out \in Outcomes
    /\ t \in Sync => /\ r.at \notin {"ABORTED", "EXPIRED"}
                     /\ r.at \in Pending => r.tokens = {} /\ r.out # "ABORTED"
    /\ r.at \in Pending => r.gen \in {NoStep, weights}
    /\ r.at # "batch"
    /\ r.at = "COMPLETED" => ~HasStale(r.tokens, train_step, Threshold(t))

LEMMA NoGroupOk == ASSUME NEW t \in Tasks PROVE GroupOk(NoGroup, t)
  BY NoGroupIs DEF GroupOk, Honest, Pending

LEMMA GroupsOk ==
    ASSUME IInv, phase \in {"produce", "drain"}, NEW g \in Gids
    PROVE  GroupOk(group[g], TaskOf[g]) /\ TaskOf[g] \in Tasks
  BY ColocateAssumption DEF IInv, GroupOk, TypeOK, RecordInv, PhaseInv, FreshInv

LEMMA GroupStep ==
    ASSUME IInv, phase \in {"produce", "drain"},
           NEW new, group' = new, new = [g \in Gids |-> new[g]],
           \A g \in Gids : GroupOk(new[g], TaskOf[g]),
           task_pc' \in [Tasks -> {"off", "start", "loop"}], task_pc' = task_pc \/ phase = "produce",
           UNCHANGED <<phase, train_step, model_step, weights, paused, use_expired, saved, crashes>>
    PROVE  /\ TypeOK' /\ RecordInv' /\ PhaseInv' /\ FreshInv' /\ StepsInv' /\ ControlInv'
           /\ BatchIsWhole' /\ SavedInv'
<1> USE DEF IInv
<1>1. new \in [Gids -> GroupType]
  BY DEF GroupOk
<1>2. TypeOK'
  BY <1>1 DEF TypeOK
<1>3. RecordInv'
  BY DEF RecordInv, GroupOk
<1>4. PhaseInv'
  BY DEF PhaseInv, GroupOk
<1>5. FreshInv'
  BY DEF FreshInv, GroupOk, HasStale, IsStale, Threshold
<1>6. StepsInv' /\ ControlInv' /\ BatchIsWhole'
  BY DEF StepsInv, ControlInv, BatchIsWhole
<1>7. SavedInv'
  BY DEF SavedInv, Honest
<1> QED BY <1>2, <1>3, <1>4, <1>5, <1>6, <1>7

\* A step that completes groups, and takes no more of them in flight.
LEMMA ShrinkStep ==
    ASSUME IInv, phase \in {"produce", "drain"}, UNCHANGED <<phase, task_pc>>,
           \A t \in Sync : Busy(t)' \subseteq Busy(t) /\ PendingOf(t)' \subseteq PendingOf(t),
           \A t \in Tasks : In(t, "COMPLETED") \subseteq In(t, "COMPLETED")'
    PROVE  SyncInv' /\ ShareInv'
<1> USE DEF IInv
<1>1. ASSUME NEW t \in Sync PROVE Cardinality(Busy(t)') <= BatchSize[t]
  <2>1. Busy(t) \in SUBSET Gids /\ Busy(t)' \in SUBSET Gids /\ Busy(t)' \in SUBSET Busy(t)
    BY <1>1 DEF Busy
  <2>2. Cardinality(Busy(t)') <= Cardinality(Busy(t))
    BY <2>1, Monotone
  <2>3. Cardinality(Busy(t)) \in Nat /\ Cardinality(Busy(t)') \in Nat /\ BatchSize[t] \in Nat
    BY <2>1, <1>1, FiniteGroups, SyncTasks, ColocateAssumption
  <2>4. Cardinality(Busy(t)) <= BatchSize[t]
    BY <1>1 DEF SyncInv
  <2> QED BY <2>2, <2>3, <2>4
<1>2. SyncInv'
  BY <1>1 DEF SyncInv
<1>3. ASSUME NEW t \in Tasks, Cardinality(In(t, "COMPLETED")) >= BatchSize[t]
      PROVE  Cardinality(In(t, "COMPLETED")') >= BatchSize[t]
  <2>1. /\ In(t, "COMPLETED") \in SUBSET Gids /\ In(t, "COMPLETED")' \in SUBSET Gids
        /\ In(t, "COMPLETED") \in SUBSET In(t, "COMPLETED")'
    BY <1>3 DEF In
  <2>2. Cardinality(In(t, "COMPLETED")) <= Cardinality(In(t, "COMPLETED")')
    BY <2>1, Monotone
  <2>3. /\ Cardinality(In(t, "COMPLETED")) \in Nat /\ Cardinality(In(t, "COMPLETED")') \in Nat
        /\ BatchSize[t] \in Nat
    BY <2>1, <1>3, FiniteGroups, ColocateAssumption
  <2> QED BY <1>3, <2>2, <2>3
<1>4. ShareInv'
  BY <1>3 DEF ShareInv
<1> QED BY <1>2, <1>4

LEMMA GenerateInv ==
    ASSUME IInv, NEW g \in Gids, NEW out \in Outcomes, Generate(g, out)
    PROVE  IInv'
<1>1. PICK old \in SUBSET group[g].tokens, made \in BOOLEAN :
          group' = [group EXCEPT ![g] =
              [at |-> "done", out |-> out, tokens |-> IF out = "FAILED" THEN {} ELSE old,
               gen |-> IF made /\ out # "FAILED" THEN @.gen ELSE NoStep]]
  BY DEF Generate
<1> DEFINE tokens == IF out = "FAILED" THEN {} ELSE old
<1> DEFINE gen == IF made /\ out # "FAILED" THEN group[g].gen ELSE NoStep
<1> DEFINE r == [at |-> "done", out |-> out, tokens |-> tokens, gen |-> gen]
<1>2. /\ phase \in {"produce", "drain"} /\ group[g].at = "running" /\ (out = "ABORTED" => paused)
      /\ UNCHANGED <<phase, train_step, model_step, weights, paused, task_pc, use_expired, saved, crashes>>
  BY DEF Generate
<1>3. GroupOk(group[g], TaskOf[g]) /\ TaskOf[g] \in Tasks
  BY <1>2, GroupsOk
<1>4. group \in [Gids -> GroupType] /\ group' = [group EXCEPT ![g] = r]
  BY <1>1 DEF IInv, TypeOK
<1>5. tokens \subseteq group[g].tokens
  OBVIOUS
<1>6. gen \in {NoStep, weights} /\ gen \in -1..TotalSteps
  BY <1>2, <1>3, RecordFields, ColocateAssumption DEF GroupOk, Pending, NoStep
<1>7. TaskOf[g] \in Sync => out # "ABORTED"
  <2>1. ASSUME TaskOf[g] \in Sync PROVE phase = "produce"
    BY <2>1, <1>2, <1>3 DEF IInv, SyncInv, PendingOf, Pending
  <2> QED BY <2>1, <1>2 DEF IInv, ControlInv
<1> HIDE DEF tokens, gen
<1>8. r \in GroupType
  BY <1>3, <1>5, <1>6, RecordFields DEF GroupOk, GroupType, Tokens, Pending
<1>9. r.at = "done" /\ r.out = out /\ r.tokens = tokens /\ r.gen = gen
  OBVIOUS
<1> HIDE DEF r
<1>10. GroupOk(r, TaskOf[g])
  BY <1>2, <1>3, <1>5, <1>6, <1>7, <1>8, <1>9 DEF GroupOk, Honest, Pending
<1>11. \A h \in Gids : GroupOk(group'[h], TaskOf[h])
  BY <1>2, <1>4, <1>10, GroupsOk
<1>12. /\ TypeOK' /\ RecordInv' /\ PhaseInv' /\ FreshInv' /\ StepsInv' /\ ControlInv'
       /\ BatchIsWhole' /\ SavedInv'
  <2>1. group' = [h \in Gids |-> group'[h]]
    BY <1>4
  <2>2. task_pc' \in [Tasks -> {"off", "start", "loop"}] /\ task_pc' = task_pc
    BY <1>2 DEF IInv, TypeOK
  <2> QED BY <1>2, <1>11, <2>1, <2>2, GroupStep
<1>13. \A h \in Gids : \/ group'[h] = group[h]
                       \/ h = g /\ group[h].at = "running" /\ group'[h].at = "done"
  BY <1>2, <1>4, <1>9
<1>14. SyncInv' /\ ShareInv'
  <2>1. \A t \in Sync : Busy(t)' \subseteq Busy(t) /\ PendingOf(t)' \subseteq PendingOf(t)
    BY <1>13 DEF Busy, PendingOf, Pending
  <2>2. \A t \in Tasks : In(t, "COMPLETED") \subseteq In(t, "COMPLETED")'
    BY <1>13 DEF In
  <2> QED BY <1>2, <2>1, <2>2, ShrinkStep
<1> QED BY <1>12, <1>14 DEF IInv

LEMMA PutDoneInv ==
    ASSUME IInv, phase \in {"produce", "drain"}, NEW t \in Tasks, PutDone(t)
    PROVE  IInv'
<1>1. PICK kept \in SUBSET In(t, "done") :
          group' = [g \in Gids |-> IF g \in In(t, "done") THEN PutGenerated(group[g], t, g \in kept)
                                   ELSE group[g]]
  BY DEF PutDone
<1>2. UNCHANGED <<phase, train_step, model_step, weights, paused, task_pc, use_expired, saved, crashes>>
  BY DEF PutDone
<1>3. ASSUME NEW g \in Gids, TaskOf[g] = t, group[g].at = "done"
      PROVE  /\ GroupOk(group'[g], t)
             /\ group'[g].at \in {"free"} \cup Stored /\ (t \in Sync => group'[g].at \in {"free", "COMPLETED"})
  <2> DEFINE x == group'[g]
  <2> DEFINE keep == g \in kept
  <2>1. x = PutGenerated(group[g], t, keep)
    BY <1>1, <1>3 DEF In
  <2>2. GroupOk(group[g], t)
    BY <1>3, GroupsOk
  <2> HIDE DEF x, keep
  <2>3. /\ x \in GroupType /\ Honest(x.tokens)
        /\ x = NoGroup \/ x.at \in Stored
        /\ t \in Sync => x.at \in {"free", "COMPLETED"}
        /\ x.at = "COMPLETED" => ~HasStale(x.tokens, train_step, Threshold(t))
    BY <1>3, <2>1, <2>2, PutIs DEF GroupOk, IInv, Pending
  <2>4. GroupOk(x, t)
    BY <2>3, NoGroupIs DEF GroupOk, Stored, Pending
  <2>5. x.at \in {"free"} \cup Stored
    BY <2>3, NoGroupIs
  <2> QED BY <2>3, <2>4, <2>5 DEF x
<1>4. \A g \in Gids : ~(TaskOf[g] = t /\ group[g].at = "done") => group'[g] = group[g]
  BY <1>1 DEF In
<1>5. \A g \in Gids : GroupOk(group'[g], TaskOf[g])
  BY <1>3, <1>4, GroupsOk
<1>6. /\ TypeOK' /\ RecordInv' /\ PhaseInv' /\ FreshInv' /\ StepsInv' /\ ControlInv'
      /\ BatchIsWhole' /\ SavedInv'
  <2>1. group' = [g \in Gids |-> group'[g]]
    BY <1>1
  <2>2. task_pc' \in [Tasks -> {"off", "start", "loop"}] /\ task_pc' = task_pc
    BY <1>2 DEF IInv, TypeOK
  <2> QED BY <1>2, <1>5, <2>1, <2>2, GroupStep
<1>7. SyncInv' /\ ShareInv'
  <2>1. \A u \in Sync : Busy(u)' \subseteq Busy(u) /\ PendingOf(u)' \subseteq PendingOf(u)
    BY <1>3, <1>4 DEF Busy, PendingOf, Pending, Stored
  <2>2. \A u \in Tasks : In(u, "COMPLETED") \subseteq In(u, "COMPLETED")'
    BY <1>4 DEF In
  <2> QED BY <1>2, <2>1, <2>2, ShrinkStep
<1> QED BY <1>6, <1>7 DEF IInv

LEMMA DrainCancelInv == ASSUME IInv, NEW t \in Tasks, DrainCancel(t) PROVE IInv'
<1>1. /\ phase = "drain" /\ t \notin Sync
      /\ group' = [g \in Gids |-> IF g \in PendingOf(t) THEN NoGroup ELSE group[g]]
      /\ UNCHANGED <<phase, train_step, model_step, weights, paused, task_pc, use_expired, saved, crashes>>
  BY DEF DrainCancel
<1>2. \A g \in Gids : GroupOk(group'[g], TaskOf[g])
  BY <1>1, GroupsOk, NoGroupOk
<1>3. /\ TypeOK' /\ RecordInv' /\ PhaseInv' /\ FreshInv' /\ StepsInv' /\ ControlInv'
      /\ BatchIsWhole' /\ SavedInv'
  <2>1. group' = [g \in Gids |-> group'[g]]
    BY <1>1
  <2>2. task_pc' \in [Tasks -> {"off", "start", "loop"}] /\ task_pc' = task_pc
    BY <1>1 DEF IInv, TypeOK
  <2> QED BY <1>1, <1>2, <2>1, <2>2, GroupStep
<1>4. \A g \in Gids : TaskOf[g] # t \/ group[g].at \notin Pending => group'[g] = group[g]
  BY <1>1 DEF PendingOf
<1>5. SyncInv' /\ ShareInv'
  <2>1. \A u \in Sync : Busy(u)' \subseteq Busy(u) /\ PendingOf(u)' \subseteq PendingOf(u)
    BY <1>1, <1>4 DEF Busy, PendingOf
  <2>2. \A u \in Tasks : In(u, "COMPLETED") \subseteq In(u, "COMPLETED")'
    BY <1>4 DEF In, Pending
  <2> QED BY <1>1, <2>1, <2>2, ShrinkStep
<1> QED BY <1>3, <1>5 DEF IInv

\* A group that starts: what a free slot or an unfinished group becomes.
LEMMA RunningOk ==
    ASSUME IInv, phase = "produce", NEW g \in Gids,
           group[g].at \in {"free", "ABORTED", "EXPIRED"}, NEW x, x = Running(g)
    PROVE  GroupOk(x, TaskOf[g]) /\ x.at = "running"
<1>1. GroupOk(group[g], TaskOf[g])
  BY GroupsOk
<1> DEFINE tokens == group[g].tokens
<1>2. tokens \in SUBSET Tokens /\ Honest(tokens) /\ (TaskOf[g] \in Sync => tokens = {})
  BY <1>1, RecordFields DEF GroupOk
<1>3. x = [at |-> "running", out |-> "none", tokens |-> tokens, gen |-> weights]
  BY DEF Running
<1> HIDE DEF tokens
<1>4. weights \in 0..TotalSteps
  BY DEF IInv, TypeOK
<1>5. x \in GroupType
  BY <1>2, <1>3, <1>4, ColocateAssumption DEF GroupType, Tokens, Pending
<1>6. x.at = "running" /\ x.out = "none" /\ x.tokens = tokens /\ x.gen = weights
  BY <1>3
<1> QED BY <1>2, <1>5, <1>6 DEF GroupOk

LEMMA StartSyncInv ==
    ASSUME IInv, phase = "produce", NEW t \in Tasks, StartSync(t)
    PROVE  IInv'
<1>1. PICK new \in SUBSET In(t, "free") :
          /\ Cardinality(new) = BatchSize[t]
          /\ group' = [g \in Gids |-> IF g \in new THEN Running(g) ELSE group[g]]
  BY DEF StartSync
<1>2. /\ t \in Sync /\ task_pc[t] = "start" /\ task_pc' = [task_pc EXCEPT ![t] = "loop"]
      /\ UNCHANGED <<phase, train_step, model_step, weights, paused, use_expired, saved, crashes>>
  BY DEF StartSync
<1>3. \A g \in Gids : g \in new => GroupOk(group'[g], TaskOf[g]) /\ group'[g].at = "running"
  BY <1>1, RunningOk DEF In
<1>4. \A g \in Gids : g \notin new => group'[g] = group[g]
  BY <1>1
<1>5. \A g \in Gids : GroupOk(group'[g], TaskOf[g])
  BY <1>3, <1>4, GroupsOk
<1>6. task_pc' \in [Tasks -> {"off", "start", "loop"}] /\ task_pc \in [Tasks -> {"off", "start", "loop"}]
  BY <1>2 DEF IInv, TypeOK
<1>7. /\ TypeOK' /\ RecordInv' /\ PhaseInv' /\ FreshInv' /\ StepsInv' /\ ControlInv'
      /\ BatchIsWhole' /\ SavedInv'
  <2>1. group' = [g \in Gids |-> group'[g]]
    BY <1>1
  <2> QED BY <1>2, <1>5, <1>6, <2>1, GroupStep
<1>8. Busy(t)' = new
  <2>1. Busy(t) = {}
    BY <1>2 DEF IInv, SyncInv
  <2> QED BY <2>1, <1>1, <1>3, <1>4 DEF Busy, In, Pending
<1>9. \A u \in Tasks : u # t => Busy(u)' = Busy(u) /\ PendingOf(u)' = PendingOf(u)
  BY <1>1, <1>4 DEF Busy, PendingOf, In
<1>10. \A u \in Tasks : In(u, "COMPLETED")' = In(u, "COMPLETED")
  BY <1>1, <1>3, <1>4 DEF In
<1>11. SyncInv'
  <2>1. Cardinality(Busy(t)') <= BatchSize[t]
    BY <1>1, <1>8, ColocateAssumption
  <2> QED BY <2>1, <1>2, <1>6, <1>9, SyncTasks DEF IInv, SyncInv
<1>12. ShareInv'
  BY <1>2, <1>6, <1>10 DEF IInv, ShareInv
<1> QED BY <1>7, <1>11, <1>12 DEF IInv

\* A synchronous task schedules only what its batch still lacks.
LEMMA ScheduleInv ==
    ASSUME IInv, phase = "produce", NEW t \in Tasks, Schedule(t)
    PROVE  IInv'
<1>1. PICK s \in SamplePool(t) : group' = [group EXCEPT ![s] = Running(s)]
  BY DEF Schedule
<1>2. /\ WantsMore(t) /\ Cardinality(PendingOf(t)) < DesiredPending(t)
      /\ UNCHANGED <<phase, train_step, model_step, weights, paused, task_pc, use_expired, saved, crashes>>
  BY DEF Schedule
<1>3. s \in Gids /\ TaskOf[s] = t /\ group[s].at \in {"free", "ABORTED", "EXPIRED"}
  <2>1. s \in In(t, "free") \cup In(t, "ABORTED") \cup In(t, "EXPIRED")
    BY <1>1 DEF SamplePool, NewGroup
  <2> QED BY <2>1 DEF In
<1>4. group \in [Gids -> GroupType] /\ task_pc \in [Tasks -> {"off", "start", "loop"}]
  BY DEF IInv, TypeOK
<1>5. GroupOk(group'[s], TaskOf[s]) /\ group'[s].at = "running"
  <2>1. group'[s] = Running(s)
    BY <1>1, <1>3, <1>4
  <2> QED BY <2>1, <1>3, RunningOk
<1>6. \A g \in Gids : g # s => group'[g] = group[g]
  BY <1>1, <1>3, <1>4
<1>7. \A g \in Gids : GroupOk(group'[g], TaskOf[g])
  BY <1>3, <1>5, <1>6, GroupsOk
<1>8. /\ TypeOK' /\ RecordInv' /\ PhaseInv' /\ FreshInv' /\ StepsInv' /\ ControlInv'
      /\ BatchIsWhole' /\ SavedInv'
  <2>1. group' = [g \in Gids |-> group'[g]]
    BY <1>1, <1>4
  <2> QED BY <1>2, <1>4, <1>7, <2>1, GroupStep
<1>9. \A u \in Tasks : u # t => Busy(u)' = Busy(u) /\ PendingOf(u)' = PendingOf(u)
  BY <1>3, <1>6 DEF Busy, PendingOf
<1>10. \A u \in Tasks : In(u, "COMPLETED")' = In(u, "COMPLETED")
  BY <1>3, <1>5, <1>6 DEF In
<1>11. ASSUME t \in Sync PROVE Cardinality(Busy(t)') <= BatchSize[t]
  <2> DEFINE P == PendingOf(t)
  <2> DEFINE C == In(t, "COMPLETED")
  <2>1. IsFiniteSet(P) /\ IsFiniteSet(C) /\ Cardinality(P) \in Nat /\ Cardinality(C) \in Nat
    BY FiniteGroups DEF PendingOf, In
  <2>2. Busy(t) = P \cup C /\ P \cap C = {}
    BY DEF Busy, PendingOf, In, Pending
  <2>3. Busy(t)' = Busy(t) \cup {s} /\ s \notin Busy(t)
    BY <1>3, <1>5, <1>6 DEF Busy, Pending
  <2>4. Cardinality(P) < BatchSize[t] - Cardinality(C)
    <3>1. DesiredPending(t) = BatchSize[t] + 0 - Cardinality(C)
      BY <1>11, ColocateAssumption DEF DesiredPending, Available
    <3> QED BY <1>2, <2>1, <3>1, ColocateAssumption
  <2> HIDE DEF P, C
  <2>5. IsFiniteSet(Busy(t)) /\ Cardinality(Busy(t)) = Cardinality(P) + Cardinality(C)
    <3>1. IsFiniteSet(P \cup C)
      BY <2>1, FS_Union
    <3>2. Cardinality(P \cup C) = Cardinality(P) + Cardinality(C) - Cardinality(P \cap C)
      BY <2>1, FS_Union
    <3>3. Cardinality(P \cap C) = 0
      BY <2>2, FS_EmptySet
    <3> QED BY <2>1, <2>2, <3>1, <3>2, <3>3
  <2>6. Cardinality(Busy(t)') = Cardinality(Busy(t)) + 1
    BY <2>3, <2>5, FS_AddElement
  <2> QED BY <2>1, <2>4, <2>5, <2>6, ColocateAssumption
<1>12. SyncInv'
  <2>1. task_pc[t] = "loop"
    BY <1>2 DEF WantsMore
  <2> QED BY <2>1, <1>2, <1>9, <1>11, SyncTasks DEF IInv, SyncInv
<1>13. ShareInv'
  BY <1>2, <1>10 DEF IInv, ShareInv
<1> QED BY <1>8, <1>12, <1>13 DEF IInv

-----------------------------------------------------------------------------
(* The steps of the trainer that move groups.                              *)

LEMMA BeginInv == ASSUME IInv, Begin PROVE IInv'
<1>1. PICK kept : group' = [g \in Gids |-> Refreshed(g, g \in kept)]
  BY DEF Begin
<1>2. /\ phase = "begin" /\ phase' = "produce" /\ paused' = FALSE
      /\ task_pc' = [t \in Tasks |-> "start"]
      /\ UNCHANGED <<train_step, model_step, weights, use_expired, saved, crashes>>
  BY DEF Begin
<1>3. ASSUME NEW g \in Gids
      PROVE  /\ GroupOk(group'[g], TaskOf[g]) /\ group'[g].at \notin Pending
             /\ group'[g].at = "COMPLETED" => group[g].at = "COMPLETED"
  <2> DEFINE r == group[g]
  <2> DEFINE t == TaskOf[g]
  <2> DEFINE x == group'[g]
  <2> DEFINE keep == g \in kept
  <2> DEFINE threshold == IF t \in Sync THEN 1 ELSE Threshold(t)
  <2>1. t \in Tasks /\ r \in GroupType
    BY ColocateAssumption DEF IInv, TypeOK
  <2>2. x = IF r.at \notin Stored THEN r ELSE Lifecycle(r, t, threshold, keep)
    BY <1>1 DEF Refreshed
  <2>3. /\ Honest(r.tokens) /\ (r.at = "free" => r.tokens = {})
        /\ t \in Sync => r.at \notin {"ABORTED", "EXPIRED"}
    BY DEF IInv, RecordInv
  <2>4. r.at \in Stored \cup {"free"}
    BY <1>2, <2>1, RecordFields DEF IInv, PhaseInv, Places
  <2>5. t \in Sync => r.at # "COMPLETED"
    BY <1>2 DEF IInv, SyncInv, Busy
  <2> HIDE DEF r, t, x, keep
  <2>6. CASE r.at = "free"
    BY <2>1, <2>2, <2>3, <2>6 DEF GroupOk, Stored, Pending, r, t, x
  <2>7. CASE r.at \in Stored
    <3>1. t \notin Sync /\ threshold = Threshold(t)
      BY <2>3, <2>5, <2>7 DEF Stored
    <3>2. x = Lifecycle(r, t, Threshold(t), keep)
      BY <2>2, <2>7, <3>1
    <3>3. /\ x \in GroupType
          /\ \/ x = r /\ ~HasStale(r.tokens, train_step, Threshold(t))
             \/ x = NoGroup
             \/ x.at = "EXPIRED" /\ x.tokens \subseteq r.tokens
      BY <2>1, <3>2, LifecycleIs
    <3>4. GroupOk(x, t) /\ x.at \notin Pending /\ (x.at = "COMPLETED" => r.at = "COMPLETED")
      <4>1. CASE x = r /\ ~HasStale(r.tokens, train_step, Threshold(t))
        BY <2>3, <2>7, <3>1, <3>3, <4>1 DEF GroupOk, Stored, Pending
      <4>2. CASE x = NoGroup
        BY <2>1, <4>2, NoGroupOk, NoGroupIs DEF Pending
      <4>3. CASE x.at = "EXPIRED" /\ x.tokens \subseteq r.tokens
        BY <2>3, <3>1, <3>3, <4>3 DEF GroupOk, Pending, Honest
      <4> QED BY <3>3, <4>1, <4>2, <4>3
    <3> QED BY <3>4 DEF r, t, x
  <2> QED BY <2>4, <2>6, <2>7
<1>4. group' = [g \in Gids |-> group'[g]] /\ \A g \in Gids : group'[g] \in GroupType
  BY <1>1, <1>3 DEF GroupOk
<1>5. TypeOK'
  BY <1>2, <1>4 DEF IInv, TypeOK
<1>6. RecordInv' /\ PhaseInv'
  BY <1>2, <1>3 DEF RecordInv, PhaseInv, GroupOk
<1>7. FreshInv'
  BY <1>2, <1>3 DEF FreshInv, GroupOk, HasStale, IsStale, Threshold
<1>8. StepsInv' /\ ControlInv' /\ BatchIsWhole' /\ SavedInv'
  BY <1>2 DEF IInv, StepsInv, ControlInv, BatchIsWhole, SavedInv, Honest
<1>9. SyncInv'
  <2>1. ASSUME NEW t \in Sync PROVE Busy(t)' = {}
    <3>1. Busy(t) = {}
      BY <1>2, <2>1 DEF IInv, SyncInv
    <3> QED BY <1>3, <3>1 DEF Busy
  <2>2. \A t \in Sync : Cardinality(Busy(t)') <= BatchSize[t]
    BY <2>1, EmptyFits
  <2> QED BY <1>2, <2>1, <2>2, SyncTasks DEF SyncInv
<1>10. ShareInv'
  BY <1>2 DEF ShareInv
<1> QED BY <1>5, <1>6, <1>7, <1>8, <1>9, <1>10 DEF IInv

LEMMA TrainInv == ASSUME IInv, Train PROVE IInv'
<1>1. /\ phase = "train" /\ phase' = "save"
      /\ group' = [g \in Gids |-> IF group[g].at = "batch" THEN NoGroup ELSE group[g]]
      /\ UNCHANGED <<train_step, model_step, weights, paused, task_pc, use_expired, saved, crashes>>
  BY DEF Train
<1>2. \A g \in Gids : \/ group[g].at = "batch" /\ group'[g] = NoGroup
                      \/ group[g].at # "batch" /\ group'[g] = group[g]
  BY <1>1
<1>3. TypeOK'
  <2>1. group' \in [Gids -> GroupType]
    BY <1>1, NoGroupIs DEF IInv, TypeOK
  <2> QED BY <1>1, <2>1 DEF IInv, TypeOK
<1>4. RecordInv'
  BY <1>2, NoGroupIs DEF IInv, RecordInv, Honest, Pending
<1>5. PhaseInv'
  BY <1>1, <1>2, NoGroupIs DEF IInv, PhaseInv, Pending
<1>6. FreshInv' /\ StepsInv' /\ ControlInv' /\ BatchIsWhole' /\ ShareInv'
  BY <1>1 DEF IInv, FreshInv, StepsInv, ControlInv, BatchIsWhole, ShareInv
<1>7. SavedInv'
  BY <1>1 DEF IInv, SavedInv, Honest
<1>8. SyncInv'
  <2>1. ASSUME NEW t \in Sync PROVE Busy(t)' = {}
    <3>1. Busy(t) = {}
      BY <1>1, <2>1 DEF IInv, SyncInv
    <3> QED BY <1>2, <3>1, NoGroupIs DEF Busy, Pending
  <2>2. \A t \in Sync : Cardinality(Busy(t)') <= BatchSize[t]
    BY <2>1, EmptyFits
  <2> QED BY <1>1, <2>1, <2>2 DEF SyncInv
<1> QED BY <1>3, <1>4, <1>5, <1>6, <1>7, <1>8 DEF IInv

LEMMA RestartInv == ASSUME IInv, Restart PROVE IInv'
<1>1. /\ group' = saved.group /\ paused' = FALSE
      /\ train_step' = IF saved.step >= TotalSteps THEN TotalSteps ELSE saved.step + 1
      /\ phase' = IF saved.step >= TotalSteps THEN "finished" ELSE "begin"
      /\ model_step' = RolloutModelStep(saved.step + 1) /\ weights' = saved.step
      /\ task_pc' = [t \in Tasks |-> "off"] /\ use_expired' = [t \in Tasks |-> FALSE]
      /\ UNCHANGED <<saved, crashes>>
  BY DEF Restart
<1>2. /\ saved.step \in 0..TotalSteps /\ saved.step % SyncInterval = 0
      /\ saved.group \in [Gids -> GroupType]
  BY DEF IInv, TypeOK, SavedInv
<1>3. RolloutModelStep(saved.step + 1) = saved.step
  BY <1>2, ModelStepIs, ColocateAssumption
<1>4. \A g \in Gids : /\ group'[g].at \in Stored \cup {"free"} /\ Honest(group'[g].tokens)
                      /\ group'[g].at = "free" => group'[g].tokens = {}
                      /\ TaskOf[g] \in Sync => group'[g].at = "free"
  BY <1>1 DEF IInv, SavedInv
<1>5. TypeOK'
  <2>1. train_step' \in 1..TotalSteps /\ model_step' \in 0..TotalSteps /\ weights' \in 0..TotalSteps
    BY <1>1, <1>2, <1>3, ColocateAssumption
  <2>2. /\ group' \in [Gids -> GroupType] /\ paused' \in BOOLEAN
        /\ phase' \in {"begin", "produce", "drain", "train", "save", "sync", "finished", "down"}
    BY <1>1, <1>2
  <2>3. /\ task_pc' \in [Tasks -> {"off", "start", "loop"}]
        /\ use_expired' \in [Tasks -> BOOLEAN]
    BY <1>1
  <2>4. /\ saved'.step \in 0..TotalSteps /\ saved'.group \in [Gids -> GroupType]
        /\ crashes' \in 0..MaxCrashes
    BY <1>1 DEF IInv, TypeOK
  <2> QED BY <2>1, <2>2, <2>3, <2>4 DEF TypeOK
<1>6. RecordInv' /\ PhaseInv'
  BY <1>4 DEF RecordInv, PhaseInv, Stored, Pending
<1>7. StepsInv'
  BY <1>1, <1>2, <1>3, ColocateAssumption DEF StepsInv
<1>8. FreshInv' /\ ControlInv' /\ BatchIsWhole' /\ ShareInv'
  BY <1>1, SyncTasks DEF FreshInv, ControlInv, BatchIsWhole, ShareInv
<1>9. SavedInv'
  BY <1>1 DEF IInv, SavedInv, Honest
<1>10. SyncInv'
  <2>1. \A t \in Sync : Busy(t)' = {}
    BY <1>4 DEF Busy, Pending
  <2>2. \A t \in Sync : Cardinality(Busy(t)') <= BatchSize[t]
    BY <2>1, EmptyFits
  <2>3. \A t \in Sync : PendingOf(t)' = {}
    BY <1>4 DEF PendingOf, Pending
  <2> QED BY <2>1, <2>2, <2>3 DEF SyncInv
<1> QED BY <1>5, <1>6, <1>7, <1>8, <1>9, <1>10 DEF IInv

LEMMA TakenIs ==
    ASSUME NEW r \in GroupType, NEW x, x = [r EXCEPT !.at = "batch"]
    PROVE  x \in GroupType /\ x.at = "batch" /\ x.tokens = r.tokens
  BY DEF GroupType

\* Every task gives the whole share that ShareInv says it has; a synchronous one
\* keeps nothing back.
LEMMA TakeInv == ASSUME IInv, Take PROVE IInv'
<1>1. PICK taken \in SUBSET {g \in Gids : group[g].at = "COMPLETED"} :
          /\ \A t \in Tasks :
                Cardinality({g \in taken : TaskOf[g] = t}) =
                    IF Cardinality(In(t, "COMPLETED")) < BatchSize[t]
                    THEN Cardinality(In(t, "COMPLETED")) ELSE BatchSize[t]
          /\ group' = [g \in Gids |-> IF g \in taken THEN [group[g] EXCEPT !.at = "batch"]
                                      ELSE group[g]]
  BY DEF Take
<1>2. /\ phase = "drain" /\ phase' = "train" /\ \A t \in Tasks : Drained(t)
      /\ UNCHANGED <<train_step, model_step, weights, paused, task_pc, use_expired, saved, crashes>>
  BY DEF Take
<1>3. group \in [Gids -> GroupType]
  BY DEF IInv, TypeOK
<1>4. ASSUME NEW g \in Gids, g \in taken
      PROVE  /\ group'[g] \in GroupType /\ group'[g].at = "batch"
             /\ group'[g].tokens = group[g].tokens /\ group[g].at = "COMPLETED"
  <2>1. group'[g] = [group[g] EXCEPT !.at = "batch"] /\ group[g].at = "COMPLETED"
    BY <1>1, <1>4
  <2> QED BY <1>3, <2>1, TakenIs
<1>5. \A g \in Gids : g \notin taken => group'[g] = group[g]
  BY <1>1
<1>6. \A g \in Gids : GroupOk(group[g], TaskOf[g]) /\ TaskOf[g] \in Tasks
  BY <1>2, GroupsOk
<1>7. \A t \in Tasks : PendingOf(t) = {}
  BY <1>2 DEF Drained, IInv, SyncInv
<1>8. \A t \in Tasks : Cardinality({g \in taken : TaskOf[g] = t}) = BatchSize[t]
  <2> SUFFICES ASSUME NEW t \in Tasks PROVE Cardinality({g \in taken : TaskOf[g] = t}) = BatchSize[t]
    OBVIOUS
  <2>1. Cardinality(In(t, "COMPLETED")) \in Nat /\ BatchSize[t] \in Nat
    BY FiniteGroups, ColocateAssumption DEF In
  <2>2. Cardinality(In(t, "COMPLETED")) >= BatchSize[t]
    BY <1>2 DEF IInv, ShareInv
  <2> QED BY <1>1, <2>1, <2>2
<1>9. TypeOK'
  <2>1. group' \in [Gids -> GroupType]
    BY <1>1, <1>3, <1>4, <1>5
  <2> QED BY <1>2, <2>1 DEF IInv, TypeOK
<1>10. RecordInv'
  <2> SUFFICES ASSUME NEW g \in Gids
               PROVE  /\ Honest(group'[g].tokens)
                      /\ group'[g].at = "free" => group'[g].tokens = {}
                      /\ group'[g].at = "done" => group'[g].out \in Outcomes
                      /\ TaskOf[g] \in Sync => /\ group'[g].at \notin {"ABORTED", "EXPIRED"}
                                               /\ group'[g].at \in Pending =>
                                                    group'[g].tokens = {} /\ group'[g].out # "ABORTED"
    BY DEF RecordInv
  <2>1. CASE g \in taken
    BY <1>4, <1>6, <2>1 DEF GroupOk, Pending
  <2>2. CASE g \notin taken
    BY <1>5, <1>6, <2>2 DEF GroupOk
  <2> QED BY <2>1, <2>2
<1>11. PhaseInv'
  <2>1. \A g \in Gids : group[g].at \notin Pending
    BY <1>6, <1>7 DEF PendingOf
  <2> QED BY <1>2, <1>4, <1>5, <2>1 DEF PhaseInv, Pending
<1>12. FreshInv'
  BY <1>2, <1>4, <1>5, <1>6 DEF FreshInv, GroupOk, HasStale, IsStale, Threshold
<1>13. StepsInv' /\ ControlInv' /\ ShareInv'
  BY <1>2 DEF IInv, StepsInv, ControlInv, ShareInv
<1>14. SavedInv'
  BY <1>2 DEF IInv, SavedInv, Honest
<1>15. BatchIsWhole'
  <2>1. \A t \in Tasks : In(t, "batch")' = {g \in taken : TaskOf[g] = t}
    BY <1>1, <1>4, <1>5, <1>6 DEF In, GroupOk
  <2> QED BY <1>8, <2>1 DEF BatchIsWhole
<1>16. SyncInv'
  <2>1. ASSUME NEW t \in Sync PROVE Busy(t)' = {}
    <3> DEFINE S == {g \in taken : TaskOf[g] = t}
    <3>1. t \in Tasks
      BY SyncTasks
    <3>2. S \in SUBSET Busy(t) /\ Busy(t) \in SUBSET Gids
      BY <1>1 DEF Busy
    <3>3. Cardinality(Busy(t)) <= Cardinality(S)
      BY <1>2, <1>8, <2>1, <3>1 DEF IInv, SyncInv
    <3>4. Cardinality(Busy(t)) \in Nat /\ Cardinality(S) \in Nat
      <4>1. S \in SUBSET Gids
        BY <3>2
      <4> QED BY <3>2, <4>1, FiniteGroups
    <3>5. S = Busy(t)
      <4> HIDE DEF S
      <4> QED BY <3>2, <3>3, <3>4, SameSize
    <3> QED BY <3>5, <1>4, <1>5 DEF Busy, Pending
  <2>2. \A t \in Sync : Cardinality(Busy(t)') <= BatchSize[t]
    BY <2>1, EmptyFits
  <2> QED BY <1>2, <2>1, <2>2 DEF SyncInv
<1> QED BY <1>9, <1>10, <1>11, <1>12, <1>13, <1>14, <1>15, <1>16 DEF IInv

-----------------------------------------------------------------------------
(* The invariant and what it says.                                         *)

LEMMA InitInv == ASSUME Init PROVE IInv
<1> USE DEF Init
<1>1. \A g \in Gids : group[g] = NoGroup /\ saved.group[g] = NoGroup
  OBVIOUS
<1>2. RolloutModelStep(1) = 0
  <2>1. 0 \in Nat /\ 0 % SyncInterval = 0
    BY ColocateAssumption
  <2> QED BY <2>1, ModelStepIs
<1>3. TypeOK
  <2>1. train_step \in 1..TotalSteps /\ model_step \in 0..TotalSteps /\ weights \in 0..TotalSteps
    BY <1>2, ColocateAssumption
  <2>2. group \in [Gids -> GroupType] /\ saved.group \in [Gids -> GroupType]
    BY NoGroupIs
  <2>3. saved.step \in 0..TotalSteps /\ crashes \in 0..MaxCrashes
    BY ColocateAssumption
  <2> QED BY <2>1, <2>2, <2>3 DEF TypeOK
<1>4. RecordInv /\ PhaseInv /\ FreshInv
  BY <1>1, NoGroupIs DEF RecordInv, PhaseInv, FreshInv, Pending, Honest
<1>5. StepsInv
  BY <1>2, ColocateAssumption DEF StepsInv
<1>6. ControlInv /\ ShareInv /\ BatchIsWhole
  BY SyncTasks DEF ControlInv, ShareInv, BatchIsWhole
<1>7. SyncInv
  <2>1. \A t \in Sync : Busy(t) = {}
    BY <1>1, NoGroupIs DEF Busy, Pending
  <2>2. \A t \in Sync : Cardinality(Busy(t)) <= BatchSize[t]
    BY <2>1, EmptyFits
  <2> QED BY <2>1, <2>2 DEF SyncInv
<1>8. SavedInv
  <2>1. saved.step % SyncInterval = 0
    BY ColocateAssumption
  <2> QED BY <1>1, <2>1, NoGroupIs DEF SavedInv, Honest
<1> QED BY <1>3, <1>4, <1>5, <1>6, <1>7, <1>8 DEF IInv

LEMMA StutterInv == ASSUME IInv, UNCHANGED vars PROVE IInv'
<1> USE DEF IInv, vars
<1>1. TypeOK' /\ StepsInv' /\ ControlInv'
  BY DEF TypeOK, StepsInv, ControlInv
<1>2. PhaseInv' /\ SavedInv'
  BY DEF PhaseInv, SavedInv, Honest
<1>3. FreshInv'
  BY DEF FreshInv, HasStale, IsStale, Threshold
<1>4. RecordInv' /\ BatchIsWhole' /\ ShareInv' /\ SyncInv'
  BY SameGroups, SyncTasks DEF BatchIsWhole, ShareInv, SyncInv
<1> QED BY <1>1, <1>2, <1>3, <1>4

LEMMA NextInv == ASSUME IInv, [Next]_vars PROVE IInv'
<1>1. CASE UNCHANGED vars
  BY <1>1, StutterInv
<1>2. CASE Begin \/ Pause \/ Take \/ Train \/ SaveCheckpoint \/ SyncWeights
  BY <1>2, BeginInv, PauseInv, TakeInv, TrainInv, SaveInv, SyncWeightsInv
<1>3. CASE Crash \/ Restart \/ Finished
  BY <1>3, CrashInv, RestartInv, StutterInv DEF Finished
<1>4. ASSUME NEW t \in Tasks, TaskStep(t) PROVE IInv'
  <2>1. phase = "produce"
    BY <1>4 DEF TaskStep
  <2>2. CASE StartSync(t) \/ StartAsync(t) \/ Schedule(t) \/ Enough(t)
    BY <1>4, <2>1, <2>2, StartSyncInv, StartAsyncInv, ScheduleInv, EnoughInv
  <2>3. CASE Collect(t)
    BY <1>4, <2>1, <2>3, PutDoneInv DEF Collect
  <2> QED BY <1>4, <2>2, <2>3 DEF TaskStep
<1>5. ASSUME NEW t \in Tasks, DrainPut(t) PROVE IInv'
  BY <1>5, PutDoneInv DEF DrainPut
<1>6. ASSUME NEW t \in Tasks, DrainCancel(t) PROVE IInv'
  BY <1>6, DrainCancelInv
<1>7. ASSUME NEW g \in Gids, NEW out \in Outcomes, Generate(g, out) PROVE IInv'
  BY <1>7, GenerateInv
<1> QED BY <1>1, <1>2, <1>3, <1>4, <1>5, <1>6, <1>7 DEF Next

LEMMA Invariance == Spec => []IInv
  BY InitInv, NextInv, PTL DEF Spec

\* Type correctness: groups, steps, the strategies' state and the checkpoint keep their
\* types through production, training, checkpoints, crashes and restarts.
THEOREM TypeCorrect == Spec => []TypeOK
<1>1. IInv => TypeOK
  BY DEF IInv
<1> QED BY <1>1, Invariance, PTL

\* take_train_batch always finds the whole share of every task, for any batch sizes,
\* oversampling, failures and expiries: the assertion on the batch cannot fail.
THEOREM BatchStaysWhole == Spec => []BatchIsWhole
<1>1. IInv => BatchIsWhole
  BY DEF IInv
<1> QED BY <1>1, Invariance, PTL

\* No generation runs from the moment the trainer takes the GPUs until it gives them
\* back, and a checkpoint is taken with nothing in flight, for synchronous tasks too.
THEOREM GpusAreQuiet == Spec => []NothingRunsInTraining
<1>1. IInv => NothingRunsInTraining
  BY ColocateAssumption DEF IInv, PhaseInv, NothingRunsInTraining, PendingOf
<1> QED BY <1>1, Invariance, PTL

\* Every trained token carries the step of the weights that made it and is within
\* its task's staleness, for any sync interval, also after a restart from a checkpoint.
THEOREM BatchStaysFresh == Spec => []BatchIsFresh
<1>1. IInv => BatchIsFresh
  BY DEF IInv, FreshInv, RecordInv, Honest, BatchIsFresh
<1> QED BY <1>1, Invariance, PTL
-----------------------------------------------------------------------------
(* What a task holds.  Within a step nothing expires, because everything   *)
(* was refreshed for this step and new tokens are at most one sync         *)
(* interval old; so a new prompt is only drawn when the groups in flight,  *)
(* the completed ones and a bounded rest of expired ones are all there is. *)

Slack(t) == IF Trigger[t] > 0 THEN Trigger[t] - 1 ELSE 0
HeldIn(f, t) == {g \in Gids : TaskOf[g] = t /\ f[g].at \in Pending \cup Stored}
Bounded(f) == \A t \in Tasks : Cardinality(HeldIn(f, t)) <= BatchSize[t] + Oversample[t] + Slack(t)
FreshFor(r, t) == ~HasStale(r.tokens, train_step, Threshold(t))

AllFresh == phase \in {"produce", "drain"} => \A g \in Gids : FreshFor(group[g], TaskOf[g])

Expirable ==
    \A g \in Gids : /\ group[g].at = "EXPIRED" => Retryable(TaskOf[g])
                    /\ saved.group[g].at = "EXPIRED" => Retryable(TaskOf[g])

\* Without a tail batch, fewer expired groups wait than would trigger one.
ExpiredFew ==
    phase = "produce" =>
        \A t \in Tasks : t \notin Sync /\ task_pc[t] = "loop" /\ ~use_expired[t] =>
            Cardinality(In(t, "EXPIRED")) <= Slack(t)

HInv == AllFresh /\ Expirable /\ ExpiredFew /\ Bounded(group) /\ Bounded(saved.group)

LEMMA SlackType ==
    ASSUME NEW t \in Tasks
    PROVE  Slack(t) \in Nat /\ BatchSize[t] \in Nat /\ Oversample[t] \in Nat
  BY ColocateAssumption DEF Slack

LEMMA Shrinks ==
    ASSUME NEW f, NEW h, Bounded(f), \A t \in Tasks : HeldIn(h, t) \subseteq HeldIn(f, t)
    PROVE  Bounded(h)
<1> SUFFICES ASSUME NEW t \in Tasks
             PROVE  Cardinality(HeldIn(h, t)) <= BatchSize[t] + Oversample[t] + Slack(t)
  BY DEF Bounded
<1>1. /\ HeldIn(f, t) \in SUBSET Gids /\ HeldIn(h, t) \in SUBSET HeldIn(f, t)
      /\ HeldIn(h, t) \in SUBSET Gids
  BY DEF HeldIn
<1>2. Cardinality(HeldIn(h, t)) <= Cardinality(HeldIn(f, t))
  BY <1>1, Monotone
<1>3. Cardinality(HeldIn(h, t)) \in Nat /\ Cardinality(HeldIn(f, t)) \in Nat
  BY <1>1, FiniteGroups
<1>4. Cardinality(HeldIn(f, t)) <= BatchSize[t] + Oversample[t] + Slack(t)
  BY DEF Bounded
<1> QED BY <1>2, <1>3, <1>4, SlackType

\* What is left of a group by the lifecycle is fresh.
LEMMA LifecycleFresh ==
    ASSUME NEW r \in GroupType, NEW t \in Tasks, NEW keep, NEW x, x = Lifecycle(r, t, Threshold(t), keep)
    PROVE  FreshFor(x, t)
<1>1. CASE ~HasStale(r.tokens, train_step, Threshold(t))
  BY <1>1 DEF Lifecycle, FreshFor
<1>2. CASE HasStale(r.tokens, train_step, Threshold(t)) /\ ~Retryable(t)
  BY <1>2, NoGroupIs DEF Lifecycle, FreshFor, HasStale
<1>3. CASE HasStale(r.tokens, train_step, Threshold(t)) /\ Retryable(t)
  <2> DEFINE kept == IF keep THEN FreshPart(r.tokens, train_step, Threshold(t)) ELSE {}
  <2>1. ~HasStale(kept, train_step, Threshold(t))
    BY DEF FreshPart, HasStale
  <2>2. x.tokens = kept
    BY <1>3 DEF Lifecycle
  <2> HIDE DEF kept
  <2> QED BY <2>1, <2>2 DEF FreshFor
<1> QED BY <1>1, <1>2, <1>3

\* A fresh group that ends within the step does not expire.
LEMMA PutFresh ==
    ASSUME TypeOK, StepsInv, phase \notin {"finished", "down"},
           NEW r \in GroupType, r.out \in Outcomes, NEW t \in Tasks, FreshFor(r, t),
           NEW keep, NEW x, x = PutGenerated(r, t, keep)
    PROVE  FreshFor(x, t) /\ x.at # "EXPIRED"
<1>1. CASE r.out = "FAILED"
  BY <1>1, NoGroupIs DEF PutGenerated, FreshFor, HasStale
<1>2. CASE r.out # "FAILED"
  <2> DEFINE labelled == IF r.gen = NoStep THEN r.tokens
                         ELSE r.tokens \cup {[label |-> model_step, gen |-> r.gen]}
  <2> DEFINE stored == [at |-> r.out, out |-> "none", tokens |-> labelled, gen |-> NoStep]
  <2>1. x = IF t \in Sync THEN stored ELSE Lifecycle(stored, t, Threshold(t), keep)
    BY <1>2 DEF PutGenerated
  <2>2. ~HasStale(labelled, train_step, Threshold(t))
    <3>1. ~IsStale(model_step, train_step, Threshold(t))
      BY ThresholdIs, ColocateAssumption DEF IsStale, SeqStaleness, StepsInv, TypeOK
    <3> QED BY <3>1 DEF HasStale, FreshFor
  <2> HIDE DEF labelled
  <2>3. stored.at = r.out /\ stored.tokens = labelled
    OBVIOUS
  <2> HIDE DEF stored
  <2>4. x = stored
    BY <2>1, <2>2, <2>3 DEF Lifecycle
  <2> QED BY <2>2, <2>3, <2>4, <1>2 DEF FreshFor, Outcomes
<1> QED BY <1>1, <1>2

\* Steps that move no group and do not begin a step.
LEMMA SameHolds ==
    ASSUME HInv, group' = group, saved' = saved \/ saved'.group = group,
           phase' \notin {"produce", "drain"} \/ UNCHANGED train_step,
           phase' \in {"produce", "drain"} => phase \in {"produce", "drain"}
    PROVE  AllFresh' /\ Expirable' /\ Bounded(group)' /\ Bounded(saved.group)'
<1> USE DEF HInv
<1>1. AllFresh'
  BY DEF AllFresh, FreshFor, HasStale, IsStale, Threshold
<1>2. Expirable'
  BY DEF Expirable, Retryable
<1>3. Bounded(group)' /\ Bounded(saved.group)'
  BY DEF Bounded, HeldIn
<1> QED BY <1>1, <1>2, <1>3

LEMMA QuietHolds ==
    ASSUME IInv, HInv,
           \/ Pause \/ SaveCheckpoint \/ SyncWeights \/ Crash \/ UNCHANGED vars
           \/ \E t \in Tasks : phase = "produce" /\ (Enough(t) \/ StartAsync(t))
    PROVE  HInv'
<1>1. CASE Pause \/ SaveCheckpoint \/ SyncWeights \/ Crash
  <2>1. /\ group' = group /\ (saved' = saved \/ saved'.group = group)
        /\ phase' # "produce" /\ (phase' = "drain" => phase = "produce" /\ train_step' = train_step)
    BY <1>1 DEF Pause, SaveCheckpoint, SyncWeights, ToNextStep, Crash
  <2>2. AllFresh' /\ Expirable' /\ Bounded(group)' /\ Bounded(saved.group)'
    BY <2>1, SameHolds
  <2> QED BY <2>1, <2>2 DEF HInv, ExpiredFew
<1>2. CASE UNCHANGED vars
  <2>1. /\ group' = group /\ saved' = saved /\ phase' = phase /\ train_step' = train_step
        /\ task_pc' = task_pc /\ use_expired' = use_expired
    BY <1>2 DEF vars
  <2>2. AllFresh' /\ Expirable' /\ Bounded(group)' /\ Bounded(saved.group)'
    BY <2>1, SameHolds
  <2>3. ExpiredFew'
    BY <2>1 DEF HInv, ExpiredFew, In
  <2> QED BY <2>2, <2>3 DEF HInv
<1>3. ASSUME NEW t \in Tasks, phase = "produce", Enough(t) \/ StartAsync(t) PROVE HInv'
  <2>1. group' = group /\ saved' = saved /\ phase' = phase /\ train_step' = train_step
    BY <1>3 DEF Enough, StartAsync
  <2>2. AllFresh' /\ Expirable' /\ Bounded(group)' /\ Bounded(saved.group)'
    BY <2>1, SameHolds
  <2>3. \A u \in Tasks : In(u, "EXPIRED")' = In(u, "EXPIRED")
    BY <2>1 DEF In
  <2>4. task_pc \in [Tasks -> {"off", "start", "loop"}] /\ use_expired \in [Tasks -> BOOLEAN]
    BY DEF IInv, TypeOK
  <2>5. CASE Enough(t)
    <3>1. /\ use_expired' = use_expired /\ task_pc'[t] = "off"
          /\ \A u \in Tasks : u # t => task_pc'[u] = task_pc[u]
      BY <2>4, <2>5 DEF Enough
    <3>2. \A u \in Tasks : u \notin Sync /\ task_pc'[u] = "loop" /\ ~use_expired'[u] =>
             Cardinality(In(u, "EXPIRED")) <= Slack(u)
      BY <1>3, <3>1 DEF HInv, ExpiredFew
    <3>3. ExpiredFew'
      BY <2>3, <3>2 DEF ExpiredFew, Slack
    <3> QED BY <2>2, <3>3 DEF HInv
  <2>6. CASE StartAsync(t)
    <3> DEFINE c == Cardinality(In(t, "EXPIRED"))
    <3>1. c \in Nat
      BY FiniteGroups DEF In
    <3>2. use_expired' = [use_expired EXCEPT ![t] = Trigger[t] >= 0 /\ c > 0 /\ c >= Trigger[t]]
      BY <2>6 DEF StartAsync
    <3>3. Trigger[t] = -1 => c = 0
      <4>1. Trigger[t] = -1 => In(t, "EXPIRED") = {}
        BY DEF HInv, Expirable, Retryable, In
      <4> QED BY <4>1, FS_EmptySet
    <3> HIDE DEF c
    <3>4. ~use_expired'[t] => c <= Slack(t)
      <4> DEFINE tail == Trigger[t] >= 0 /\ c > 0 /\ c >= Trigger[t]
      <4>1. use_expired'[t] = tail
        <5> HIDE DEF tail
        <5>1. use_expired' = [use_expired EXCEPT ![t] = tail]
          BY <3>2 DEF tail
        <5> QED BY <2>4, <5>1
      <4>2. Trigger[t] \in Nat \cup {-1}
        BY ColocateAssumption
      <4>3. ~tail => c <= Slack(t)
        BY <3>1, <3>3, <4>2 DEF Slack
      <4> HIDE DEF tail
      <4> QED BY <4>1, <4>3
    <3>5. \A u \in Tasks : u # t => use_expired'[u] = use_expired[u] /\ task_pc'[u] = task_pc[u]
      BY <2>4, <2>6, <3>2 DEF StartAsync
    <3>6. ~use_expired'[t] => Cardinality(In(t, "EXPIRED")) <= Slack(t)
      BY <3>4 DEF c
    <3>7. \A u \in Tasks : u \notin Sync /\ task_pc'[u] = "loop" /\ ~use_expired'[u] =>
             Cardinality(In(u, "EXPIRED")) <= Slack(u)
      BY <1>3, <3>5, <3>6 DEF HInv, ExpiredFew
    <3>8. ExpiredFew'
      BY <2>3, <3>7 DEF ExpiredFew, Slack
    <3> QED BY <2>2, <3>8 DEF HInv
  <2> QED BY <1>3, <2>5, <2>6
<1> QED BY <1>1, <1>2, <1>3
\* Within a step groups stay fresh and the EXPIRED pool does not grow.
LEMMA MoveStep ==
    ASSUME HInv, phase \in {"produce", "drain"}, UNCHANGED <<phase, train_step, use_expired, saved>>,
           \A u \in Tasks : u \notin Sync => task_pc'[u] = task_pc[u],
           \A g \in Gids : /\ FreshFor(group'[g], TaskOf[g])
                           /\ group'[g].at = "EXPIRED" => group[g].at = "EXPIRED"
    PROVE  AllFresh' /\ Expirable' /\ ExpiredFew' /\ Bounded(saved.group)'
<1> USE DEF HInv
<1>1. AllFresh'
  BY DEF AllFresh, FreshFor, HasStale, IsStale, Threshold
<1>2. Expirable'
  BY DEF Expirable, Retryable
<1>3. Bounded(saved.group)'
  BY DEF Bounded, HeldIn
<1>4. ExpiredFew'
  <2> SUFFICES ASSUME phase = "produce", NEW t \in Tasks, t \notin Sync, task_pc[t] = "loop", ~use_expired[t]
               PROVE  Cardinality(In(t, "EXPIRED")') <= Slack(t)
    BY DEF ExpiredFew, Slack
  <2>1. /\ In(t, "EXPIRED") \in SUBSET Gids /\ In(t, "EXPIRED")' \in SUBSET In(t, "EXPIRED")
        /\ In(t, "EXPIRED")' \in SUBSET Gids
    BY DEF In
  <2>2. Cardinality(In(t, "EXPIRED")') <= Cardinality(In(t, "EXPIRED"))
    BY <2>1, Monotone
  <2>3. Cardinality(In(t, "EXPIRED")') \in Nat /\ Cardinality(In(t, "EXPIRED")) \in Nat
    BY <2>1, FiniteGroups
  <2>4. Cardinality(In(t, "EXPIRED")) <= Slack(t)
    BY DEF ExpiredFew
  <2> QED BY <2>2, <2>3, <2>4, SlackType
<1> QED BY <1>1, <1>2, <1>3, <1>4

LEMMA NoGroupFresh == ASSUME NEW t \in Tasks PROVE FreshFor(NoGroup, t)
  BY NoGroupIs DEF FreshFor, HasStale

LEMMA GenerateHolds ==
    ASSUME IInv, HInv, NEW g \in Gids, NEW out \in Outcomes, Generate(g, out)
    PROVE  HInv'
<1>1. PICK old \in SUBSET group[g].tokens, made \in BOOLEAN :
          group' = [group EXCEPT ![g] =
              [at |-> "done", out |-> out, tokens |-> IF out = "FAILED" THEN {} ELSE old,
               gen |-> IF made /\ out # "FAILED" THEN @.gen ELSE NoStep]]
  BY DEF Generate
<1>2. /\ phase \in {"produce", "drain"} /\ group[g].at = "running" /\ task_pc' = task_pc
      /\ UNCHANGED <<phase, train_step, use_expired, saved>>
  BY DEF Generate
<1>3. group \in [Gids -> GroupType]
  BY DEF IInv, TypeOK
<1>4. group'[g].at = "done" /\ group'[g].tokens \subseteq group[g].tokens
  BY <1>1, <1>3
<1>5. \A h \in Gids : h # g => group'[h] = group[h]
  BY <1>1, <1>3
<1>6. \A h \in Gids : FreshFor(group[h], TaskOf[h])
  BY <1>2 DEF HInv, AllFresh
<1>7. FreshFor(group'[g], TaskOf[g])
  BY <1>4, <1>6 DEF FreshFor, HasStale
<1>8. AllFresh' /\ Expirable' /\ ExpiredFew' /\ Bounded(saved.group)'
  BY <1>2, <1>4, <1>5, <1>6, <1>7, MoveStep
<1>9. \A t \in Tasks : HeldIn(group', t) \subseteq HeldIn(group, t)
  BY <1>2, <1>4, <1>5 DEF HeldIn, Pending
<1>10. Bounded(group')
  BY <1>9, Shrinks DEF HInv
<1> QED BY <1>8, <1>10 DEF HInv, Bounded, HeldIn

LEMMA PutDoneHolds ==
    ASSUME IInv, HInv, phase \in {"produce", "drain"}, NEW t \in Tasks, PutDone(t)
    PROVE  HInv'
<1>1. PICK kept \in SUBSET In(t, "done") :
          group' = [g \in Gids |-> IF g \in In(t, "done") THEN PutGenerated(group[g], t, g \in kept)
                                   ELSE group[g]]
  BY DEF PutDone
<1>2. task_pc' = task_pc /\ UNCHANGED <<phase, train_step, use_expired, saved>>
  BY DEF PutDone
<1>3. \A g \in Gids : FreshFor(group[g], TaskOf[g])
  BY DEF HInv, AllFresh
<1>4. ASSUME NEW g \in Gids, TaskOf[g] = t, group[g].at = "done"
      PROVE  FreshFor(group'[g], t) /\ group'[g].at # "EXPIRED"
  <2> DEFINE x == group'[g]
  <2> DEFINE keep == g \in kept
  <2>1. x = PutGenerated(group[g], t, keep)
    BY <1>1, <1>4 DEF In
  <2>2. group[g] \in GroupType /\ group[g].out \in Outcomes
    BY <1>4 DEF IInv, TypeOK, RecordInv
  <2> HIDE DEF x, keep
  <2>3. FreshFor(x, t) /\ x.at # "EXPIRED"
    BY <1>3, <1>4, <2>1, <2>2, PutFresh DEF IInv
  <2> QED BY <2>3 DEF x
<1>5. \A g \in Gids : ~(TaskOf[g] = t /\ group[g].at = "done") => group'[g] = group[g]
  BY <1>1 DEF In
<1>6. AllFresh' /\ Expirable' /\ ExpiredFew' /\ Bounded(saved.group)'
  BY <1>2, <1>3, <1>4, <1>5, MoveStep
<1>7. \A u \in Tasks : HeldIn(group', u) \subseteq HeldIn(group, u)
  BY <1>5 DEF HeldIn, Pending
<1>8. Bounded(group')
  BY <1>7, Shrinks DEF HInv
<1> QED BY <1>6, <1>8 DEF HInv, Bounded, HeldIn

LEMMA DrainCancelHolds == ASSUME IInv, HInv, NEW t \in Tasks, DrainCancel(t) PROVE HInv'
<1>1. /\ phase = "drain" /\ task_pc' = task_pc
      /\ group' = [g \in Gids |-> IF g \in PendingOf(t) THEN NoGroup ELSE group[g]]
      /\ UNCHANGED <<phase, train_step, use_expired, saved>>
  BY DEF DrainCancel
<1>2. \A g \in Gids : group'[g] = NoGroup \/ group'[g] = group[g]
  BY <1>1
<1>3. \A g \in Gids : /\ FreshFor(group'[g], TaskOf[g])
                      /\ group'[g].at = "EXPIRED" => group[g].at = "EXPIRED"
  BY <1>1, <1>2, NoGroupFresh, NoGroupIs, ColocateAssumption DEF HInv, AllFresh
<1>4. AllFresh' /\ Expirable' /\ ExpiredFew' /\ Bounded(saved.group)'
  BY <1>1, <1>3, MoveStep
<1>5. \A u \in Tasks : HeldIn(group', u) \subseteq HeldIn(group, u)
  BY <1>2, NoGroupIs DEF HeldIn, Pending, Stored
<1>6. Bounded(group')
  BY <1>5, Shrinks DEF HInv
<1> QED BY <1>4, <1>6 DEF HInv, Bounded, HeldIn

LEMMA TrainerHolds == ASSUME IInv, HInv, Take \/ Train \/ Restart PROVE HInv'
<1>1. phase' \notin {"produce", "drain"}
  BY DEF Take, Train, Restart
<1>2. saved' = saved
  BY DEF Take, Train, Restart
<1>3. AllFresh' /\ ExpiredFew' /\ Bounded(saved.group)'
  BY <1>1, <1>2 DEF HInv, AllFresh, ExpiredFew, Bounded, HeldIn
<1>4. CASE Restart
  <2>1. group' = saved.group
    BY <1>4 DEF Restart
  <2>2. Expirable'
    BY <1>2, <2>1 DEF HInv, Expirable, Retryable
  <2>3. Bounded(group)'
    BY <2>1 DEF HInv, Bounded, HeldIn
  <2> QED BY <1>3, <2>2, <2>3 DEF HInv
<1>5. CASE Take \/ Train
  <2>1. group \in [Gids -> GroupType]
    BY DEF IInv, TypeOK
  <2>2. \A g \in Gids : group'[g] = group[g] \/ group'[g].at \in {"batch", "free"}
    <3>1. CASE Take
      <4>1. PICK taken \in SUBSET {g \in Gids : group[g].at = "COMPLETED"} :
                group' = [g \in Gids |-> IF g \in taken THEN [group[g] EXCEPT !.at = "batch"]
                                         ELSE group[g]]
        BY <3>1 DEF Take
      <4>2. \A g \in Gids : g \in taken => group'[g].at = "batch"
        <5> SUFFICES ASSUME NEW g \in Gids, g \in taken PROVE group'[g].at = "batch"
          OBVIOUS
        <5>1. group'[g] = [group[g] EXCEPT !.at = "batch"] /\ group[g] \in GroupType
          BY <2>1, <4>1
        <5> QED BY <5>1, TakenIs
      <4> QED BY <4>1, <4>2
    <3>2. CASE Train
      BY <3>2, NoGroupIs DEF Train
    <3> QED BY <1>5, <3>1, <3>2
  <2>3. Expirable'
    BY <1>2, <2>2 DEF HInv, Expirable, Retryable
  <2>4. \A u \in Tasks : HeldIn(group', u) \subseteq HeldIn(group, u)
    BY <2>2 DEF HeldIn, Pending, Stored
  <2>5. Bounded(group')
    BY <2>4, Shrinks DEF HInv
  <2> QED BY <1>3, <2>3, <2>5 DEF HInv, Bounded, HeldIn
<1> QED BY <1>4, <1>5
LEMMA BeginHolds == ASSUME IInv, HInv, Begin PROVE HInv'
<1>1. PICK kept : group' = [g \in Gids |-> Refreshed(g, g \in kept)]
  BY DEF Begin
<1>2. /\ phase = "begin" /\ phase' = "produce" /\ task_pc' = [t \in Tasks |-> "start"]
      /\ UNCHANGED <<train_step, saved>>
  BY DEF Begin
<1>3. ASSUME NEW g \in Gids
      PROVE  /\ FreshFor(group'[g], TaskOf[g])
             /\ group'[g].at \in Pending \cup Stored => group[g].at \in Pending \cup Stored
             /\ group'[g].at = "EXPIRED" => Retryable(TaskOf[g])
  <2> DEFINE r == group[g]
  <2> DEFINE t == TaskOf[g]
  <2> DEFINE x == group'[g]
  <2> DEFINE keep == g \in kept
  <2> DEFINE threshold == IF t \in Sync THEN 1 ELSE Threshold(t)
  <2>1. t \in Tasks /\ r \in GroupType
    BY ColocateAssumption DEF IInv, TypeOK
  <2>2. x = IF r.at \notin Stored THEN r ELSE Lifecycle(r, t, threshold, keep)
    BY <1>1 DEF Refreshed
  <2>3. (r.at = "free" => r.tokens = {}) /\ (t \in Sync => r.at \notin {"ABORTED", "EXPIRED"})
    BY DEF IInv, RecordInv
  <2>4. r.at \in Stored \cup {"free"}
    BY <1>2, <2>1, RecordFields DEF IInv, PhaseInv, Places
  <2>5. t \in Sync => r.at # "COMPLETED"
    BY <1>2 DEF IInv, SyncInv, Busy
  <2>6. r.at = "EXPIRED" => Retryable(t)
    BY DEF HInv, Expirable
  <2> HIDE DEF r, t, x, keep
  <2>7. CASE r.at = "free"
    <3>1. x = r
      BY <2>2, <2>7 DEF Stored
    <3>2. FreshFor(x, t)
      BY <2>3, <2>7, <3>1 DEF FreshFor, HasStale
    <3> QED BY <2>6, <3>1, <3>2 DEF r, t, x
  <2>8. CASE r.at \in Stored
    <3>1. t \notin Sync /\ threshold = Threshold(t)
      BY <2>3, <2>5, <2>8 DEF Stored
    <3>2. x = Lifecycle(r, t, Threshold(t), keep)
      BY <2>2, <2>8, <3>1
    <3>3. FreshFor(x, t)
      BY <2>1, <3>2, LifecycleFresh
    <3>4. x = r \/ x = NoGroup \/ (x.at = "EXPIRED" /\ Retryable(t))
      BY <2>1, <3>2, LifecycleIs
    <3>5. x.at = "EXPIRED" => Retryable(t)
      BY <2>6, <3>4, NoGroupIs
    <3> QED BY <2>8, <3>3, <3>5 DEF r, t, x
  <2> QED BY <2>4, <2>7, <2>8
<1>4. AllFresh'
  BY <1>2, <1>3 DEF AllFresh, FreshFor, HasStale, IsStale, Threshold
<1>5. Expirable'
  BY <1>2, <1>3 DEF HInv, Expirable, Retryable
<1>6. ExpiredFew'
  BY <1>2 DEF ExpiredFew
<1>7. \A u \in Tasks : HeldIn(group', u) \subseteq HeldIn(group, u)
  BY <1>3 DEF HeldIn
<1>8. Bounded(group')
  BY <1>7, Shrinks DEF HInv
<1> QED BY <1>2, <1>4, <1>5, <1>6, <1>8 DEF HInv, Bounded, HeldIn

LEMMA UnionBound ==
    ASSUME NEW S \in SUBSET Gids, NEW T \in SUBSET Gids
    PROVE  IsFiniteSet(S \cup T) /\ Cardinality(S \cup T) <= Cardinality(S) + Cardinality(T)
<1>1. IsFiniteSet(S) /\ IsFiniteSet(T) /\ Cardinality(S) \in Nat /\ Cardinality(T) \in Nat
  BY FiniteGroups
<1>2. Cardinality(S \cap T) \in Nat
  <2>1. S \cap T \in SUBSET Gids
    OBVIOUS
  <2> QED BY <2>1, FiniteGroups
<1>3. /\ IsFiniteSet(S \cup T)
      /\ Cardinality(S \cup T) = Cardinality(S) + Cardinality(T) - Cardinality(S \cap T)
  BY <1>1, FS_Union
<1> QED BY <1>1, <1>2, <1>3

\* A synchronous task holds what is in flight or completed, at most its batch.
LEMMA SyncHolds ==
    ASSUME IInv', phase' # "down", NEW t \in Sync
    PROVE  Cardinality(HeldIn(group', t)) <= BatchSize[t] + Oversample[t] + Slack(t)
<1>1. HeldIn(group', t) = Busy(t)'
  BY DEF HeldIn, Busy, IInv, RecordInv, Stored
<1>2. Cardinality(Busy(t)') <= BatchSize[t]
  BY DEF IInv, SyncInv
<1>3. Cardinality(Busy(t)') \in Nat
  BY FiniteGroups DEF Busy
<1> QED BY <1>1, <1>2, <1>3, SlackType, SyncTasks

LEMMA RunningFresh ==
    ASSUME NEW g \in Gids, FreshFor(group[g], TaskOf[g]), NEW x, x = Running(g)
    PROVE  FreshFor(x, TaskOf[g]) /\ x.at = "running"
  BY DEF Running, FreshFor

LEMMA StartSyncHolds ==
    ASSUME IInv, IInv', HInv, phase = "produce", NEW t \in Tasks, StartSync(t)
    PROVE  HInv'
<1>1. PICK new \in SUBSET In(t, "free") :
          group' = [g \in Gids |-> IF g \in new THEN Running(g) ELSE group[g]]
  BY DEF StartSync
<1>2. /\ t \in Sync /\ task_pc' = [task_pc EXCEPT ![t] = "loop"]
      /\ UNCHANGED <<phase, train_step, use_expired, saved>>
  BY DEF StartSync
<1>3. \A g \in Gids : FreshFor(group[g], TaskOf[g])
  BY DEF HInv, AllFresh
<1>4. \A g \in Gids : /\ FreshFor(group'[g], TaskOf[g])
                      /\ group'[g] = group[g] \/ (TaskOf[g] = t /\ group'[g].at = "running")
  BY <1>1, <1>3, RunningFresh DEF In
<1>5. \A u \in Tasks : u \notin Sync => task_pc'[u] = task_pc[u]
  BY <1>2 DEF IInv, TypeOK
<1>6. AllFresh' /\ Expirable' /\ ExpiredFew' /\ Bounded(saved.group)'
  BY <1>2, <1>4, <1>5, MoveStep
<1>7. Cardinality(HeldIn(group', t)) <= BatchSize[t] + Oversample[t] + Slack(t)
  BY <1>2, SyncHolds
<1>8. \A u \in Tasks : u # t => HeldIn(group', u) = HeldIn(group, u)
  BY <1>4 DEF HeldIn
<1>9. Bounded(group')
  BY <1>7, <1>8 DEF HInv, Bounded
<1> QED BY <1>6, <1>9 DEF HInv, Bounded, HeldIn

\* An unfinished group comes back first; a new prompt finds no aborted group, and
\* only expired ones that are too few for a tail batch.
LEMMA ScheduleHolds ==
    ASSUME IInv, IInv', HInv, phase = "produce", NEW t \in Tasks, Schedule(t)
    PROVE  HInv'
<1>1. PICK s \in SamplePool(t) : group' = [group EXCEPT ![s] = Running(s)]
  BY DEF Schedule
<1>2. /\ WantsMore(t) /\ Cardinality(PendingOf(t)) < DesiredPending(t) /\ task_pc' = task_pc
      /\ UNCHANGED <<phase, train_step, use_expired, saved>>
  BY DEF Schedule
<1>3. /\ s \in Gids /\ TaskOf[s] = t /\ group[s].at \in {"free", "ABORTED", "EXPIRED"}
      /\ group[s].at = "free" => /\ t \notin Sync => In(t, "ABORTED") = {}
                                 /\ use_expired[t] => In(t, "EXPIRED") = {}
  BY <1>1 DEF SamplePool, NewGroup, In
<1>4. group \in [Gids -> GroupType] /\ use_expired \in [Tasks -> BOOLEAN]
  BY DEF IInv, TypeOK
<1>5. \A g \in Gids : FreshFor(group[g], TaskOf[g])
  BY DEF HInv, AllFresh
<1>6. FreshFor(group'[s], TaskOf[s]) /\ group'[s].at = "running"
  <2>1. group'[s] = Running(s)
    BY <1>1, <1>3, <1>4
  <2> QED BY <2>1, <1>3, <1>5, RunningFresh
<1>7. \A g \in Gids : g # s => group'[g] = group[g]
  BY <1>1, <1>3, <1>4
<1>8. AllFresh' /\ Expirable' /\ ExpiredFew' /\ Bounded(saved.group)'
  BY <1>2, <1>5, <1>6, <1>7, MoveStep
<1>9. \A u \in Tasks : u # t => HeldIn(group', u) = HeldIn(group, u)
  BY <1>3, <1>7 DEF HeldIn
<1>10. Cardinality(HeldIn(group', t)) <= BatchSize[t] + Oversample[t] + Slack(t)
  <2>1. CASE t \in Sync
    BY <1>2, <2>1, SyncHolds
  <2>2. CASE group[s].at # "free"
    <3>1. HeldIn(group', t) = HeldIn(group, t)
      BY <1>3, <1>6, <1>7, <2>2 DEF HeldIn, Pending, Stored
    <3> QED BY <3>1 DEF HInv, Bounded
  <2>3. CASE t \notin Sync /\ group[s].at = "free"
    <3> DEFINE P == PendingOf(t)
    <3> DEFINE C == In(t, "COMPLETED")
    <3> DEFINE E == In(t, "EXPIRED")
    <3>1. P \in SUBSET Gids /\ C \in SUBSET Gids /\ E \in SUBSET Gids
      BY DEF PendingOf, In
    <3>2. HeldIn(group', t) = ((P \cup C) \cup E) \cup {s}
      <4>1. In(t, "ABORTED") = {}
        BY <1>3, <2>3
      <4>2. HeldIn(group, t) = ((P \cup C) \cup E) \cup In(t, "ABORTED")
        BY DEF HeldIn, PendingOf, In, Stored
      <4>3. HeldIn(group', t) = HeldIn(group, t) \cup {s}
        BY <1>3, <1>6, <1>7 DEF HeldIn, Pending
      <4> HIDE DEF P, C, E
      <4> QED BY <4>1, <4>2, <4>3
    <3>3. Cardinality(E) <= Slack(t)
      <4>1. CASE use_expired[t]
        <5>0. E = {}
          BY <1>3, <2>3, <4>1
        <5>1. Cardinality(E) = 0
          BY <5>0, FS_EmptySet
        <5> QED BY <5>1, SlackType
      <4>2. CASE ~use_expired[t]
        BY <1>2, <2>3, <4>2 DEF HInv, ExpiredFew, WantsMore
      <4> QED BY <4>1, <4>2
    <3>4. Cardinality(P) < BatchSize[t] + Oversample[t] - Cardinality(C)
      <4>1. Cardinality(P) \in Nat /\ Cardinality(C) \in Nat
        BY <3>1, FiniteGroups
      <4> DEFINE budget == IF use_expired[t] /\ Trigger[t] > 0 THEN 0 ELSE Oversample[t]
      <4>2. budget \in Nat /\ budget <= Oversample[t]
        BY SlackType
      <4>3. DesiredPending(t) =
               IF MaxPending[t] > 0 /\ MaxPending[t] < BatchSize[t] + budget - Cardinality(C)
               THEN MaxPending[t] ELSE BatchSize[t] + budget - Cardinality(C)
        BY DEF DesiredPending, Available
      <4> HIDE DEF budget, C, P
      <4>4. MaxPending[t] \in Nat
        BY ColocateAssumption
      <4>5. DesiredPending(t) <= BatchSize[t] + budget - Cardinality(C) /\ DesiredPending(t) \in Int
        BY <4>1, <4>2, <4>3, <4>4, SlackType
      <4>6. Cardinality(P) < DesiredPending(t)
        BY <1>2 DEF P
      <4> QED BY <4>1, <4>2, <4>5, <4>6, SlackType
    <3> HIDE DEF P, C, E
    <3>5. /\ Cardinality(P) \in Nat /\ Cardinality(C) \in Nat /\ Cardinality(E) \in Nat
          /\ IsFiniteSet(P) /\ IsFiniteSet(C) /\ IsFiniteSet(E)
      BY <3>1, FiniteGroups
    <3>6. IsFiniteSet(P \cup C) /\ Cardinality(P \cup C) <= Cardinality(P) + Cardinality(C)
      BY <3>1, <3>5, UnionBound
    <3>7. /\ IsFiniteSet((P \cup C) \cup E)
          /\ Cardinality((P \cup C) \cup E) <= Cardinality(P \cup C) + Cardinality(E)
      <4>1. P \cup C \in SUBSET Gids
        BY <3>1
      <4> QED BY <3>1, <4>1, UnionBound
    <3>8. Cardinality(((P \cup C) \cup E) \cup {s}) <= Cardinality((P \cup C) \cup E) + 1
      <4>1. Cardinality((P \cup C) \cup E) \in Nat
        BY <3>7, FS_CardinalityType
      <4>2. Cardinality(((P \cup C) \cup E) \cup {s}) =
               IF s \in (P \cup C) \cup E THEN Cardinality((P \cup C) \cup E)
               ELSE Cardinality((P \cup C) \cup E) + 1
        BY <3>7, FS_AddElement
      <4> QED BY <4>1, <4>2
    <3>9. /\ Cardinality(P \cup C) \in Nat /\ Cardinality((P \cup C) \cup E) \in Nat
          /\ Cardinality(((P \cup C) \cup E) \cup {s}) \in Nat
      <4>1. /\ P \cup C \in SUBSET Gids /\ (P \cup C) \cup E \in SUBSET Gids
            /\ ((P \cup C) \cup E) \cup {s} \in SUBSET Gids
        BY <1>3, <3>1
      <4> QED BY <4>1, FiniteGroups
    <3>10. Cardinality(((P \cup C) \cup E) \cup {s}) <= BatchSize[t] + Oversample[t] + Slack(t)
      BY <3>3, <3>4, <3>5, <3>6, <3>7, <3>8, <3>9, SlackType
    <3> QED BY <3>2, <3>10
  <2> QED BY <2>1, <2>2, <2>3
<1>11. Bounded(group')
  BY <1>9, <1>10 DEF HInv, Bounded
<1> QED BY <1>8, <1>11 DEF HInv, Bounded, HeldIn

LEMMA InitHolds == ASSUME Init PROVE HInv
<1>1. \A g \in Gids : group[g] = NoGroup /\ saved.group[g] = NoGroup
  BY DEF Init
<1>2. AllFresh /\ ExpiredFew
  BY DEF Init, AllFresh, ExpiredFew
<1>3. Expirable
  BY <1>1, NoGroupIs DEF Expirable
<1>4. \A t \in Tasks : HeldIn(group, t) = {} /\ HeldIn(saved.group, t) = {}
  BY <1>1, NoGroupIs DEF HeldIn, Pending, Stored
<1>5. \A t \in Tasks : 0 <= BatchSize[t] + Oversample[t] + Slack(t)
  BY SlackType
<1>6. Bounded(group) /\ Bounded(saved.group)
  BY <1>4, <1>5, FS_EmptySet DEF Bounded
<1> QED BY <1>2, <1>3, <1>6 DEF HInv

LEMMA NextHolds == ASSUME IInv, IInv', HInv, [Next]_vars PROVE HInv'
<1>1. CASE UNCHANGED vars \/ Pause \/ SaveCheckpoint \/ SyncWeights \/ Crash \/ Finished
  BY <1>1, QuietHolds DEF Finished
<1>2. CASE Begin \/ Take \/ Train \/ Restart
  BY <1>2, BeginHolds, TrainerHolds
<1>3. ASSUME NEW t \in Tasks, TaskStep(t) PROVE HInv'
  <2>1. phase = "produce"
    BY <1>3 DEF TaskStep
  <2>2. CASE StartSync(t) \/ Schedule(t)
    BY <1>3, <2>1, <2>2, StartSyncHolds, ScheduleHolds
  <2>3. CASE StartAsync(t) \/ Enough(t)
    BY <1>3, <2>1, <2>3, QuietHolds
  <2>4. CASE Collect(t)
    BY <1>3, <2>1, <2>4, PutDoneHolds DEF Collect
  <2> QED BY <1>3, <2>2, <2>3, <2>4 DEF TaskStep
<1>4. ASSUME NEW t \in Tasks, DrainPut(t) \/ DrainCancel(t) PROVE HInv'
  BY <1>4, PutDoneHolds, DrainCancelHolds DEF DrainPut
<1>5. ASSUME NEW g \in Gids, NEW out \in Outcomes, Generate(g, out) PROVE HInv'
  BY <1>5, GenerateHolds
<1> QED BY <1>1, <1>2, <1>3, <1>4, <1>5 DEF Next

\* What a task holds never outgrows one oversampled batch and the expired groups that
\* do not yet trigger a tail batch, over any number of steps, pauses and restarts.
THEOREM HoldingsStayBounded == Spec => []HoldingsBounded
<1>1. Init => HInv
  BY InitHolds
<1>2. IInv /\ IInv' /\ HInv /\ [Next]_vars => HInv'
  BY NextHolds
<1>3. HInv => HoldingsBounded
  BY DEF HInv, Bounded, HeldIn, Slack, HoldingsBounded, Held
<1> QED BY <1>1, <1>2, <1>3, Invariance, PTL DEF Spec
=============================================================================
