-------------------------- MODULE RecoveryProofs ---------------------------
(***************************************************************************)
(* Proofs about RolloutRecovery for any number of groups, steps and faults.*)
(*                                                                         *)
(* The properties speak of engines; what keeps them true is spread over    *)
(* two locks, three events and three program counters.  IInv says which    *)
(* thread may be where (Locks, Quiet), which group is whose (Claims), and  *)
(* what each engine holds at every point of the switch between rollout and *)
(* training (Flags, Engines, Contents).                                    *)
(***************************************************************************)
EXTENDS RolloutRecovery, TLAPS

\* Types of the variables the argument needs.
ThreadTypes ==
    /\ lifecycle_lock \in {Free, "health", "trainer"}
    /\ update_lock \in {Free, "pending", "trainer"}
    /\ health_pc \in HealthPcs
    /\ pending_pc \in PendingPcs
    /\ trainer_pc \in TrainerPcs
    /\ available \in BOOLEAN /\ recovery_done \in BOOLEAN

EngineTypes ==
    /\ lifecycle \in [Groups -> {"ACTIVE", "INACTIVE", "PENDING"}]
    /\ up \in [Groups -> BOOLEAN]
    /\ resident \in [Groups -> SUBSET Parts]
    /\ weights \in [Groups -> Nat]
    /\ abort \in [Groups -> BOOLEAN]
    /\ phase \in [Groups -> Phases]
    /\ version \in Nat /\ registered \in Nat /\ synced \in Nat /\ train_step \in Nat
    /\ bound \subseteq Groups /\ targets \subseteq Groups /\ probed \subseteq Groups

\* From the drained update lock to the next rollout phase.
AfterDrain == {"offload", "train", "sync_lock", "promote", "promote_notify", "bind",
               "onload_weights", "push", "onload_kv_cache", "start"}

\* The part of weight_update_guard after the promotion.
Pushing == trainer_pc = "push" \/ (trainer_pc = "onload_weights" /\ Syncing)
Window  == trainer_pc \in {"promote_notify", "bind"} \/ Pushing

\* Who holds the two locks, and when recovery_done is set.
Locks ==
    /\ lifecycle_lock = "health" <=> health_pc \in {"probe", "restart"}
    /\ lifecycle_lock = "trainer" <=> trainer_pc = "shut"
    /\ update_lock = "pending" <=> pending_pc \notin {"poll", "lock"}
    /\ CheckpointEngine /\ (trainer_pc = "promote" \/ Window) => update_lock = "trainer"
    /\ ~CheckpointEngine => pending_pc = "poll" /\ update_lock = Free
    /\ recovery_done <=> health_pc \in {"wait", "run", "probe"}

\* A recovery update is neither admitted nor under way once it was drained, and
\* the guard of a sync is only entered on a sync step.
Quiet ==
    /\ trainer_pc \in {"sync_lock", "promote", "promote_notify", "bind", "push"} => Syncing
    /\ trainer_pc \in AfterDrain \cup {"drain"} => ~available
    /\ trainer_pc \in AfterDrain => pending_pc \in {"poll", "lock", "recheck"}

Updating == {"bind", "onload", "push", "kv_cache", "promote", "undo"}

\* A claimed group is INACTIVE and its restart belongs to the health thread; the
\* groups under probe stay ACTIVE until the probes are in, and the targets of a
\* recovery update stay PENDING until the update marks them.
Claims ==
    /\ \A g \in Groups : phase[g] # "idle" => health_pc = "restart" /\ lifecycle[g] = "INACTIVE"
    /\ \A g \in probed : lifecycle[g] = "ACTIVE" /\ health_pc = "probe"
    /\ pending_pc \in Updating => \A g \in targets : lifecycle[g] = "PENDING"
    /\ pending_pc \in {"onload", "push"} => bound = targets

\* The abort flag of a restarted group is clear, and a rollout phase starts so.
Flags ==
    \A g \in Groups :
        /\ lifecycle[g] = "PENDING" \/ phase[g] \in {"started", "restarted"} => ~abort[g]
        /\ trainer_pc = "produce" /\ lifecycle[g] = "ACTIVE" => ~abort[g]

\* What is in memory: of the routed groups, and of the targets of an update.
Engines ==
    /\ trainer_pc \notin (AfterDrain \ {"offload", "start"}) \cup Ended =>
           \A g \in Groups : lifecycle[g] = "ACTIVE" /\ up[g] => resident[g] = Parts
    /\ trainer_pc \in {"push", "onload_kv_cache"} =>
           \A g \in Groups : lifecycle[g] = "ACTIVE" /\ up[g] => "weights" \in resident[g]
    /\ pending_pc \in {"push", "kv_cache"} =>
           \A g \in targets : up[g] => "weights" \in resident[g]
    /\ pending_pc = "promote" => \A g \in targets : up[g] => resident[g] = Parts

\* Which weights: the registered checkpoint is the synced one outside the push of
\* a sync, and so are the weights of the routed groups outside the sync window.
Contents ==
    /\ ~CheckpointEngine => registered = Empty
    /\ trainer_pc \notin Ended /\ ~Pushing => registered \in {Empty, synced}
    /\ Pushing => registered \in {Empty, version}
    /\ Pushing => \A g \in Groups : lifecycle[g] = "ACTIVE" => g \in bound
    /\ pending_pc \in Updating \ {"undo"} => registered # Empty
    /\ pending_pc \in {"kv_cache", "promote"} =>
           \A g \in targets : up[g] => weights[g] = registered
    /\ trainer_pc \notin Ended /\ ~Window =>
           \A g \in Groups : lifecycle[g] = "ACTIVE" /\ up[g] => weights[g] = synced

IInv ==
    /\ ThreadTypes /\ EngineTypes
    /\ Locks /\ Quiet /\ Claims /\ Flags /\ Engines /\ Contents

-----------------------------------------------------------------------------
(* Facts about single operators.                                           *)

\* A step that keeps train_step keeps whether it is a sync step.
LEMMA SyncingKept ==
    ASSUME train_step' = train_step
    PROVE  Syncing' = Syncing
BY DEF Syncing

\* The mark of an engine without weights is a version like the others.
LEMMA EmptyType == Empty \in Nat
BY RecoveryAssumption DEF Empty

-----------------------------------------------------------------------------
(* Every step of every thread keeps the invariant.                         *)

\* A worker thread of the recovery pool only touches a claimed, INACTIVE group.
LEMMA RestartKeeps ==
    ASSUME IInv, NEW g \in Groups, Restart(g)
    PROVE  IInv'
<1> USE RecoveryAssumption, SyncingKept, EmptyType DEF IInv, ThreadTypes, EngineTypes,
     Locks, Quiet, Claims, Flags, Engines, Contents, HealthPcs, PendingPcs, TrainerPcs,
     Ended, Phases, Parts, AfterDrain, Window, Pushing, Updating, Free, InState, Put,
     workerVars, versionVars, healthVars, pendingVars, trainerVars
<1>1. CASE RestartShutdown(g)
  <2> USE <1>1 DEF RestartShutdown, RestartFrame
  <2>1. ThreadTypes'
    OBVIOUS
  <2>2. EngineTypes'
    OBVIOUS
  <2>3. Locks'
    OBVIOUS
  <2>4. Quiet'
    OBVIOUS
  <2>5. Claims'
    OBVIOUS
  <2>6. Flags'
    OBVIOUS
  <2>7. Engines'
    OBVIOUS
  <2>8. Contents'
    OBVIOUS
  <2> QED
    BY <2>1, <2>2, <2>3, <2>4, <2>5, <2>6, <2>7, <2>8
<1>2. CASE RestartLaunch(g)
  <2> USE <1>2 DEF RestartLaunch, RestartFrame
  <2>1. ThreadTypes'
    OBVIOUS
  <2>2. EngineTypes'
    <3>1. weights' \in [Groups -> Nat]
      BY EmptyType
    <3>2. abort' \in [Groups -> BOOLEAN]
      OBVIOUS
    <3>3. up' \in [Groups -> BOOLEAN] /\ phase' \in [Groups -> Phases]
      OBVIOUS
    <3>4. resident' \in [Groups -> SUBSET Parts]
      OBVIOUS
    <3> QED
      BY <3>1, <3>2, <3>3, <3>4
  <2>3. Locks'
    OBVIOUS
  <2>4. Quiet'
    OBVIOUS
  <2>5. Claims'
    OBVIOUS
  <2>6. Flags'
    OBVIOUS
  <2>7. Engines'
    OBVIOUS
  <2>8. Contents'
    OBVIOUS
  <2> QED
    BY <2>1, <2>2, <2>3, <2>4, <2>5, <2>6, <2>7, <2>8
<1>3. CASE RestartOffload(g)
  <2> USE <1>3 DEF RestartOffload, RestartFrame
  <2>1. ThreadTypes'
    OBVIOUS
  <2>2. EngineTypes'
    OBVIOUS
  <2>3. Locks'
    OBVIOUS
  <2>4. Quiet'
    OBVIOUS
  <2>5. Claims'
    OBVIOUS
  <2>6. Flags'
    OBVIOUS
  <2>7. Engines'
    OBVIOUS
  <2>8. Contents'
    OBVIOUS
  <2> QED
    BY <2>1, <2>2, <2>3, <2>4, <2>5, <2>6, <2>7, <2>8
<1> QED
  BY <1>1, <1>2, <1>3 DEF Restart

\* The health thread: probes, claims under the lifecycle lock, recorded outcome.
LEMMA HealthKeeps ==
    ASSUME IInv, HealthNext
    PROVE  IInv'
<1> USE RecoveryAssumption, SyncingKept, EmptyType DEF IInv, ThreadTypes, EngineTypes,
     Locks, Quiet, Claims, Flags, Engines, Contents, HealthPcs, PendingPcs, TrainerPcs,
     Ended, Phases, Parts, AfterDrain, Window, Pushing, Updating, Free, InState, Put,
     workerVars, versionVars, healthVars, pendingVars, trainerVars
<1>1. CASE HealthWake
  BY <1>1 DEF HealthWake
<1>2. CASE HealthBegin
  BY <1>2 DEF HealthBegin
<1>3. CASE HealthProbe
  <2> USE <1>3 DEF HealthProbe, DoneAfter
  <2> HIDE DEF DoneAfter
  <2>0. PICK bad \in SUBSET probed :
          /\ Lost(bad) \subseteq probed
          /\ lifecycle' = Put(lifecycle, Lost(bad), "INACTIVE")
          /\ recovery_done' = DoneAfter(Lost(bad))
          /\ health_pc' = IF Lost(bad) = {} THEN "wait" ELSE "notify"
    BY DEF Lost
  <2>a. recovery_done' <=> Lost(bad) = {}
    BY <2>0 DEF DoneAfter
  <2>b. /\ health_pc \in {"probe"} /\ health_pc' \in {"wait", "notify"}
        /\ recovery_done' \in BOOLEAN
        /\ recovery_done' <=> health_pc' \in {"wait", "run", "probe"}
    BY <2>0, <2>a DEF DoneAfter
  <2> HIDE DEF HealthProbe
  <2>c. /\ lifecycle_lock' = Free
        /\ \A g \in Groups : lifecycle'[g] # lifecycle[g] => lifecycle[g] = "ACTIVE"
        /\ \A g \in Groups : lifecycle'[g] # lifecycle[g] => lifecycle'[g] = "INACTIVE"
        /\ probed' = {}
        /\ lifecycle' \in [Groups -> {"ACTIVE", "INACTIVE", "PENDING"}]
        /\ health_pc = "probe"
        /\ UNCHANGED <<workerVars, proxied, versionVars, phase, available, update_lock,
                       pendingVars, trainerVars>>
    BY <2>0 DEF HealthProbe
  <2>1. ThreadTypes'
    BY <2>b, <2>c
  <2>2. EngineTypes'
    BY <2>b, <2>c
  <2>3. Locks'
    BY <2>b, <2>c
  <2>4. Quiet'
    BY <2>b, <2>c
  <2>5. Claims'
    BY <2>b, <2>c
  <2>6. Flags'
    BY <2>b, <2>c
  <2>7. Engines'
    BY <2>b, <2>c
  <2>8. Contents'
    BY <2>b, <2>c
  <2> QED
    BY <2>1, <2>2, <2>3, <2>4, <2>5, <2>6, <2>7, <2>8
<1>4. CASE HealthNotify
  BY <1>4 DEF HealthNotify
<1>5. CASE HealthGate
  BY <1>5 DEF HealthGate
<1>6. CASE HealthClaim
  BY <1>6 DEF HealthClaim
<1>7. CASE HealthFinish
  BY <1>7 DEF HealthFinish, FailuresCleared, RecoveredState, Restarted
<1>8. CASE HealthSignal
  BY <1>8 DEF HealthSignal
<1>9. CASE \E g \in Groups : Restart(g)
  BY <1>9, RestartKeeps
<1> QED
  BY <1>1, <1>2, <1>3, <1>4, <1>5, <1>6, <1>7, <1>8, <1>9 DEF HealthNext

\* The recovery update: its targets stay PENDING from the read to the mark.
LEMMA PendingKeeps ==
    ASSUME IInv, PendingNext
    PROVE  IInv'
<1> USE RecoveryAssumption, SyncingKept, EmptyType DEF IInv, ThreadTypes, EngineTypes,
     Locks, Quiet, Claims, Flags, Engines, Contents, HealthPcs, PendingPcs, TrainerPcs,
     Ended, Phases, Parts, AfterDrain, Window, Pushing, Updating, Free, InState, Put,
     workerVars, versionVars, healthVars, pendingVars, trainerVars
<1>1. CASE PendingPoll
  BY <1>1 DEF PendingPoll, PendingFrame
<1>2. CASE PendingLock
  BY <1>2 DEF PendingLock, PendingFrame
<1>3. CASE PendingTargets
  BY <1>3 DEF PendingTargets, PendingFrame, Admit
<1>4. CASE PendingBind
  BY <1>4 DEF PendingBind, PendingFrame
<1>5. CASE PendingOnload
  BY <1>5 DEF PendingOnload, PendingFrame, Onload, AllUp
<1>6. CASE PendingPush
  BY <1>6 DEF PendingPush, PendingFrame, PushReaches
<1>7. CASE PendingKvCache
  BY <1>7 DEF PendingKvCache, PendingFrame, Onload, AllUp
<1>8. CASE PendingMark
  BY <1>8 DEF PendingMark, PendingFrame, MovePending, Promoted
<1>9. CASE PendingNotify
  BY <1>9 DEF PendingNotify, PendingFrame
<1> QED
  BY <1>1, <1>2, <1>3, <1>4, <1>5, <1>6, <1>7, <1>8, <1>9 DEF PendingNext

\* The trainer: from the pause through drain, training and sync to the next rollout.
LEMMA TrainerKeeps ==
    ASSUME IInv, TrainerNext
    PROVE  IInv'
<1> USE RecoveryAssumption, SyncingKept, EmptyType DEF IInv, ThreadTypes, EngineTypes,
     Locks, Quiet, Claims, Flags, Engines, Contents, HealthPcs, PendingPcs, TrainerPcs,
     Ended, Phases, Parts, AfterDrain, Window, Pushing, Updating, Free, InState, Put,
     workerVars, versionVars, healthVars, pendingVars, trainerVars
<1>1. CASE StartRollout
  <2> USE <1>1 DEF StartRollout, TrainerFrame, Goto
  <2>1. ThreadTypes'
    OBVIOUS
  <2>2. EngineTypes'
    OBVIOUS
  <2>3. Locks'
    OBVIOUS
  <2>4. Quiet'
    OBVIOUS
  <2>5. Claims'
    OBVIOUS
  <2>6. Flags'
    OBVIOUS
  <2>7. Engines'
    OBVIOUS
  <2>8. Contents'
    OBVIOUS
  <2> QED
    BY <2>1, <2>2, <2>3, <2>4, <2>5, <2>6, <2>7, <2>8
<1>2. CASE PauseChecks
  BY <1>2 DEF PauseChecks, TrainerFrame, Goto
<1>3. CASE WaitLock
  BY <1>3 DEF WaitLock, TrainerFrame, Goto
<1>4. CASE WaitDone
  BY <1>4 DEF WaitDone, TrainerFrame, Goto
<1>5. CASE WaitTimeout
  BY <1>5 DEF WaitTimeout, TrainerFrame, Goto
<1>6. CASE AbortActive
  <2> USE <1>6 DEF AbortActive, TrainerFrame, Goto
  <2>1. ThreadTypes'
    OBVIOUS
  <2>2. EngineTypes'
    OBVIOUS
  <2>3. Locks'
    OBVIOUS
  <2>4. Quiet'
    OBVIOUS
  <2>5. Claims'
    OBVIOUS
  <2>6. Flags'
    OBVIOUS
  <2>7. Engines'
    OBVIOUS
  <2>8. Contents'
    OBVIOUS
  <2> QED
    BY <2>1, <2>2, <2>3, <2>4, <2>5, <2>6, <2>7, <2>8
<1>7. CASE ShutGate
  BY <1>7 DEF ShutGate, TrainerFrame, Goto
<1>8. CASE ShutLock
  BY <1>8 DEF ShutLock, TrainerFrame, Goto, LockAvailable
<1>9. CASE ShutInactive
  <2>0. PICK gone \in SUBSET InState("INACTIVE") :
          up' = Put(up, gone, FALSE) /\ resident' = Put(resident, gone, {})
    BY <1>9 DEF ShutInactive
  <2>a. /\ up' \in [Groups -> BOOLEAN] /\ resident' \in [Groups -> SUBSET Parts]
        /\ \A g \in Groups : lifecycle[g] # "INACTIVE" =>
               up'[g] = up[g] /\ resident'[g] = resident[g]
        /\ \A g \in Groups : up'[g] => up[g] /\ resident'[g] = resident[g]
    BY <2>0
  <2>b. /\ trainer_pc = "shut" /\ trainer_pc' = "shut_notify" /\ lifecycle_lock' = Free
        /\ UNCHANGED <<train_step, raising, lifecycle, weights, abort, versionVars, available,
                       update_lock, health_pc, probed, phase, recovery_done, pendingVars>>
    BY <1>9 DEF ShutInactive, TrainerFrame
  <2>1. ThreadTypes'
    BY <2>a, <2>b
  <2>2. EngineTypes'
    BY <2>a, <2>b
  <2>3. Locks'
    BY <2>a, <2>b
  <2>4. Quiet'
    BY <2>a, <2>b
  <2>5. Claims'
    BY <2>a, <2>b
  <2>6. Flags'
    BY <2>a, <2>b
  <2>7. Engines'
    BY <2>a, <2>b
  <2>8. Contents'
    BY <2>a, <2>b
  <2> QED
    BY <2>1, <2>2, <2>3, <2>4, <2>5, <2>6, <2>7, <2>8
<1>10. CASE TrainerNotify
  BY <1>10 DEF TrainerNotify, TrainerFrame, Goto
<1>11. CASE ClearAvailable
  <2> USE <1>11 DEF ClearAvailable, TrainerFrame, Goto
  <2>1. ThreadTypes'
    OBVIOUS
  <2>2. EngineTypes'
    OBVIOUS
  <2>3. Locks'
    OBVIOUS
  <2>4. Quiet'
    OBVIOUS
  <2>5. Claims'
    OBVIOUS
  <2>6. Flags'
    OBVIOUS
  <2>7. Engines'
    OBVIOUS
  <2>8. Contents'
    OBVIOUS
  <2> QED
    BY <2>1, <2>2, <2>3, <2>4, <2>5, <2>6, <2>7, <2>8
<1>12. CASE DrainUpdate
  BY <1>12 DEF DrainUpdate, TrainerFrame, Goto, Drained
<1>13. CASE OffloadRollout
  BY <1>13 DEF OffloadRollout, SwitchFrame, TrainerFrame, Goto, Offload, AllUp
<1>14. CASE Train
  <2> USE <1>14 DEF Train, SwitchFrame, TrainerFrame, Goto
  <2>1. ThreadTypes'
    OBVIOUS
  <2>2. EngineTypes'
    OBVIOUS
  <2>3. Locks'
    OBVIOUS
  <2>4. Quiet'
    OBVIOUS
  <2>5. Claims'
    OBVIOUS
  <2>6. Flags'
    OBVIOUS
  <2>7. Engines'
    OBVIOUS
  <2>8. Contents'
    OBVIOUS
  <2> QED
    BY <2>1, <2>2, <2>3, <2>4, <2>5, <2>6, <2>7, <2>8
<1>15. CASE SyncLock
  BY <1>15 DEF SyncLock, SwitchFrame, TrainerFrame, Goto, SyncLockFree
<1>16. CASE Promote
  BY <1>16 DEF Promote, TrainerFrame, Goto, MovePending
<1>17. CASE Bind
  <2> USE <1>17 DEF Bind, SwitchFrame, TrainerFrame, Goto
  <2>1. ThreadTypes'
    OBVIOUS
  <2>2. EngineTypes'
    OBVIOUS
  <2>3. Locks'
    OBVIOUS
  <2>4. Quiet'
    OBVIOUS
  <2>5. Claims'
    OBVIOUS
  <2>6. Flags'
    OBVIOUS
  <2>7. Engines'
    OBVIOUS
  <2>8. Contents'
    OBVIOUS
  <2> QED
    BY <2>1, <2>2, <2>3, <2>4, <2>5, <2>6, <2>7, <2>8
<1>18. CASE OnloadWeights
  BY <1>18 DEF OnloadWeights, SwitchFrame, TrainerFrame, Goto, Onload, AllUp
<1>19. CASE Push
  BY <1>19 DEF Push, TrainerFrame, Goto, PushReaches
<1>20. CASE OnloadKvCache
  BY <1>20 DEF OnloadKvCache, SwitchFrame, TrainerFrame, Goto, Onload, AllUp
<1> QED
  BY <1>1, <1>2, <1>3, <1>4, <1>5, <1>6, <1>7, <1>8, <1>9, <1>10, <1>11, <1>12, <1>13,
     <1>14, <1>15, <1>16, <1>17, <1>18, <1>19, <1>20
     DEF TrainerNext, TrainerLock

\* A crash takes an engine down and its memory with it.
LEMMA CrashKeeps ==
    ASSUME IInv, NEW g \in Groups, Crash(g)
    PROVE  IInv'
<1> USE RecoveryAssumption, SyncingKept, EmptyType DEF IInv, ThreadTypes, EngineTypes,
     Locks, Quiet, Claims, Flags, Engines, Contents, HealthPcs, PendingPcs, TrainerPcs,
     Ended, Phases, Parts, AfterDrain, Window, Pushing, Updating, Free, InState, Put,
     workerVars, versionVars, healthVars, pendingVars, trainerVars
<1> QED
  BY DEF Crash

-----------------------------------------------------------------------------
(* The theorems.                                                           *)

\* The invariant holds when the servers have been launched.
LEMMA InvInit == Init => IInv
<1> SUFFICES ASSUME Init PROVE IInv
  OBVIOUS
<1> USE RecoveryAssumption, EmptyType DEF Init, Free, Ended, Parts, AfterDrain, Updating
<1>1. ThreadTypes
  BY DEF ThreadTypes, HealthPcs, PendingPcs, TrainerPcs
<1>2. EngineTypes
  BY DEF EngineTypes, Phases
<1>3. Locks /\ Quiet /\ Claims
  BY DEF Locks, Quiet, Claims, Window, Pushing
<1>4. Flags /\ Engines
  BY DEF Flags, Engines
<1>5. Contents
  BY DEF Contents, Window, Pushing
<1> QED
  BY <1>1, <1>2, <1>3, <1>4, <1>5 DEF IInv

\* IInv is an invariant of the recovery protocol for every configuration.
THEOREM InvariantHolds == Spec => []IInv
<1>1. Init => IInv
  BY InvInit
<1>2. IInv /\ [Next]_vars => IInv'
  <2> SUFFICES ASSUME IInv, [Next]_vars PROVE IInv'
    OBVIOUS
  <2>1. CASE HealthNext
    BY <2>1, HealthKeeps
  <2>2. CASE PendingNext
    BY <2>2, PendingKeeps
  <2>3. CASE TrainerNext
    BY <2>3, TrainerKeeps
  <2>4. CASE \E g \in Groups : Crash(g)
    BY <2>4, CrashKeeps
  <2>5. CASE UNCHANGED vars
    BY <2>5, SyncingKept
       DEF vars, workerVars, versionVars, healthVars, pendingVars, trainerVars, IInv,
           ThreadTypes, EngineTypes, Locks, Quiet, Claims, Flags, Engines, Contents,
           Window, Pushing
  <2> QED
    BY <2>1, <2>2, <2>3, <2>4, <2>5 DEF Next, Terminated
<1> QED
  BY <1>1, <1>2, PTL DEF Spec

\* While a batch is produced, every routed live engine is awake, accepts requests and
\* holds the weights of the last sync, whatever crashed and whoever restarted it.
THEOREM RoutedAreCurrent == Spec => []RoutedGroupsAreCurrent
<1>1. IInv => RoutedGroupsAreCurrent
  BY DEF IInv, ThreadTypes, EngineTypes, Flags, Engines, Contents, RoutedGroupsAreCurrent,
         InState, AfterDrain, Window, Pushing, Ended
<1> QED
  BY <1>1, InvariantHolds, PTL

\* A group under restart is INACTIVE and nobody else shuts it down.
THEOREM RestartIsExclusive == Spec => []RestartUndisturbed
<1>1. IInv => RestartUndisturbed
  BY DEF IInv, Locks, Claims, RestartUndisturbed
<1> QED
  BY <1>1, InvariantHolds, PTL

\* No recovery update runs beside training or beside the sync of a train step.
THEOREM UpdatesAreDrained == Spec => []NoPendingUpdateInTraining
<1>1. IInv => NoPendingUpdateInTraining
  BY DEF IInv, Quiet, NoPendingUpdateInTraining, AfterDrain
<1> QED
  BY <1>1, InvariantHolds, PTL

\* pause_generation only goes on when no recovery is under way.
THEOREM PauseWaits == Spec => PauseWaitsForRecovery
<1>1. IInv /\ [Next]_vars =>
        [trainer_pc = "pause_wait" /\ trainer_pc' = "abort" =>
             health_pc \in {"wait", "run", "probe"}]_vars
  <2> SUFFICES ASSUME IInv, Next, trainer_pc = "pause_wait", trainer_pc' = "abort"
               PROVE  recovery_done
    BY DEF IInv, Locks
  <2>1. CASE TrainerNext
    BY <2>1 DEF TrainerNext, TrainerLock, StartRollout, PauseChecks, WaitLock, WaitDone,
       WaitTimeout, AbortActive, ShutGate, ShutLock, ShutInactive, TrainerNotify, ClearAvailable,
       DrainUpdate, OffloadRollout, Train, SyncLock, Promote, Bind, OnloadWeights, Push,
       OnloadKvCache, Goto
  <2>2. trainer_pc' = trainer_pc \/ TrainerNext
    BY DEF Next, HealthNext, HealthWake, HealthBegin, HealthProbe, HealthNotify, HealthGate,
       HealthClaim, HealthFinish, HealthSignal, Restart, RestartShutdown, RestartLaunch,
       RestartOffload, RestartFrame, PendingNext, PendingPoll, PendingLock, PendingTargets,
       PendingBind, PendingOnload, PendingPush, PendingKvCache, PendingMark, PendingNotify,
       PendingFrame, Crash, Terminated, trainerVars, vars
  <2> QED
    BY <2>1, <2>2
<1> QED
  BY <1>1, InvariantHolds, PTL DEF Spec, PauseWaitsForRecovery
-----------------------------------------------------------------------------
(* The bounds of the types: steps, versions, failure counts and faults.    *)

\* Between training and the next rollout there is a next step.
VersionInv ==
    /\ weights \in [Groups -> Versions]
    /\ version \in Versions /\ registered \in Versions /\ synced \in Versions
    /\ train_step \in 1 .. TotalSteps
    /\ trainer_pc \in {"sync_lock", "promote", "promote_notify", "bind", "onload_weights", "push",
                       "onload_kv_cache"} => train_step < TotalSteps

\* A group that has used up its failures is INACTIVE until a restart clears them.
FailureInv ==
    /\ failures \in [Groups -> 0 .. Threshold]
    /\ \A g \in Groups : failures[g] = Threshold => lifecycle[g] = "INACTIVE"

OtherTypes ==
    /\ faults \in 0 .. MaxFaults
    /\ proxied \subseteq Groups /\ failed_groups \subseteq Groups /\ moved_groups \subseteq Groups
    /\ pause_event \in BOOLEAN /\ health_was_paused \in BOOLEAN
    /\ raising \in BOOLEAN /\ trainer_was_paused \in BOOLEAN

LEMMA VersionKeeps == ASSUME IInv, VersionInv, [Next]_vars PROVE VersionInv'
<1> USE RecoveryAssumption DEF VersionInv, Versions, Empty, Put, workerVars, versionVars,
     healthVars, pendingVars, trainerVars
<1>1. CASE UNCHANGED vars
  BY <1>1 DEF vars
<1>2. CASE \E g \in Groups : Crash(g)
  BY <1>2 DEF Crash
<1>3. CASE HealthNext
  <2>1. CASE \E g \in Groups : RestartLaunch(g)
    BY <2>1 DEF RestartLaunch, RestartFrame
  <2>2. CASE \E g \in Groups : RestartShutdown(g) \/ RestartOffload(g)
    BY <2>2 DEF RestartShutdown, RestartOffload, RestartFrame
  <2>3. CASE HealthWake \/ HealthBegin \/ HealthProbe \/ HealthNotify
    BY <2>3 DEF HealthWake, HealthBegin, HealthProbe, HealthNotify
  <2>4. CASE HealthGate \/ HealthClaim \/ HealthFinish \/ HealthSignal
    BY <2>4 DEF HealthGate, HealthClaim, HealthFinish, HealthSignal
  <2> QED BY <1>3, <2>1, <2>2, <2>3, <2>4 DEF HealthNext, Restart
<1>4. CASE PendingNext
  <2>1. CASE PendingPush
    BY <2>1 DEF PendingPush
  <2>2. CASE PendingPoll \/ PendingLock \/ PendingTargets \/ PendingBind
    BY <2>2 DEF PendingPoll, PendingLock, PendingTargets, PendingBind, PendingFrame
  <2>3. CASE PendingOnload \/ PendingKvCache \/ PendingMark \/ PendingNotify
    BY <2>3 DEF PendingOnload, PendingKvCache, PendingMark, PendingNotify, PendingFrame
  <2> QED BY <1>4, <2>1, <2>2, <2>3 DEF PendingNext
<1>5. CASE TrainerNext
  <2> USE DEF Goto, TrainerFrame, SwitchFrame
  <2>1. CASE StartRollout \/ PauseChecks \/ WaitLock \/ WaitDone \/ WaitTimeout \/ AbortActive
    BY <2>1 DEF StartRollout, PauseChecks, WaitLock, WaitDone, WaitTimeout, AbortActive
  <2>2. CASE ShutGate \/ ShutLock \/ ShutInactive \/ TrainerNotify \/ ClearAvailable
    BY <2>2 DEF ShutGate, ShutLock, ShutInactive, TrainerNotify, ClearAvailable
  <2>3. CASE DrainUpdate \/ OffloadRollout
    BY <2>3 DEF DrainUpdate, OffloadRollout
  <2>4. CASE Train
    BY <2>4 DEF Train
  <2>5. CASE SyncLock \/ Promote \/ Bind
    BY <2>5 DEF SyncLock, Promote, Bind
  <2>6. CASE OnloadWeights
    BY <2>6 DEF OnloadWeights
  <2>7. CASE Push
    BY <2>7 DEF Push
  <2>8. CASE OnloadKvCache
    BY <2>8 DEF OnloadKvCache
  <2> QED BY <1>5, <2>1, <2>2, <2>3, <2>4, <2>5, <2>6, <2>7, <2>8 DEF TrainerNext, TrainerLock
<1> QED BY <1>1, <1>2, <1>3, <1>4, <1>5 DEF Next, Terminated

\* Only HealthProbe and HealthFinish count; the others at most move a group that has
\* failures left.
LEMMA FailureKeeps == ASSUME IInv, FailureInv, [Next]_vars PROVE FailureInv'
<1> USE RecoveryAssumption DEF FailureInv, InState, Put, MovePending, workerVars, versionVars,
     healthVars, pendingVars, trainerVars
<1>1. CASE UNCHANGED vars
  BY <1>1 DEF vars
<1>2. CASE \E g \in Groups : Crash(g)
  BY <1>2 DEF Crash
<1>3. CASE HealthNext
  <2>1. CASE \E g \in Groups : Restart(g)
    BY <2>1 DEF Restart, RestartLaunch, RestartShutdown, RestartOffload, RestartFrame
  <2>2. CASE HealthWake \/ HealthBegin \/ HealthNotify \/ HealthGate \/ HealthClaim \/ HealthSignal
    BY <2>2 DEF HealthWake, HealthBegin, HealthNotify, HealthGate, HealthClaim, HealthSignal
  <2>3. CASE HealthFinish
    BY <2>3 DEF HealthFinish, FailuresCleared, RecoveredState, IInv, EngineTypes
  <2>4. CASE HealthProbe
    <3>1. PICK bad \in SUBSET probed : /\ failures' = Counted(bad)
                                      /\ lifecycle' = Put(lifecycle, Lost(bad), "INACTIVE")
      BY <2>4 DEF HealthProbe
    <3>2. probed \subseteq Groups /\ \A g \in probed : lifecycle[g] = "ACTIVE"
      BY DEF IInv, EngineTypes, Claims
    <3>3. \A g \in Groups : /\ failures[g] \in 0 .. Threshold
                            /\ g \in bad => failures[g] < Threshold
      BY <3>1, <3>2
    <3>4. \A g \in Groups : /\ failures'[g] \in 0 .. Threshold
                            /\ failures'[g] = Threshold =>
                                  g \in Lost(bad) \/ (g \notin probed /\ failures[g] = Threshold)
      BY <3>1, <3>3 DEF Counted, Lost
    <3>5. failures' \in [Groups -> 0 .. Threshold]
      BY <3>1, <3>4 DEF Counted
    <3> QED BY <3>1, <3>4, <3>5
  <2> QED BY <1>3, <2>1, <2>2, <2>3, <2>4 DEF HealthNext
<1>4. CASE PendingNext
  <2>1. CASE PendingMark
    BY <2>1 DEF PendingMark, PendingFrame
  <2>2. CASE PendingPoll \/ PendingLock \/ PendingTargets \/ PendingBind
    BY <2>2 DEF PendingPoll, PendingLock, PendingTargets, PendingBind, PendingFrame
  <2>3. CASE PendingOnload \/ PendingKvCache \/ PendingPush \/ PendingNotify
    BY <2>3 DEF PendingOnload, PendingKvCache, PendingPush, PendingNotify, PendingFrame
  <2> QED BY <1>4, <2>1, <2>2, <2>3 DEF PendingNext
<1>5. CASE TrainerNext
  <2> USE DEF TrainerFrame, SwitchFrame
  <2>1. CASE StartRollout \/ PauseChecks \/ WaitLock \/ WaitDone \/ WaitTimeout \/ AbortActive
    BY <2>1 DEF StartRollout, PauseChecks, WaitLock, WaitDone, WaitTimeout, AbortActive
  <2>2. CASE ShutGate \/ ShutLock \/ ShutInactive \/ TrainerNotify \/ ClearAvailable
    BY <2>2 DEF ShutGate, ShutLock, ShutInactive, TrainerNotify, ClearAvailable
  <2>3. CASE DrainUpdate \/ OffloadRollout \/ Train \/ SyncLock \/ Bind
    BY <2>3 DEF DrainUpdate, OffloadRollout, Train, SyncLock, Bind
  <2>4. CASE Promote
    BY <2>4 DEF Promote
  <2>5. CASE OnloadWeights \/ Push \/ OnloadKvCache
    BY <2>5 DEF OnloadWeights, Push, OnloadKvCache
  <2> QED BY <1>5, <2>1, <2>2, <2>3, <2>4, <2>5 DEF TrainerNext, TrainerLock
<1> QED BY <1>1, <1>2, <1>3, <1>4, <1>5 DEF Next, Terminated

LEMMA OtherKeeps == ASSUME IInv, OtherTypes, [Next]_vars PROVE OtherTypes'
<1>0. probed \subseteq Groups /\ targets \subseteq Groups
  BY DEF IInv, EngineTypes
<1> USE <1>0, RecoveryAssumption DEF OtherTypes, Fault, InState, workerVars, versionVars,
     healthVars, pendingVars, trainerVars
<1>1. CASE UNCHANGED vars
  BY <1>1 DEF vars
<1>2. CASE \E g \in Groups : Crash(g)
  BY <1>2 DEF Crash
<1>3. CASE HealthNext
  <2>1. CASE \E g \in Groups : Restart(g)
    BY <2>1 DEF Restart, RestartLaunch, RestartShutdown, RestartOffload, RestartFrame
  <2>2. CASE HealthWake \/ HealthBegin \/ HealthNotify \/ HealthGate \/ HealthClaim \/ HealthSignal
    BY <2>2 DEF HealthWake, HealthBegin, HealthNotify, HealthGate, HealthClaim, HealthSignal
  <2>3. CASE HealthFinish
    BY <2>3 DEF HealthFinish
  <2>4. CASE HealthProbe
    BY <2>4 DEF HealthProbe, Lost
  <2> QED BY <1>3, <2>1, <2>2, <2>3, <2>4 DEF HealthNext
<1>4. CASE PendingNext
  <2>1. CASE PendingMark \/ PendingNotify
    BY <2>1 DEF PendingMark, PendingNotify, PendingFrame
  <2>2. CASE PendingPoll \/ PendingLock \/ PendingTargets \/ PendingBind
    BY <2>2 DEF PendingPoll, PendingLock, PendingTargets, PendingBind, PendingFrame
  <2>3. CASE PendingOnload \/ PendingKvCache \/ PendingPush
    BY <2>3 DEF PendingOnload, PendingKvCache, PendingPush, PendingFrame
  <2> QED BY <1>4, <2>1, <2>2, <2>3 DEF PendingNext
<1>5. CASE TrainerNext
  <2> USE DEF TrainerFrame, SwitchFrame, Goto
  <2>0. CASE WaitTimeout
    <3>1. faults' \in 0 .. MaxFaults
      BY <2>0 DEF WaitTimeout
    <3>2. /\ pause_event' = pause_event /\ health_was_paused' = health_was_paused
          /\ raising' = TRUE /\ trainer_was_paused' = trainer_was_paused
      BY <2>0 DEF WaitTimeout
    <3>3. moved_groups' \subseteq Groups /\ proxied' \subseteq Groups /\ failed_groups' \subseteq Groups
      BY <2>0 DEF WaitTimeout
    <3> QED BY <3>1, <3>2, <3>3
  <2>1. CASE StartRollout \/ PauseChecks \/ WaitLock \/ WaitDone \/ AbortActive
    BY <2>1 DEF StartRollout, PauseChecks, WaitLock, WaitDone, AbortActive
  <2>2. CASE ShutGate \/ ShutLock \/ TrainerNotify \/ ClearAvailable
    BY <2>2 DEF ShutGate, ShutLock, TrainerNotify, ClearAvailable
  <2>3. CASE ShutInactive
    <3>1. faults' \in 0 .. MaxFaults
      BY <2>3 DEF ShutInactive
    <3>2. pause_event' \in BOOLEAN
      BY <2>3 DEF ShutInactive
    <3>3. moved_groups' \subseteq Groups /\ proxied' \subseteq Groups /\ failed_groups' \subseteq Groups
      BY <2>3 DEF ShutInactive
    <3>4. /\ health_was_paused' \in BOOLEAN /\ raising' \in BOOLEAN
          /\ trainer_was_paused' \in BOOLEAN
      BY <2>3 DEF ShutInactive
    <3> QED BY <3>1, <3>2, <3>3, <3>4
  <2>4. CASE DrainUpdate \/ OffloadRollout \/ Train \/ SyncLock \/ Bind
    BY <2>4 DEF DrainUpdate, OffloadRollout, Train, SyncLock, Bind
  <2>5. CASE Promote
    BY <2>5 DEF Promote
  <2>6. CASE OnloadWeights \/ Push \/ OnloadKvCache
    BY <2>6 DEF OnloadWeights, Push, OnloadKvCache
  <2> QED BY <1>5, <2>0, <2>1, <2>2, <2>3, <2>4, <2>5, <2>6 DEF TrainerNext, TrainerLock
<1> QED BY <1>1, <1>2, <1>3, <1>4, <1>5 DEF Next, Terminated

\* Type correctness of the three threads: train_step never passes total_train_steps,
\* no engine holds a version that was not trained, and a failure counter stops at the
\* threshold because a group that reached it is probed again only after a restart.
THEOREM RecoveryTypeCorrect == Spec => []TypeOK
<1> DEFINE Bounds == VersionInv /\ FailureInv /\ OtherTypes
<1>1. Init => Bounds
  <2> SUFFICES ASSUME Init PROVE Bounds
    OBVIOUS
  <2>1. VersionInv
    BY RecoveryAssumption DEF Init, VersionInv, Versions, Empty
  <2>2. FailureInv
    BY RecoveryAssumption DEF Init, FailureInv
  <2>3. OtherTypes
    <3>1. faults \in 0 .. MaxFaults
      BY RecoveryAssumption DEF Init
    <3> QED BY <3>1 DEF Init, OtherTypes
  <2> QED BY <2>1, <2>2, <2>3
<1>2. IInv /\ Bounds /\ [Next]_vars => Bounds'
  BY VersionKeeps, FailureKeeps, OtherKeeps
<1>3. IInv /\ Bounds => TypeOK
  BY DEF IInv, ThreadTypes, EngineTypes, VersionInv, FailureInv, OtherTypes, TypeOK
<1> HIDE DEF Bounds
<1> QED
  BY <1>1, <1>2, <1>3, InvariantHolds, PTL DEF Spec
=============================================================================
