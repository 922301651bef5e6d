-------------------------- MODULE RolloutRecovery --------------------------
(***************************************************************************)
(* Recovery of failed rollout engines under the colocated trainer.  Three  *)
(* threads share the engines:                                              *)
(*   trainer  RLColocateTrainer._fit, calling the RolloutController;       *)
(*   health   RolloutHealthManager: probes the active groups, marks failed *)
(*            ones INACTIVE and restarts them, with empty weights, into    *)
(*            PENDING_WEIGHTS;                                             *)
(*   pending  RLHealthManager: pushes the registered checkpoint into       *)
(*            pending groups and makes them ACTIVE.                        *)
(* A group is one lifecycle group of workers: every write to the registry  *)
(* covers a whole group, so one state stands for all its workers.          *)
(***************************************************************************)
EXTENDS Naturals, FiniteSets

CONSTANTS
    Groups,             \* RolloutTopology.lifecycle_groups
    Threshold,          \* health_check_failure_threshold, positive: checks enabled
    CheckpointEngine,   \* weight_transport_type = "checkpoint_engine"
    SyncInterval,       \* sync_weights_interval
    TotalSteps,         \* total_train_steps
    Faults,             \* the kinds of fault the environment may inject
    MaxFaults           \* bound on the number of faults

FaultKinds == {"crash", "shutdown", "restart", "update", "timeout"}

ASSUME RecoveryAssumption ==
    /\ Groups # {}
    /\ Threshold \in Nat \ {0}
    /\ CheckpointEngine \in BOOLEAN
    /\ SyncInterval \in Nat \ {0}
    /\ TotalSteps \in Nat \ {0}
    /\ Faults \subseteq FaultKinds
    /\ MaxFaults \in Nat

VARIABLES
    lifecycle,      \* WorkerSnapshot.lifecycle_state of each group
    up,             \* the group's inference server is running
    resident,       \* what its engine keeps in GPU memory
    weights,        \* the version its engine was last given; Empty after a restart
    abort,          \* RolloutWorker.receive_abort_request
    proxied,        \* groups whose session URLs the routed proxy knows
    bound,          \* targets of the last bind_rollout_weight_update
    version,        \* version of the trained weights: train steps done
    registered,     \* version in the checkpoint engine, or Empty
    synced,         \* version the trainer last pushed to the rollout side
    pause_event, recovery_done, failures, lifecycle_lock,   \* RolloutHealthManager
    health_pc, health_was_paused, probed, failed_groups,
    phase,          \* progress of _restart_worker_group for each claimed group
    available, update_lock, pending_pc, targets,            \* RLHealthManager
    trainer_pc, train_step, raising, trainer_was_paused,
    moved_groups,   \* groups the trainer's controller call has still to notify of
    faults

workerVars  == <<up, resident, weights, abort>>
versionVars == <<bound, version, registered, synced>>
healthVars  == <<health_pc, health_was_paused, probed, failed_groups, phase, failures,
                 recovery_done>>
pendingVars == <<pending_pc, targets>>
trainerVars == <<trainer_pc, train_step, raising, trainer_was_paused, moved_groups>>
vars == <<lifecycle, workerVars, proxied, versionVars, pause_event, lifecycle_lock,
          healthVars, available, update_lock, pendingVars, trainerVars, faults>>

Free == "free"
Empty == TotalSteps + 1
Parts == {"weights", "kv_cache"}
Ended == {"done", "failed"}

-----------------------------------------------------------------------------
(* Registry, engines and faults.                                           *)

InState(s)      == {g \in Groups : lifecycle[g] = s}
Put(f, S, v)    == [g \in Groups |-> IF g \in S THEN v ELSE f[g]]

\* Only some kinds of fault, and only MaxFaults of them, are injected.
Fault(kind) == kind \in Faults /\ faults < MaxFaults /\ faults' = faults + 1

\* wake_up(tags) of the groups in S; a dead server answers with an exception,
\* but the requests to the live ones have been sent.
Onload(S, part) ==
    resident' = [g \in Groups |-> IF g \in S /\ up[g] THEN resident[g] \cup {part} ELSE resident[g]]
Offload(S) == resident' = Put(resident, {g \in S : up[g]}, {})
AllUp(S)   == \A g \in S : up[g]

\* A push needs every bound server running with its weights in memory.
PushReaches(S) == \A g \in S : up[g] /\ "weights" \in resident[g]

\* set_groups_state(source_state=PENDING_WEIGHTS) for the groups in S.
MovePending(S, s) == lifecycle' = Put(lifecycle, S \cap InState("PENDING"), s)

\* An engine dies: out of memory, a lost process, an injected backend crash.
Crash(g) ==
    /\ up[g]
    /\ Fault("crash")
    /\ up' = [up EXCEPT ![g] = FALSE]
    /\ resident' = [resident EXCEPT ![g] = {}]
    /\ UNCHANGED <<lifecycle, weights, abort, proxied, versionVars, pause_event, lifecycle_lock,
                   healthVars, available, update_lock, pendingVars, trainerVars>>

-----------------------------------------------------------------------------
(* RolloutHealthManager thread.                                            *)

\* _wait_until_next_check: the thread only leaves the wait when not paused.
HealthWake ==
    /\ health_pc = "wait" /\ ~pause_event
    /\ health_pc' = "run"
    /\ UNCHANGED <<lifecycle, workerVars, proxied, versionVars, pause_event, lifecycle_lock,
                   health_was_paused, probed, failed_groups, phase, failures, recovery_done,
                   available, update_lock, pendingVars, trainerVars, faults>>

\* run_once up to the probes: give up when another lifecycle operation holds
\* the lock or the manager was paused meanwhile, else probe the active groups.
HealthBegin ==
    /\ health_pc = "run"
    /\ IF lifecycle_lock # Free \/ pause_event
       THEN /\ health_pc' = "wait"
            /\ UNCHANGED <<lifecycle_lock, probed>>
       ELSE /\ health_pc' = "probe"
            /\ lifecycle_lock' = "health"
            /\ probed' = InState("ACTIVE")
    /\ UNCHANGED <<lifecycle, workerVars, proxied, versionVars, pause_event,
                   health_was_paused, failed_groups, phase, failures, recovery_done,
                   available, update_lock, pendingVars, trainerVars, faults>>

\* _WorkerHealthFailureTracker.update_failed_ranks, when the groups in bad of the
\* probed ones failed: a healthy probe starts the count again.
Counted(bad) == [g \in Groups |-> IF g \in bad THEN failures[g] + 1
                                  ELSE IF g \in probed THEN 0 ELSE failures[g]]
Lost(bad) == {g \in bad : Counted(bad)[g] >= Threshold}

\* A dead server fails its probe, an awake engine passes, one that is not fully
\* in memory may do either.
Unhealthy(bad) ==
    /\ {g \in probed : ~up[g]} \subseteq bad
    /\ bad \subseteq {g \in probed : resident[g] # Parts}

\* Mutant: recovery_done is left set while a recovery is under way.
DoneUntouched(lost) == recovery_done

\* recovery_done.clear() when groups were lost.
DoneAfter(lost) == recovery_done /\ lost = {}

\* run_once after the probes.  Groups that reach the threshold become INACTIVE and
\* recovery_done is cleared under the lock.
HealthProbe ==
    /\ health_pc = "probe"
    /\ \E bad \in SUBSET probed :
         /\ Unhealthy(bad)
         /\ failures' = Counted(bad)
         /\ failed_groups' = Lost(bad)
         /\ lifecycle' = Put(lifecycle, Lost(bad), "INACTIVE")
         /\ recovery_done' = DoneAfter(Lost(bad))
         /\ health_pc' = IF Lost(bad) = {} THEN "wait" ELSE "notify"
    /\ probed' = {}
    /\ lifecycle_lock' = Free
    /\ UNCHANGED <<workerVars, proxied, versionVars, pause_event, health_was_paused, phase,
                   available, update_lock, pendingVars, trainerVars, faults>>

\* on_worker_group_inactive, outside the lock.
HealthNotify ==
    /\ health_pc = "notify"
    /\ proxied' = proxied \ failed_groups
    /\ failed_groups' = {}
    /\ health_pc' = "gate"
    /\ UNCHANGED <<lifecycle, workerVars, versionVars, pause_event, lifecycle_lock,
                   health_was_paused, probed, phase, failures, recovery_done,
                   available, update_lock, pendingVars, trainerVars, faults>>

\* _background_health_checks_paused on entry: remember the flag, then set it.
HealthGate ==
    /\ health_pc = "gate"
    /\ health_was_paused' = pause_event
    /\ pause_event' = TRUE
    /\ health_pc' = "lock"
    /\ UNCHANGED <<lifecycle, workerVars, proxied, versionVars, lifecycle_lock,
                   probed, failed_groups, phase, failures, recovery_done,
                   available, update_lock, pendingVars, trainerVars, faults>>

\* The lifecycle lock, then get_inactive_groups_for_recovery.
HealthClaim ==
    /\ health_pc = "lock" /\ lifecycle_lock = Free
    /\ lifecycle_lock' = "health"
    /\ phase' = Put(phase, InState("INACTIVE"), "claimed")
    /\ health_pc' = "restart"
    /\ UNCHANGED <<lifecycle, workerVars, proxied, versionVars, pause_event,
                   health_was_paused, probed, failed_groups, failures, recovery_done,
                   available, update_lock, pendingVars, trainerVars, faults>>

\* A worker thread of the recovery pool has shut the group down, started it again
\* and offloaded it (or given up): the three steps of _restart_worker_group.
RestartFrame ==
    UNCHANGED <<lifecycle, proxied, versionVars, pause_event, lifecycle_lock, health_pc,
                health_was_paused, probed, failed_groups, failures, recovery_done,
                available, update_lock, pendingVars, trainerVars>>

RestartShutdown(g) ==
    /\ phase[g] = "claimed"
    /\ \/ /\ phase' = [phase EXCEPT ![g] = "down"]
          /\ up' = [up EXCEPT ![g] = FALSE]
          /\ resident' = [resident EXCEPT ![g] = {}]
          /\ UNCHANGED faults
       \/ /\ Fault("shutdown")
          /\ phase' = [phase EXCEPT ![g] = "failed"]
          /\ UNCHANGED <<up, resident>>
    /\ UNCHANGED <<weights, abort>>
    /\ RestartFrame

\* reinit with skip_load_weights, then the group's health check.
RestartLaunch(g) ==
    /\ phase[g] = "down"
    /\ \/ /\ phase' = [phase EXCEPT ![g] = "started"]
          /\ up' = [up EXCEPT ![g] = TRUE]
          /\ resident' = [resident EXCEPT ![g] = Parts]
          /\ UNCHANGED faults
       \/ /\ Fault("restart")
          /\ phase' = [phase EXCEPT ![g] = "failed"]
          /\ UNCHANGED <<up, resident>>
    /\ weights' = [weights EXCEPT ![g] = Empty]
    /\ abort' = [abort EXCEPT ![g] = FALSE]
    /\ RestartFrame

\* Offload to the sleeping baseline; after an exception the group is shut down again.
RestartOffload(g) ==
    /\ phase[g] = "started"
    /\ resident' = [resident EXCEPT ![g] = {}]
    /\ \/ /\ up[g]
          /\ phase' = [phase EXCEPT ![g] = "restarted"]
          /\ UNCHANGED <<up, faults>>
       \/ /\ IF up[g] THEN Fault("restart") ELSE UNCHANGED faults
          /\ phase' = [phase EXCEPT ![g] = "failed"]
          /\ up' = [up EXCEPT ![g] = FALSE]
    /\ UNCHANGED <<weights, abort>>
    /\ RestartFrame

Restarted == {g \in Groups : phase[g] = "restarted"}

\* Mutant: a restarted group goes straight back to ACTIVE.
RecoveredActive == "ACTIVE"

\* Mutant: the failures of a restarted group are not forgotten.
FailuresKept == failures

\* _WorkerHealthFailureTracker.clear for the restarted groups.
FailuresCleared == Put(failures, Restarted, 0)

\* A recovered group may not be routed to before weights were pushed into it.
RecoveredState == "PENDING"

\* _restart_claimed_recovery_groups records the outcome and the two context
\* managers of _paused_lifecycle_operation release the lock and resume.
HealthFinish ==
    /\ health_pc = "restart"
    /\ \A g \in Groups : phase[g] \in {"idle", "restarted", "failed"}
    /\ lifecycle' = Put(lifecycle, Restarted, RecoveredState)
    /\ failures' = FailuresCleared
    /\ phase' = [g \in Groups |-> "idle"]
    /\ lifecycle_lock' = Free
    /\ pause_event' = (pause_event /\ health_was_paused)
    /\ health_pc' = "signal"
    /\ UNCHANGED <<workerVars, proxied, versionVars, health_was_paused, probed, failed_groups,
                   recovery_done, available, update_lock, pendingVars, trainerVars, faults>>

\* Mutant: run_once ends without setting recovery_done.
HealthSignalSkipped ==
    /\ health_pc = "signal"
    /\ health_pc' = "wait"
    /\ UNCHANGED <<lifecycle, workerVars, proxied, versionVars, pause_event, lifecycle_lock,
                   health_was_paused, probed, failed_groups, phase, failures, recovery_done,
                   available, update_lock, pendingVars, trainerVars, faults>>

\* The finally of run_once.
HealthSignal ==
    /\ health_pc = "signal"
    /\ recovery_done' = TRUE
    /\ health_pc' = "wait"
    /\ UNCHANGED <<lifecycle, workerVars, proxied, versionVars, pause_event, lifecycle_lock,
                   health_was_paused, probed, failed_groups, phase, failures,
                   available, update_lock, pendingVars, trainerVars, faults>>

Restart(g) == RestartShutdown(g) \/ RestartLaunch(g) \/ RestartOffload(g)

HealthNext ==
    \/ HealthWake \/ HealthBegin \/ HealthProbe \/ HealthNotify \/ HealthGate
    \/ HealthClaim \/ HealthFinish \/ HealthSignal
    \/ \E g \in Groups : Restart(g)

-----------------------------------------------------------------------------
(* RLHealthManager thread (only with the checkpoint engine).               *)

PendingFrame ==
    UNCHANGED <<weights, up, abort, version, registered, synced, pause_event, lifecycle_lock,
                healthVars, available, trainerVars>>

\* The poll: rollout resources are available, so try the update lock.
PendingPoll ==
    /\ CheckpointEngine /\ trainer_pc \notin Ended
    /\ pending_pc = "poll" /\ available
    /\ pending_pc' = "lock"
    /\ UNCHANGED <<lifecycle, resident, proxied, bound, update_lock, targets, faults>>
    /\ PendingFrame

\* The lock is tried without blocking.
PendingLock ==
    /\ pending_pc = "lock"
    /\ IF update_lock = Free
       THEN update_lock' = "pending" /\ pending_pc' = "recheck"
       ELSE pending_pc' = "poll" /\ UNCHANGED update_lock
    /\ UNCHANGED <<lifecycle, resident, proxied, bound, targets, faults>>
    /\ PendingFrame

\* Mutant: the phase is not checked again under the lock.
AdmitAnyPhase == registered # Empty

\* The rollout phase may have ended before the lock was taken, and without a
\* registered checkpoint the update is deferred.
Admit == available /\ registered # Empty

\* get_weight_update_targets(PENDING_WEIGHTS) once the update is admitted.
PendingTargets ==
    /\ pending_pc = "recheck"
    /\ IF Admit /\ InState("PENDING") # {}
       THEN /\ targets' = InState("PENDING")
            /\ pending_pc' = "bind"
            /\ UNCHANGED update_lock
       ELSE /\ update_lock' = Free
            /\ pending_pc' = "poll"
            /\ UNCHANGED targets
    /\ UNCHANGED <<lifecycle, resident, proxied, bound, faults>>
    /\ PendingFrame

PendingBind ==
    /\ pending_pc = "bind"
    /\ bound' = targets
    /\ pending_pc' = "onload"
    /\ UNCHANGED <<lifecycle, resident, proxied, update_lock, targets, faults>>
    /\ PendingFrame

\* onload_weights goes to the groups that are pending when the call arrives.
PendingOnload ==
    /\ pending_pc = "onload"
    /\ Onload(InState("PENDING"), "weights")
    /\ pending_pc' = IF AllUp(InState("PENDING")) THEN "push" ELSE "undo"
    /\ UNCHANGED <<lifecycle, proxied, bound, update_lock, targets, faults>>
    /\ PendingFrame

\* weight_update(need_register=False, need_update=True).
PendingPush ==
    /\ pending_pc = "push"
    /\ \/ /\ PushReaches(bound)
          /\ weights' = Put(weights, bound, registered)
          /\ pending_pc' = "kv_cache"
          /\ UNCHANGED faults
       \/ /\ ~PushReaches(bound)
          /\ pending_pc' = "undo"
          /\ UNCHANGED <<weights, faults>>
       \/ /\ Fault("update")
          /\ pending_pc' = "undo"
          /\ UNCHANGED weights
    /\ UNCHANGED <<lifecycle, up, resident, abort, proxied, versionVars, pause_event,
                   lifecycle_lock, healthVars, available, update_lock, targets, trainerVars>>

PendingKvCache ==
    /\ pending_pc = "kv_cache"
    /\ Onload(InState("PENDING"), "kv_cache")
    /\ pending_pc' = IF AllUp(InState("PENDING")) THEN "promote" ELSE "undo"
    /\ UNCHANGED <<lifecycle, proxied, bound, update_lock, targets, faults>>
    /\ PendingFrame

\* Mutant: every group that is pending by now is promoted.
PromotedAll == Groups

\* The groups the update was for: group_ranks of the mark call.
Promoted == targets

\* mark_worker_groups_lifecycle_state: to ACTIVE, or to INACTIVE when a step failed.
PendingMark ==
    /\ \/ pending_pc = "promote" /\ MovePending(Promoted, "ACTIVE") /\ pending_pc' = "active"
       \/ pending_pc = "undo" /\ MovePending(targets, "INACTIVE") /\ pending_pc' = "inactive"
    /\ UNCHANGED <<resident, proxied, bound, update_lock, targets, faults>>
    /\ PendingFrame

\* The notification the mark call ends with; the loop then releases the lock.
PendingNotify ==
    /\ \/ pending_pc = "active" /\ proxied' = proxied \cup targets
       \/ pending_pc = "inactive" /\ proxied' = proxied \ targets
    /\ pending_pc' = "poll"
    /\ targets' = {}
    /\ update_lock' = Free
    /\ UNCHANGED <<lifecycle, resident, bound, faults>>
    /\ PendingFrame

PendingNext ==
    \/ PendingPoll \/ PendingLock \/ PendingTargets \/ PendingBind \/ PendingOnload
    \/ PendingPush \/ PendingKvCache \/ PendingMark \/ PendingNotify

-----------------------------------------------------------------------------
(* Colocated trainer.                                                      *)

TrainerFrame ==
    UNCHANGED <<health_pc, health_was_paused, probed, failed_groups, phase, failures,
                recovery_done, pendingVars>>

Goto(pc) ==
    /\ trainer_pc' = pc
    /\ UNCHANGED <<train_step, raising, trainer_was_paused, moved_groups>>

\* set_rollout_resources_available(True), then produce_batch's continue_generation,
\* which clears the abort flag of the active workers and resumes health checks.
StartRollout ==
    /\ trainer_pc = "start"
    /\ available' = CheckpointEngine
    /\ abort' = Put(abort, InState("ACTIVE"), FALSE)
    /\ pause_event' = FALSE
    /\ Goto("produce")
    /\ UNCHANGED <<lifecycle, up, resident, weights, proxied, versionVars, lifecycle_lock,
                   update_lock, faults>>
    /\ TrainerFrame

\* Enough groups were produced: pause_generation first pauses the health checks.
PauseChecks ==
    /\ trainer_pc = "produce"
    /\ pause_event' = TRUE
    /\ Goto("pause_lock")
    /\ UNCHANGED <<lifecycle, workerVars, proxied, versionVars, lifecycle_lock, available,
                   update_lock, faults>>
    /\ TrainerFrame

\* wait_recovery_done: the lifecycle lock is taken and released, then
\* recovery_done awaited; a timeout makes produce_batch raise.
WaitLock ==
    /\ trainer_pc = "pause_lock" /\ lifecycle_lock = Free
    /\ Goto("pause_wait")
    /\ UNCHANGED <<lifecycle, workerVars, proxied, versionVars, pause_event, lifecycle_lock,
                   available, update_lock, faults>>
    /\ TrainerFrame

WaitDone ==
    /\ trainer_pc = "pause_wait" /\ recovery_done
    /\ Goto("abort")
    /\ UNCHANGED <<lifecycle, workerVars, proxied, versionVars, pause_event, lifecycle_lock,
                   available, update_lock, faults>>
    /\ TrainerFrame

WaitTimeout ==
    /\ \/ trainer_pc = "pause_lock" /\ lifecycle_lock # Free
       \/ trainer_pc = "pause_wait" /\ ~recovery_done
    /\ Fault("timeout")
    /\ trainer_pc' = "shut_gate" /\ raising' = TRUE
    /\ UNCHANGED <<train_step, trainer_was_paused, moved_groups>>
    /\ UNCHANGED <<lifecycle, workerVars, proxied, versionVars, pause_event, lifecycle_lock,
                   available, update_lock>>
    /\ TrainerFrame

\* The abort broadcast to the active workers; their requests drain.
AbortActive ==
    /\ trainer_pc = "abort"
    /\ abort' = Put(abort, InState("ACTIVE"), TRUE)
    /\ Goto("shut_gate")
    /\ UNCHANGED <<lifecycle, up, resident, weights, proxied, versionVars, pause_event,
                   lifecycle_lock, available, update_lock, faults>>
    /\ TrainerFrame

\* set_rollout_resources_available(False) calls shutdown_inactive_workers, which
\* pauses the checks the way a recovery does ...
ShutGate ==
    /\ trainer_pc = "shut_gate"
    /\ trainer_was_paused' = pause_event
    /\ pause_event' = TRUE
    /\ trainer_pc' = "shut_lock"
    /\ UNCHANGED <<train_step, raising, moved_groups>>
    /\ UNCHANGED <<lifecycle, workerVars, proxied, versionVars, lifecycle_lock, available,
                   update_lock, faults>>
    /\ TrainerFrame

\* Mutant: the shutdown does not wait for the lifecycle lock.
LockIgnored == TRUE

LockAvailable == lifecycle_lock = Free

ShutLock ==
    /\ trainer_pc = "shut_lock" /\ LockAvailable
    /\ lifecycle_lock' = "trainer"
    /\ Goto("shut")
    /\ UNCHANGED <<lifecycle, workerVars, proxied, versionVars, pause_event, available,
                   update_lock, faults>>
    /\ TrainerFrame

\* ... shuts every INACTIVE group down (a failed shutdown is only logged),
\* releases the lock and resumes the checks unless they were paused before ...
ShutInactive ==
    /\ trainer_pc = "shut"
    /\ moved_groups' = InState("INACTIVE")
    /\ \E gone \in SUBSET InState("INACTIVE") :
         /\ IF gone = InState("INACTIVE") THEN UNCHANGED faults ELSE Fault("shutdown")
         /\ up' = Put(up, gone, FALSE)
         /\ resident' = Put(resident, gone, {})
    /\ lifecycle_lock' = Free
    /\ pause_event' = (pause_event /\ trainer_was_paused)
    /\ trainer_pc' = "shut_notify"
    /\ UNCHANGED <<train_step, raising, trainer_was_paused>>
    /\ UNCHANGED <<lifecycle, weights, abort, proxied, versionVars, available, update_lock>>
    /\ TrainerFrame

\* ... and only then tells the listeners, as the mark call of a sync does.
TrainerNotify ==
    /\ \/ /\ trainer_pc = "shut_notify"
          /\ proxied' = proxied \ moved_groups
          /\ trainer_pc' = "clear"
       \/ /\ trainer_pc = "promote_notify"
          /\ proxied' = proxied \cup moved_groups
          /\ trainer_pc' = "bind"
    /\ moved_groups' = {}
    /\ UNCHANGED <<train_step, raising, trainer_was_paused>>
    /\ UNCHANGED <<lifecycle, workerVars, versionVars, pause_event, lifecycle_lock, available,
                   update_lock, faults>>
    /\ TrainerFrame

\* No new pending update is admitted, then one under way is waited for.
ClearAvailable ==
    /\ trainer_pc = "clear"
    /\ available' = FALSE
    /\ Goto("drain")
    /\ UNCHANGED <<lifecycle, workerVars, proxied, versionVars, pause_event, lifecycle_lock,
                   update_lock, faults>>
    /\ TrainerFrame

Drained == ~CheckpointEngine \/ update_lock = Free

DrainUpdate ==
    /\ trainer_pc = "drain"
    /\ \/ Drained /\ Goto(IF raising THEN "failed" ELSE "offload") /\ UNCHANGED faults
       \/ ~Drained /\ Fault("timeout") /\ Goto("failed")
    /\ UNCHANGED <<lifecycle, workerVars, proxied, versionVars, pause_event, lifecycle_lock,
                   available, update_lock>>
    /\ TrainerFrame

\* A broadcast of the switch between rollout and training; it raises, and the
\* run ends, when one of the active servers is dead.
SwitchFrame ==
    /\ UNCHANGED <<up, weights, abort, lifecycle, proxied, pause_event, lifecycle_lock,
                   available, faults>>
    /\ TrainerFrame

OffloadRollout ==
    /\ trainer_pc = "offload"
    /\ Offload(InState("ACTIVE"))
    /\ Goto(IF AllUp(InState("ACTIVE")) THEN "train" ELSE "failed")
    /\ UNCHANGED <<versionVars, update_lock>>
    /\ SwitchFrame

Syncing == train_step % SyncInterval = 0

\* train_controller.fit and the save; then sync, only switch, or stop.
Train ==
    /\ trainer_pc = "train"
    /\ version' = train_step
    /\ Goto(IF train_step = TotalSteps THEN "done"
            ELSE IF Syncing THEN "sync_lock" ELSE "onload_weights")
    /\ UNCHANGED <<resident, bound, registered, synced, update_lock>>
    /\ SwitchFrame

SyncLockFree == ~CheckpointEngine \/ update_lock = Free

\* weight_update_guard.
SyncLock ==
    /\ trainer_pc = "sync_lock" /\ SyncLockFree
    /\ update_lock' = IF CheckpointEngine THEN "trainer" ELSE update_lock
    /\ Goto("promote")
    /\ UNCHANGED <<resident, versionVars>>
    /\ SwitchFrame

\* bind_train_rollout: every pending group becomes ACTIVE ...
Promote ==
    /\ trainer_pc = "promote"
    /\ MovePending(Groups, "ACTIVE")
    /\ moved_groups' = InState("PENDING")
    /\ trainer_pc' = "promote_notify"
    /\ UNCHANGED <<train_step, raising, trainer_was_paused>>
    /\ UNCHANGED <<workerVars, proxied, versionVars, pause_event, lifecycle_lock, available,
                   update_lock, faults>>
    /\ TrainerFrame

\* ... and the active groups become the targets; with the checkpoint engine
\* the trained weights are registered next.
Bind ==
    /\ trainer_pc = "bind"
    /\ bound' = InState("ACTIVE")
    /\ registered' = IF CheckpointEngine THEN version ELSE registered
    /\ Goto("onload_weights")
    /\ UNCHANGED <<resident, version, synced, update_lock>>
    /\ SwitchFrame

OnloadWeights ==
    /\ trainer_pc = "onload_weights"
    /\ Onload(InState("ACTIVE"), "weights")
    /\ Goto(CASE ~AllUp(InState("ACTIVE")) -> "failed"
              [] AllUp(InState("ACTIVE")) /\ Syncing -> "push"
              [] OTHER -> "onload_kv_cache")
    /\ update_lock' = IF AllUp(InState("ACTIVE")) \/ ~Syncing THEN update_lock ELSE Free
    /\ UNCHANGED versionVars
    /\ SwitchFrame

\* weight_update into the bound targets, then the guard is released.
Push ==
    /\ trainer_pc = "push"
    /\ IF PushReaches(bound)
       THEN /\ weights' = Put(weights, bound, version)
            /\ synced' = version
            /\ Goto("onload_kv_cache")
       ELSE /\ Goto("failed")
            /\ UNCHANGED <<weights, synced>>
    /\ update_lock' = Free
    /\ UNCHANGED <<lifecycle, up, resident, abort, proxied, bound, version, registered,
                   pause_event, lifecycle_lock, available, faults>>
    /\ TrainerFrame

OnloadKvCache ==
    /\ trainer_pc = "onload_kv_cache"
    /\ Onload(InState("ACTIVE"), "kv_cache")
    /\ trainer_pc' = IF AllUp(InState("ACTIVE")) THEN "start" ELSE "failed"
    /\ train_step' = train_step + 1
    /\ UNCHANGED <<raising, trainer_was_paused, moved_groups>>
    /\ UNCHANGED <<versionVars, update_lock>>
    /\ SwitchFrame

TrainerLock == WaitLock \/ ShutLock

TrainerNext ==
    \/ StartRollout \/ PauseChecks \/ WaitDone \/ WaitTimeout \/ AbortActive
    \/ ShutGate \/ ShutInactive \/ TrainerNotify \/ ClearAvailable \/ DrainUpdate \/ OffloadRollout
    \/ Train \/ SyncLock \/ Promote \/ Bind \/ OnloadWeights \/ Push \/ OnloadKvCache
    \/ TrainerLock

-----------------------------------------------------------------------------
(* The specification.                                                      *)

\* Servers are launched ACTIVE with the initial weights and the health manager
\* starts paused.  The checkpoint engine may already hold the initial weights.
Init ==
    /\ lifecycle = [g \in Groups |-> "ACTIVE"]
    /\ up = [g \in Groups |-> TRUE]
    /\ resident = [g \in Groups |-> Parts]
    /\ weights = [g \in Groups |-> 0]
    /\ abort = [g \in Groups |-> FALSE]
    /\ proxied = Groups
    /\ bound = Groups
    /\ version = 0
    /\ registered \in IF CheckpointEngine THEN {Empty, 0} ELSE {Empty}
    /\ synced = 0
    /\ pause_event = TRUE /\ recovery_done = TRUE
    /\ failures = [g \in Groups |-> 0]
    /\ lifecycle_lock = Free
    /\ health_pc = "wait" /\ health_was_paused = FALSE
    /\ probed = {} /\ failed_groups = {}
    /\ phase = [g \in Groups |-> "idle"]
    /\ available = FALSE /\ update_lock = Free
    /\ pending_pc = "poll" /\ targets = {}
    /\ trainer_pc = "start" /\ train_step = 1
    /\ raising = FALSE /\ trainer_was_paused = FALSE /\ moved_groups = {}
    /\ faults = 0

\* The driver has left fit(); the daemon threads may go on.
Terminated == trainer_pc \in Ended /\ UNCHANGED vars

Next ==
    \/ HealthNext
    \/ PendingNext
    \/ TrainerNext
    \/ \E g \in Groups : Crash(g)
    \/ Terminated

Spec == Init /\ [][Next]_vars

\* Every thread keeps running.  A blocked lock acquisition also succeeds when the
\* lock is released again and again: the health thread leaves it free for a whole
\* check interval.
FairSpec ==
    /\ Spec
    /\ WF_vars(HealthNext) /\ WF_vars(PendingNext) /\ WF_vars(TrainerNext)
    /\ SF_vars(TrainerLock)

-----------------------------------------------------------------------------
(* Properties.                                                             *)

TrainerPcs == {"start", "produce", "pause_lock", "pause_wait", "abort", "shut_gate",
               "shut_lock", "shut", "shut_notify", "clear", "drain", "offload", "train",
               "sync_lock", "promote", "promote_notify", "bind", "onload_weights", "push",
               "onload_kv_cache"} \cup Ended
HealthPcs  == {"wait", "run", "probe", "notify", "gate", "lock", "restart", "signal"}
PendingPcs == {"poll", "lock", "recheck", "bind", "onload", "push", "kv_cache", "promote",
               "undo", "active", "inactive"}
Phases     == {"idle", "claimed", "down", "started", "restarted", "failed"}
Versions   == 0 .. TotalSteps + 1

\* Every variable has its type: registry states, engine contents, events, locks
\* and the program counters of the three threads.
TypeOK ==
    /\ lifecycle \in [Groups -> {"ACTIVE", "INACTIVE", "PENDING"}]
    /\ up \in [Groups -> BOOLEAN]
    /\ resident \in [Groups -> SUBSET Parts]
    /\ weights \in [Groups -> Versions]
    /\ abort \in [Groups -> BOOLEAN]
    /\ proxied \subseteq Groups /\ bound \subseteq Groups
    /\ version \in Versions /\ registered \in Versions /\ synced \in Versions
    /\ pause_event \in BOOLEAN /\ recovery_done \in BOOLEAN
    /\ failures \in [Groups -> 0 .. Threshold]
    /\ lifecycle_lock \in {Free, "health", "trainer"}
    /\ health_pc \in HealthPcs /\ health_was_paused \in BOOLEAN
    /\ probed \subseteq Groups /\ failed_groups \subseteq Groups
    /\ phase \in [Groups -> Phases]
    /\ available \in BOOLEAN /\ update_lock \in {Free, "pending", "trainer"}
    /\ pending_pc \in PendingPcs /\ targets \subseteq Groups
    /\ trainer_pc \in TrainerPcs /\ train_step \in 1 .. TotalSteps
    /\ raising \in BOOLEAN /\ trainer_was_paused \in BOOLEAN
    /\ moved_groups \subseteq Groups
    /\ faults \in 0 .. MaxFaults

\* While a batch is being produced, every routed group whose server lives is fully
\* in memory, accepts requests and holds the weights of the last sync: a restarted
\* engine never answers with empty or older weights, whichever thread brought it
\* back (worker_registry, both health managers, bind_train_rollout).
RoutedGroupsAreCurrent ==
    trainer_pc = "produce" =>
        \A g \in InState("ACTIVE") :
            up[g] => resident[g] = Parts /\ weights[g] = synced /\ ~abort[g]

\* A group that is being restarted is INACTIVE for everyone else and is not shut
\* down a second time by shutdown_inactive_workers (the lifecycle lock).
RestartUndisturbed ==
    \A g \in Groups :
        phase[g] # "idle" => lifecycle[g] = "INACTIVE" /\ trainer_pc # "shut"

\* Once set_rollout_resources_available(False) is through, no recovery update
\* touches engines or the bound targets until the next rollout phase.
NoPendingUpdateInTraining ==
    trainer_pc \in {"offload", "train", "promote", "bind", "push"} =>
        pending_pc \in {"poll", "lock", "recheck"}

\* pause_generation stops waiting only when no recovery is under way, at whatever
\* point of run_once it set the pause event (wait_recovery_done).
PauseWaitsForRecovery ==
    [][trainer_pc = "pause_wait" /\ trainer_pc' = "abort" =>
           health_pc \in {"wait", "run", "probe"}]_vars

\* fit() ends: neither pause_generation, the lifecycle lock nor the update lock
\* keeps the trainer waiting for ever, whatever crashes.
TrainingEnds == <>(trainer_pc \in Ended)

\* controller.pause_generation waits for "worker recovery before training": no
\* engine is restarted while training uses the devices.
NoRestartInTraining == trainer_pc = "train" => health_pc # "restart"

\* set_rollout_resources_available(False) shuts inactive workers down "to free up
\* resources for training": no group outside the routing holds device memory then.
TrainingOwnsMemory ==
    trainer_pc = "train" =>
        \A g \in Groups : lifecycle[g] # "ACTIVE" => resident[g] = {}

\* "routing and lifecycle listeners stay in sync": with no notification under way,
\* the proxy knows no INACTIVE group.
ProxyFollowsRegistry ==
    /\ health_pc \in {"wait", "restart"}
    /\ pending_pc \in {"poll", "lock", "recheck", "bind"}
    /\ trainer_pc \in {"start", "produce", "train"}
    => proxied \cap InState("INACTIVE") = {}
=============================================================================
