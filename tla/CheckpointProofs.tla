--------------------------- MODULE CheckpointProofs ---------------------------
(***************************************************************************)
(* The threads of the supervised trainer's saves, for every number of      *)
(* steps, every interval, synchronous or asynchronous saves, and any       *)
(* number of crashes and failed saves.                                     *)
(***************************************************************************)
EXTENDS TrainerCheckpoint, TLAPS, SequenceTheorems

-----------------------------------------------------------------------------
(* The inductive invariant. *)

Async(k) == IF k = "hf" THEN AsyncHf ELSE AsyncCkpt
Gone == {"Down", "Unloadable"}
CriticalPcs == {"prune", "removing", "open", "write"}

\* The finalizer of a synchronous save runs while the main thread waits for it.
Awaiting(k) == IF k = "hf" THEN "HFFinalizing" ELSE "Finalizing"

\* Main thread positions between the wait for the pending save of a kind and the
\* registration of the next one, and those after its launch.
Preparing(k) == IF k = "hf" THEN {"HFLaunch", "HFRegister"} ELSE {"Weights", "State", "Register"}
Launched(k) == IF k = "hf" THEN {"HFRegister"} ELSE {"State", "Register"}

\* The lock is held exactly by the finalizer in its critical section.
LockInv == \A k \in Saves : lock = k <=> fin[k].pc \in CriticalPcs

\* A registered callback belongs to the pending save, whose event is not set yet,
\* and a finalizer of an asynchronous save runs inside that callback.
CallbackInv ==
  \A k \in Saves :
    /\ callback[k] # "none" => Async(k) /\ pending[k] /\ ~finalize_done[k]
    /\ fin[k].pc # "idle" =>
         IF Async(k) THEN callback[k] = "running" ELSE pc = Awaiting(k)
    /\ pc \in Preparing(k) /\ Async(k) => ~pending[k]
    /\ pc \in Launched(k) /\ Async(k) => ~finalize_done[k]

\* The model's own pending export is cleared by the first callback.
HandleInv == /\ handle => callback["hf"] = "registered" \/ pc = "HFRegister"
             /\ pc \in {"HFLaunch", "HFRegister"} => AsyncHf
             /\ pc \in {"HFWriting", "HFFinalizing"} => ~AsyncHf
             /\ pc \in {"Register", "Inline"} => AsyncCkpt
             /\ pc \in {"WeightsWriting", "Finalizing"} => ~AsyncCkpt

\* A process that is down left no thread behind.
DownInv == pc \in Gone => /\ lock = "none" /\ ~handle
                          /\ \A k \in Saves : /\ callback[k] = "none" /\ fin[k].pc = "idle"
                                              /\ future[k].state = "none"

\* Steps that are saved are steps.
StepInv == /\ pc \notin {"Train", "DrainDcp", "Stop", "Done", "Raised"} \cup Gone => step # 0
           /\ \A k \in Saves : /\ future[k].state # "none" => future[k].step # 0
                               /\ fin[k].pc # "idle" => fin[k].step # 0

Inv == TypeOK /\ LockInv /\ CallbackInv /\ HandleInv /\ DownInv /\ StepInv /\ MetaAgrees

LEMMA InitInv == Init => Inv
<1> SUFFICES ASSUME Init PROVE Inv
  OBVIOUS
<1> USE ConstantsAssumption DEF Init
<1>1. TypeOK
  <2>1. /\ step \in 0..TotalStep /\ pc \in MainPcs /\ saving \in Dcp
        /\ link \in 0..TotalStep /\ lock \in Saves \cup {"none"}
    BY DEF MainPcs, Dcp
  <2>9. handle \in BOOLEAN /\ failed \in BOOLEAN
    OBVIOUS
  <2>8. config \in Configs /\ crashes \in Nat /\ failures \in Nat
    OBVIOUS
  <2>2. mem \in [Lists -> Seq(Steps)] /\ meta.lists \in [Lists -> Seq(Steps)]
    BY DEF NoLists
  <2>3. meta \in [state : {"empty", "torn", "ok"}, lists : [Lists -> Seq(Steps)]]
    BY <2>2
  <2>4. dirs \in [Dcp -> [Steps -> SUBSET Parts]] /\ hf \in [Steps -> {"none", "partial", "whole"}]
    OBVIOUS
  <2>5. NoFuture \in [state : {"none", "writing", "done", "failed"}, step : 0..TotalStep, to : Dcp]
    BY DEF NoFuture, Dcp
  <2>6. Idle \in [pc : FinPcs, step : 0..TotalStep, to : Dcp, doomed : Seq(Steps)]
    BY DEF Idle, Dcp, FinPcs
  <2>7. /\ callback \in [Saves -> {"none", "registered", "cleared", "running"}]
        /\ pending \in [Saves -> BOOLEAN] /\ finalize_done \in [Saves -> BOOLEAN]
    OBVIOUS
  <2> QED BY <2>1, <2>2, <2>3, <2>4, <2>5, <2>6, <2>7, <2>8, <2>9 DEF TypeOK
<1>2. LockInv /\ CallbackInv /\ HandleInv /\ DownInv
  BY DEF LockInv, CallbackInv, HandleInv, DownInv, Idle, Saves, CriticalPcs, Preparing, Launched, Gone
<1>3. StepInv /\ MetaAgrees
  BY DEF StepInv, MetaAgrees, NoFuture, Idle, Saves
<1> QED BY <1>1, <1>2, <1>3 DEF Inv

-----------------------------------------------------------------------------
(* Each action keeps the control part of the invariant. *)

Control == LockInv /\ CallbackInv /\ HandleInv /\ DownInv /\ MetaAgrees

LEMMA MainControl == ASSUME Inv, MainStep PROVE Control'
<1> USE DEF Inv, Control, Goto, main, disk, background, finalizer, job, AsyncCkpt, AsyncHf
<1> USE DEF LockInv, CallbackInv, HandleInv, DownInv, MetaAgrees, Alive, Saves, Async, Awaiting,
            Preparing, Launched, Gone, CriticalPcs
<1>1. CASE TrainStep
  BY <1>1 DEF TrainStep, TypeOK
<1>2. CASE SkipHF
  BY <1>2 DEF SkipHF, TypeOK
<1>3. CASE SaveHFBegin
  BY <1>3 DEF SaveHFBegin, TypeOK
<1>4. CASE SaveHFEnd
  BY <1>4 DEF SaveHFEnd, Idle, TypeOK
<1>5. CASE HFFinalized
  BY <1>5 DEF HFFinalized, TypeOK
<1>6. CASE WaitHF
  BY <1>6 DEF WaitHF, WaitForPending, Settled, TypeOK
<1>7. CASE LaunchHF
  BY <1>7 DEF LaunchHF, NoFuture, TypeOK
<1>8. CASE RegisterHF
  BY <1>8 DEF RegisterHF, TypeOK
<1>9. CASE MaybeSaveCkpt
  BY <1>9 DEF MaybeSaveCkpt, MkDir, TypeOK
<1>10. CASE MaybeSaveSnap
  BY <1>10 DEF MaybeSaveSnap, MkDir, TypeOK
<1>11. CASE WaitCkpt
  BY <1>11 DEF WaitCkpt, WaitForPending, Settled, TypeOK
<1>12. CASE SaveDcpBegin
  BY <1>12 DEF SaveDcpBegin, TypeOK
<1>13. CASE SaveDcpEnd
  BY <1>13 DEF SaveDcpEnd, TypeOK
<1>14. CASE LaunchDcp
  BY <1>14 DEF LaunchDcp, TypeOK
<1>15. CASE SaveState
  BY <1>15 DEF SaveState, Idle, TypeOK
<1>16. CASE RegisterDcp
  BY <1>16 DEF RegisterDcp, TypeOK
<1>17. CASE DcpFinalized
  BY <1>17 DEF DcpFinalized, TypeOK
<1>18. CASE DrainHF
  BY <1>18 DEF DrainHF, WaitForPending, Settled, TypeOK
<1>19. CASE DrainDcp
  BY <1>19 DEF DrainDcp, WaitForPending, Settled, TypeOK
<1>20. CASE StopMonitor
  BY <1>20 DEF StopMonitor, TypeOK
<1> QED BY <1>1, <1>2, <1>3, <1>4, <1>5, <1>6, <1>7, <1>8, <1>9, <1>10, <1>11, <1>12, <1>13, <1>14, <1>15, <1>16, <1>17, <1>18, <1>19, <1>20 DEF MainStep

LEMMA BackgroundControl == ASSUME Inv, NEW k \in Saves, SaveStep(k) \/ FailSave(k) PROVE Control'
<1> USE DEF Inv, Control, main, disk, background, finalizer, job, AsyncCkpt, AsyncHf
<1> USE DEF LockInv, CallbackInv, HandleInv, DownInv, MetaAgrees, Alive, Saves, Async, Awaiting,
            Preparing, Launched, Gone, CriticalPcs
<1>1. CASE CommitDcp
  BY <1>1 DEF CommitDcp, TypeOK
<1>2. CASE CommitHF
  BY <1>2 DEF CommitHF, TypeOK
<1>3. CASE ClearPendingHF
  BY <1>3 DEF ClearPendingHF, TypeOK
<1>4. CASE RunCallback(k)
  <2>1. /\ fin[k].pc = "idle" /\ pending[k] /\ ~finalize_done[k] /\ Async(k)
        /\ UNCHANGED <<pc, meta, mem, lock, handle, pending, future>>
    BY <1>4 DEF RunCallback, TypeOK
  <2>2. CASE future[k].state = "done"
    <3> DEFINE begun == [Idle EXCEPT !.pc = "append", !.step = future[k].step, !.to = future[k].to]
    <3>1. /\ fin' = [fin EXCEPT ![k] = begun]
          /\ callback' = [callback EXCEPT ![k] = "running"]
          /\ finalize_done' = finalize_done
      BY <1>4, <2>2 DEF RunCallback
    <3>2. begun.pc = "append"
      BY DEF Idle
    <3> HIDE DEF begun
    <3>3. fin'[k].pc = "append" /\ \A j \in Saves : j # k => fin'[j] = fin[j]
      BY <3>1, <3>2 DEF TypeOK
    <3>4. callback'[k] = "running" /\ \A j \in Saves : j # k => callback'[j] = callback[j]
      BY <3>1 DEF TypeOK
    <3> QED BY <2>1, <3>1, <3>3, <3>4, <1>4 DEF TypeOK, RunCallback
  <2>3. CASE future[k].state = "failed"
    <3>1. /\ fin' = fin /\ callback' = [callback EXCEPT ![k] = "none"]
          /\ finalize_done' = [finalize_done EXCEPT ![k] = TRUE]
      BY <1>4, <2>3 DEF RunCallback
    <3> QED BY <2>1, <3>1, <1>4 DEF TypeOK, RunCallback
  <2> QED BY <2>2, <2>3, <1>4 DEF RunCallback
<1>5. CASE FailSave(k)
  BY <1>5 DEF FailSave, TypeOK
<1> QED BY <1>1, <1>2, <1>3, <1>4, <1>5 DEF SaveStep

LEMMA FinalizerControl == ASSUME Inv, NEW k \in Saves, FinStep(k) PROVE Control'
<1> USE DEF Inv, Control, main, disk, background, finalizer, job, AsyncCkpt, AsyncHf
<1> USE DEF LockInv, CallbackInv, HandleInv, DownInv, MetaAgrees, Alive, Saves, Async, Awaiting,
            Preparing, Launched, Gone, CriticalPcs
<1>1. CASE FinAppend(k)
  BY <1>1, ZenonT(60) DEF FinAppend, TypeOK
<1>2. CASE FinPrune(k)
  BY <1>2 DEF FinPrune, TypeOK
<1>3. CASE k = "hf" /\ FinLink
  BY <1>3 DEF FinLink, TypeOK
<1>4. CASE FinOpen(k)
  BY <1>4 DEF FinOpen, TypeOK
<1>5. CASE FinWrite(k)
  BY <1>5 DEF FinWrite, TypeOK
<1>6. CASE FinHook(k)
  BY <1>6 DEF FinHook, Idle, TypeOK
<1> QED BY <1>1, <1>2, <1>3, <1>4, <1>5, <1>6 DEF FinStep

LEMMA EndControl == ASSUME Inv, Crash \/ Terminate \/ Restart \/ Rest \/ UNCHANGED vars PROVE Control'
<1> USE DEF Inv, Control, main, disk, background, finalizer, job, AsyncCkpt, AsyncHf
<1> USE DEF LockInv, CallbackInv, HandleInv, DownInv, MetaAgrees, Alive, Saves, Async, Awaiting,
            Preparing, Launched, Gone, CriticalPcs
<1>1. CASE Die
  BY <1>1 DEF Die, Idle, NoFuture, TypeOK
<1>2. CASE Restart
  BY <1>2 DEF Restart, Goto, TypeOK
<1>3. CASE Rest \/ UNCHANGED vars
  BY <1>3 DEF Rest, vars
<1> QED BY <1>1, <1>2, <1>3 DEF Crash, Terminate

-----------------------------------------------------------------------------
(* Each action keeps the types and the saved steps, a group of variables at a *)
(* time.                                                                     *)

FutureType == [state : {"none", "writing", "done", "failed"}, step : 0..TotalStep, to : Dcp]
FinType == [pc : FinPcs, step : 0..TotalStep, to : Dcp, doomed : Seq(Steps)]

TypeMain == step \in 0..TotalStep /\ pc \in MainPcs /\ saving \in Dcp
TypeDirs == dirs \in [Dcp -> [Steps -> SUBSET Parts]]
TypeExports == hf \in [Steps -> {"none", "partial", "whole"}] /\ link \in 0..TotalStep
TypeLists == /\ mem \in [Lists -> Seq(Steps)]
             /\ meta \in [state : {"empty", "torn", "ok"}, lists : [Lists -> Seq(Steps)]]
TypeFuture == /\ future \in [Saves -> FutureType]
              /\ \A k \in Saves : future[k].state # "none" => future[k].step # 0
TypeFlags == /\ callback \in [Saves -> {"none", "registered", "cleared", "running"}]
             /\ pending \in [Saves -> BOOLEAN] /\ finalize_done \in [Saves -> BOOLEAN]
             /\ lock \in Saves \cup {"none"} /\ handle \in BOOLEAN /\ failed \in BOOLEAN
TypeFin == /\ fin \in [Saves -> FinType]
           /\ \A k \in Saves : fin[k].pc # "idle" => fin[k].step # 0
TypeCounters == config \in Configs /\ crashes \in Nat /\ failures \in Nat
TypeSaving == pc \notin {"Train", "DrainDcp", "Stop", "Done", "Raised"} \cup Gone => step # 0

Types == /\ TypeMain /\ TypeDirs /\ TypeExports /\ TypeLists /\ TypeFuture /\ TypeFlags
         /\ TypeFin /\ TypeCounters /\ TypeSaving

LEMMA TypeGroups == Types <=> TypeOK /\ StepInv
  BY DEF Types, TypeOK, StepInv, TypeMain, TypeDirs, TypeExports, TypeLists, TypeFuture, TypeFlags,
     TypeFin, TypeCounters, TypeSaving, FutureType, FinType

\* The records the actions make.
LEMMA NewFuture ==
  ASSUME NEW s \in 0..TotalStep, NEW d \in Dcp
  PROVE  /\ [NoFuture EXCEPT !.state = "writing", !.step = s] \in FutureType
         /\ [NoFuture EXCEPT !.state = "writing", !.step = s].step = s
         /\ [state |-> "writing", step |-> s, to |-> d] \in FutureType
  BY DEF FutureType, NoFuture, Dcp

LEMMA EndedFuture ==
  ASSUME NEW f \in [Saves -> FutureType], NEW g, NEW k \in Saves, NEW r \in {"done", "failed"},
         g = [f EXCEPT ![k].state = r]
  PROVE  g \in [Saves -> FutureType] /\ \A j \in Saves : /\ g[j].step = f[j].step
                                                         /\ j # k => g[j] = f[j]
  BY DEF FutureType

LEMMA IdleFin == Idle \in FinType /\ Idle.pc = "idle"
  BY ConstantsAssumption DEF FinType, FinPcs, Idle, Dcp

LEMMA NewFin ==
  ASSUME NEW s \in 0..TotalStep, NEW d \in Dcp
  PROVE  /\ [Idle EXCEPT !.pc = "append", !.step = s, !.to = d] \in FinType
         /\ [Idle EXCEPT !.pc = "append", !.step = s, !.to = d].step = s
         /\ [Idle EXCEPT !.pc = "append", !.step = s] \in FinType
         /\ [Idle EXCEPT !.pc = "append", !.step = s].step = s
<1> DEFINE x == [Idle EXCEPT !.pc = "append", !.step = s, !.to = d]
           y == [Idle EXCEPT !.pc = "append", !.step = s]
<1>1. Idle \in FinType
  BY IdleFin
<1>2. "append" \in FinPcs
  BY DEF FinPcs
<1>3. x \in FinType /\ x.step = s
  BY <1>1, <1>2 DEF FinType
<1>4. y \in FinType /\ y.step = s
  BY <1>1, <1>2 DEF FinType
<1> QED BY <1>3, <1>4

LEMMA MainTypes == ASSUME Types, MainStep PROVE Types'
<1> USE ConstantsAssumption
<1> USE DEF Types, Goto, main, disk, background, finalizer, job, AsyncCkpt, AsyncHf
<1>1. TypeMain' /\ TypeSaving'
  <2>1. CASE TrainStep
    BY <2>1 DEF TrainStep, TypeMain, TypeSaving, MainPcs, Dcp, Gone
  <2>2. CASE SkipHF
    BY <2>2 DEF SkipHF, TypeMain, TypeSaving, MainPcs, Dcp, Gone
  <2>3. CASE SaveHFBegin
    BY <2>3 DEF SaveHFBegin, TypeMain, TypeSaving, MainPcs, Dcp, Gone
  <2>4. CASE SaveHFEnd
    BY <2>4 DEF SaveHFEnd, TypeMain, TypeSaving, MainPcs, Dcp, Gone
  <2>5. CASE HFFinalized
    BY <2>5 DEF HFFinalized, TypeMain, TypeSaving, MainPcs, Dcp, Gone
  <2>6. CASE WaitHF
    BY <2>6 DEF WaitHF, TypeMain, TypeSaving, MainPcs, Dcp, Gone
  <2>7. CASE LaunchHF
    BY <2>7 DEF LaunchHF, TypeMain, TypeSaving, MainPcs, Dcp, Gone
  <2>8. CASE RegisterHF
    BY <2>8 DEF RegisterHF, TypeMain, TypeSaving, MainPcs, Dcp, Gone
  <2>9. CASE MaybeSaveCkpt
    BY <2>9 DEF MaybeSaveCkpt, MkDir, TypeMain, TypeSaving, MainPcs, Dcp, Gone
  <2>10. CASE MaybeSaveSnap
    BY <2>10 DEF MaybeSaveSnap, MkDir, TypeMain, TypeSaving, MainPcs, Dcp, Gone
  <2>11. CASE WaitCkpt
    BY <2>11 DEF WaitCkpt, TypeMain, TypeSaving, MainPcs, Dcp, Gone
  <2>12. CASE SaveDcpBegin
    BY <2>12 DEF SaveDcpBegin, TypeMain, TypeSaving, MainPcs, Dcp, Gone
  <2>13. CASE SaveDcpEnd
    BY <2>13 DEF SaveDcpEnd, TypeMain, TypeSaving, MainPcs, Dcp, Gone
  <2>14. CASE LaunchDcp
    BY <2>14 DEF LaunchDcp, TypeMain, TypeSaving, MainPcs, Dcp, Gone
  <2>15. CASE SaveState
    BY <2>15 DEF SaveState, TypeMain, TypeSaving, MainPcs, Dcp, Gone
  <2>16. CASE RegisterDcp
    BY <2>16 DEF RegisterDcp, TypeMain, TypeSaving, MainPcs, Dcp, Gone
  <2>17. CASE DcpFinalized
    BY <2>17 DEF DcpFinalized, TypeMain, TypeSaving, MainPcs, Dcp, Gone
  <2>18. CASE DrainHF
    BY <2>18 DEF DrainHF, TypeMain, TypeSaving, MainPcs, Dcp, Gone
  <2>19. CASE DrainDcp
    BY <2>19 DEF DrainDcp, TypeMain, TypeSaving, MainPcs, Dcp, Gone
  <2>20. CASE StopMonitor
    BY <2>20 DEF StopMonitor, TypeMain, TypeSaving, MainPcs, Dcp, Gone
  <2> QED BY <2>1, <2>2, <2>3, <2>4, <2>5, <2>6, <2>7, <2>8, <2>9, <2>10, <2>11, <2>12, <2>13, <2>14, <2>15, <2>16, <2>17, <2>18, <2>19, <2>20 DEF MainStep
<1>2. TypeDirs'
  <2>1. CASE MaybeSaveCkpt \/ MaybeSaveSnap \/ SaveDcpBegin \/ SaveDcpEnd \/ SaveState
    BY <2>1 DEF MaybeSaveCkpt, MaybeSaveSnap, SaveDcpBegin, SaveDcpEnd, SaveState, MkDir, TypeDirs,
       Parts, Dcp, TypeMain
  <2>2. CASE dirs' = dirs
    BY <2>2 DEF TypeDirs
  <2> QED BY <2>1, <2>2 DEF MainStep, TrainStep, SkipHF, SaveHFBegin, SaveHFEnd, HFFinalized, WaitHF, LaunchHF, RegisterHF,
       WaitCkpt, LaunchDcp, RegisterDcp, DcpFinalized, DrainHF, DrainDcp, StopMonitor,
       WaitForPending
<1>3. TypeExports'
  <2>1. CASE SaveHFBegin \/ SaveHFEnd
    BY <2>1 DEF SaveHFBegin, SaveHFEnd, TypeExports
  <2>2. CASE hf' = hf /\ link' = link
    BY <2>2 DEF TypeExports
  <2> QED BY <2>1, <2>2 DEF MainStep, TrainStep, SkipHF, HFFinalized, WaitHF, LaunchHF, RegisterHF, MaybeSaveCkpt,
       MaybeSaveSnap, WaitCkpt, SaveDcpBegin, SaveDcpEnd, LaunchDcp, SaveState, RegisterDcp,
       DcpFinalized, DrainHF, DrainDcp, StopMonitor, MkDir, WaitForPending
<1>4. TypeLists'
  <2>1. mem' = mem /\ meta' = meta
    BY DEF MainStep, TrainStep, SkipHF, SaveHFBegin, SaveHFEnd, HFFinalized, WaitHF, LaunchHF, RegisterHF,
       MaybeSaveCkpt, MaybeSaveSnap, WaitCkpt, SaveDcpBegin, SaveDcpEnd, LaunchDcp, SaveState,
       RegisterDcp, DcpFinalized, DrainHF, DrainDcp, StopMonitor, MkDir, WaitForPending
  <2> QED BY <2>1 DEF TypeLists
<1>5. TypeFuture'
  <2>1. CASE LaunchHF
    BY <2>1, NewFuture, ZenonT(60) DEF LaunchHF, TypeFuture, TypeMain, TypeSaving, Saves, Gone
  <2>2. CASE LaunchDcp
    <3> DEFINE begun == [state |-> "writing", step |-> step, to |-> saving]
    <3>1. step # 0 /\ step \in 0..TotalStep /\ saving \in Dcp
      BY <2>2 DEF LaunchDcp, TypeMain, TypeSaving, Gone
    <3>2. begun \in FutureType /\ begun.step = step
      BY <3>1, NewFuture
    <3>3. future' = future \/ future' = [future EXCEPT !["dcp"] = begun]
      BY <2>2 DEF LaunchDcp
    <3> HIDE DEF begun
    <3> QED BY <3>1, <3>2, <3>3 DEF TypeFuture, Saves
  <2>3. CASE future' = future
    BY <2>3 DEF TypeFuture
  <2> QED BY <2>1, <2>2, <2>3 DEF MainStep, TrainStep, SkipHF, SaveHFBegin, SaveHFEnd, HFFinalized, WaitHF, RegisterHF,
       MaybeSaveCkpt, MaybeSaveSnap, WaitCkpt, SaveDcpBegin, SaveDcpEnd, SaveState,
       RegisterDcp, DcpFinalized, DrainHF, DrainDcp, StopMonitor, MkDir, WaitForPending
<1>6. TypeFlags'
  <2>1. CASE WaitHF \/ WaitCkpt \/ DrainHF \/ DrainDcp
    BY <2>1 DEF WaitHF, WaitCkpt, DrainHF, DrainDcp, WaitForPending, TypeFlags, Saves
  <2>2. CASE LaunchHF \/ LaunchDcp
    BY <2>2 DEF LaunchHF, LaunchDcp, TypeFlags, Saves
  <2>3. CASE RegisterHF \/ RegisterDcp
    BY <2>3 DEF RegisterHF, RegisterDcp, TypeFlags, Saves
  <2>4. CASE UNCHANGED <<callback, pending, finalize_done, lock, handle, failed>>
    BY <2>4 DEF TypeFlags
  <2> QED BY <2>1, <2>2, <2>3, <2>4 DEF MainStep, TrainStep, SkipHF, SaveHFBegin, SaveHFEnd, HFFinalized, MaybeSaveCkpt, MaybeSaveSnap,
       SaveDcpBegin, SaveDcpEnd, SaveState, DcpFinalized, StopMonitor, MkDir
<1>7. TypeFin'
  <2>1. CASE SaveHFEnd
    BY <2>1, NewFin DEF SaveHFEnd, TypeFin, TypeMain, TypeSaving, Saves, Gone
  <2>2. CASE SaveState
    BY <2>2, NewFin DEF SaveState, TypeFin, TypeMain, TypeSaving, Saves, Gone
  <2>3. CASE fin' = fin
    BY <2>3 DEF TypeFin
  <2> QED BY <2>1, <2>2, <2>3 DEF MainStep, TrainStep, SkipHF, SaveHFBegin, HFFinalized, WaitHF, LaunchHF, RegisterHF,
       MaybeSaveCkpt, MaybeSaveSnap, WaitCkpt, SaveDcpBegin, SaveDcpEnd, LaunchDcp,
       RegisterDcp, DcpFinalized, DrainHF, DrainDcp, StopMonitor, MkDir, WaitForPending
<1>8. TypeCounters'
  <2>1. config' = config /\ crashes' = crashes /\ failures' = failures
    BY DEF MainStep, TrainStep, SkipHF, SaveHFBegin, SaveHFEnd, HFFinalized, WaitHF, LaunchHF, RegisterHF,
       MaybeSaveCkpt, MaybeSaveSnap, WaitCkpt, SaveDcpBegin, SaveDcpEnd, LaunchDcp, SaveState,
       RegisterDcp, DcpFinalized, DrainHF, DrainDcp, StopMonitor, MkDir, WaitForPending
  <2> QED BY <2>1 DEF TypeCounters
<1> QED BY <1>1, <1>2, <1>3, <1>4, <1>5, <1>6, <1>7, <1>8

LEMMA BackgroundTypes == ASSUME Types, NEW k \in Saves, SaveStep(k) \/ FailSave(k) PROVE Types'
<1> USE ConstantsAssumption
<1> USE DEF Types, main, disk, background, finalizer, job, AsyncCkpt, AsyncHf
<1>1. CASE k = "dcp" /\ CommitDcp
  <2>1. TypeFuture'
    <3>1. future' = [future EXCEPT ![k].state = "done"] /\ future[k].state # "none"
      BY <1>1 DEF CommitDcp
    <3>2. /\ future' \in [Saves -> FutureType]
          /\ \A j \in Saves : future'[j].step = future[j].step /\ (j # k => future'[j] = future[j])
      BY <3>1, EndedFuture DEF TypeFuture
    <3> QED BY <3>1, <3>2 DEF TypeFuture
  <2>2. TypeDirs'
    <3>1. future["dcp"].to \in Dcp /\ future["dcp"].step \in 0..TotalStep
      BY DEF TypeFuture, FutureType, Saves
    <3> QED BY <1>1, <3>1 DEF CommitDcp, TypeDirs, Parts, Dcp
  <2> QED BY <1>1, <2>1, <2>2 DEF CommitDcp, TypeMain, TypeExports, TypeLists, TypeFlags, TypeFin,
             TypeCounters, TypeSaving
<1>2. CASE k = "hf" /\ CommitHF
  <2>1. TypeFuture'
    <3>1. /\ future[k].state # "none"
          /\ future' = future \/ future' = [future EXCEPT ![k].state = "done"]
      BY <1>2 DEF CommitHF
    <3>2. /\ future' \in [Saves -> FutureType]
          /\ \A j \in Saves : future'[j].step = future[j].step /\ (j # k => future'[j] = future[j])
      BY <3>1, EndedFuture DEF TypeFuture
    <3> QED BY <3>1, <3>2 DEF TypeFuture
  <2>2. TypeExports'
    BY <1>2 DEF CommitHF, TypeExports
  <2> QED BY <1>2, <2>1, <2>2 DEF CommitHF, TypeMain, TypeDirs, TypeLists, TypeFlags, TypeFin,
             TypeCounters, TypeSaving
<1>3. CASE k = "hf" /\ ClearPendingHF
  <2>1. TypeFlags'
    BY <1>3 DEF ClearPendingHF, TypeFlags
  <2> QED BY <1>3, <2>1 DEF ClearPendingHF, TypeMain, TypeDirs, TypeExports, TypeLists, TypeFuture,
             TypeFin, TypeCounters, TypeSaving
<1>4. CASE RunCallback(k)
  <2>1. TypeFlags'
    BY <1>4 DEF RunCallback, TypeFlags
  <2>2. TypeFin'
    <3> DEFINE begun == [Idle EXCEPT !.pc = "append", !.step = future[k].step, !.to = future[k].to]
    <3>1. future[k] \in FutureType /\ future[k].step \in 0..TotalStep /\ future[k].to \in Dcp
      BY DEF TypeFuture, FutureType
    <3>2. begun \in FinType /\ begun.step = future[k].step
      BY <3>1, NewFin
    <3>3. \/ fin' = fin
          \/ fin' = [fin EXCEPT ![k] = begun] /\ future[k].state = "done"
      BY <1>4 DEF RunCallback
    <3> HIDE DEF begun
    <3> QED BY <3>1, <3>2, <3>3 DEF TypeFin, TypeFuture
  <2> QED BY <1>4, <2>1, <2>2 DEF RunCallback, TypeMain, TypeDirs, TypeExports, TypeLists, TypeFuture,
             TypeCounters, TypeSaving
<1>5. CASE FailSave(k)
  <2>1. TypeFuture'
    <3>1. future' = [future EXCEPT ![k].state = "failed"] /\ future[k].state # "none"
      BY <1>5 DEF FailSave
    <3>2. /\ future' \in [Saves -> FutureType]
          /\ \A j \in Saves : future'[j].step = future[j].step /\ (j # k => future'[j] = future[j])
      BY <3>1, EndedFuture DEF TypeFuture
    <3> QED BY <3>1, <3>2 DEF TypeFuture
  <2>2. TypeFlags' /\ TypeCounters'
    BY <1>5 DEF FailSave, TypeFlags, TypeCounters
  <2> QED BY <1>5, <2>1, <2>2 DEF FailSave, TypeMain, TypeDirs, TypeExports, TypeLists, TypeFin,
             TypeSaving
<1> QED BY <1>1, <1>2, <1>3, <1>4, <1>5 DEF SaveStep

\* Cutting a list of steps leaves a list of steps.
LEMMA CutIsList ==
  ASSUME NEW l \in Seq(Steps), NEW n \in 0..Len(l)
  PROVE  SubSeq(l, n + 1, Len(l)) \in Seq(Steps) /\ SubSeq(l, 1, n) \in Seq(Steps)
  OBVIOUS

LEMMA FinalizerTypes == ASSUME Types, NEW k \in Saves, FinStep(k) PROVE Types'
<1> USE ConstantsAssumption
<1> USE DEF Types, main, disk, background, finalizer, job, AsyncCkpt, AsyncHf
<1>f. /\ fin \in [Saves -> FinType] /\ fin[k] \in FinType
      /\ fin[k].step \in 0..TotalStep /\ fin[k].to \in Dcp /\ fin[k].doomed \in Seq(Steps)
  BY DEF TypeFin, FinType
<1>p. {"prune", "removing", "open", "write", "hook"} \subseteq FinPcs
  BY DEF FinPcs
<1>1. CASE FinAppend(k)
  <2> DEFINE l == ListOf(k)
             longer == Append(mem[l], fin[k].step)
             over == IF KeepOf(k) > 0 /\ Len(longer) > KeepOf(k) THEN Len(longer) - KeepOf(k) ELSE 0
  <2>1. l \in Lists
    BY <1>f DEF ListOf, Lists
  <2>2. mem[l] \in Seq(Steps) /\ fin[k].step \in Steps
    BY <2>1, <1>1, <1>f DEF FinAppend, TypeLists, TypeFin, Steps
  <2>3. longer \in Seq(Steps)
    BY <2>2
  <2>4. over \in 0..Len(longer)
    <3>1. config.maxkeep \in Nat /\ config.hf_max_keep \in Nat
      BY DEF TypeCounters
    <3>2. KeepOf(k) \in Nat /\ Len(longer) \in Nat
      BY <2>3, <3>1 DEF KeepOf
    <3> QED BY <3>2
  <2> DEFINE kept == SubSeq(longer, over + 1, Len(longer))
             off == SubSeq(longer, 1, over)
  <2>5. /\ mem' = [mem EXCEPT ![l] = kept]
        /\ fin' = [fin EXCEPT ![k].pc = "prune", ![k].doomed = off]
        /\ lock' = k /\ fin[k].pc # "idle"
    BY <1>1 DEF FinAppend
  <2> HIDE DEF l, longer, over
  <2>6. kept \in Seq(Steps) /\ off \in Seq(Steps)
    BY <2>3, <2>4, CutIsList
  <2> HIDE DEF kept, off
  <2>7. TypeLists'
    <3>1. mem' \in [Lists -> Seq(Steps)]
      BY <2>1, <2>5, <2>6 DEF TypeLists
    <3>2. meta' = meta
      BY <1>1 DEF FinAppend
    <3> QED BY <3>1, <3>2 DEF TypeLists
  <2>8. TypeFin'
    <3>1. /\ fin' \in [Saves -> FinType]
          /\ \A j \in Saves : fin'[j].step = fin[j].step /\ (j # k => fin'[j] = fin[j])
      BY <2>5, <2>6, <1>f, <1>p DEF FinType
    <3> QED BY <3>1, <2>5 DEF TypeFin
  <2>9. TypeFlags'
    BY <1>1 DEF FinAppend, TypeFlags
  <2> QED BY <1>1, <2>7, <2>8, <2>9 DEF FinAppend, TypeMain, TypeDirs, TypeExports, TypeFuture,
             TypeCounters, TypeSaving
<1>2. CASE FinPrune(k)
  <2>1. \/ fin' = [fin EXCEPT ![k].pc = "removing"]
        \/ fin' = [fin EXCEPT ![k].pc = "prune", ![k].doomed = Tail(fin[k].doomed)]
    BY <1>2, <1>f DEF FinPrune
  <2>2. fin[k].doomed # <<>> /\ fin[k].pc # "idle"
    BY <1>2 DEF FinPrune
  <2>3. Tail(fin[k].doomed) \in Seq(Steps)
    BY <2>2, <1>f
  <2>4. TypeFin'
    <3>1. /\ fin' \in [Saves -> FinType]
          /\ \A j \in Saves : fin'[j].step = fin[j].step /\ (j # k => fin'[j] = fin[j])
      <4>1. CASE fin' = [fin EXCEPT ![k].pc = "removing"]
        BY <4>1, <1>f, <1>p DEF FinType
      <4>2. CASE fin' = [fin EXCEPT ![k].pc = "prune", ![k].doomed = Tail(fin[k].doomed)]
        <5> DEFINE left == Tail(fin[k].doomed)
        <5>1. left \in Seq(Steps) /\ fin' = [fin EXCEPT ![k].pc = "prune", ![k].doomed = left]
          BY <4>2, <2>3
        <5> HIDE DEF left
        <5> QED BY <5>1, <1>f, <1>p DEF FinType
      <4> QED BY <2>1, <4>1, <4>2
    <3> QED BY <3>1, <2>2 DEF TypeFin
  <2>5. TypeExports' /\ link' = link
    BY <1>2 DEF FinPrune, TypeExports
  <2>6. TypeDirs'
    BY <1>2 DEF FinPrune, TypeDirs, Parts
  <2> QED BY <1>2, <2>4, <2>5, <2>6 DEF FinPrune, TypeMain, TypeLists, TypeFuture, TypeFlags,
             TypeCounters, TypeSaving
<1>3. CASE k = "hf" /\ FinLink
  <2>1. TypeExports'
    BY <1>3, <1>f DEF FinLink, TypeExports
  <2>2. TypeFin'
    <3>0. fin' = [fin EXCEPT ![k].pc = "open"] /\ fin[k].pc # "idle"
      BY <1>3 DEF FinLink
    <3>1. /\ fin' \in [Saves -> FinType]
          /\ \A j \in Saves : fin'[j].step = fin[j].step /\ (j # k => fin'[j] = fin[j])
      BY <3>0, <1>f, <1>p DEF FinType
    <3> QED BY <3>0, <3>1 DEF TypeFin
  <2> QED BY <1>3, <2>1, <2>2 DEF FinLink, TypeMain, TypeDirs, TypeLists, TypeFuture, TypeFlags,
             TypeCounters, TypeSaving
<1>4. CASE FinOpen(k)
  <2>1. TypeFin'
    <3>0. fin' = [fin EXCEPT ![k].pc = "write"] /\ fin[k].pc # "idle"
      BY <1>4 DEF FinOpen
    <3>1. /\ fin' \in [Saves -> FinType]
          /\ \A j \in Saves : fin'[j].step = fin[j].step /\ (j # k => fin'[j] = fin[j])
      BY <3>0, <1>f, <1>p DEF FinType
    <3> QED BY <3>0, <3>1 DEF TypeFin
  <2>2. TypeLists'
    BY <1>4 DEF FinOpen, TypeLists
  <2> QED BY <1>4, <2>1, <2>2 DEF FinOpen, TypeMain, TypeDirs, TypeExports, TypeFuture, TypeFlags,
             TypeCounters, TypeSaving
<1>5. CASE FinWrite(k)
  <2>1. TypeFin'
    <3>0. fin' = [fin EXCEPT ![k].pc = "hook"] /\ fin[k].pc # "idle"
      BY <1>5 DEF FinWrite
    <3>1. /\ fin' \in [Saves -> FinType]
          /\ \A j \in Saves : fin'[j].step = fin[j].step /\ (j # k => fin'[j] = fin[j])
      BY <3>0, <1>f, <1>p DEF FinType
    <3> QED BY <3>0, <3>1 DEF TypeFin
  <2>2. TypeLists' /\ TypeFlags'
    BY <1>5 DEF FinWrite, TypeLists, TypeFlags
  <2> QED BY <1>5, <2>1, <2>2 DEF FinWrite, TypeMain, TypeDirs, TypeExports, TypeFuture,
             TypeCounters, TypeSaving
<1>6. CASE FinHook(k)
  <2>1. TypeFin'
    BY <1>6, IdleFin DEF FinHook, TypeFin
  <2>2. TypeFlags'
    BY <1>6 DEF FinHook, TypeFlags
  <2> QED BY <1>6, <2>1, <2>2 DEF FinHook, TypeMain, TypeDirs, TypeExports, TypeLists, TypeFuture,
             TypeCounters, TypeSaving
<1> QED BY <1>1, <1>2, <1>3, <1>4, <1>5, <1>6 DEF FinStep

LEMMA EndTypes == ASSUME Types, Crash \/ Terminate \/ Restart \/ Rest \/ UNCHANGED vars PROVE Types'
<1> USE ConstantsAssumption
<1> USE DEF Types, main, disk, background, finalizer, job, AsyncCkpt, AsyncHf
<1>1. CASE Crash \/ Terminate
  <2>1. TypeCounters' /\ Die
    BY <1>1 DEF Crash, Terminate, Die, TypeCounters
  <2>2. TypeMain' /\ TypeSaving' /\ TypeDirs' /\ TypeExports'
    BY <2>1 DEF Die, TypeMain, TypeSaving, TypeDirs, TypeExports, MainPcs, Dcp, Gone
  <2>3. TypeLists'
    BY <2>1 DEF Die, TypeLists, NoLists
  <2>4. TypeFuture'
    <3>1. NoFuture \in FutureType /\ NoFuture.state = "none"
      BY DEF NoFuture, FutureType, Dcp
    <3> QED BY <2>1, <3>1 DEF Die, TypeFuture
  <2>5. TypeFin'
    BY <2>1, IdleFin DEF Die, TypeFin
  <2>6. TypeFlags'
    BY <2>1 DEF Die, TypeFlags
  <2> QED BY <2>1, <2>2, <2>3, <2>4, <2>5, <2>6
<1>2. CASE Restart
  <2>1. \A lists \in [Lists -> Seq(Steps)] : LatestCheckpoint(lists).step \in 0..TotalStep
    BY DEF LatestCheckpoint, LastOf, Lists, Dcp, Steps
  <2>2. TypeMain' /\ TypeSaving'
    BY <1>2, <2>1 DEF Restart, Goto, TypeMain, TypeSaving, TypeLists, MainPcs, Gone
  <2>3. TypeDirs' /\ TypeExports'
    BY <1>2 DEF Restart, TypeDirs, TypeExports
  <2>4. TypeLists'
    BY <1>2 DEF Restart, TypeLists
  <2> QED BY <1>2, <2>2, <2>3, <2>4 DEF Restart, TypeFuture, TypeFlags, TypeFin, TypeCounters
<1>3. CASE Rest \/ UNCHANGED vars
  BY <1>3 DEF Rest, vars, TypeMain, TypeDirs, TypeExports, TypeLists, TypeFuture, TypeFlags,
     TypeFin, TypeCounters, TypeSaving
<1> QED BY <1>1, <1>2, <1>3

-----------------------------------------------------------------------------
(* The theorems. *)

LEMMA NextInv == Inv /\ [Next]_vars => Inv'
<1> SUFFICES ASSUME Inv, [Next]_vars PROVE Inv'
  OBVIOUS
<1>1. Types
  BY TypeGroups DEF Inv
<1>2. Types' /\ Control'
  <2>1. CASE MainStep
    BY <2>1, <1>1, MainTypes, MainControl
  <2>2. CASE \E k \in Saves : SaveStep(k) \/ FailSave(k)
    BY <2>2, <1>1, BackgroundTypes, BackgroundControl
  <2>3. CASE \E k \in Saves : FinStep(k)
    BY <2>3, <1>1, FinalizerTypes, FinalizerControl
  <2>4. CASE Crash \/ Terminate \/ Restart \/ Rest \/ UNCHANGED vars
    BY <2>4, <1>1, EndTypes, EndControl
  <2> QED BY <2>1, <2>2, <2>3, <2>4 DEF Next
<1>3. TypeOK' /\ StepInv'
  BY <1>2, TypeGroups, PTL
<1> QED BY <1>2, <1>3 DEF Inv, Control

LEMMA AlwaysInv == Spec => []Inv
  BY InitInv, NextInv, PTL DEF Spec

\* Type correctness of Trainer.fit with its background saves and finalizers.
THEOREM TypeCorrect == Spec => []TypeOK
<1>1. Inv => TypeOK
  BY DEF Inv
<1> QED BY <1>1, AlwaysInv, PTL

\* The two finalizers never lose an entry of each other and never leave the meta
\* file half written behind: _save_finalize_lock, and the wait for the pending
\* save before the next one, are enough in every configuration.
THEOREM MetaFileAgrees == Spec => []MetaAgrees
<1>1. Inv => MetaAgrees
  BY DEF Inv
<1> QED BY <1>1, AlwaysInv, PTL

\* A job keeps its configuration.
LEMMA ConfigStays == [Next]_vars => config' = config
<1> SUFFICES ASSUME [Next]_vars PROVE config' = config
  OBVIOUS
<1> USE DEF job
<1>1. CASE MainStep
  BY <1>1 DEF MainStep, TrainStep, SkipHF, SaveHFBegin, SaveHFEnd, HFFinalized, WaitHF, LaunchHF,
     RegisterHF, MaybeSaveCkpt, MaybeSaveSnap, WaitCkpt, SaveDcpBegin, SaveDcpEnd, LaunchDcp,
     SaveState, RegisterDcp, DcpFinalized, DrainHF, DrainDcp, StopMonitor
<1>2. CASE \E k \in Saves : SaveStep(k) \/ FailSave(k) \/ FinStep(k)
  BY <1>2 DEF SaveStep, FailSave, FinStep, CommitDcp, CommitHF, ClearPendingHF, RunCallback,
     FinAppend, FinPrune, FinLink, FinOpen, FinWrite, FinHook
<1>3. CASE Crash \/ Terminate \/ Restart \/ Rest \/ UNCHANGED vars
  BY <1>3 DEF Crash, Terminate, Die, Restart, Rest, vars
<1> QED BY <1>1, <1>2, <1>3 DEF Next

\* No export is refused: async_save_hf never finds one pending, however exports and
\* their failures interleave with training, checkpoints and restarts.
THEOREM ExportsNeverRefused == Spec => []NeverRefused
<1>1. Inv => NeverRefused
  BY DEF Inv, HandleInv, CallbackInv, NeverRefused, Preparing, Async, Saves
<1> QED BY <1>1, AlwaysInv, PTL
===============================================================================
