--------------------------- MODULE DurabilityProofs ---------------------------
(***************************************************************************)
(* What the supervised trainer leaves on disk, for every number of steps   *)
(* and every configuration: a job that went down can be resumed, a hook    *)
(* sees a complete save, fit returns with its last saves recorded, and the *)
(* trainer keeps the promise of DurableProgress.  Builds on the invariant  *)
(* of CheckpointProofs, which is about threads; this one is about steps    *)
(* and files.                                                              *)
(***************************************************************************)
EXTENDS CheckpointProofs

-----------------------------------------------------------------------------
(* Lists of steps. *)

InOrder(l) == \A i, j \in 1..Len(l) : i < j => l[i] < l[j]
End(l) == IF l = <<>> THEN 0 ELSE l[Len(l)]

\* The last recorded step of a list, in memory and in the file.
Known(l) == LastOf(mem, l)
Filed(l) == LastOf(meta.lists, l)

\* The last entry of a list of steps is a step, or 0 for an empty list.
LEMMA EndType == ASSUME NEW l \in Seq(Steps)
                 PROVE  End(l) \in 0..TotalStep /\ (End(l) # 0 => End(l) \in Steps)
  BY ConstantsAssumption DEF End, Steps

\* Cutting a list that got a new last entry keeps it in order, ends it with that
\* entry, and cuts off older entries only; with two or more kept, the entry that
\* was last before stays.
LEMMA CutKeeps ==
  ASSUME NEW l \in Seq(Steps), NEW s \in Steps, NEW keep \in Nat,
         InOrder(l), End(l) < s
  PROVE  LET longer == Append(l, s)
             over == IF keep > 0 /\ Len(longer) > keep THEN Len(longer) - keep ELSE 0
             kept == SubSeq(longer, over + 1, Len(longer))
             off == SubSeq(longer, 1, over)
         IN  /\ kept \in Seq(Steps) /\ InOrder(kept) /\ End(kept) = s
             /\ off \in Seq(Steps)
             /\ keep = 0 => off = <<>>
             /\ \A i \in DOMAIN off : /\ off[i] <= End(l) /\ off[i] < s
                                      /\ keep # 1 => off[i] < End(l)
<1> DEFINE longer == Append(l, s)
           over == IF keep > 0 /\ Len(longer) > keep THEN Len(longer) - keep ELSE 0
           kept == SubSeq(longer, over + 1, Len(longer))
           off == SubSeq(longer, 1, over)
<1>1. /\ longer \in Seq(Steps) /\ Len(longer) = Len(l) + 1 /\ longer[Len(longer)] = s
      /\ \A i \in 1..Len(l) : longer[i] = l[i]
  OBVIOUS
<1>2. over \in 0..Len(l) /\ (keep = 0 => over = 0) /\ (keep # 1 => over = 0 \/ over < Len(l))
  BY <1>1
<1>3. \A i \in 1..Len(l) : l[i] <= End(l) /\ l[i] \in Steps /\ (i < Len(l) => l[i] < End(l))
  <2> SUFFICES ASSUME NEW i \in 1..Len(l)
               PROVE  l[i] <= End(l) /\ l[i] \in Steps /\ (i < Len(l) => l[i] < End(l))
    OBVIOUS
  <2>1. l # <<>> /\ Len(l) \in 1..Len(l) /\ l[i] \in Steps /\ l[Len(l)] \in Steps
    OBVIOUS
  <2>2. i < Len(l) => l[i] < l[Len(l)]
    BY <2>1 DEF InOrder
  <2> QED BY <2>1, <2>2 DEF End, Steps
<1>4. InOrder(longer)
  <2>1. \A i \in 1..Len(l) : l[i] < s
    BY <1>3, EndType DEF Steps
  <2> QED BY <1>1, <2>1 DEF InOrder
<1> HIDE DEF longer, over
<1>5. /\ kept \in Seq(Steps) /\ Len(kept) = Len(longer) - over
      /\ \A i \in 1..Len(kept) : kept[i] = longer[i + over]
  <2>1. over + 1 \in 1..(Len(longer) + 1) /\ Len(longer) \in over..Len(longer) /\ Len(longer) \in Nat
    BY <1>1, <1>2
  <2>2. kept \in Seq(Steps) /\ Len(kept) = Len(longer) - over
    BY <2>1, <1>1, <1>2
  <2>3. ASSUME NEW i \in 1..Len(kept) PROVE kept[i] = longer[i + over]
    BY <2>1, <2>2, <2>3, <1>1, <1>2
  <2> QED BY <2>2, <2>3
<1>6. /\ off \in Seq(Steps) /\ Len(off) = over
      /\ \A i \in 1..over : off[i] = longer[i]
  BY <1>1, <1>2
<1> HIDE DEF kept, off
<1>7. InOrder(kept)
  <2> SUFFICES ASSUME NEW i \in 1..Len(kept), NEW j \in 1..Len(kept), i < j PROVE kept[i] < kept[j]
    BY DEF InOrder
  <2>1. i + over \in 1..Len(longer) /\ j + over \in 1..Len(longer) /\ i + over < j + over
    BY <1>1, <1>2, <1>5
  <2>2. longer[i + over] < longer[j + over]
    BY <2>1, <1>4 DEF InOrder
  <2> QED BY <2>2, <1>5
<1>8. End(kept) = s
  <2>1. Len(kept) # 0 /\ Len(kept) \in 1..Len(kept) /\ Len(kept) + over = Len(longer)
    BY <1>1, <1>2, <1>5
  <2>2. kept[Len(kept)] = longer[Len(kept) + over]
    BY <2>1, <1>5
  <2> QED BY <1>1, <1>5, <2>1, <2>2 DEF End
<1>9. keep = 0 => off = <<>>
  BY <1>2, <1>6
<1>10. ASSUME NEW i \in DOMAIN off
       PROVE  off[i] <= End(l) /\ off[i] < s /\ (keep # 1 => off[i] < End(l))
  <2>1. i \in 1..over /\ off[i] = longer[i]
    BY <1>6
  <2>2. i \in 1..Len(l) /\ off[i] = l[i]
    BY <2>1, <1>1, <1>2
  <2>3. keep # 1 => i < Len(l)
    BY <2>1, <2>2, <1>2
  <2>4. l[i] <= End(l) /\ l[i] \in Steps /\ (i < Len(l) => l[i] < End(l))
    BY <2>2, <1>3
  <2>5. End(l) \in 0..TotalStep
    BY EndType
  <2>6. l[i] \in Int /\ End(l) \in Int /\ s \in Int
    BY <2>4, <2>5 DEF Steps
  <2> QED BY <2>2, <2>3, <2>4, <2>6
<1> QED BY <1>5, <1>6, <1>7, <1>8, <1>9, <1>10 DEF longer, over, kept, off

-----------------------------------------------------------------------------
(* The inductive invariant. *)

\* Positions of the main thread after a training step and before the saves of
\* that step are launched, and while its checkpoint is written.
Early == {"HF", "HFWriting", "HFFinalizing", "HFLaunch", "HFRegister", "Ckpt", "Snap", "Wait"}
Writing == {"Weights", "WeightsWriting", "State", "Register"}

\* The lists of checkpoints are in order.
ListInv == /\ \A l \in Dcp : InOrder(mem[l]) /\ InOrder(meta.lists[l])
           /\ meta.state = "empty" => meta.lists = NoLists

\* The file lags behind the memory by what the finalizer with the lock has in hand.
LagInv ==
  /\ pc \notin Gone =>
       /\ lock = "none" => mem = meta.lists
       /\ lock = "hf" => \A l \in Dcp : mem[l] = meta.lists[l]
       /\ lock = "dcp" => \A l \in Lists : l # fin["dcp"].to => mem[l] = meta.lists[l]
       /\ meta.state = "torn" <=> \E k \in Saves : fin[k].pc = "write"
  /\ lock = "dcp" => \A l \in Dcp : Filed(l) < fin["dcp"].step

\* What is recorded is behind what is about to be recorded, and that is not ahead
\* of the training.
OrderInv ==
  /\ pc \notin Gone => \A l \in Dcp : Known(l) <= step /\ Filed(l) <= Known(l)
  /\ pc \in Early \cup Writing => \A l \in Dcp : Known(l) < step
  /\ callback["dcp"] = "registered" =>
       /\ future["dcp"].state # "none"
       /\ future["dcp"].step <= step
       /\ pc \in Early => future["dcp"].step < step
       /\ \A l \in Dcp : Known(l) < future["dcp"].step
  /\ fin["dcp"].pc # "idle" =>
       /\ fin["dcp"].step <= step
       /\ pc \in Early => fin["dcp"].step < step
  /\ fin["dcp"].pc = "append" => \A l \in Dcp : Known(l) < fin["dcp"].step
  /\ fin["dcp"].pc \in CriticalPcs \cup {"hook"} => Known(fin["dcp"].to) = fin["dcp"].step
  /\ AsyncCkpt /\ pc \in {"State", "Register"} =>
       /\ future["dcp"].step = step /\ future["dcp"].to = saving
       /\ future["dcp"].state # "none"

Progress == ListInv /\ LagInv /\ OrderInv

\* So are the last steps recorded in memory and in the file.
LEMMA KnownType ==
  ASSUME TypeOK, NEW l \in Lists
  PROVE  Known(l) \in 0..TotalStep /\ Filed(l) \in 0..TotalStep
<1>1. mem[l] \in Seq(Steps) /\ meta.lists[l] \in Seq(Steps)
  BY DEF TypeOK
<1> QED BY <1>1, EndType DEF Known, Filed, LastOf, End

\* The main thread keeps the lists in order and the steps apart.
LEMMA MainProgress == ASSUME Inv, Progress, MainStep PROVE Progress'
<1> USE ConstantsAssumption
<1> USE DEF Progress, Goto, main, disk, background, finalizer, job, AsyncCkpt, AsyncHf
<1>0. mem' = mem /\ meta' = meta /\ lock' = lock
  BY DEF MainStep, TrainStep, SkipHF, SaveHFBegin, SaveHFEnd, HFFinalized, WaitHF, LaunchHF, RegisterHF,
     MaybeSaveCkpt, MaybeSaveSnap, WaitCkpt, SaveDcpBegin, SaveDcpEnd, LaunchDcp, SaveState,
     RegisterDcp, DcpFinalized, DrainHF, DrainDcp, StopMonitor
<1>1. ListInv'
  BY <1>0 DEF ListInv, InOrder, NoLists
<1>a. \A l \in Dcp : Known(l) \in 0..TotalStep /\ Filed(l) \in 0..TotalStep
  BY KnownType DEF Inv, Lists
<1>b. step \in 0..TotalStep /\ \A k \in Saves : future[k].step \in 0..TotalStep /\ fin[k].step \in 0..TotalStep
  BY DEF Inv, TypeOK
<1>c. /\ fin \in [Saves -> FinType] /\ future \in [Saves -> FutureType] /\ saving \in Dcp
      /\ DOMAIN callback = Saves
  BY DEF Inv, TypeOK, FinType, FutureType
<1>2. LagInv' /\ OrderInv'
  <2> USE <1>0, <1>a, <1>b DEF LagInv, OrderInv, Known, Filed, LastOf, Gone, Early, Writing, Saves, CriticalPcs
  <2>1. CASE TrainStep
    BY <2>1 DEF TrainStep, Inv, CallbackInv, Preparing, Launched, Async, Awaiting
  <2>2. CASE SkipHF
    BY <2>2 DEF SkipHF, Inv, CallbackInv, Preparing, Launched, Async, Awaiting
  <2>3. CASE SaveHFBegin
    BY <2>3 DEF SaveHFBegin, Inv, CallbackInv, Preparing, Launched, Async, Awaiting
  <2>4. CASE SaveHFEnd
    <3>1. fin'["dcp"] = fin["dcp"] /\ fin'["hf"].pc = "append" /\ fin["hf"].pc = "idle"
      BY <2>4, <1>c DEF SaveHFEnd, Idle, Inv, CallbackInv, HandleInv, Async, Awaiting
    <3> QED BY <2>4, <3>1 DEF SaveHFEnd
  <2>5. CASE HFFinalized
    BY <2>5 DEF HFFinalized, Inv, CallbackInv, Preparing, Launched, Async, Awaiting
  <2>6. CASE WaitHF
    BY <2>6 DEF WaitHF, WaitForPending, Inv, CallbackInv, Preparing, Launched, Async, Awaiting
  <2>7. CASE LaunchHF
    <3>1. future'["dcp"] = future["dcp"] /\ pc' \in {"Raised", "HFRegister"}
      BY <2>7, <1>c DEF LaunchHF
    <3> QED BY <2>7, <3>1 DEF LaunchHF
  <2>8. CASE RegisterHF
    BY <2>8 DEF RegisterHF, Inv, CallbackInv, Preparing, Launched, Async, Awaiting
  <2>9. CASE MaybeSaveCkpt
    BY <2>9 DEF MaybeSaveCkpt, MkDir, Inv, CallbackInv, Preparing, Launched, Async, Awaiting
  <2>10. CASE MaybeSaveSnap
    BY <2>10 DEF MaybeSaveSnap, MkDir, Inv, CallbackInv, Preparing, Launched, Async, Awaiting
  <2>11. CASE WaitCkpt
    BY <2>11 DEF WaitCkpt, WaitForPending, Settled, Inv, CallbackInv, Preparing, Launched, Async, Awaiting
  <2>12. CASE SaveDcpBegin
    BY <2>12 DEF SaveDcpBegin, Inv, CallbackInv, Preparing, Launched, Async, Awaiting
  <2>13. CASE SaveDcpEnd
    BY <2>13 DEF SaveDcpEnd, Inv, HandleInv
  <2>14. CASE LaunchDcp
    <3>1. /\ pc = "Weights" /\ pc' \in {"Raised", "State"}
          /\ callback["dcp"] = "none" /\ fin["dcp"].pc = "idle"
      BY <2>14 DEF LaunchDcp, Inv, CallbackInv, Preparing, Async, Awaiting
    <3>2. pc' = "State" => /\ future'["dcp"].step = step /\ future'["dcp"].to = saving
                            /\ future'["dcp"].state = "writing"
      BY <2>14, <1>c DEF LaunchDcp
    <3> QED BY <2>14, <3>1, <3>2 DEF LaunchDcp
  <2>15. CASE SaveState
    <3>1. fin["dcp"].pc = "idle" /\ pc = "State" /\ fin'["hf"] = fin["hf"]
      BY <2>15, <1>c DEF SaveState, Inv, CallbackInv, Preparing, Async, Awaiting
    <3>2. CASE AsyncCkpt
      BY <2>15, <3>1, <3>2 DEF SaveState
    <3>3. CASE ~AsyncCkpt
      <4>1. fin'["dcp"].pc = "append" /\ fin'["dcp"].step = step /\ pc' = "Finalizing"
        BY <2>15, <3>3, <1>c DEF SaveState, Idle
      <4>2. callback["dcp"] = "none" /\ lock # "dcp"
        BY <3>1, <3>3 DEF Inv, CallbackInv, Async, LockInv
      <4> QED BY <2>15, <3>1, <4>1, <4>2 DEF SaveState
    <3> QED BY <3>2, <3>3
  <2>16. CASE RegisterDcp
    <3>1. callback'["dcp"] = "registered" /\ pc = "Register" /\ pc' \in {"Train", "Inline"} /\ AsyncCkpt
      BY <2>16, <1>c DEF RegisterDcp, Inv, HandleInv
    <3> QED BY <2>16, <3>1 DEF RegisterDcp
  <2>17. CASE DcpFinalized
    BY <2>17 DEF DcpFinalized, Inv, CallbackInv, Preparing, Launched, Async, Awaiting
  <2>18. CASE DrainHF
    BY <2>18 DEF DrainHF, WaitForPending, Inv, CallbackInv, Preparing, Launched, Async, Awaiting
  <2>19. CASE DrainDcp
    BY <2>19 DEF DrainDcp, WaitForPending, Inv, CallbackInv, Preparing, Launched, Async, Awaiting
  <2>20. CASE StopMonitor
    BY <2>20 DEF StopMonitor, Inv, CallbackInv, Preparing, Launched, Async, Awaiting
  <2> QED BY <2>1, <2>2, <2>3, <2>4, <2>5, <2>6, <2>7, <2>8, <2>9, <2>10, <2>11, <2>12, <2>13, <2>14, <2>15, <2>16, <2>17, <2>18, <2>19, <2>20 DEF MainStep
<1> QED BY <1>1, <1>2

\* So do the background saves and the callbacks of their futures.
LEMMA BackgroundProgress ==
  ASSUME Inv, Progress, NEW k \in Saves, SaveStep(k) \/ FailSave(k) PROVE Progress'
<1> USE DEF Progress, main, disk, background, finalizer, job, AsyncCkpt, AsyncHf
<1>0. mem' = mem /\ meta' = meta /\ lock' = lock /\ pc' = pc /\ step' = step /\ saving' = saving /\ config' = config
  BY DEF SaveStep, CommitDcp, CommitHF, ClearPendingHF, RunCallback, FailSave
<1>1. ListInv'
  BY <1>0 DEF ListInv, InOrder, NoLists
<1>c. /\ fin \in [Saves -> FinType] /\ future \in [Saves -> FutureType] /\ DOMAIN callback = Saves
  BY DEF Inv, TypeOK, FinType, FutureType
<1>2. CASE ~RunCallback(k)
  <2>1. /\ fin' = fin
        /\ \A j \in Saves : /\ future'[j].step = future[j].step /\ future'[j].to = future[j].to
                            /\ future[j].state # "none" => future'[j].state # "none"
        /\ callback'["dcp"] = callback["dcp"]
    BY <1>2, <1>c DEF SaveStep, CommitDcp, CommitHF, ClearPendingHF, FailSave, Saves, FutureType
  <2> QED BY <1>0, <1>1, <2>1 DEF LagInv, OrderInv, Known, Filed, LastOf, Saves
<1>3. CASE RunCallback("hf")
  <2>1. /\ fin'["dcp"] = fin["dcp"] /\ callback'["dcp"] = callback["dcp"] /\ future' = future
        /\ fin["hf"].pc = "idle"
        /\ fin'["hf"].pc \in {"idle", "append"}
    BY <1>3, <1>c, ZenonT(60) DEF RunCallback, Idle, Saves, Inv, CallbackInv, Async
  <2> QED BY <1>0, <1>1, <2>1 DEF LagInv, OrderInv, Known, Filed, LastOf, Saves
<1>4. CASE RunCallback("dcp")
  <2>1. /\ future' = future /\ callback["dcp"] = "registered" /\ fin["dcp"].pc = "idle" /\ fin'["hf"] = fin["hf"]
        /\ callback'["dcp"] # "registered" /\ lock # "dcp"
        /\ \/ fin'["dcp"] = fin["dcp"]
           \/ fin'["dcp"].pc = "append" /\ fin'["dcp"].step = future["dcp"].step
    BY <1>4, <1>c, ZenonT(60) DEF RunCallback, Idle, Saves, Inv, CallbackInv, LockInv, Async, CriticalPcs, Awaiting
  <2> QED BY <1>0, <1>1, <2>1 DEF LagInv, OrderInv, Known, Filed, LastOf, Saves, CriticalPcs
<1> QED BY <1>2, <1>3, <1>4 DEF Saves

\* So do the finalizers: the list that grows gets a step newer than all it had.
LEMMA FinalizerProgress == ASSUME Inv, Progress, NEW k \in Saves, FinStep(k) PROVE Progress'
<1> USE ConstantsAssumption
<1> USE DEF Progress, main, disk, background, finalizer, job, AsyncCkpt, AsyncHf
<1>0. /\ pc' = pc /\ step' = step /\ saving' = saving /\ config' = config /\ future' = future
      /\ callback' = callback \/ callback' = [callback EXCEPT ![k] = "none"]
  BY DEF FinStep, FinAppend, FinPrune, FinLink, FinOpen, FinWrite, FinHook
<1>c. /\ fin \in [Saves -> FinType] /\ future \in [Saves -> FutureType] /\ DOMAIN callback = Saves
      /\ mem \in [Lists -> Seq(Steps)] /\ meta.lists \in [Lists -> Seq(Steps)]
      /\ meta \in [state : {"empty", "torn", "ok"}, lists : [Lists -> Seq(Steps)]]
      /\ config.maxkeep \in Nat /\ config.hf_max_keep \in Nat
  BY DEF Inv, TypeOK, FinType, FutureType
<1>f. fin[k].step \in 0..TotalStep /\ fin[k].to \in Dcp /\ (fin[k].pc # "idle" => fin[k].step \in Steps)
  BY DEF Inv, TypeOK, StepInv, Steps
<1>1. CASE FinAppend(k)
  <2> DEFINE l == ListOf(k)
             longer == Append(mem[l], fin[k].step)
             over == IF KeepOf(k) > 0 /\ Len(longer) > KeepOf(k) THEN Len(longer) - KeepOf(k) ELSE 0
             kept == SubSeq(longer, over + 1, Len(longer))
             off == SubSeq(longer, 1, over)
  <2>1. /\ fin[k].pc = "append" /\ lock = "none" /\ lock' = k
        /\ mem' = [mem EXCEPT ![l] = kept]
        /\ fin' = [fin EXCEPT ![k].pc = "prune", ![k].doomed = off]
        /\ meta' = meta /\ callback' = callback
    BY <1>1 DEF FinAppend
  <2>2. l \in Lists /\ KeepOf(k) \in Nat /\ fin[k].step \in Steps /\ mem[l] \in Seq(Steps)
    BY <2>1, <1>c, <1>f DEF ListOf, KeepOf, Lists
  <2>3. /\ fin'[k].pc = "prune" /\ fin'[k].step = fin[k].step /\ fin'[k].to = fin[k].to
        /\ \A j \in Saves : j # k => fin'[j] = fin[j]
    BY <2>1, <1>c DEF FinType
  <2>4. pc \notin Gone /\ mem = meta.lists
    BY <2>1 DEF LagInv, Inv, DownInv, Gone
  <2>5. CASE k = "hf"
    <3>1. \A d \in Dcp : mem'[d] = mem[d]
      BY <2>1, <2>5, <1>c DEF ListOf, Dcp, Lists
    <3>2. \A d \in Dcp : Known(d)' = Known(d) /\ Filed(d)' = Filed(d)
      <4>1. meta' = meta
        BY <2>1
      <4> QED BY <3>1, <4>1 DEF Known, Filed, LastOf
    <3>3. ListInv'
      BY <2>1, <3>1 DEF ListInv, InOrder, NoLists
    <3>4. fin'["dcp"] = fin["dcp"] /\ fin["hf"].pc = "append" /\ fin'["hf"].pc = "prune"
      BY <2>1, <2>3, <2>5 DEF Saves
    <3>5. LagInv'
      BY <2>1, <2>4, <2>5, <3>1, <3>4, <1>0 DEF LagInv, Saves
    <3>6. Known(fin["dcp"].to)' = Known(fin["dcp"].to)
      BY <3>1, <3>4, <1>c DEF FinType, Saves, Known, LastOf
    <3>7. OrderInv'
      BY <2>1, <3>2, <3>4, <3>6, <1>0 DEF OrderInv
    <3> QED BY <3>3, <3>5, <3>7
  <2>6. CASE k = "dcp"
    <3>a. PICK t \in Dcp : t = fin["dcp"].to
      BY <2>6, <1>f
    <3>b. PICK s \in Steps : s = fin["dcp"].step
      BY <2>2, <2>6
    <3>0. l = t /\ fin[k].step = s
      BY <2>6, <3>a, <3>b DEF ListOf
    <3>1. InOrder(mem[t]) /\ End(mem[t]) < s
      BY <2>1, <2>6, <3>b DEF ListInv, OrderInv, Known, LastOf, End
    <3>2. InOrder(kept) /\ End(kept) = s
      BY <2>2, <3>0, <3>1, CutKeeps
    <3> HIDE DEF kept, off, l
    <3>3. mem'[t] = kept /\ \A d \in Lists : d # t => mem'[d] = mem[d]
      BY <2>1, <2>2, <3>0, <1>c
    <3>4. /\ Known(t)' = s /\ \A d \in Dcp : d # t => Known(d)' = Known(d)
          /\ \A d \in Dcp : Filed(d)' = Filed(d)
      BY <3>2, <3>3, <2>1 DEF Known, Filed, LastOf, End, Lists
    <3>5. ListInv'
      <4>1. \A d \in Dcp : InOrder(mem'[d])
        <5> SUFFICES ASSUME NEW d \in Dcp PROVE InOrder(mem'[d])
          OBVIOUS
        <5>1. CASE d = t
          BY <3>2, <3>3, <5>1
        <5>2. CASE d # t
          <6>1. mem'[d] = mem[d]
            BY <3>3, <5>2 DEF Lists
          <6> QED BY <6>1 DEF ListInv
        <5> QED BY <5>1, <5>2
      <4>2. \A d \in Dcp : InOrder(mem[d])'
        BY <4>1 DEF InOrder
      <4> QED BY <4>2, <2>1 DEF ListInv, InOrder, NoLists
    <3>6. fin'["dcp"].to = t /\ fin'["dcp"].step = s /\ fin'["dcp"].pc = "prune"
          /\ fin'["hf"] = fin["hf"] /\ fin["dcp"].pc = "append"
      BY <2>1, <2>3, <2>6, <3>a, <3>b DEF Saves
    <3>7. LagInv'
      <4>1. \A d \in Dcp : Filed(d) < s
        BY <2>1, <2>4, <2>6, <3>b DEF OrderInv, Known, Filed
      <4>2. lock' = "dcp" /\ pc' = pc /\ meta' = meta
        BY <2>1, <2>6, <1>0
      <4>3. \A d \in Dcp : Filed(d)' < fin'["dcp"].step
        BY <3>4, <3>6, <4>1
      <4>4. \A d \in Lists : d # fin'["dcp"].to => mem'[d] = meta'.lists[d]
        BY <2>4, <3>3, <3>6, <4>2
      <4>5. meta.state # "torn"
        BY <2>1, <2>4, <2>6, <3>6 DEF LagInv, Inv, LockInv, CriticalPcs, Saves
      <4>6. \A j \in Saves : fin'[j].pc # "write"
        BY <2>1, <2>4, <2>6, <3>6, <4>5 DEF LagInv, Saves
      <4> QED BY <4>2, <4>3, <4>4, <4>5, <4>6 DEF LagInv
    <3>8. OrderInv'
      <4>1. callback["dcp"] # "registered"
        BY <2>1, <2>6 DEF Inv, CallbackInv, Async
      <4>2. s <= step /\ (pc \in Early \cup Writing => s < step)
        BY <2>1, <2>6, <3>b DEF OrderInv, Inv, CallbackInv, HandleInv, Async, Awaiting, Writing, Early,
           Preparing, TypeOK, Saves
      <4>3. \A d \in Dcp : Filed(d) = Known(d) /\ Known(d) < s
        BY <2>1, <2>4, <2>6, <3>b DEF OrderInv, Known, Filed
      <4>4. \A d \in Dcp : Filed(d) \in Int /\ Known(d) \in Int
        BY KnownType DEF Inv, Lists
      <4>5. s \in Int /\ step \in Int
        BY DEF Inv, TypeOK, Steps
      <4>6. \A d \in Dcp : Known(d)' <= s /\ Filed(d)' <= Known(d)'
        BY <3>4, <4>3, <4>4, <4>5
      <4>7. Known(fin["dcp"].to)' = s
        BY <3>4, <3>6 DEF Known
      <4>8. /\ \A d \in Dcp : Known(d)' <= step /\ Filed(d)' <= Known(d)'
            /\ pc \in Early \cup Writing => \A d \in Dcp : Known(d)' < step
        BY <4>2, <4>4, <4>5, <4>6, <3>4, <4>3
      <4> QED BY <2>1, <3>6, <4>1, <4>2, <4>7, <4>8, <1>0 DEF OrderInv
    <3> QED BY <3>5, <3>7, <3>8
  <2> QED BY <2>5, <2>6 DEF Saves
<1>2. CASE FinPrune(k) \/ (k = "hf" /\ FinLink) \/ FinHook(k)
  <2>1. /\ mem' = mem /\ meta' = meta /\ lock' = lock /\ (callback' = callback \/ fin[k].pc = "hook")
        /\ \A j \in Saves : j # k => fin'[j] = fin[j]
        /\ \/ /\ fin'[k].to = fin[k].to /\ fin'[k].step = fin[k].step
              /\ fin[k].pc \in {"prune", "removing"} /\ fin'[k].pc \in {"prune", "removing", "open"}
           \/ fin[k].pc = "hook" /\ fin'[k].pc = "idle"
    BY <1>2, <1>c, SMTT(30) DEF FinPrune, FinLink, FinHook, FinType, Idle
  <2>2. ListInv'
    BY <2>1 DEF ListInv, InOrder, NoLists
  <2>3. k = "dcp" /\ fin[k].pc = "hook" => lock # "dcp"
    BY DEF Inv, LockInv, CriticalPcs
  <2>4. CASE k = "hf"
    <3>1. fin'["dcp"] = fin["dcp"] /\ callback'["dcp"] = callback["dcp"]
      BY <2>1, <2>4, <1>0, <1>c DEF Saves
    <3> QED BY <2>1, <2>2, <2>4, <3>1, <1>0 DEF LagInv, OrderInv, Known, Filed, LastOf, Saves
  <2>5. CASE k = "dcp"
    <3>1. fin'["hf"] = fin["hf"] /\ (callback'["dcp"] = "registered" => callback["dcp"] = "registered")
      BY <2>1, <2>5, <1>0, <1>c DEF Saves
    <3> QED BY <2>1, <2>2, <2>3, <2>5, <3>1, <1>0 DEF LagInv, OrderInv, Known, Filed, LastOf, Saves, CriticalPcs
  <2> QED BY <2>4, <2>5 DEF Saves
<1>3. CASE FinOpen(k)
  <2>1. /\ mem' = mem /\ meta'.lists = meta.lists /\ meta'.state = "torn" /\ lock' = lock /\ callback' = callback
        /\ fin'[k].to = fin[k].to /\ fin'[k].step = fin[k].step /\ fin'[k].pc = "write"
        /\ fin[k].pc \in {"prune", "open"}
        /\ \A j \in Saves : j # k => fin'[j] = fin[j]
    BY <1>3, <1>c DEF FinOpen, FinType
  <2>2. ListInv'
    BY <2>1 DEF ListInv, InOrder, NoLists
  <2>3. \A j \in Saves : fin'[j].to = fin[j].to /\ fin'[j].step = fin[j].step
    BY <2>1
  <2>4. LagInv'
    BY <2>1, <2>3, <1>0 DEF LagInv, Filed, LastOf, Saves
  <2>5. \/ fin'["dcp"] = fin["dcp"]
        \/ fin["dcp"].pc \in CriticalPcs /\ fin'["dcp"].pc \in CriticalPcs
    BY <2>1 DEF CriticalPcs, Saves
  <2>6. OrderInv'
    BY <2>1, <2>3, <2>5, <1>0 DEF OrderInv, Known, Filed, LastOf, Saves, CriticalPcs
  <2> QED BY <2>2, <2>4, <2>6
<1>4. CASE FinWrite(k)
  <2>1. /\ mem' = mem /\ meta'.lists = mem /\ meta'.state = "ok" /\ lock' = "none" /\ callback' = callback
        /\ fin'[k].to = fin[k].to /\ fin'[k].step = fin[k].step /\ fin'[k].pc = "hook" /\ fin[k].pc = "write"
        /\ \A j \in Saves : j # k => fin'[j] = fin[j]
    BY <1>4, <1>c DEF FinWrite, FinType
  <2>2. ListInv'
    BY <2>1 DEF ListInv, InOrder, NoLists
  <2>3. \A j \in Saves : fin'[j].to = fin[j].to /\ fin'[j].step = fin[j].step
    BY <2>1
  <2>4. lock = k /\ \A j \in Saves : fin'[j].pc # "write"
    BY <2>1 DEF Inv, LockInv, CriticalPcs, Saves
  <2>5. LagInv'
    BY <2>1, <2>3, <2>4, <1>0 DEF LagInv
  <2>6. \/ fin'["dcp"] = fin["dcp"]
        \/ fin["dcp"].pc \in CriticalPcs /\ fin'["dcp"].pc = "hook"
    BY <2>1 DEF CriticalPcs, Saves
  <2>7. \A d \in Dcp : Known(d)' = Known(d) /\ Filed(d)' = Known(d)
    BY <2>1 DEF Known, Filed, LastOf
  <2>8. Known(fin["dcp"].to)' = Known(fin["dcp"].to)
    BY <2>1, <2>3 DEF Known, LastOf, Saves
  <2>9. \A d \in Dcp : Known(d) <= Known(d)
    BY KnownType DEF Inv, Lists
  <2>10. OrderInv'
    BY <2>1, <2>3, <2>6, <2>7, <2>8, <2>9, <1>0 DEF OrderInv, Saves, CriticalPcs
  <2> QED BY <2>2, <2>5, <2>10
<1> QED BY <1>1, <1>2, <1>3, <1>4 DEF FinStep

\* The newest checkpoint of the lists.
LEMMA LatestIs ==
  ASSUME NEW lists \in [Lists -> Seq(Steps)]
  PROVE  LET last == LatestCheckpoint(lists)
         IN  /\ last.to \in Dcp /\ last.step \in 0..TotalStep /\ last.step = LastOf(lists, last.to)
             /\ \A l \in Dcp : LastOf(lists, l) <= last.step
<1>1. \A l \in Dcp : LastOf(lists, l) \in 0..TotalStep
  BY EndType DEF LastOf, End, Lists
<1> QED BY <1>1 DEF LatestCheckpoint, Dcp

\* So do crashes, failures, the end of the job and the restart.
LEMMA EndProgress ==
  ASSUME Inv, Progress, Crash \/ Terminate \/ Restart \/ Rest \/ UNCHANGED vars PROVE Progress'
<1> USE ConstantsAssumption
<1> USE DEF Progress, main, disk, background, finalizer, job, AsyncCkpt, AsyncHf
<1>1. CASE Die
  <2>1. /\ pc' = "Down" /\ mem' = NoLists /\ meta' = meta /\ lock' = "none"
        /\ callback'["dcp"] = "none" /\ fin'["dcp"].pc = "idle"
    BY <1>1 DEF Die, Saves, Idle
  <2>2. ListInv'
    BY <2>1 DEF ListInv, InOrder, NoLists, Lists
  <2> QED BY <2>1, <2>2 DEF LagInv, OrderInv, Gone, Early, Writing, CriticalPcs
<1>2. CASE Restart
  <2>1. /\ pc = "Down" /\ pc' \in {"Train", "Unloadable"} /\ mem' = meta.lists /\ meta' = meta
        /\ lock' = lock /\ callback' = callback /\ fin' = fin /\ future' = future
        /\ pc' = "Train" => meta.state # "torn" /\ step' = LatestCheckpoint(meta.lists).step
    BY <1>2 DEF Restart, Goto
  <2>2. lock = "none" /\ \A k \in Saves : fin[k].pc = "idle" /\ callback[k] = "none"
    BY <2>1 DEF Inv, DownInv, Gone
  <2>3. ListInv'
    BY <2>1 DEF ListInv, InOrder, NoLists
  <2>4. LagInv'
    BY <2>1, <2>2 DEF LagInv, Gone
  <2>5. OrderInv'
    <3>1. meta.lists \in [Lists -> Seq(Steps)]
      BY DEF Inv, TypeOK
    <3>2. \A l \in Dcp : LastOf(meta.lists, l) <= LatestCheckpoint(meta.lists).step
      BY <3>1, LatestIs
    <3>3. \A l \in Dcp : Known(l)' = LastOf(meta.lists, l) /\ Filed(l)' = LastOf(meta.lists, l)
      BY <2>1 DEF Known, Filed, LastOf
    <3>4. \A l \in Dcp : LastOf(meta.lists, l) <= LastOf(meta.lists, l)
      BY <3>1, EndType DEF LastOf, End, Lists
    <3> QED BY <2>1, <2>2, <3>2, <3>3, <3>4 DEF OrderInv, Gone, Early, Writing, CriticalPcs, Saves
  <2> QED BY <2>3, <2>4, <2>5
<1>3. CASE Rest \/ UNCHANGED vars
  <2>1. /\ mem' = mem /\ meta' = meta /\ lock' = lock /\ callback' = callback /\ fin' = fin
        /\ future' = future /\ pc' = pc /\ step' = step /\ saving' = saving /\ config' = config
    BY <1>3 DEF Rest, vars
  <2> QED BY <2>1 DEF ListInv, LagInv, OrderInv, InOrder, NoLists, Known, Filed, LastOf
<1> QED BY <1>1, <1>2, <1>3 DEF Crash, Terminate

-----------------------------------------------------------------------------
(* The checkpoint directories. *)

Clean(l, s) == "partial" \notin dirs[l][s]

\* What is about to be removed is recorded in the file, and is not what the file
\* names last when two or more checkpoints are kept.
DoomInv ==
  \A i \in DOMAIN fin["dcp"].doomed :
     /\ fin["dcp"].pc \in {"prune", "removing"}
     /\ fin["dcp"].doomed[i] <= Filed(fin["dcp"].to)
     /\ fin["dcp"].to = "ckpt" /\ config.maxkeep # 1 => fin["dcp"].doomed[i] < Filed("ckpt")

\* The directory of the save under way fills up in the order of the code, and is
\* complete when its finalizer runs.
DirsInv ==
  /\ pc \in Writing \cup {"Wait"} => "dir" \in dirs[saving][step]
  /\ pc = "WeightsWriting" => "weights" \in dirs[saving][step]
  /\ pc = "State" /\ ~AsyncCkpt => "weights" \in dirs[saving][step] /\ Clean(saving, step)
  /\ pc = "Register" => "state" \in dirs[saving][step]
  /\ AsyncCkpt => \A l \in Dcp, s \in Steps : ~Clean(l, s) => s <= Filed(l)
  /\ callback["dcp"] = "registered" =>
       {"dir", "state"} \subseteq dirs[future["dcp"].to][future["dcp"].step]
  /\ AsyncCkpt /\ future["dcp"].state = "done"
     /\ (callback["dcp"] = "registered" \/ pc \in {"State", "Register"}) =>
       "weights" \in dirs[future["dcp"].to][future["dcp"].step]
  /\ fin["dcp"].pc # "idle" => Whole(fin["dcp"].to, fin["dcp"].step)

Files == DoomInv /\ DirsInv

\* What is left of a list after its head went.
LEMMA LaterEntries ==
  ASSUME NEW l \in Seq(Steps), l # <<>>
  PROVE  \A i \in DOMAIN Tail(l) : \E j \in DOMAIN l : Tail(l)[i] = l[j]
<1> SUFFICES ASSUME NEW i \in DOMAIN Tail(l) PROVE \E j \in DOMAIN l : Tail(l)[i] = l[j]
  OBVIOUS
<1>1. i \in 1..(Len(l) - 1) /\ i + 1 \in DOMAIN l /\ Tail(l)[i] = l[i + 1]
  OBVIOUS
<1> QED BY <1>1

\* One directory changes.
LEMMA OneDirectory ==
  ASSUME NEW a \in Dcp, NEW b \in Steps, NEW S, NEW d \in [Dcp -> [Steps -> SUBSET Parts]], NEW e,
         e = [d EXCEPT ![a][b] = S]
  PROVE  \A l \in Dcp, s \in Steps : e[l][s] = IF l = a /\ s = b THEN S ELSE d[l][s]
  OBVIOUS

\* The main thread only writes the directory of the save under way.
LEMMA MainFiles == ASSUME Inv, Inv', Progress, Progress', Files, MainStep PROVE Files'
<1> USE ConstantsAssumption
<1> USE DEF Goto, main, disk, background, finalizer, job, AsyncCkpt, AsyncHf
<1>0. mem' = mem /\ meta' = meta /\ lock' = lock /\ config' = config
  BY DEF MainStep, TrainStep, SkipHF, SaveHFBegin, SaveHFEnd, HFFinalized, WaitHF, LaunchHF, RegisterHF,
     MaybeSaveCkpt, MaybeSaveSnap, WaitCkpt, SaveDcpBegin, SaveDcpEnd, LaunchDcp, SaveState,
     RegisterDcp, DcpFinalized, DrainHF, DrainDcp, StopMonitor
<1>a. \A l \in Dcp : Filed(l)' = Filed(l)
  BY <1>0 DEF Filed, LastOf
<1>c. /\ fin \in [Saves -> FinType] /\ future \in [Saves -> FutureType] /\ DOMAIN callback = Saves
      /\ dirs \in [Dcp -> [Steps -> SUBSET Parts]] /\ saving \in Dcp /\ step \in 0..TotalStep
      /\ pc \in Early \cup Writing => step \in Steps
  <2>1. step \in 0..TotalStep /\ (pc \in Early \cup Writing => step # 0)
    BY DEF Inv, TypeOK, StepInv, Early, Writing, Gone
  <2>2. pc \in Early \cup Writing => step \in Steps
    BY <2>1 DEF Steps
  <2> QED BY <2>1, <2>2 DEF Inv, TypeOK, FinType, FutureType
<1>1. DoomInv'
  <2>1. CASE SaveState
    <3>1. CASE AsyncCkpt
      <4>1. fin' = fin
        BY <2>1, <3>1 DEF SaveState
      <4> QED BY <4>1, <1>0 DEF Files, DoomInv, Filed, LastOf
    <3>2. CASE ~AsyncCkpt
      <4>1. fin'["dcp"].doomed = <<>>
        BY <2>1, <3>2, <1>c DEF SaveState, Idle, Saves
      <4> QED BY <4>1 DEF DoomInv
    <3> QED BY <3>1, <3>2
  <2>2. CASE ~SaveState
    <3>1. fin'["dcp"] = fin["dcp"]
      BY <2>2, <1>c DEF MainStep, TrainStep, SkipHF, SaveHFBegin, SaveHFEnd, HFFinalized, WaitHF, LaunchHF,
         RegisterHF, MaybeSaveCkpt, MaybeSaveSnap, WaitCkpt, SaveDcpBegin, SaveDcpEnd, LaunchDcp,
         RegisterDcp, DcpFinalized, DrainHF, DrainDcp, StopMonitor, Saves
    <3> QED BY <3>1, <1>0 DEF Files, DoomInv, Filed, LastOf
  <2> QED BY <2>1, <2>2
<1>2. DirsInv'
  <2> USE <1>0, <1>a, <1>c DEF Files, DirsInv, Clean, Whole, Writing, Saves
  <2>1. CASE TrainStep
    BY <2>1 DEF TrainStep
  <2>2. CASE SkipHF
    BY <2>2 DEF SkipHF
  <2>3. CASE SaveHFBegin
    BY <2>3 DEF SaveHFBegin
  <2>4. CASE SaveHFEnd
    <3>1. fin'["dcp"] = fin["dcp"]
      BY <2>4 DEF SaveHFEnd
    <3> QED BY <2>4, <3>1 DEF SaveHFEnd
  <2>5. CASE HFFinalized
    BY <2>5 DEF HFFinalized
  <2>6. CASE WaitHF
    BY <2>6 DEF WaitHF, WaitForPending
  <2>7. CASE LaunchHF
    <3>1. future'["dcp"] = future["dcp"] /\ pc' \in {"Raised", "HFRegister"}
      BY <2>7 DEF LaunchHF
    <3> QED BY <2>7, <3>1 DEF LaunchHF
  <2>8. CASE RegisterHF
    <3>1. callback'["dcp"] = callback["dcp"]
      BY <2>8 DEF RegisterHF
    <3> QED BY <2>8, <3>1 DEF RegisterHF
  <2>9. CASE MaybeSaveCkpt \/ MaybeSaveSnap
    <3>1. /\ step \in Steps /\ step' = step /\ UNCHANGED <<future, callback, fin>>
          /\ pc \in {"Ckpt", "Snap"}
      BY <2>9 DEF MaybeSaveCkpt, MaybeSaveSnap, Early
    <3>2. CASE dirs' = dirs
      <4>1. pc' \notin Writing \cup {"Wait"} \/ dirs' = [dirs EXCEPT ![saving'][step] = @ \cup {"dir"}]
        BY <2>9 DEF MaybeSaveCkpt, MaybeSaveSnap, MkDir
      <4>2. saving' \in Dcp /\ pc' \in {"Wait", "Snap", "Train"}
        BY <2>9 DEF MaybeSaveCkpt, MaybeSaveSnap, MkDir, Dcp
      <4>3. pc' = "Wait" => "dir" \in dirs'[saving'][step]
        BY <3>1, <4>1, <4>2
      <4> QED BY <3>1, <3>2, <4>2, <4>3
    <3>3. CASE dirs' # dirs
      <4>1. PICK l \in Dcp : saving' = l /\ pc' = "Wait" /\ dirs' = [dirs EXCEPT ![l][step] = dirs[l][step] \cup {"dir"}]
        BY <2>9, <3>3 DEF MaybeSaveCkpt, MaybeSaveSnap, MkDir, Dcp
      <4>2. \A m \in Dcp, s \in Steps : dirs'[m][s] = IF m = l /\ s = step THEN dirs[l][step] \cup {"dir"} ELSE dirs[m][s]
        BY <3>1, <4>1, OneDirectory
      <4>3. future["dcp"].to \in Dcp /\ future["dcp"].step \in 0..TotalStep /\ fin["dcp"].to \in Dcp /\ fin["dcp"].step \in 0..TotalStep
        BY DEF FutureType, FinType
      <4>4. /\ callback["dcp"] = "registered" => future["dcp"].step \in Steps
            /\ fin["dcp"].pc # "idle" => fin["dcp"].step \in Steps
        BY <4>3 DEF Inv, StepInv, Progress, OrderInv, Steps
      <4> HIDE DEF Saves
      <4> QED BY <3>1, <4>1, <4>2, <4>3, <4>4
    <3> QED BY <3>2, <3>3
  <2>10. CASE WaitCkpt
    BY <2>10 DEF WaitCkpt, WaitForPending, Settled, Inv, CallbackInv, Async, Awaiting
  <2>f. future["dcp"].to \in Dcp /\ future["dcp"].step \in 0..TotalStep
    BY DEF FutureType
  <2>11. CASE SaveDcpBegin \/ SaveDcpEnd
    <3>1. /\ ~AsyncCkpt /\ pc \in {"Weights", "WeightsWriting"} /\ UNCHANGED <<step, saving, future, callback, fin>>
          /\ callback["dcp"] = "none" /\ fin["dcp"].pc = "idle" /\ step \in Steps
      BY <2>11 DEF SaveDcpBegin, SaveDcpEnd, Inv, HandleInv, CallbackInv, Async, Awaiting
    <3>2. PICK S : /\ dirs' = [dirs EXCEPT ![saving][step] = S]
                   /\ \/ S = dirs[saving][step] \cup {"weights", "partial"} /\ pc' = "WeightsWriting" /\ pc = "Weights"
                      \/ S = dirs[saving][step] \ {"partial"} /\ pc' = "State" /\ pc = "WeightsWriting"
      BY <2>11 DEF SaveDcpBegin, SaveDcpEnd
    <3>3. dirs'[saving][step] = S
      BY <3>1, <3>2
    <3> QED BY <3>1, <3>2, <3>3
  <2>12. CASE LaunchDcp
    <3>1. /\ AsyncCkpt /\ pc = "Weights" /\ pc' \in {"Raised", "State"} /\ UNCHANGED <<step, saving, dirs, callback, fin>>
          /\ callback["dcp"] = "none" /\ fin["dcp"].pc = "idle"
      BY <2>12 DEF LaunchDcp, Inv, CallbackInv, Preparing, Async, Awaiting
    <3>2. pc' = "State" => future'["dcp"].state = "writing"
      BY <2>12 DEF LaunchDcp
    <3> QED BY <3>1, <3>2
  <2>13. CASE SaveState
    <3>1. /\ pc = "State" /\ UNCHANGED <<step, saving, future, callback>> /\ step \in Steps
          /\ pc' = IF AsyncCkpt THEN "Register" ELSE "Finalizing"
          /\ dirs' = [dirs EXCEPT ![saving][step] = dirs[saving][step] \cup {"state"}]
          /\ callback["dcp"] = "none" /\ fin["dcp"].pc = "idle"
      BY <2>13 DEF SaveState, Inv, CallbackInv, Preparing, Async, Awaiting
    <3>2. \A m \in Dcp, t \in Steps :
             dirs'[m][t] = IF m = saving /\ t = step THEN dirs[saving][step] \cup {"state"} ELSE dirs[m][t]
      BY <3>1, OneDirectory
    <3>3. CASE AsyncCkpt
      <4>1. fin' = fin /\ pc' = "Register" /\ future["dcp"].to = saving /\ future["dcp"].step = step
        BY <2>13, <3>1, <3>3 DEF SaveState, Progress, OrderInv
      <4> QED BY <3>1, <3>2, <3>3, <4>1
    <3>4. CASE ~AsyncCkpt
      <4>1. fin'["dcp"].to = saving /\ fin'["dcp"].step = step
        BY <2>13, <3>4 DEF SaveState, Idle
      <4>2. {"dir", "weights", "state"} \subseteq dirs'[saving][step] /\ "partial" \notin dirs'[saving][step]
        BY <3>1, <3>2, <3>4
      <4> QED BY <3>1, <3>4, <4>1, <4>2
    <3> QED BY <3>3, <3>4
  <2>14. CASE RegisterDcp
    <3>1. /\ AsyncCkpt /\ pc = "Register" /\ pc' \in {"Train", "Inline"} /\ UNCHANGED <<step, saving, dirs, future, fin>>
          /\ future["dcp"].to = saving /\ future["dcp"].step = step
      BY <2>14 DEF RegisterDcp, Inv, HandleInv, Progress, OrderInv
    <3> QED BY <3>1
  <2>15. CASE DcpFinalized \/ StopMonitor
    BY <2>15 DEF DcpFinalized, StopMonitor
  <2>16. CASE DrainHF \/ DrainDcp
    BY <2>16 DEF DrainHF, DrainDcp, WaitForPending
  <2> QED BY <2>1, <2>2, <2>3, <2>4, <2>5, <2>6, <2>7, <2>8, <2>9, <2>10, <2>11, <2>12, <2>13, <2>14,
             <2>15, <2>16 DEF MainStep
<1> QED BY <1>1, <1>2 DEF Files

\* A background commit completes the directory of its own save.
LEMMA BackgroundFiles ==
  ASSUME Inv, Progress, Files, NEW k \in Saves, SaveStep(k) \/ FailSave(k) PROVE Files'
<1> USE DEF main, disk, background, finalizer, job, AsyncCkpt, AsyncHf
<1>0. mem' = mem /\ meta' = meta /\ lock' = lock /\ pc' = pc /\ step' = step /\ saving' = saving /\ config' = config
  BY DEF SaveStep, CommitDcp, CommitHF, ClearPendingHF, RunCallback, FailSave
<1>a. \A l \in Dcp : Filed(l)' = Filed(l)
  BY <1>0 DEF Filed, LastOf
<1>c. /\ fin \in [Saves -> FinType] /\ future \in [Saves -> FutureType] /\ DOMAIN callback = Saves
      /\ dirs \in [Dcp -> [Steps -> SUBSET Parts]]
      /\ future["dcp"].to \in Dcp /\ future["dcp"].step \in 0..TotalStep
  BY DEF Inv, TypeOK, FinType, FutureType, Saves
<1>s. future["dcp"].state # "none" => future["dcp"].step \in Steps
  BY <1>c DEF Inv, StepInv, Saves, Steps
<1>1. DoomInv'
  <2>1. fin'["dcp"] = fin["dcp"] \/ fin'["dcp"].doomed = <<>>
    BY <1>c, ZenonT(60) DEF SaveStep, CommitDcp, CommitHF, ClearPendingHF, RunCallback, FailSave, Saves, Idle
  <2>2. CASE fin'["dcp"] = fin["dcp"]
    BY <2>2, <1>0 DEF Files, DoomInv, Filed, LastOf
  <2>3. CASE fin'["dcp"].doomed = <<>>
    BY <2>3 DEF DoomInv
  <2> QED BY <2>1, <2>2, <2>3
<1>r. RunCallback("dcp") =>
        /\ UNCHANGED <<future, dirs>> /\ callback["dcp"] = "registered" /\ callback'["dcp"] # "registered"
        /\ \/ fin' = fin
           \/ /\ fin'["dcp"].to = future["dcp"].to /\ fin'["dcp"].step = future["dcp"].step
              /\ future["dcp"].state = "done"
  BY <1>c, ZenonT(60) DEF RunCallback, Idle, Saves
<1>2. DirsInv'
  <2> USE <1>0, <1>a, <1>c DEF Files, DirsInv, Clean, Whole, Saves
  <2>1. CASE CommitDcp
    <3> DEFINE a == future["dcp"].to
               b == future["dcp"].step
    <3>1. /\ future["dcp"].state = "writing" /\ b \in Steps /\ UNCHANGED <<callback, fin>>
          /\ dirs' = [dirs EXCEPT ![a][b] = dirs[a][b] \cup {"weights"}]
          /\ future'["dcp"].to = a /\ future'["dcp"].step = b
      BY <2>1, <1>s DEF CommitDcp, FutureType
    <3>2. \A m \in Dcp, t \in Steps :
             dirs'[m][t] = IF m = a /\ t = b THEN dirs[a][b] \cup {"weights"} ELSE dirs[m][t]
      BY <3>1, OneDirectory
    <3>3. /\ fin["dcp"].to \in Dcp /\ (fin["dcp"].pc # "idle" => fin["dcp"].step \in Steps)
          /\ saving \in Dcp /\ (pc \in Writing \cup {"Wait"} => step \in Steps)
      <4>1. pc \in Writing \cup {"Wait"} => step # 0
        BY DEF Inv, StepInv, Writing, Gone
      <4> QED BY <4>1 DEF Inv, TypeOK, StepInv, Steps
    <3>4. \A m \in Dcp, t \in Steps : /\ dirs[m][t] \subseteq dirs'[m][t]
                                      /\ "partial" \in dirs'[m][t] => "partial" \in dirs[m][t]
      BY <3>2
    <3>5. "weights" \in dirs'[a][b]
      BY <3>1, <3>2
    <3>6. fin["dcp"].pc # "idle" => Whole(fin["dcp"].to, fin["dcp"].step)'
      BY <3>1, <3>3, <3>4
    <3>7. AsyncCkpt => \A l \in Dcp, t \in Steps : ~Clean(l, t)' => t <= Filed(l)
      <4> SUFFICES ASSUME AsyncCkpt, NEW l \in Dcp, NEW t \in Steps, ~Clean(l, t)' PROVE t <= Filed(l)
        OBVIOUS
      <4>1. ~Clean(l, t)
        BY <3>4
      <4> QED BY <4>1
    <3> HIDE DEF Whole, Clean
    <3>8. pc = "State" /\ ~AsyncCkpt => Clean(saving, step)'
      BY <3>1, <3>3, <3>4 DEF Clean, Writing
    <3>9. /\ pc \in Writing \cup {"Wait"} => "dir" \in dirs'[saving][step]
          /\ pc = "WeightsWriting" => "weights" \in dirs'[saving][step]
          /\ pc = "State" /\ ~AsyncCkpt => "weights" \in dirs'[saving][step]
          /\ pc = "Register" => "state" \in dirs'[saving][step]
      BY <3>1, <3>3, <3>4 DEF Writing
    <3>10. callback["dcp"] = "registered" => {"dir", "state"} \subseteq dirs'[a][b]
      BY <3>1, <3>4
    <3> QED BY <3>1, <3>5, <3>6, <3>7, <3>8, <3>9, <3>10
  <2>2. CASE CommitHF
    <3>1. future'["dcp"] = future["dcp"] /\ UNCHANGED <<callback, fin, dirs>>
      BY <2>2 DEF CommitHF
    <3> QED BY <3>1
  <2>3. CASE ClearPendingHF
    <3>1. callback'["dcp"] = callback["dcp"] /\ UNCHANGED <<future, fin, dirs>>
      BY <2>3 DEF ClearPendingHF
    <3> QED BY <3>1
  <2>4. CASE RunCallback("hf")
    <3>1. callback'["dcp"] = callback["dcp"] /\ fin'["dcp"] = fin["dcp"] /\ UNCHANGED <<future, dirs>>
      BY <2>4 DEF RunCallback
    <3> QED BY <3>1
  <2>5. CASE RunCallback("dcp")
    <3>1. /\ UNCHANGED <<future, dirs>> /\ callback["dcp"] = "registered" /\ callback'["dcp"] # "registered"
          /\ AsyncCkpt /\ fin["dcp"].pc = "idle" /\ pc \notin {"State", "Register"}
          /\ \/ fin' = fin
             \/ /\ fin'["dcp"].to = future["dcp"].to /\ fin'["dcp"].step = future["dcp"].step
                /\ future["dcp"].state = "done"
      <4> QED BY <2>5, <1>r DEF Inv, CallbackInv, Async, Awaiting, Preparing
    <3>2. CASE fin' = fin
      BY <3>1, <3>2
    <3>3. CASE /\ fin'["dcp"].to = future["dcp"].to /\ fin'["dcp"].step = future["dcp"].step
               /\ future["dcp"].state = "done"
      <4>1. future["dcp"].step \in Steps
        BY <1>s, <3>3
      <4>2. Clean(future["dcp"].to, future["dcp"].step)
        <5>1. Filed(future["dcp"].to) < future["dcp"].step
          <6>1. pc \notin Gone
            BY <3>1 DEF Inv, DownInv
          <6>2. Known(future["dcp"].to) < future["dcp"].step /\ Filed(future["dcp"].to) <= Known(future["dcp"].to)
            BY <3>1, <6>1 DEF Progress, OrderInv
          <6>3. Known(future["dcp"].to) \in Int /\ Filed(future["dcp"].to) \in Int
            BY KnownType DEF Inv, Lists
          <6> QED BY <6>2, <6>3
        <5>2. Filed(future["dcp"].to) \in Int
          BY KnownType DEF Inv, Lists
        <5> HIDE DEF Clean
        <5> QED BY <3>1, <4>1, <5>1, <5>2
      <4> QED BY <3>1, <3>3, <4>1, <4>2
    <3> QED BY <3>1, <3>2, <3>3
  <2>6. CASE FailSave(k)
    <3>1. /\ UNCHANGED <<callback, fin, dirs>> /\ future'["dcp"].to = future["dcp"].to
          /\ future'["dcp"].step = future["dcp"].step
          /\ future'["dcp"].state = "done" => future["dcp"].state = "done"
      BY <2>6 DEF FailSave, FutureType
    <3> QED BY <3>1
  <2> QED BY <2>1, <2>2, <2>3, <2>4, <2>5, <2>6 DEF SaveStep
<1> QED BY <1>1, <1>2 DEF Files

\* A finalizer removes directories it has taken off the list, and no other.
LEMMA FinalizerFiles ==
  ASSUME Inv, Progress, Files, NEW k \in Saves, FinStep(k) PROVE Files'
<1> USE ConstantsAssumption
<1> USE DEF main, disk, background, finalizer, job, AsyncCkpt, AsyncHf
<1>0. /\ pc' = pc /\ step' = step /\ saving' = saving /\ config' = config /\ future' = future
      /\ callback' = callback \/ callback' = [callback EXCEPT ![k] = "none"]
  BY DEF FinStep, FinAppend, FinPrune, FinLink, FinOpen, FinWrite, FinHook
<1>c. /\ fin \in [Saves -> FinType] /\ future \in [Saves -> FutureType] /\ DOMAIN callback = Saves
      /\ meta \in [state : {"empty", "torn", "ok"}, lists : [Lists -> Seq(Steps)]]
      /\ mem \in [Lists -> Seq(Steps)]
      /\ dirs \in [Dcp -> [Steps -> SUBSET Parts]]
      /\ fin["dcp"].to \in Dcp /\ fin["dcp"].doomed \in Seq(Steps)
      /\ config.maxkeep \in Nat /\ saving \in Dcp
  BY DEF Inv, TypeOK, FinType, FutureType, Saves
<1>s. fin["dcp"].pc # "idle" => fin["dcp"].step \in Steps
  BY DEF Inv, TypeOK, StepInv, Steps, Saves
<1>b. callback'["dcp"] = "registered" => callback["dcp"] = "registered"
  BY <1>0, <1>c DEF Saves
<1>g. fin[k].pc # "idle" => pc \notin Gone
  BY DEF Inv, DownInv
<1>1. CASE FinAppend(k)
  <2>1. /\ fin[k].pc = "append" /\ lock = "none" /\ meta' = meta /\ dirs' = dirs
        /\ \A j \in Saves : j # k => fin'[j] = fin[j]
        /\ fin'[k].pc = "prune" /\ fin'[k].step = fin[k].step /\ fin'[k].to = fin[k].to
    BY <1>1, <1>c DEF FinAppend, FinType
  <2>2. DirsInv'
    <3>1. fin'["dcp"].step = fin["dcp"].step /\ fin'["dcp"].to = fin["dcp"].to
          /\ (fin'["dcp"].pc # "idle" => fin["dcp"].pc # "idle")
      BY <2>1 DEF Saves
    <3> QED BY <2>1, <3>1, <1>0, <1>b DEF Files, DirsInv, Clean, Whole, Filed, LastOf
  <2>3. DoomInv'
    <3>1. CASE k = "hf"
      <4>1. fin'["dcp"] = fin["dcp"]
        BY <2>1, <3>1 DEF Saves
      <4> QED BY <2>1, <4>1, <1>0 DEF Files, DoomInv, Filed, LastOf
    <3>2. CASE k = "dcp"
      <4> DEFINE t == fin["dcp"].to
                 longer == Append(mem[t], fin["dcp"].step)
                 over == IF KeepOf(k) > 0 /\ Len(longer) > KeepOf(k) THEN Len(longer) - KeepOf(k) ELSE 0
                 off == SubSeq(longer, 1, over)
      <4>1. fin'["dcp"].doomed = off
        BY <1>1, <3>2, <1>c DEF FinAppend, ListOf, Saves, FinType
      <4>2. /\ mem[t] \in Seq(Steps) /\ fin["dcp"].step \in Steps /\ KeepOf(k) \in Nat
            /\ InOrder(mem[t]) /\ End(mem[t]) < fin["dcp"].step
        BY <2>1, <3>2, <1>c, <1>s DEF Progress, ListInv, OrderInv, Known, LastOf, End, KeepOf, Lists
      <4>3. \A i \in DOMAIN off : off[i] <= End(mem[t]) /\ (KeepOf(k) # 1 => off[i] < End(mem[t]))
        BY <4>2, CutKeeps
      <4>4. Filed(t) = End(mem[t])
        BY <2>1, <3>2, <1>g DEF Progress, LagInv, Filed, LastOf, End
      <4>5. t = "ckpt" => KeepOf(k) = config.maxkeep
        BY <3>2 DEF KeepOf
      <4> HIDE DEF off
      <4>6. /\ Filed(fin["dcp"].to)' = Filed(t) /\ Filed("ckpt")' = Filed("ckpt")
            /\ fin'["dcp"].to = t /\ fin'["dcp"].pc = "prune"
        BY <2>1, <3>2 DEF Filed, LastOf, Saves
      <4>7. \A i \in DOMAIN off : /\ off[i] <= Filed(t)
                                  /\ t = "ckpt" /\ config.maxkeep # 1 => off[i] < Filed("ckpt")
        BY <4>3, <4>4, <4>5
      <4> HIDE DEF t
      <4> QED BY <4>1, <4>6, <4>7, <1>0 DEF DoomInv, CriticalPcs
    <3> QED BY <3>1, <3>2 DEF Saves
  <2> QED BY <2>2, <2>3 DEF Files
<1>2. CASE FinPrune(k)
  <2>1. CASE k = "hf"
    <3>1. fin'["dcp"] = fin["dcp"] /\ dirs' = dirs /\ meta' = meta
      BY <1>2, <2>1, <1>c DEF FinPrune, Saves
    <3> QED BY <3>1, <1>0, <1>b DEF Files, DoomInv, DirsInv, Clean, Whole, Filed, LastOf
  <2>2. CASE k = "dcp"
    <3> DEFINE t == fin["dcp"].to
               d == Head(fin["dcp"].doomed)
    <3>0. /\ fin["dcp"].pc \in {"prune", "removing"} /\ fin["dcp"].doomed # <<>> /\ meta' = meta
          /\ fin'["dcp"].pc \in {"prune", "removing"} /\ fin'["dcp"].to = t /\ fin'["dcp"].step = fin["dcp"].step
          /\ \/ fin'["dcp"].doomed = fin["dcp"].doomed
             \/ fin'["dcp"].doomed = Tail(fin["dcp"].doomed)
      BY <1>2, <2>2, <1>c DEF FinPrune, FinType, Saves
    <3>1. PICK S : dirs' = [dirs EXCEPT ![t][d] = S]
      BY <1>2, <2>2 DEF FinPrune, ListOf
    <3>2. d \in Steps /\ d <= Filed(t) /\ 1 \in DOMAIN fin["dcp"].doomed
      BY <3>0, <1>c DEF Files, DoomInv
    <3>3. lock = "dcp" /\ pc \notin Gone
      BY <3>0, <2>2, <1>g DEF Inv, LockInv, CriticalPcs
    <3>4. d < fin["dcp"].step /\ fin["dcp"].step <= step /\ fin["dcp"].step \in Steps
      <4>1. Filed(t) < fin["dcp"].step /\ fin["dcp"].step <= step
        BY <3>0, <3>3, <1>c DEF Progress, LagInv, OrderInv
      <4>2. Filed(t) \in Int
        BY <1>c, KnownType DEF Inv, Lists
      <4> QED BY <3>0, <3>2, <4>1, <4>2, <1>s DEF Steps
    <3>5. d # step /\ d # fin["dcp"].step /\ step \in 0..TotalStep
      BY <3>2, <3>4, SMTT(30) DEF Steps, Inv, TypeOK
    <3>6. \A m \in Dcp, i \in Steps : dirs'[m][i] = IF m = t /\ i = d THEN S ELSE dirs[m][i]
      BY <3>1, <3>2, <1>c, OneDirectory
    <3>7. callback["dcp"] # "registered" /\ pc \notin {"State", "Register", "WeightsWriting", "Weights"}
      BY <3>0, <2>2 DEF Inv, CallbackInv, HandleInv, Async, Awaiting, Preparing
    <3>8. Whole(t, fin["dcp"].step) /\ Whole(t, fin["dcp"].step)'
      <4>1. Whole(t, fin["dcp"].step)
        BY <3>0 DEF Files, DirsInv
      <4>2. dirs'[t][fin["dcp"].step] = dirs[t][fin["dcp"].step]
        BY <3>4, <3>5, <3>6, <1>c
      <4>3. (fin["dcp"].step)' = fin["dcp"].step /\ t' = t
        BY <3>0
      <4> HIDE DEF t
      <4> QED BY <4>1, <4>2, <4>3 DEF Whole
    <3>9. \A l \in Dcp : Filed(l)' = Filed(l)
      BY <3>0 DEF Filed, LastOf
    <3>10. AsyncCkpt => \A l \in Dcp, i \in Steps : ~Clean(l, i)' => i <= Filed(l)
      BY <3>2, <3>6 DEF Files, DirsInv, Clean
    <3>11. pc = "Wait" => "dir" \in dirs'[saving][step]
      <4>1. pc = "Wait" => step # 0
        BY DEF Inv, StepInv, Gone
      <4>2. pc = "Wait" => step \in Steps
        BY <4>1, <3>5 DEF Steps
      <4> QED BY <4>2, <3>5, <3>6, <1>c DEF Files, DirsInv
    <3>12. DirsInv'
      <4>1. Whole(fin["dcp"].to, fin["dcp"].step)'
        BY <3>8, <3>0 DEF Whole
      <4> HIDE DEF t, d
      <4> QED BY <4>1, <3>7, <3>9, <3>10, <3>11, <1>0, <1>b DEF DirsInv, Writing
    <3>13. DoomInv'
      <4>1. \A i \in DOMAIN fin'["dcp"].doomed : \E j \in DOMAIN fin["dcp"].doomed :
              fin'["dcp"].doomed[i] = fin["dcp"].doomed[j]
        <5>1. CASE fin'["dcp"].doomed = fin["dcp"].doomed
          BY <5>1
        <5>2. CASE fin'["dcp"].doomed = Tail(fin["dcp"].doomed)
          <6>1. fin["dcp"].doomed \in Seq(Steps) /\ fin["dcp"].doomed # <<>>
            BY <3>0, <1>c
          <6>2. \A i \in DOMAIN Tail(fin["dcp"].doomed) : \E j \in DOMAIN fin["dcp"].doomed :
                  Tail(fin["dcp"].doomed)[i] = fin["dcp"].doomed[j]
            BY <6>1, LaterEntries
          <6> QED BY <5>2, <6>2
        <5> QED BY <3>0, <5>1, <5>2
      <4>2. Filed(fin["dcp"].to)' = Filed(fin["dcp"].to) /\ Filed("ckpt")' = Filed("ckpt")
        BY <3>0 DEF Filed, LastOf
      <4>3. fin'["dcp"].pc \in {"prune", "removing"}
        BY <3>0
      <4> QED BY <4>1, <4>2, <4>3, <3>0, <1>0 DEF Files, DoomInv
    <3> QED BY <3>12, <3>13 DEF Files
  <2> QED BY <2>1, <2>2 DEF Saves
<1>3. CASE FinHook(k)
  <2>1. /\ dirs' = dirs /\ meta' = meta
        /\ \/ fin'["dcp"] = fin["dcp"]
           \/ fin'["dcp"].pc = "idle" /\ fin'["dcp"].doomed = <<>>
    BY <1>3, <1>c DEF FinHook, Idle, Saves
  <2>2. CASE fin'["dcp"] = fin["dcp"]
    BY <2>1, <2>2, <1>0, <1>b DEF Files, DoomInv, DirsInv, Clean, Whole, Filed, LastOf
  <2>3. CASE fin'["dcp"].pc = "idle" /\ fin'["dcp"].doomed = <<>>
    BY <2>1, <2>3, <1>0, <1>b DEF Files, DoomInv, DirsInv, Clean, Whole, Filed, LastOf
  <2> QED BY <2>1, <2>2, <2>3
<1>4. CASE (k = "hf" /\ FinLink) \/ FinOpen(k)
  <2>1. /\ dirs' = dirs /\ meta'.lists = meta.lists
        /\ fin'["dcp"].doomed = fin["dcp"].doomed /\ fin'["dcp"].to = fin["dcp"].to
        /\ fin'["dcp"].step = fin["dcp"].step
        /\ \/ fin'["dcp"].pc = fin["dcp"].pc
           \/ /\ fin["dcp"].pc # "idle"
              /\ fin["dcp"].pc = "prune" => fin["dcp"].doomed = <<>>
              /\ fin["dcp"].pc # "removing"
    BY <1>4, <1>c DEF FinLink, FinOpen, FinType, Saves
  <2>2. DoomInv'
    BY <2>1, <1>0 DEF Files, DoomInv, Filed, LastOf
  <2>3. DirsInv'
    BY <2>1, <1>0, <1>b DEF Files, DirsInv, Clean, Whole, Filed, LastOf
  <2> QED BY <2>2, <2>3 DEF Files
<1>5. CASE FinWrite(k)
  <2>1. /\ dirs' = dirs /\ meta'.lists = mem /\ fin[k].pc = "write" /\ callback' = callback
        /\ fin'["dcp"].doomed = fin["dcp"].doomed /\ fin'["dcp"].to = fin["dcp"].to
        /\ fin'["dcp"].step = fin["dcp"].step
        /\ \/ fin'["dcp"].pc = fin["dcp"].pc
           \/ fin["dcp"].pc # "idle"
    BY <1>5, <1>c DEF FinWrite, FinType, Saves
  <2>2. fin["dcp"].doomed = <<>>
    <3>1. fin["dcp"].pc \notin {"prune", "removing"}
      BY <2>1 DEF Inv, LockInv, CriticalPcs, Saves
    <3> QED BY <3>1, <1>c DEF Files, DoomInv
  <2>3. DoomInv'
    BY <2>1, <2>2 DEF DoomInv
  <2>4. \A l \in Dcp : Filed(l) <= Filed(l)'
    <3>1. \A l \in Dcp : Filed(l)' = Known(l)
      BY <2>1 DEF Filed, Known, LastOf
    <3>2. \A l \in Dcp : Filed(l) <= Known(l)
      BY <2>1, <1>g DEF Progress, OrderInv
    <3> QED BY <3>1, <3>2
  <2>5. \A l \in Dcp : Filed(l) \in Int /\ Filed(l)' \in Int
    <3>1. \A l \in Dcp : Filed(l)' = Known(l)
      BY <2>1 DEF Filed, Known, LastOf
    <3> QED BY <3>1, KnownType DEF Inv, Lists
  <2>6. AsyncCkpt => \A l \in Dcp, s \in Steps : ~Clean(l, s) => s <= Filed(l)'
    <3> SUFFICES ASSUME AsyncCkpt, NEW l \in Dcp, NEW s \in Steps, ~Clean(l, s) PROVE s <= Filed(l)'
      OBVIOUS
    <3>1. s <= Filed(l)
      BY DEF Files, DirsInv
    <3> QED BY <3>1, <2>4, <2>5 DEF Steps
  <2>7. DirsInv'
    <3>1. \A l \in Dcp, s \in Steps : Clean(l, s)' = Clean(l, s)
      BY <2>1 DEF Clean
    <3>2. (AsyncCkpt => \A l \in Dcp, s \in Steps : ~Clean(l, s) => s <= Filed(l))'
      BY <2>6, <3>1, <1>0
    <3>3. (fin["dcp"].pc # "idle" => Whole(fin["dcp"].to, fin["dcp"].step))'
      BY <2>1 DEF Files, DirsInv, Whole
    <3>4. (pc = "State" /\ ~AsyncCkpt => "weights" \in dirs[saving][step] /\ Clean(saving, step))'
      BY <2>1, <1>0 DEF Files, DirsInv, Clean
    <3> HIDE DEF Clean, Whole
    <3> QED BY <3>2, <3>3, <3>4, <2>1, <1>0 DEF Files, DirsInv
  <2> QED BY <2>3, <2>7 DEF Files
<1> QED BY <1>1, <1>2, <1>3, <1>4, <1>5 DEF FinStep

\* A crash leaves the directories as they are, and a restart reads them.
LEMMA EndFiles ==
  ASSUME Inv, Files, Crash \/ Terminate \/ Restart \/ Rest \/ UNCHANGED vars PROVE Files'
<1> USE DEF main, disk, background, finalizer, job, AsyncCkpt, AsyncHf
<1>1. CASE Die
  <2>1. /\ pc' = "Down" /\ meta' = meta /\ dirs' = dirs /\ config' = config
        /\ callback'["dcp"] = "none" /\ fin'["dcp"].pc = "idle" /\ fin'["dcp"].doomed = <<>>
        /\ future'["dcp"].state = "none"
    BY <1>1 DEF Die, Saves, Idle, NoFuture
  <2> QED BY <2>1 DEF Files, DoomInv, DirsInv, Writing, Clean, Filed, LastOf
<1>2. CASE Restart
  <2>1. /\ pc = "Down" /\ pc' \in {"Train", "Unloadable"} /\ meta' = meta /\ config' = config
        /\ callback' = callback /\ fin' = fin /\ future' = future
        /\ dirs' = dirs \/ dirs' = [l \in Dcp |-> [s \in Steps |-> {}]]
    BY <1>2 DEF Restart, Goto
  <2>2. callback["dcp"] = "none" /\ fin["dcp"].pc = "idle" /\ future["dcp"].state = "none"
    BY <2>1 DEF Inv, DownInv, Gone, Saves
  <2>3. DoomInv'
    BY <2>1, <2>2 DEF Files, DoomInv, Filed, LastOf
  <2>4. AsyncCkpt => \A l \in Dcp, s \in Steps : ~Clean(l, s)' => s <= Filed(l)
    BY <2>1 DEF Files, DirsInv, Clean
  <2>5. \A l \in Dcp : Filed(l)' = Filed(l)
    BY <2>1 DEF Filed, LastOf
  <2>6. DirsInv'
    BY <2>1, <2>2, <2>4, <2>5 DEF DirsInv, Writing
  <2> QED BY <2>3, <2>6 DEF Files
<1>3. CASE Rest \/ UNCHANGED vars
  <2>1. /\ meta' = meta /\ callback' = callback /\ fin' = fin /\ dirs' = dirs
        /\ future' = future /\ pc' = pc /\ step' = step /\ saving' = saving /\ config' = config
    BY <1>3 DEF Rest, vars
  <2> QED BY <2>1 DEF Files, DoomInv, DirsInv, Clean, Whole, Filed, LastOf
<1> QED BY <1>1, <1>2, <1>3 DEF Crash, Terminate

-----------------------------------------------------------------------------
(* Going down and coming back. *)

\* The configurations for which every crash is survived.  Snapshots are kept one
\* at a time, and so are checkpoints under maxkeep 1: there the old directory is
\* removed before the meta file that names it is rewritten, and a crash in between
\* leaves a file whose newest entry is gone.
Survivable(c) == \/ c.snapshot = 0 /\ c.maxkeep # 1
                 \/ c.crashes = 0 /\ c.failures = 0
Resumable == Survivable(config)

\* A job goes down by a crash or a failed save, and not while the file is torn.
FaultInv ==
  /\ failed => failures # 0
  /\ failures <= config.failures /\ crashes <= config.crashes
  /\ pc \in Gone => crashes # 0 \/ failures # 0
  /\ pc \in Gone /\ ~TornWrites => meta.state # "torn"

\* Without snapshots, every save goes to the list of checkpoints.
NoSnapshots ==
  config.snapshot = 0 =>
    /\ mem["snapshot"] = <<>> /\ meta.lists["snapshot"] = <<>>
    /\ pc \in Writing \cup {"Wait"} => saving = "ckpt"
    /\ callback["dcp"] = "registered" => future["dcp"].to = "ckpt"
    /\ fin["dcp"].pc # "idle" => fin["dcp"].to = "ckpt"

\* The newest checkpoint of the file is complete at every moment.
LastIsWhole ==
  config.snapshot = 0 /\ config.maxkeep # 1 /\ Filed("ckpt") # 0 => Whole("ckpt", Filed("ckpt"))

Resume == FaultInv /\ NoSnapshots /\ LastIsWhole

\* Every step keeps to the faults the configuration allows.
LEMMA NextFaults == ASSUME Inv, FaultInv, [Next]_vars PROVE FaultInv'
<1> USE DEF main, disk, background, finalizer, job
<1>c. config \in Configs /\ config.failures \in Nat /\ config.crashes \in Nat /\ crashes \in Nat /\ failures \in Nat
  BY ConstantsAssumption DEF Inv, TypeOK
<1>1. CASE MainStep
  <2>1. pc' \notin Gone /\ UNCHANGED <<failed, job>>
    BY <1>1 DEF Goto, Gone, MainStep, TrainStep, SkipHF, SaveHFBegin, SaveHFEnd, HFFinalized, WaitHF, LaunchHF,
       RegisterHF, MaybeSaveCkpt, MaybeSaveSnap, MkDir, WaitCkpt, SaveDcpBegin, SaveDcpEnd, LaunchDcp,
       SaveState, RegisterDcp, DcpFinalized, DrainHF, DrainDcp, StopMonitor, WaitForPending
  <2> QED BY <2>1 DEF FaultInv
<1>2. ASSUME NEW k \in Saves, SaveStep(k) PROVE FaultInv'
  BY <1>2 DEF FaultInv, SaveStep, CommitDcp, CommitHF, ClearPendingHF, RunCallback
<1>3. ASSUME NEW k \in Saves, FailSave(k) PROVE FaultInv'
  BY <1>3, <1>c DEF FaultInv, FailSave
<1>4. ASSUME NEW k \in Saves, FinStep(k) PROVE FaultInv'
  <2>1. UNCHANGED <<pc, failed, job>>
    BY <1>4 DEF FinStep, FinAppend, FinPrune, FinLink, FinOpen, FinWrite, FinHook
  <2>2. pc \notin Gone
    BY <1>4 DEF FinStep, FinAppend, FinPrune, FinLink, FinOpen, FinWrite, FinHook, Inv, DownInv
  <2> QED BY <2>1, <2>2 DEF FaultInv
<1>5. CASE Crash
  BY <1>5, <1>c DEF FaultInv, Crash, Die
<1>6. CASE Terminate
  BY <1>6, <1>c DEF FaultInv, Terminate, Die
<1>7. CASE Restart
  BY <1>7 DEF FaultInv, Restart, Goto, Gone
<1>8. CASE Rest \/ UNCHANGED vars
  <2>1. UNCHANGED <<pc, failed, job, meta>>
    BY <1>8 DEF Rest, vars
  <2> QED BY <2>1 DEF FaultInv
<1> QED BY <1>1, <1>2, <1>3, <1>4, <1>5, <1>6, <1>7, <1>8 DEF Next

\* The meta file lists what it did, or what the trainer has in memory.
LEMMA ListsChange ==
  ASSUME Inv, NEW k \in Saves, FinStep(k) PROVE meta'.lists = meta.lists \/ meta'.lists = mem
<1>1. CASE FinAppend(k) \/ FinPrune(k) \/ (k = "hf" /\ FinLink) \/ FinHook(k)
  <2>1. meta' = meta
    BY <1>1 DEF FinAppend, FinPrune, FinLink, FinHook, disk
  <2> QED BY <2>1
<1>2. CASE FinOpen(k)
  <2>1. meta' = [meta EXCEPT !.state = "torn"]
    BY <1>2 DEF FinOpen
  <2> QED BY <2>1 DEF Inv, TypeOK
<1>3. CASE FinWrite(k)
  BY <1>3 DEF FinWrite
<1> QED BY <1>1, <1>2, <1>3 DEF FinStep

\* Without snapshots none is ever recorded.
LEMMA NextNoSnapshots == ASSUME Inv, Progress, NoSnapshots, [Next]_vars PROVE NoSnapshots'
<1> USE DEF main, disk, background, finalizer, job
<1>c. /\ fin \in [Saves -> FinType] /\ future \in [Saves -> FutureType] /\ DOMAIN callback = Saves
      /\ mem \in [Lists -> Seq(Steps)]
  BY DEF Inv, TypeOK, FinType, FutureType
<1>1. CASE MainStep
  <2>1. UNCHANGED <<mem, meta, config>>
    BY <1>1 DEF MainStep, TrainStep, SkipHF, SaveHFBegin, SaveHFEnd, HFFinalized, WaitHF, LaunchHF,
       RegisterHF, MaybeSaveCkpt, MaybeSaveSnap, WaitCkpt, SaveDcpBegin, SaveDcpEnd, LaunchDcp,
       SaveState, RegisterDcp, DcpFinalized, DrainHF, DrainDcp, StopMonitor
  <2>2. config.snapshot = 0 /\ pc' \in Writing \cup {"Wait"} => saving' = "ckpt"
    BY <1>1 DEF NoSnapshots, Writing, Due, Goto, MainStep, TrainStep, SkipHF, SaveHFBegin, SaveHFEnd, HFFinalized,
       WaitHF, LaunchHF, RegisterHF, MaybeSaveCkpt, MaybeSaveSnap, MkDir, WaitCkpt, SaveDcpBegin, SaveDcpEnd,
       LaunchDcp, SaveState, RegisterDcp, DcpFinalized, DrainHF, DrainDcp, StopMonitor
  <2>3. CASE RegisterDcp
    <3>1. future' = future /\ fin' = fin /\ pc = "Register" /\ future["dcp"].to = saving
      BY <2>3 DEF RegisterDcp, Goto, Inv, HandleInv, Progress, OrderInv
    <3> QED BY <2>1, <2>2, <3>1 DEF NoSnapshots, Writing
  <2>4. CASE LaunchDcp
    <3>1. fin' = fin /\ callback' = callback /\ callback["dcp"] = "none"
      BY <2>4 DEF LaunchDcp, Goto, Inv, CallbackInv, Preparing, Async, Saves
    <3> QED BY <2>1, <2>2, <3>1 DEF NoSnapshots
  <2>5. CASE SaveState
    <3>1. /\ future' = future /\ callback' = callback /\ pc = "State"
          /\ fin' = fin \/ fin'["dcp"].to = saving
      BY <2>5, <1>c DEF SaveState, Goto, Saves, Idle
    <3> QED BY <2>1, <2>2, <3>1 DEF NoSnapshots, Writing
  <2>6. CASE MainStep /\ ~RegisterDcp /\ ~LaunchDcp /\ ~SaveState
    <3>1. future'["dcp"] = future["dcp"] /\ fin'["dcp"] = fin["dcp"] /\ callback'["dcp"] = callback["dcp"]
      BY <2>6, <1>c DEF WaitForPending, MainStep, TrainStep, SkipHF, SaveHFBegin, SaveHFEnd, HFFinalized, WaitHF,
         LaunchHF, RegisterHF, MaybeSaveCkpt, MaybeSaveSnap, WaitCkpt, SaveDcpBegin, SaveDcpEnd,
         DcpFinalized, DrainHF, DrainDcp, StopMonitor, Saves
    <3> QED BY <2>1, <2>2, <3>1 DEF NoSnapshots
  <2> QED BY <1>1, <2>3, <2>4, <2>5, <2>6
<1>2. ASSUME NEW k \in Saves, SaveStep(k) \/ FailSave(k) PROVE NoSnapshots'
  <2>1. /\ UNCHANGED <<mem, meta, config, pc, saving>>
        /\ \A j \in Saves : future'[j].to = future[j].to
        /\ callback'["dcp"] = "registered" => callback["dcp"] = "registered"
        /\ \/ fin'["dcp"] = fin["dcp"]
           \/ fin'["dcp"].to = future["dcp"].to /\ callback["dcp"] = "registered"
    <3>1. CASE RunCallback("dcp") \/ RunCallback("hf")
      BY <3>1, <1>c, ZenonT(60) DEF RunCallback, Saves, FutureType, Idle
    <3>2. CASE CommitDcp \/ CommitHF \/ ClearPendingHF \/ FailSave(k)
      BY <3>2, <1>c DEF CommitDcp, CommitHF, ClearPendingHF, FailSave, Saves, FutureType
    <3> QED BY <1>2, <3>1, <3>2 DEF SaveStep, Saves
  <2> QED BY <2>1 DEF NoSnapshots, Saves
<1>3. ASSUME NEW k \in Saves, FinStep(k) PROVE NoSnapshots'
  <2>1. /\ UNCHANGED <<config, pc, saving, future>>
        /\ fin'["dcp"].pc # "idle" => fin["dcp"].pc # "idle" /\ fin'["dcp"].to = fin["dcp"].to
        /\ callback'["dcp"] = "registered" => callback["dcp"] = "registered"
    <3>1. CASE FinAppend(k)
      BY <3>1, <1>c DEF FinAppend, Saves, FinType
    <3>2. CASE FinPrune(k)
      BY <3>2, <1>c DEF FinPrune, Saves, FinType
    <3>3. CASE k = "hf" /\ FinLink
      BY <3>3, <1>c DEF FinLink, Saves, FinType
    <3>4. CASE FinOpen(k) \/ FinWrite(k)
      BY <3>4, <1>c DEF FinOpen, FinWrite, Saves, FinType
    <3>5. CASE FinHook(k)
      BY <3>5, <1>c DEF FinHook, Saves, FinType, Idle
    <3> QED BY <1>3, <3>1, <3>2, <3>3, <3>4, <3>5 DEF FinStep
  <2>2. meta'.lists \in {meta.lists, mem}
    BY <1>3, ListsChange
  <2>3. mem' = mem \/ (FinAppend(k) /\ \A l \in Lists : l # ListOf(k) => mem'[l] = mem[l])
    BY <1>3, <1>c DEF FinStep, FinAppend, FinPrune, FinLink, FinOpen, FinWrite, FinHook
  <2>4. config.snapshot = 0 => mem'["snapshot"] = mem["snapshot"]
    BY <2>3 DEF FinAppend, NoSnapshots, ListOf, Lists, Dcp, Saves
  <2> QED BY <2>1, <2>2, <2>4 DEF NoSnapshots
<1>4. CASE Die
  <2>1. /\ pc' = "Down" /\ mem'["snapshot"] = <<>> /\ meta' = meta /\ config' = config
        /\ callback'["dcp"] = "none" /\ fin'["dcp"].pc = "idle"
    BY <1>4 DEF Die, Saves, Idle, NoLists, Lists, Dcp
  <2> QED BY <2>1 DEF NoSnapshots, Writing
<1>5. CASE Restart
  <2>1. /\ pc' \in {"Train", "Unloadable"} /\ mem' = meta.lists /\ meta' = meta /\ config' = config
        /\ callback' = callback /\ fin' = fin /\ future' = future
    BY <1>5 DEF Restart, Goto
  <2> QED BY <2>1 DEF NoSnapshots, Writing
<1>6. CASE Rest \/ UNCHANGED vars
  <2>1. UNCHANGED <<mem, meta, config, callback, fin, future, pc, saving>>
    BY <1>6 DEF Rest, vars
  <2> QED BY <2>1 DEF NoSnapshots
<1> QED BY <1>1, <1>2, <1>3, <1>4, <1>5, <1>6 DEF Next, Crash, Terminate

\* A complete checkpoint stays so unless its own save is under way, it is on the
\* list of what goes, or the job starts over in a new directory.
LEMMA WholeStays ==
  ASSUME Inv, [Next]_vars, NEW l \in Dcp, NEW s \in Steps, Whole(l, s),
         pc \in Early \cup Writing => s # step,
         \A i \in DOMAIN fin["dcp"].doomed : fin["dcp"].to # l \/ fin["dcp"].doomed[i] # s,
         pc = "Down" => meta.state # "empty"
  PROVE  Whole(l, s)'
<1> USE DEF main, disk, background, finalizer, job
<1>c. /\ fin \in [Saves -> FinType] /\ future \in [Saves -> FutureType]
      /\ dirs \in [Dcp -> [Steps -> SUBSET Parts]] /\ saving \in Dcp /\ step \in 0..TotalStep
      /\ fin["dcp"].to \in Dcp /\ fin["dcp"].doomed \in Seq(Steps)
      /\ future["dcp"].to \in Dcp
  BY DEF Inv, TypeOK, FinType, FutureType, Saves
<1>q. dirs'[l][s] = dirs[l][s] => Whole(l, s)'
  BY DEF Whole
<1>1. CASE MainStep
  <2>1. \/ dirs' = dirs
        \/ pc \in Early \cup Writing /\ \E a \in Dcp : \E S : dirs' = [dirs EXCEPT ![a][step] = S]
    <3>1. CASE MaybeSaveCkpt \/ MaybeSaveSnap
      BY <3>1 DEF MaybeSaveCkpt, MaybeSaveSnap, MkDir, Early, Dcp
    <3>2. CASE SaveDcpBegin \/ SaveDcpEnd \/ SaveState
      BY <3>2, <1>c DEF SaveDcpBegin, SaveDcpEnd, SaveState, Goto, Writing
    <3>3. CASE MainStep /\ ~(MaybeSaveCkpt \/ MaybeSaveSnap \/ SaveDcpBegin \/ SaveDcpEnd \/ SaveState)
      BY <3>3 DEF MainStep, TrainStep, SkipHF, SaveHFBegin, SaveHFEnd, HFFinalized, WaitHF, LaunchHF,
         RegisterHF, WaitCkpt, LaunchDcp, RegisterDcp, DcpFinalized, DrainHF, DrainDcp, StopMonitor
    <3> QED BY <1>1, <3>1, <3>2, <3>3
  <2>2. CASE dirs' = dirs
    BY <2>2, <1>q
  <2>3. CASE dirs' # dirs
    <3>1. PICK a \in Dcp : \E S : dirs' = [dirs EXCEPT ![a][step] = S]
      BY <2>1, <2>3
    <3> PICK S : dirs' = [dirs EXCEPT ![a][step] = S]
      BY <3>1
    <3>2. dirs'[l][s] = dirs[l][s]
      BY <3>1, <2>1, <2>3, <1>c
    <3> QED BY <3>2, <1>q
  <2> QED BY <2>2, <2>3
<1>2. CASE CommitDcp
  <2>1. dirs' = [dirs EXCEPT ![future["dcp"].to][future["dcp"].step] =
                   dirs[future["dcp"].to][future["dcp"].step] \cup {"weights"}]
    BY <1>2 DEF CommitDcp
  <2>2. dirs'[l][s] \in {dirs[l][s], dirs[l][s] \cup {"weights"}}
    BY <2>1, <1>c
  <2> QED BY <2>2 DEF Whole
<1>3. ASSUME NEW k \in Saves, FinPrune(k) PROVE Whole(l, s)'
  <2>1. CASE k = "hf"
    BY <1>3, <2>1, <1>q DEF FinPrune
  <2>2. CASE k = "dcp"
    <3>1. /\ fin["dcp"].doomed # <<>>
          /\ \E S : dirs' = [dirs EXCEPT ![fin["dcp"].to][Head(fin["dcp"].doomed)] = S]
      BY <1>3, <2>2 DEF FinPrune, ListOf
    <3>2. 1 \in DOMAIN fin["dcp"].doomed /\ Head(fin["dcp"].doomed) = fin["dcp"].doomed[1]
      BY <3>1, <1>c
    <3>3. fin["dcp"].to # l \/ Head(fin["dcp"].doomed) # s
      BY <3>2
    <3>4. dirs'[l][s] = dirs[l][s]
      BY <3>1, <3>3, <1>c
    <3> QED BY <3>4, <1>q
  <2> QED BY <2>1, <2>2 DEF Saves
<1>4. CASE Restart
  BY <1>4, <1>q DEF Restart, Goto
<1>5. CASE \/ \E k \in Saves : FailSave(k) \/ RunCallback(k) \/ FinAppend(k) \/ FinOpen(k) \/ FinWrite(k) \/ FinHook(k)
           \/ CommitHF \/ ClearPendingHF \/ FinLink \/ Crash \/ Terminate \/ Rest \/ UNCHANGED vars
  <2>1. dirs' = dirs
    BY <1>5 DEF FailSave, RunCallback, FinAppend, FinOpen, FinWrite, FinHook, CommitHF, ClearPendingHF, FinLink,
       Crash, Terminate, Die, Rest, vars
  <2> QED BY <2>1, <1>q
<1> QED BY <1>1, <1>2, <1>3, <1>4, <1>5 DEF Next, SaveStep, FinStep

\* What a step may change in the meta file's lists: all of it is written.
LEMMA FileChanges ==
  ASSUME Inv, [Next]_vars
  PROVE  \/ meta'.lists = meta.lists
         \/ \E k \in Saves : FinWrite(k) /\ meta'.lists = mem /\ fin[k].pc = "write" /\ lock = k
<1> USE DEF main, disk, background, finalizer, job
<1>1. CASE MainStep
  BY <1>1 DEF MainStep, TrainStep, SkipHF, SaveHFBegin, SaveHFEnd, HFFinalized, WaitHF, LaunchHF,
       RegisterHF, MaybeSaveCkpt, MaybeSaveSnap, WaitCkpt, SaveDcpBegin, SaveDcpEnd, LaunchDcp,
       SaveState, RegisterDcp, DcpFinalized, DrainHF, DrainDcp, StopMonitor
<1>2. ASSUME NEW k \in Saves, SaveStep(k) \/ FailSave(k) PROVE meta' = meta
  BY <1>2 DEF SaveStep, CommitDcp, CommitHF, ClearPendingHF, RunCallback, FailSave
<1>3. ASSUME NEW k \in Saves, FinAppend(k) \/ FinPrune(k) \/ FinLink \/ FinOpen(k) \/ FinHook(k)
      PROVE  meta'.lists = meta.lists
  BY <1>3 DEF FinAppend, FinPrune, FinLink, FinOpen, FinHook, Inv, TypeOK
<1>4. ASSUME NEW k \in Saves, FinWrite(k) PROVE meta'.lists = mem /\ fin[k].pc = "write" /\ lock = k
  BY <1>4 DEF FinWrite, Inv, LockInv, CriticalPcs
<1>5. CASE Crash \/ Terminate \/ Restart \/ Rest \/ UNCHANGED vars
  BY <1>5 DEF Crash, Terminate, Die, Restart, Rest, vars
<1> QED BY <1>1, <1>2, <1>3, <1>4, <1>5 DEF Next, FinStep

\* The checkpoint the meta file names last stays complete through every step.
LEMMA NextLastIsWhole ==
  ASSUME Inv, Progress, Files, NoSnapshots, LastIsWhole, [Next]_vars PROVE LastIsWhole'
<1>c. /\ Filed("ckpt") \in 0..TotalStep /\ Known("ckpt") \in 0..TotalStep
      /\ Filed("ckpt") # 0 => Filed("ckpt") \in Steps
      /\ step \in 0..TotalStep
  <2>1. Filed("ckpt") \in 0..TotalStep /\ Known("ckpt") \in 0..TotalStep
    BY KnownType DEF Inv, Lists, Dcp
  <2> QED BY <2>1 DEF Inv, TypeOK, Steps
<1>s. SUFFICES ASSUME config.snapshot = 0, config.maxkeep # 1, Filed("ckpt")' # 0
               PROVE  Whole("ckpt", Filed("ckpt"))'
  BY ConfigStays DEF LastIsWhole
<1>1. CASE meta'.lists = meta.lists
  <2>1. Filed("ckpt")' = Filed("ckpt")
    BY <1>1 DEF Filed, LastOf
  <2>2. PICK s \in Steps : s = Filed("ckpt")
    BY <1>c, <1>s, <2>1
  <2>3. Whole("ckpt", s)
    BY <1>s, <2>1, <2>2 DEF LastIsWhole
  <2>4. pc \in Early \cup Writing => s # step
    <3>1. pc \in Early \cup Writing => Known("ckpt") < step /\ Filed("ckpt") <= Known("ckpt")
      BY DEF Progress, OrderInv, Early, Writing, Gone, Dcp
    <3> QED BY <3>1, <1>c, <2>2
  <2>5. \A i \in DOMAIN fin["dcp"].doomed : fin["dcp"].to # "ckpt" \/ fin["dcp"].doomed[i] # s
    BY <1>s, <1>c, <2>2 DEF Files, DoomInv
  <2>6. meta.state # "empty"
    <3>1. meta.lists["ckpt"] # <<>>
      BY <1>s, <2>1 DEF Filed, LastOf
    <3> QED BY <3>1 DEF Progress, ListInv, NoLists, Lists, Dcp
  <2>7. Whole("ckpt", s)'
    BY <2>3, <2>4, <2>5, <2>6, WholeStays DEF Dcp
  <2> QED BY <2>1, <2>2, <2>7 DEF Whole
<1>2. CASE meta'.lists # meta.lists
  <2>1. PICK k \in Saves : FinWrite(k) /\ meta'.lists = mem /\ fin[k].pc = "write" /\ lock = k
    BY <1>2, FileChanges
  <2>2. Filed("ckpt")' = Known("ckpt") /\ dirs' = dirs /\ pc \notin Gone
    BY <2>1 DEF Filed, Known, LastOf, FinWrite, Inv, DownInv
  <2>3. CASE k = "hf"
    <3>1. mem["ckpt"] = meta.lists["ckpt"]
      BY <2>1, <2>2, <2>3 DEF Progress, LagInv, Dcp
    <3>2. Filed("ckpt") = Known("ckpt")
      BY <3>1 DEF Filed, Known, LastOf
    <3>3. Whole("ckpt", Known("ckpt"))
      BY <1>s, <2>2, <3>2 DEF LastIsWhole
    <3> QED BY <2>2, <3>3 DEF Whole
  <2>4. CASE k = "dcp"
    <3>1. fin["dcp"].to = "ckpt" /\ Known(fin["dcp"].to) = fin["dcp"].step
      BY <1>s, <2>1, <2>4 DEF NoSnapshots, Progress, OrderInv, CriticalPcs
    <3>2. Whole("ckpt", Known("ckpt"))
      BY <2>1, <2>4, <3>1 DEF Files, DirsInv
    <3> QED BY <2>2, <3>2 DEF Whole
  <2> QED BY <2>3, <2>4 DEF Saves
<1> QED BY <1>1, <1>2

-----------------------------------------------------------------------------
(* The end of fit. *)

\* The waits at the end of fit cover the callbacks and their finalizers; a writer
\* at work has its callback registered, or the main thread is about to do it.
DrainInv ==
  /\ pc \in {"DrainDcp", "Stop", "Done"} => step = TotalStep /\ callback["hf"] = "none" /\ fin["hf"].pc = "idle"
  /\ pc \in {"Stop", "Done"} => callback["dcp"] = "none" /\ fin["dcp"].pc = "idle"
  /\ pc = "Done" => ~failed
  /\ \A k \in Saves : /\ ~Async(k) => future[k].state = "none"
                      /\ future[k].state = "writing" => callback[k] = "registered" \/ pc \in Launched(k)
                      /\ future[k].state = "failed" => failed

\* Once fit has waited for a save, nothing of that save is left to run.
LEMMA NextDrained == ASSUME Inv, DrainInv, [Next]_vars PROVE DrainInv'
<1> USE DEF main, disk, background, finalizer, job, AsyncCkpt, AsyncHf
<1>c. /\ fin \in [Saves -> FinType] /\ future \in [Saves -> FutureType] /\ DOMAIN callback = Saves
      /\ failed \in BOOLEAN
  BY DEF Inv, TypeOK, FinType, FutureType
<1>1. CASE MainStep
  <2>0. config' = config /\ failed' = failed
    BY <1>1 DEF MainStep, TrainStep, SkipHF, SaveHFBegin, SaveHFEnd, HFFinalized, WaitHF, LaunchHF,
       RegisterHF, MaybeSaveCkpt, MaybeSaveSnap, WaitCkpt, SaveDcpBegin, SaveDcpEnd, LaunchDcp,
       SaveState, RegisterDcp, DcpFinalized, DrainHF, DrainDcp, StopMonitor, WaitForPending
  <2> USE <2>0 DEF Goto, Async, Saves, Launched
  <2>1. CASE TrainStep
    BY <2>1 DEF TrainStep, DrainInv
  <2>2. CASE SkipHF \/ SaveHFBegin \/ HFFinalized
    BY <2>2 DEF SkipHF, SaveHFBegin, HFFinalized, DrainInv
  <2>3. CASE SaveHFEnd
    BY <2>3 DEF SaveHFEnd, DrainInv
  <2>4. CASE WaitHF \/ WaitCkpt
    BY <2>4 DEF WaitHF, WaitCkpt, WaitForPending, DrainInv
  <2>5. CASE LaunchHF
    <3>1. /\ pc = "HFLaunch" /\ pc' \in {"Raised", "HFRegister"} /\ AsyncHf /\ fin' = fin /\ callback' = callback
          /\ future'["dcp"] = future["dcp"]
          /\ IF pc' = "Raised" THEN future' = future ELSE future'["hf"].state = "writing"
      <4>1. CASE handle
        BY <2>5, <4>1 DEF LaunchHF, Inv, HandleInv
      <4>2. CASE ~handle
        <5>1. AsyncHf
          BY <2>5 DEF LaunchHF, Inv, HandleInv
        <5>2. future'["hf"].state = "writing" /\ future'["dcp"] = future["dcp"]
          BY <2>5, <4>2, <1>c DEF LaunchHF, NoFuture
        <5> QED BY <2>5, <4>2, <5>1, <5>2 DEF LaunchHF
      <4> QED BY <4>1, <4>2
    <3> QED BY <3>1 DEF DrainInv
  <2>6. CASE RegisterHF
    <3>1. /\ pc = "HFRegister" /\ pc' = "Ckpt" /\ fin' = fin /\ callback'["hf"] = "registered"
          /\ callback'["dcp"] = callback["dcp"] /\ future' = future
      BY <2>6, <1>c DEF RegisterHF
    <3> QED BY <3>1 DEF DrainInv
  <2>7. CASE MaybeSaveCkpt \/ MaybeSaveSnap
    BY <2>7 DEF MaybeSaveCkpt, MaybeSaveSnap, MkDir, DrainInv
  <2>8. CASE SaveDcpBegin \/ SaveDcpEnd
    BY <2>8 DEF SaveDcpBegin, SaveDcpEnd, DrainInv
  <2>9. CASE LaunchDcp
    <3>1. /\ pc = "Weights" /\ pc' \in {"Raised", "State"} /\ AsyncCkpt /\ fin' = fin /\ callback' = callback
          /\ future'["hf"] = future["hf"]
          /\ IF pc' = "Raised" THEN future' = future ELSE future'["dcp"].state = "writing"
      BY <2>9, <1>c DEF LaunchDcp
    <3> QED BY <3>1 DEF DrainInv
  <2>10. CASE SaveState
    <3>1. /\ pc = "State" /\ pc' = (IF AsyncCkpt THEN "Register" ELSE "Finalizing") /\ callback' = callback
          /\ future' = future
      BY <2>10 DEF SaveState
    <3> QED BY <3>1 DEF DrainInv
  <2>11. CASE RegisterDcp
    <3>1. /\ pc = "Register" /\ pc' \in {"Train", "Inline"} /\ fin' = fin /\ callback'["dcp"] = "registered"
          /\ callback'["hf"] = callback["hf"] /\ future' = future
      BY <2>11, <1>c DEF RegisterDcp
    <3> QED BY <3>1 DEF DrainInv
  <2>12. CASE DcpFinalized
    BY <2>12 DEF DcpFinalized, DrainInv
  <2>13. CASE DrainHF
    <3>1. callback["hf"] = "none" /\ fin["hf"].pc = "idle"
      BY <2>13 DEF DrainHF, WaitForPending, Settled, Inv, CallbackInv, Awaiting
    <3> QED BY <2>13, <3>1 DEF DrainHF, WaitForPending, DrainInv
  <2>14. CASE DrainDcp
    <3>1. callback["dcp"] = "none" /\ fin["dcp"].pc = "idle"
      BY <2>14 DEF DrainDcp, WaitForPending, Settled, Inv, CallbackInv, Awaiting
    <3> QED BY <2>14, <3>1 DEF DrainDcp, WaitForPending, DrainInv
  <2>15. CASE StopMonitor
    BY <2>15 DEF StopMonitor, DrainInv
  <2> QED BY <1>1, <2>1, <2>2, <2>3, <2>4, <2>5, <2>6, <2>7, <2>8, <2>9, <2>10, <2>11, <2>12, <2>13, <2>14,
             <2>15 DEF MainStep
<1>2. ASSUME NEW k \in Saves, SaveStep(k) PROVE DrainInv'
  <2>0. UNCHANGED <<pc, step, config, failed>>
    BY <1>2 DEF SaveStep, CommitDcp, CommitHF, ClearPendingHF, RunCallback
  <2>1. CASE CommitDcp
    <3>1. /\ fin' = fin /\ callback' = callback /\ future'["hf"] = future["hf"]
          /\ future["dcp"].state = "writing" /\ future'["dcp"].state = "done"
      BY <2>1, <1>c DEF CommitDcp, Saves, FutureType
    <3> QED BY <2>0, <3>1 DEF DrainInv, Saves, Async, Launched
  <2>2. CASE CommitHF
    <3>1. /\ fin' = fin /\ callback' = callback /\ future'["dcp"] = future["dcp"]
          /\ future["hf"].state = "writing" /\ (future' = future \/ future'["hf"].state = "done")
      BY <2>2, <1>c DEF CommitHF, Saves, FutureType
    <3> QED BY <2>0, <3>1 DEF DrainInv, Saves, Async, Launched
  <2>3. CASE ClearPendingHF
    <3>1. /\ fin' = fin /\ future' = future /\ callback'["dcp"] = callback["dcp"] /\ callback["hf"] = "registered"
          /\ future["hf"].state # "writing"
      BY <2>3, <1>c DEF ClearPendingHF, Saves
    <3> QED BY <2>0, <3>1 DEF DrainInv, Saves, Async, Launched
  <2>4. CASE RunCallback(k)
    <3>1. /\ callback[k] # "none" /\ future' = future /\ future[k].state # "writing"
          /\ \A j \in Saves : j # k => fin'[j] = fin[j] /\ callback'[j] = callback[j]
      BY <2>4, <1>c DEF RunCallback, Saves
    <3> QED BY <2>0, <3>1 DEF DrainInv, Saves, Async, Launched
  <2> QED BY <1>2, <2>1, <2>2, <2>3, <2>4 DEF SaveStep
<1>3. ASSUME NEW k \in Saves, FailSave(k) PROVE DrainInv'
  <2>1. /\ UNCHANGED <<pc, step, config, fin, callback>> /\ failed' = TRUE /\ future[k].state = "writing"
        /\ future'[k].state = "failed" /\ \A j \in Saves : j # k => future'[j] = future[j]
    BY <1>3, <1>c DEF FailSave, FutureType
  <2>2. pc # "Done"
    BY <2>1 DEF DrainInv, Saves, Launched
  <2> QED BY <2>1, <2>2 DEF DrainInv, Saves, Async, Launched
<1>4. ASSUME NEW k \in Saves, FinStep(k) PROVE DrainInv'
  <2>1. /\ UNCHANGED <<pc, step, config, future, failed>> /\ fin[k].pc # "idle"
        /\ \A j \in Saves : j # k => fin'[j] = fin[j] /\ callback'[j] = callback[j]
        /\ callback' = callback \/ callback[k] = "running"
    BY <1>4, <1>c DEF FinStep, FinAppend, FinPrune, FinLink, FinOpen, FinWrite, FinHook, Saves
  <2> QED BY <2>1 DEF DrainInv, Saves, Async, Launched
<1>5. CASE Die
  <2>1. pc' = "Down" /\ config' = config /\ \A k \in Saves : future'[k].state = "none"
    BY <1>5 DEF Die, NoFuture
  <2> QED BY <2>1 DEF DrainInv
<1>6. CASE Restart
  <2>1. pc = "Down" /\ pc' \in {"Train", "Unloadable"} /\ UNCHANGED <<config, future, callback, failed>>
    BY <1>6 DEF Restart, Goto
  <2> QED BY <2>1 DEF DrainInv, Saves, Async, Launched
<1>7. CASE Rest \/ UNCHANGED vars
  <2>1. UNCHANGED <<pc, step, config, future, callback, fin, failed>>
    BY <1>7 DEF Rest, vars
  <2> QED BY <2>1 DEF DrainInv, Async
<1> QED BY <1>1, <1>2, <1>3, <1>4, <1>5, <1>6, <1>7 DEF Next, Crash, Terminate

\* What the first step of a finalizer records.
LEMMA Recorded ==
  ASSUME Inv, Progress, NEW k \in Saves, FinAppend(k)
  PROVE  /\ \A l \in Lists : l # ListOf(k) => mem'[l] = mem[l]
         /\ \A l \in Dcp : Known(l)' = IF k = "dcp" /\ l = fin["dcp"].to THEN fin["dcp"].step ELSE Known(l)
<1> DEFINE l == ListOf(k)
           longer == Append(mem[l], fin[k].step)
           over == IF KeepOf(k) > 0 /\ Len(longer) > KeepOf(k) THEN Len(longer) - KeepOf(k) ELSE 0
           kept == SubSeq(longer, over + 1, Len(longer))
<1>1. fin[k].pc = "append" /\ mem' = [mem EXCEPT ![l] = kept]
  BY DEF FinAppend
<1>2. /\ mem \in [Lists -> Seq(Steps)] /\ fin[k].to \in Dcp /\ fin[k].step \in Steps /\ KeepOf(k) \in Nat
  BY <1>1, ConstantsAssumption DEF Inv, TypeOK, StepInv, Steps, KeepOf
<1>3. l \in Lists /\ mem[l] \in Seq(Steps)
  BY <1>2 DEF ListOf, Lists
<1>4. ASSUME k = "dcp" PROVE End(kept) = fin["dcp"].step
  <2>1. InOrder(mem[l]) /\ End(mem[l]) < fin[k].step
    BY <1>1, <1>2, <1>4 DEF Progress, ListInv, OrderInv, Known, LastOf, End, ListOf
  <2> QED BY <1>2, <1>3, <1>4, <2>1, CutKeeps
<1> HIDE DEF kept
<1>5. mem'[l] = kept /\ \A d \in Lists : d # l => mem'[d] = mem[d]
  BY <1>1, <1>2, <1>3
<1>6. ASSUME NEW d \in Dcp
      PROVE  Known(d)' = IF k = "dcp" /\ d = fin["dcp"].to THEN fin["dcp"].step ELSE Known(d)
  <2>1. CASE k = "dcp" /\ d = fin["dcp"].to
    BY <2>1, <1>4, <1>5 DEF Known, LastOf, End, ListOf
  <2>2. CASE ~(k = "dcp" /\ d = fin["dcp"].to)
    <3>1. d # l /\ d \in Lists
      BY <2>2 DEF ListOf, Dcp, Lists, Saves
    <3> QED BY <2>2, <3>1, <1>5 DEF Known, LastOf
  <2> QED BY <2>1, <2>2
<1> QED BY <1>5, <1>6

\* The lists in memory change when a save is recorded, when the process ends and
\* when it starts.
LEMMA MemoryChanges ==
  ASSUME Inv, [Next]_vars
  PROVE  \/ mem' = mem /\ (pc \in Gone => pc' \in Gone)
         \/ \E k \in Saves : FinAppend(k) /\ fin[k].pc = "append" /\ pc \notin Gone
         \/ pc' \in Gone
         \/ pc = "Down" /\ Restart /\ mem' = meta.lists /\ meta' = meta
<1> USE DEF main, disk, background, finalizer, job
<1>1. CASE MainStep
  BY <1>1 DEF Goto, Gone, MainStep, TrainStep, SkipHF, SaveHFBegin, SaveHFEnd, HFFinalized, WaitHF, LaunchHF,
       RegisterHF, MaybeSaveCkpt, MaybeSaveSnap, WaitCkpt, SaveDcpBegin, SaveDcpEnd, LaunchDcp,
       SaveState, RegisterDcp, DcpFinalized, DrainHF, DrainDcp, StopMonitor
<1>2. ASSUME NEW k \in Saves, SaveStep(k) \/ FailSave(k) PROVE mem' = mem /\ pc' = pc
  BY <1>2 DEF SaveStep, CommitDcp, CommitHF, ClearPendingHF, RunCallback, FailSave
<1>3. ASSUME NEW k \in Saves, FinPrune(k) \/ FinLink \/ FinOpen(k) \/ FinWrite(k) \/ FinHook(k)
      PROVE  mem' = mem /\ pc' = pc
  BY <1>3 DEF FinPrune, FinLink, FinOpen, FinWrite, FinHook
<1>4. ASSUME NEW k \in Saves, FinAppend(k) PROVE fin[k].pc = "append" /\ pc \notin Gone
  BY <1>4 DEF FinAppend, Inv, DownInv
<1>5. CASE Crash \/ Terminate
  BY <1>5 DEF Crash, Terminate, Die, Gone
<1>6. CASE Restart
  BY <1>6 DEF Restart, Goto
<1>7. CASE Rest \/ UNCHANGED vars
  BY <1>7 DEF Rest, vars
<1> QED BY <1>1, <1>2, <1>3, <1>4, <1>5, <1>6, <1>7 DEF Next, FinStep

\* A recorded checkpoint of the last step is complete, and stays so.
TotalIsWhole ==
  \A l \in Dcp : Filed(l) = TotalStep \/ (pc \notin Gone /\ Known(l) = TotalStep) => Whole(l, TotalStep)

\* A recorded checkpoint of the final step stays complete.
LEMMA NextTotalIsWhole ==
  ASSUME Inv, Progress, Files, TotalIsWhole, [Next]_vars PROVE TotalIsWhole'
<1>t. TotalStep \in Steps /\ TotalStep # 0 /\ TotalStep \in Nat
  BY ConstantsAssumption DEF Steps
<1>c. /\ \A l \in Dcp : Filed(l) \in 0..TotalStep /\ Known(l) \in 0..TotalStep
      /\ step \in 0..TotalStep /\ fin["dcp"].step \in 0..TotalStep /\ fin["dcp"].to \in Dcp
      /\ fin["dcp"].doomed \in Seq(Steps)
  <2>1. \A l \in Dcp : Filed(l) \in 0..TotalStep /\ Known(l) \in 0..TotalStep
    BY KnownType DEF Inv, Lists
  <2> QED BY <2>1 DEF Inv, TypeOK, Saves
<1>d. \A i \in DOMAIN fin["dcp"].doomed : /\ Filed(fin["dcp"].to) < TotalStep
                                          /\ fin["dcp"].doomed[i] # TotalStep
  <2> SUFFICES ASSUME NEW i \in DOMAIN fin["dcp"].doomed
               PROVE  Filed(fin["dcp"].to) < TotalStep /\ fin["dcp"].doomed[i] # TotalStep
    OBVIOUS
  <2>1. fin["dcp"].pc \in {"prune", "removing"} /\ fin["dcp"].doomed[i] <= Filed(fin["dcp"].to)
    BY DEF Files, DoomInv
  <2>2. lock = "dcp"
    BY <2>1 DEF Inv, LockInv, CriticalPcs, Saves
  <2>3. Filed(fin["dcp"].to) < fin["dcp"].step
    BY <2>2, <1>c DEF Progress, LagInv
  <2> QED BY <2>1, <2>3, <1>c, <1>t DEF Steps
<1>e. \A l \in Dcp : pc \in Early \cup Writing => Known(l) < TotalStep /\ Filed(l) < TotalStep
  <2> SUFFICES ASSUME NEW l \in Dcp, pc \in Early \cup Writing
               PROVE  Known(l) < TotalStep /\ Filed(l) < TotalStep
    OBVIOUS
  <2>1. Known(l) < step /\ Filed(l) <= Known(l)
    BY DEF Progress, OrderInv, Early, Writing, Gone
  <2> QED BY <2>1, <1>c, <1>t
<1>1. ASSUME NEW l \in Dcp, Filed(l) = TotalStep \/ (pc \notin Gone /\ Known(l) = TotalStep)
      PROVE  Whole(l, TotalStep)'
  <2>1. Whole(l, TotalStep)
    BY <1>1 DEF TotalIsWhole
  <2>2. pc \notin Early \cup Writing
    BY <1>1, <1>e, <1>c, <1>t
  <2>3. \A i \in DOMAIN fin["dcp"].doomed : fin["dcp"].doomed[i] # TotalStep
    BY <1>d
  <2>4. pc = "Down" => meta.state # "empty"
    <3>1. pc = "Down" => Filed(l) = TotalStep
      BY <1>1 DEF Gone
    <3>2. meta.state = "empty" => Filed(l) = 0
      BY DEF Progress, ListInv, NoLists, Filed, LastOf, Lists
    <3> QED BY <3>1, <3>2, <1>t
  <2> QED BY <2>1, <2>2, <2>3, <2>4, <1>t, WholeStays
<1> SUFFICES ASSUME NEW l \in Dcp, Filed(l)' = TotalStep \/ (pc' \notin Gone /\ Known(l)' = TotalStep)
             PROVE  Whole(l, TotalStep)'
  BY DEF TotalIsWhole
<1>2. CASE Filed(l)' = TotalStep
  <2>1. CASE meta'.lists = meta.lists
    <3>1. Filed(l) = TotalStep
      BY <1>2, <2>1 DEF Filed, LastOf
    <3> QED BY <3>1, <1>1
  <2>2. CASE meta'.lists # meta.lists
    <3>1. PICK k \in Saves : FinWrite(k) /\ meta'.lists = mem /\ fin[k].pc = "write"
      BY <2>2, FileChanges
    <3>2. Known(l) = TotalStep /\ pc \notin Gone
      BY <1>2, <3>1 DEF Filed, Known, LastOf, Inv, DownInv
    <3> QED BY <3>2, <1>1
  <2> QED BY <2>1, <2>2
<1>3. CASE pc' \notin Gone /\ Known(l)' = TotalStep
  <2>1. CASE mem' = mem /\ pc \notin Gone
    <3>1. Known(l) = TotalStep
      BY <1>3, <2>1 DEF Known, LastOf
    <3> QED BY <2>1, <3>1, <1>1
  <2>2. ASSUME NEW k \in Saves, FinAppend(k), fin[k].pc = "append", pc \notin Gone PROVE Whole(l, TotalStep)'
    <3>1. CASE k = "dcp" /\ l = fin["dcp"].to
      <4>1. fin["dcp"].step = TotalStep
        BY <2>2, <3>1, <1>3, Recorded
      <4>2. Whole(l, TotalStep)
        BY <2>2, <3>1, <4>1 DEF Files, DirsInv
      <4>3. dirs' = dirs
        BY <2>2 DEF FinAppend, disk
      <4> QED BY <4>2, <4>3 DEF Whole
    <3>2. CASE ~(k = "dcp" /\ l = fin["dcp"].to)
      <4>1. Known(l) = TotalStep
        BY <2>2, <3>2, <1>3, Recorded
      <4> QED BY <2>2, <4>1, <1>1
    <3> QED BY <3>1, <3>2
  <2>3. CASE pc = "Down" /\ mem' = meta.lists
    <3>1. Filed(l) = TotalStep
      BY <1>3, <2>3 DEF Known, Filed, LastOf
    <3> QED BY <3>1, <1>1
  <2> QED BY <1>3, <2>1, <2>2, <2>3, MemoryChanges
<1> QED BY <1>2, <1>3

\* With checkpoints on, the last step is saved as a checkpoint, not as a snapshot,
\* and until it is recorded its save is under way or the job is bound to end.
Past == {"Train", "Finalizing", "Inline", "DrainDcp", "Stop", "Done"}
Underway == \/ callback["dcp"] = "registered" /\ future["dcp"].step = TotalStep
            \/ fin["dcp"].pc = "append" /\ fin["dcp"].step = TotalStep
            \/ failed
FinalInv ==
  config.ckpt # 0 =>
    /\ Known("snapshot") < TotalStep /\ Filed("snapshot") < TotalStep
    /\ pc = "Snap" => step < TotalStep
    /\ pc \in Writing \cup {"Wait"} /\ step = TotalStep => saving = "ckpt"
    /\ callback["dcp"] = "registered" /\ future["dcp"].step = TotalStep => future["dcp"].to = "ckpt"
    /\ fin["dcp"].pc # "idle" /\ fin["dcp"].step = TotalStep => fin["dcp"].to = "ckpt"
    /\ pc \in Past /\ step = TotalStep => Known("ckpt") = TotalStep \/ Underway

\* The final step is saved as a checkpoint, never as a snapshot, and gets recorded.
LEMMA NextFinal ==
  ASSUME Inv, Progress, DrainInv, FinalInv, [Next]_vars PROVE FinalInv'
<1> USE DEF main, disk, background, finalizer, job
<1> SUFFICES ASSUME config.ckpt # 0 PROVE FinalInv'
  BY ConfigStays DEF FinalInv
<1>t. TotalStep \in Nat /\ TotalStep # 0
  BY ConstantsAssumption
<1>c. /\ fin \in [Saves -> FinType] /\ future \in [Saves -> FutureType] /\ DOMAIN callback = Saves
      /\ step \in 0..TotalStep /\ fin["dcp"].step \in 0..TotalStep /\ fin["dcp"].to \in Dcp
      /\ saving \in Dcp
  BY DEF Inv, TypeOK, FinType, FutureType, Saves
<1>k. /\ Known("ckpt") \in 0..TotalStep /\ Filed("ckpt") \in 0..TotalStep
      /\ Known("snapshot") \in 0..TotalStep /\ Filed("snapshot") \in 0..TotalStep
  BY KnownType DEF Inv, Lists, Dcp
<1>h. LaunchHF => future'["dcp"] = future["dcp"] /\ pc' \in {"Raised", "HFRegister"}
  BY <1>c DEF LaunchHF, Goto, Saves
<1>1. CASE MainStep
  <2>1. mem' = mem /\ meta' = meta /\ config' = config /\ failed' = failed
    BY <1>1 DEF MainStep, TrainStep, SkipHF, SaveHFBegin, SaveHFEnd, HFFinalized, WaitHF, LaunchHF, RegisterHF,
       MaybeSaveCkpt, MaybeSaveSnap, WaitCkpt, SaveDcpBegin, SaveDcpEnd, LaunchDcp, SaveState,
       RegisterDcp, DcpFinalized, DrainHF, DrainDcp, StopMonitor, WaitForPending
  <2>2. /\ Known("snapshot")' = Known("snapshot") /\ Filed("snapshot")' = Filed("snapshot")
        /\ Known("ckpt")' = Known("ckpt")
    BY <2>1 DEF Known, Filed, LastOf
  <2> USE <2>1, <2>2 DEF Goto, FinalInv, Underway, Writing, Past
  <2>3. CASE TrainStep
    BY <2>3 DEF TrainStep
  <2>4. CASE SkipHF \/ SaveHFBegin \/ HFFinalized \/ StopMonitor
    BY <2>4 DEF SkipHF, SaveHFBegin, HFFinalized, StopMonitor
  <2>5. CASE SaveHFEnd
    <3>1. fin'["dcp"] = fin["dcp"]
      BY <2>5 DEF SaveHFEnd
    <3> QED BY <2>5, <3>1 DEF SaveHFEnd
  <2>6. CASE WaitHF \/ WaitCkpt \/ DrainHF \/ DrainDcp
    BY <2>6 DEF WaitHF, WaitCkpt, DrainHF, DrainDcp, WaitForPending
  <2>7. CASE LaunchHF
    BY <2>7, <1>h DEF LaunchHF
  <2>8. CASE RegisterHF
    <3>1. callback'["dcp"] = callback["dcp"]
      BY <2>8, <1>c DEF RegisterHF
    <3> QED BY <2>8, <3>1 DEF RegisterHF
  <2>9. CASE MaybeSaveCkpt
    <3>1. step = TotalStep => Due("ckpt")
      BY DEF Due
    <3> QED BY <2>9, <3>1, <1>c, <1>t DEF MaybeSaveCkpt, MkDir
  <2>10. CASE MaybeSaveSnap
    BY <2>10, <1>c, <1>t DEF MaybeSaveSnap, MkDir
  <2>11. CASE SaveDcpBegin \/ SaveDcpEnd
    BY <2>11 DEF SaveDcpBegin, SaveDcpEnd
  <2>12. CASE LaunchDcp
    <3>1. callback["dcp"] = "none" /\ pc' \in {"Raised", "State"} /\ pc = "Weights"
      BY <2>12 DEF LaunchDcp, Inv, CallbackInv, Preparing, Async, Saves
    <3> QED BY <2>12, <3>1 DEF LaunchDcp
  <2>13. CASE SaveState
    <3>1. CASE AsyncCkpt
      BY <2>13, <3>1 DEF SaveState
    <3>2. CASE ~AsyncCkpt
      <4>1. /\ fin'["dcp"].pc = "append" /\ fin'["dcp"].step = step /\ fin'["dcp"].to = saving
            /\ pc = "State" /\ pc' = "Finalizing"
        BY <2>13, <3>2, <1>c DEF SaveState, Idle, Saves
      <4> QED BY <2>13, <4>1 DEF SaveState
    <3> QED BY <3>1, <3>2
  <2>14. CASE RegisterDcp
    <3>1. /\ callback'["dcp"] = "registered" /\ pc = "Register" /\ pc' \in {"Train", "Inline"}
          /\ future["dcp"].step = step /\ future["dcp"].to = saving
      BY <2>14, <1>c DEF RegisterDcp, Inv, HandleInv, Progress, OrderInv, Saves
    <3> QED BY <2>14, <3>1 DEF RegisterDcp
  <2>15. CASE DcpFinalized
    BY <2>15 DEF DcpFinalized
  <2> QED BY <1>1, <2>3, <2>4, <2>5, <2>6, <2>7, <2>8, <2>9, <2>10, <2>11, <2>12, <2>13, <2>14, <2>15 DEF MainStep
<1>2. ASSUME NEW k \in Saves, SaveStep(k) \/ FailSave(k) PROVE FinalInv'
  <2>1. /\ UNCHANGED <<mem, meta, config, pc, step, saving>>
        /\ failed => failed'
        /\ future'["dcp"].step = future["dcp"].step /\ future'["dcp"].to = future["dcp"].to
        /\ \/ fin'["dcp"] = fin["dcp"] /\ callback'["dcp"] = callback["dcp"]
           \/ /\ callback["dcp"] = "registered" /\ callback'["dcp"] # "registered"
              /\ fin'["dcp"].to = future["dcp"].to /\ fin'["dcp"].step = future["dcp"].step
              /\ fin'["dcp"].pc = "append" /\ fin["dcp"].pc = "idle"
           \/ /\ callback["dcp"] = "registered" /\ callback'["dcp"] # "registered"
              /\ fin' = fin /\ future["dcp"].state = "failed"
    <3>1. CASE RunCallback("dcp")
      <4>1. fin["dcp"].pc = "idle"
        BY <3>1 DEF RunCallback, Inv, CallbackInv, Saves, Async, AsyncCkpt
      <4> QED BY <3>1, <4>1, <1>c, ZenonT(60) DEF RunCallback, Saves, FutureType, Idle
    <3>2. CASE RunCallback("hf")
      BY <3>2, <1>c DEF RunCallback, Saves, FutureType, Idle
    <3>3. CASE CommitDcp \/ CommitHF \/ ClearPendingHF \/ FailSave(k)
      BY <3>3, <1>c DEF CommitDcp, CommitHF, ClearPendingHF, FailSave, Saves, FutureType
    <3> QED BY <1>2, <3>1, <3>2, <3>3 DEF SaveStep, Saves
  <2>2. /\ Known("snapshot")' = Known("snapshot") /\ Filed("snapshot")' = Filed("snapshot")
        /\ Known("ckpt")' = Known("ckpt")
    BY <2>1 DEF Known, Filed, LastOf
  <2>3. future["dcp"].state = "failed" => failed
    BY DEF DrainInv, Saves
  <2> QED BY <2>1, <2>2, <2>3 DEF FinalInv, Underway
<1>3. ASSUME NEW k \in Saves, FinStep(k), ~FinAppend("dcp") PROVE FinalInv'
  <2>1. UNCHANGED <<config, pc, step, saving, future, failed>>
    BY <1>3 DEF FinStep, FinAppend, FinPrune, FinLink, FinOpen, FinWrite, FinHook
  <2>2. callback'["dcp"] = "registered" <=> callback["dcp"] = "registered"
    BY <1>3, <1>c DEF FinStep, FinAppend, FinPrune, FinLink, FinOpen, FinWrite, FinHook, Saves
  <2>3. \/ fin'["dcp"] = fin["dcp"]
        \/ /\ fin'["dcp"].to = fin["dcp"].to /\ fin'["dcp"].step = fin["dcp"].step
           /\ fin["dcp"].pc \notin {"idle", "append"} /\ fin'["dcp"].pc # "append"
        \/ fin["dcp"].pc = "hook" /\ fin'["dcp"].pc = "idle"
    <3>1. CASE k = "dcp"
      <4>1. CASE FinPrune(k)
        BY <3>1, <4>1, <1>c DEF FinPrune, FinType, Saves
      <4>2. CASE FinOpen(k) \/ FinWrite(k) \/ FinHook(k)
        BY <3>1, <4>2, <1>c DEF FinOpen, FinWrite, FinHook, FinType, Saves, Idle
      <4> QED BY <1>3, <3>1, <4>1, <4>2 DEF FinStep
    <3>2. CASE k = "hf"
      BY <1>3, <3>2, <1>c DEF FinStep, FinAppend, FinPrune, FinLink, FinOpen, FinWrite, FinHook, Saves, FinType, Idle
    <3> QED BY <3>1, <3>2 DEF Saves
  <2>4. \A l \in Dcp : Known(l)' = Known(l)
    <3>1. CASE FinAppend(k)
      BY <1>3, <3>1, Recorded DEF Saves
    <3>2. CASE ~FinAppend(k)
      BY <1>3, <3>2 DEF FinStep, FinPrune, FinLink, FinOpen, FinWrite, FinHook, Known, LastOf
    <3> QED BY <3>1, <3>2
  <2>5. \A l \in Dcp : Filed(l)' = Filed(l) \/ Filed(l)' = Known(l)
    <3>1. meta'.lists = meta.lists \/ meta'.lists = mem
      BY <1>3, ListsChange
    <3> QED BY <3>1 DEF Filed, Known, LastOf
  <2>6. /\ Known("snapshot")' = Known("snapshot") /\ Known("ckpt")' = Known("ckpt")
        /\ Filed("snapshot")' \in {Filed("snapshot"), Known("snapshot")}
    BY <2>4, <2>5 DEF Dcp
  <2> QED BY <2>1, <2>2, <2>3, <2>6 DEF FinalInv, Underway
<1>4. CASE FinAppend("dcp")
  <2>1. /\ UNCHANGED <<config, pc, step, saving, future, failed, callback, meta>> /\ fin["dcp"].pc = "append"
        /\ fin'["dcp"].to = fin["dcp"].to /\ fin'["dcp"].step = fin["dcp"].step /\ fin'["dcp"].pc = "prune"
    BY <1>4, <1>c DEF FinAppend, FinType, Saves
  <2>2. \A l \in Dcp : Known(l)' = IF l = fin["dcp"].to THEN fin["dcp"].step ELSE Known(l)
    BY <1>4, Recorded DEF Saves
  <2>3. Filed("snapshot")' = Filed("snapshot")
    BY <2>1 DEF Filed, LastOf
  <2>4. Known("ckpt") < fin["dcp"].step
    BY <2>1 DEF Progress, OrderInv, Dcp
  <2>5. Known("snapshot")' < TotalStep
    BY <2>1, <2>2, <1>c, <1>t DEF FinalInv, Dcp
  <2>6. Known("ckpt") # TotalStep
    BY <2>4, <1>c, <1>k
  <2>7. fin["dcp"].step = TotalStep => Known("ckpt")' = TotalStep
    BY <2>1, <2>2 DEF FinalInv, Dcp
  <2> QED BY <2>1, <2>3, <2>5, <2>6, <2>7 DEF FinalInv, Underway
<1>5. CASE Die
  <2>1. /\ pc' = "Down" /\ mem' = NoLists /\ meta' = meta /\ config' = config
        /\ callback'["dcp"] = "none" /\ fin'["dcp"].pc = "idle"
    BY <1>5 DEF Die, Saves, Idle
  <2>2. Known("snapshot")' = 0 /\ Filed("snapshot")' = Filed("snapshot")
    BY <2>1 DEF Known, Filed, LastOf, NoLists, Lists, Dcp
  <2> QED BY <2>1, <2>2, <1>t DEF FinalInv, Writing, Past
<1>6. CASE Restart
  <2>1. /\ pc = "Down" /\ pc' \in {"Train", "Unloadable"} /\ mem' = meta.lists /\ meta' = meta
        /\ config' = config /\ callback' = callback /\ fin' = fin /\ future' = future
        /\ pc' = "Train" => step' = LatestCheckpoint(meta.lists).step
    BY <1>6 DEF Restart, Goto
  <2>2. callback["dcp"] = "none" /\ fin["dcp"].pc = "idle"
    BY <2>1 DEF Inv, DownInv, Gone, Saves
  <2>3. /\ Known("snapshot")' = Filed("snapshot") /\ Filed("snapshot")' = Filed("snapshot")
        /\ Known("ckpt")' = Filed("ckpt")
    BY <2>1 DEF Known, Filed, LastOf
  <2>4. LatestCheckpoint(meta.lists).step = TotalStep => Filed("ckpt") = TotalStep
    BY <1>t, <1>k DEF FinalInv, LatestCheckpoint, Filed
  <2> QED BY <2>1, <2>2, <2>3, <2>4 DEF FinalInv, Writing, Past
<1>7. CASE Rest \/ UNCHANGED vars
  <2>1. UNCHANGED <<mem, meta, config, callback, fin, future, failed, pc, saving, step>>
    BY <1>7 DEF Rest, vars
  <2> QED BY <2>1 DEF FinalInv, Underway, Known, Filed, LastOf
<1> QED BY <1>1, <1>2, <1>3, <1>4, <1>5, <1>6, <1>7 DEF Next, Crash, Terminate

-----------------------------------------------------------------------------
(* The exports. *)

\* A restarted job exports again what it exported before and records it twice, so
\* pruning the list, by position, may remove the export just made.  The exports
\* are safe when none is pruned, or when the job never went down.
NeverDied == crashes = 0 /\ failures = 0
HfSafe == config.hf_max_keep = 0 \/ NeverDied

HfPcs == {"HF", "HFWriting", "HFFinalizing", "HFLaunch", "HFRegister"}

\* In a job that never went down, exports are made and recorded in order.
HfOrder ==
  NeverDied =>
    /\ InOrder(mem["hf"]) /\ Known("hf") <= step
    /\ pc \in HfPcs \ {"HFFinalizing"} => Known("hf") < step
    /\ future["hf"].step <= step
    /\ pc \in {"HF", "HFLaunch"} => future["hf"].step < step
    /\ pc = "HFRegister" => future["hf"].step = step
    /\ callback["hf"] \in {"registered", "cleared"} => Known("hf") < future["hf"].step
    /\ fin["hf"].pc # "idle" => fin["hf"].step = IF AsyncHf THEN future["hf"].step ELSE step
    /\ fin["hf"].pc = "append" => Known("hf") < fin["hf"].step
    /\ \A i \in DOMAIN fin["hf"].doomed : fin["hf"].doomed[i] < fin["hf"].step

\* The steps that have to do with checkpoints leave the exports alone.
CkptStep == \/ MaybeSaveCkpt \/ MaybeSaveSnap \/ WaitCkpt \/ SaveDcpBegin \/ SaveDcpEnd \/ LaunchDcp
            \/ SaveState \/ RegisterDcp \/ DcpFinalized \/ DrainHF \/ DrainDcp \/ StopMonitor
            \/ SaveStep("dcp") \/ FailSave("dcp") \/ FinStep("dcp")

\* The steps that save checkpoints leave everything of the exports alone.
LEMMA CheckpointSide ==
  ASSUME Inv, Progress, CkptStep
  PROVE  /\ UNCHANGED <<hf, link, config, step, crashes>>
         /\ mem'["hf"] = mem["hf"] /\ meta'.lists["hf"] = meta.lists["hf"]
         /\ future'["hf"] = future["hf"] /\ callback'["hf"] = callback["hf"] /\ fin'["hf"] = fin["hf"]
         /\ pc' = pc \/ (pc \notin HfPcs \cup Gone /\ pc' \notin HfPcs \cup Gone)
         /\ failures' = 0 => failures = 0
<1> USE DEF main, disk, background, finalizer, job
<1>c. /\ fin \in [Saves -> FinType] /\ future \in [Saves -> FutureType] /\ DOMAIN callback = Saves
      /\ mem \in [Lists -> Seq(Steps)] /\ failures \in Nat
      /\ meta \in [state : {"empty", "torn", "ok"}, lists : [Lists -> Seq(Steps)]]
  BY DEF Inv, TypeOK, FinType, FutureType
<1>1. CASE MaybeSaveCkpt \/ MaybeSaveSnap \/ WaitCkpt \/ SaveDcpBegin \/ SaveDcpEnd
  BY <1>1 DEF MaybeSaveCkpt, MaybeSaveSnap, MkDir, WaitCkpt, SaveDcpBegin, SaveDcpEnd, WaitForPending,
     Goto, HfPcs, Gone
<1>2. CASE LaunchDcp \/ SaveState
  BY <1>2, <1>c DEF LaunchDcp, SaveState, Goto, HfPcs, Gone, Saves
<1>3. CASE RegisterDcp \/ DcpFinalized \/ DrainHF \/ DrainDcp \/ StopMonitor
  BY <1>3, <1>c DEF RegisterDcp, DcpFinalized, DrainHF, DrainDcp, StopMonitor, WaitForPending, Goto,
     HfPcs, Gone, Saves
<1>4. CASE CommitDcp \/ FailSave("dcp")
  BY <1>4, <1>c DEF CommitDcp, FailSave, Saves
<1>5. CASE RunCallback("dcp")
  BY <1>5, <1>c DEF RunCallback, Saves
<1>6. CASE FinAppend("dcp")
  <2>1. \A l \in Lists : l # ListOf("dcp") => mem'[l] = mem[l]
    BY <1>6, Recorded DEF Saves
  <2>2. ListOf("dcp") # "hf" /\ "hf" \in Lists
    BY <1>c DEF ListOf, FinType, Saves, Dcp, Lists
  <2> QED BY <1>6, <2>1, <2>2, <1>c DEF FinAppend, Saves
<1>7. CASE FinPrune("dcp") \/ FinOpen("dcp") \/ FinHook("dcp")
  BY <1>7, <1>c DEF FinPrune, FinOpen, FinHook, Saves
<1>8. CASE FinWrite("dcp")
  <2>1. lock = "dcp" /\ pc \notin Gone
    BY <1>8 DEF FinWrite, Inv, LockInv, DownInv, CriticalPcs, Saves
  <2>2. fin["dcp"].to # "hf" /\ "hf" \in Lists
    BY <1>c DEF FinType, Saves, Dcp, Lists
  <2>3. mem["hf"] = meta.lists["hf"]
    BY <2>1, <2>2 DEF Progress, LagInv
  <2> QED BY <1>8, <2>3, <1>c DEF FinWrite, Saves
<1> QED BY <1>1, <1>2, <1>3, <1>4, <1>5, <1>6, <1>7, <1>8 DEF CkptStep, SaveStep, FinStep

\* The steps of a job that has not gone down.
LEMMA StepsUp ==
  ASSUME Inv, FaultInv, DrainInv, [Next]_vars, NeverDied'
  PROVE  /\ NeverDied /\ pc \notin Gone /\ future["hf"].state # "failed"
         /\ \/ CkptStep \/ Rest \/ UNCHANGED vars
            \/ TrainStep \/ SkipHF \/ SaveHFBegin \/ SaveHFEnd \/ HFFinalized \/ WaitHF \/ LaunchHF \/ RegisterHF
            \/ CommitHF \/ ClearPendingHF \/ RunCallback("hf") \/ FinStep("hf")
<1> USE DEF main, disk, background, finalizer, job
<1>c. crashes \in Nat /\ failures \in Nat
  BY DEF Inv, TypeOK
<1>1. ~Crash /\ \A k \in Saves : ~FailSave(k)
  BY <1>c DEF NeverDied, Crash, FailSave
<1>2. NeverDied
  <2>1. CASE MainStep
    BY <2>1 DEF NeverDied, MainStep, TrainStep, SkipHF, SaveHFBegin, SaveHFEnd, HFFinalized, WaitHF, LaunchHF, RegisterHF,
       MaybeSaveCkpt, MaybeSaveSnap, WaitCkpt, SaveDcpBegin, SaveDcpEnd, LaunchDcp, SaveState,
       RegisterDcp, DcpFinalized, DrainHF, DrainDcp, StopMonitor
  <2>2. ASSUME NEW k \in Saves, SaveStep(k) \/ FinStep(k) PROVE NeverDied
    BY <2>2 DEF NeverDied, SaveStep, CommitDcp, CommitHF, ClearPendingHF, RunCallback, FinStep, FinAppend, FinPrune, FinLink,
       FinOpen, FinWrite, FinHook
  <2>3. CASE Terminate \/ Restart \/ Rest \/ UNCHANGED vars
    BY <2>3 DEF NeverDied, Terminate, Die, Restart, Rest, vars
  <2> QED BY <1>1, <2>1, <2>2, <2>3 DEF Next
<1>3. ~failed /\ pc \notin Gone
  BY <1>2 DEF NeverDied, FaultInv
<1>4. ~Terminate /\ ~Restart
  BY <1>3 DEF Terminate, Restart, Goto, Gone
<1>5. future["hf"].state # "failed"
  BY <1>3 DEF DrainInv, Saves
<1> QED BY <1>1, <1>2, <1>3, <1>4, <1>5 DEF Next, MainStep, SaveStep, FinStep, CkptStep, Saves

\* In a job that never died, exports are recorded in the order of their steps.
LEMMA NextHfOrder ==
  ASSUME Inv, Progress, FaultInv, DrainInv, HfOrder, [Next]_vars PROVE HfOrder'
<1> USE DEF main, disk, background, finalizer, job
<1> SUFFICES ASSUME NeverDied' PROVE HfOrder'
  BY DEF HfOrder
<1>0. /\ NeverDied /\ pc \notin Gone /\ future["hf"].state # "failed"
      /\ \/ CkptStep \/ Rest \/ UNCHANGED vars
         \/ TrainStep \/ SkipHF \/ SaveHFBegin \/ SaveHFEnd \/ HFFinalized \/ WaitHF \/ LaunchHF \/ RegisterHF
         \/ CommitHF \/ ClearPendingHF \/ RunCallback("hf") \/ FinStep("hf")
  BY StepsUp
<1>c. /\ fin \in [Saves -> FinType] /\ future \in [Saves -> FutureType] /\ DOMAIN callback = Saves
      /\ mem \in [Lists -> Seq(Steps)] /\ step \in 0..TotalStep /\ config \in Configs
      /\ Known("hf") \in 0..TotalStep /\ future["hf"].step \in 0..TotalStep /\ fin["hf"].step \in 0..TotalStep
      /\ fin["hf"].doomed \in Seq(Steps) /\ (fin["hf"].pc # "idle" => fin["hf"].step \in Steps)
      /\ config.hf_max_keep \in Nat /\ TotalStep \in Nat
  <2>1. Known("hf") \in 0..TotalStep
    BY KnownType DEF Inv, Lists
  <2> QED BY <2>1, ConstantsAssumption, SMTT(30) DEF Inv, TypeOK, StepInv, FinType, FutureType, Saves, Steps
<1>i. /\ ~AsyncHf /\ pc # "HFFinalizing" => fin["hf"].pc = "idle"
      /\ ~AsyncHf => callback["hf"] = "none"
      /\ AsyncHf /\ pc \in {"HFLaunch", "HFRegister"} => callback["hf"] = "none" /\ fin["hf"].pc = "idle"
      /\ AsyncHf /\ fin["hf"].pc # "idle" => callback["hf"] = "running"
      /\ pc \in {"HFLaunch", "HFRegister"} => AsyncHf
      /\ pc \in {"HFWriting", "HFFinalizing"} => ~AsyncHf
  BY DEF Inv, CallbackInv, HandleInv, Async, Awaiting, Preparing, Saves
<1>m. mem'["hf"] = mem["hf"] => Known("hf")' = Known("hf") /\ (InOrder(mem["hf"]) => InOrder(mem["hf"])')
  BY DEF Known, LastOf, InOrder
<1>o. /\ InOrder(mem["hf"]) /\ Known("hf") <= step
      /\ pc \in HfPcs \ {"HFFinalizing"} => Known("hf") < step
      /\ future["hf"].step <= step
      /\ pc \in {"HF", "HFLaunch"} => future["hf"].step < step
      /\ pc = "HFRegister" => future["hf"].step = step
      /\ callback["hf"] \in {"registered", "cleared"} => Known("hf") < future["hf"].step
      /\ fin["hf"].pc # "idle" => fin["hf"].step = IF AsyncHf THEN future["hf"].step ELSE step
      /\ fin["hf"].pc = "append" => Known("hf") < fin["hf"].step
      /\ \A i \in DOMAIN fin["hf"].doomed : fin["hf"].doomed[i] < fin["hf"].step
  BY <1>0 DEF HfOrder
<1>1. CASE CkptStep \/ Rest \/ UNCHANGED vars
  <2>1. /\ config' = config /\ step' = step /\ mem'["hf"] = mem["hf"]
        /\ future'["hf"] = future["hf"] /\ callback'["hf"] = callback["hf"] /\ fin'["hf"] = fin["hf"]
        /\ pc' = pc \/ (pc \notin HfPcs \cup Gone /\ pc' \notin HfPcs \cup Gone)
    BY <1>1, CheckpointSide DEF Rest, vars
  <2> QED BY <1>o, <2>1, <1>m DEF HfOrder, HfPcs, AsyncHf
<1>2. CASE TrainStep
  <2>1. /\ config' = config /\ step' = step + 1 /\ mem' = mem /\ pc = "Train" /\ pc' = "HF"
        /\ future' = future /\ callback' = callback /\ fin' = fin
    BY <1>2 DEF TrainStep, Goto
  <2>2. fin["hf"].pc # "idle" => AsyncHf
    BY <2>1, <1>i
  <2> QED BY <1>o, <2>1, <2>2, <1>m, <1>c DEF HfOrder, HfPcs, AsyncHf
<1>3. CASE SkipHF \/ SaveHFBegin \/ HFFinalized \/ WaitHF
  <2>1. /\ config' = config /\ step' = step /\ mem' = mem
        /\ pc \in {"HF", "HFFinalizing"} /\ pc' \in {"Ckpt", "HFWriting", "HFLaunch"}
        /\ pc = "HFFinalizing" => pc' = "Ckpt"
        /\ future' = future /\ callback' = callback /\ fin' = fin
    BY <1>3 DEF SkipHF, SaveHFBegin, HFFinalized, WaitHF, WaitForPending, Goto
  <2> QED BY <1>o, <2>1, <1>m DEF HfOrder, HfPcs, AsyncHf
<1>4. CASE SaveHFEnd
  <2>1. /\ config' = config /\ step' = step /\ mem' = mem /\ pc = "HFWriting" /\ pc' = "HFFinalizing"
        /\ future' = future /\ callback' = callback
    BY <1>4 DEF SaveHFEnd, Goto
  <2>2. fin'["hf"].pc = "append" /\ fin'["hf"].step = step /\ fin'["hf"].doomed = <<>>
    BY <1>4, <1>c DEF SaveHFEnd, Idle, Saves
  <2> QED BY <1>o, <2>1, <2>2, <1>m, <1>i DEF HfOrder, HfPcs, AsyncHf
<1>5. CASE LaunchHF
  <2>1. /\ config' = config /\ step' = step /\ mem' = mem /\ pc = "HFLaunch" /\ callback' = callback /\ fin' = fin
    BY <1>5 DEF LaunchHF, Goto
  <2>2. \/ pc' = "Raised" /\ future' = future
        \/ pc' = "HFRegister" /\ future'["hf"].step = step
    <3>1. CASE handle
      BY <1>5, <3>1 DEF LaunchHF, Goto
    <3>2. CASE ~handle
      BY <1>5, <3>2, <1>c DEF LaunchHF, Goto, NoFuture, Saves
    <3> QED BY <3>1, <3>2
  <2> QED BY <1>o, <2>1, <2>2, <1>m, <1>i, <1>c DEF HfOrder, HfPcs, AsyncHf
<1>6. CASE RegisterHF
  <2>1. /\ config' = config /\ step' = step /\ mem' = mem /\ pc = "HFRegister" /\ pc' = "Ckpt"
        /\ future' = future /\ fin' = fin
    BY <1>6 DEF RegisterHF, Goto
  <2> QED BY <1>o, <2>1, <1>m, <1>i DEF HfOrder, HfPcs, AsyncHf
<1>7. CASE CommitHF \/ ClearPendingHF
  <2>1. /\ config' = config /\ step' = step /\ mem' = mem /\ pc' = pc /\ fin' = fin
        /\ future'["hf"].step = future["hf"].step
        /\ callback["hf"] = "registered" /\ callback'["hf"] \in {"registered", "cleared"}
    BY <1>7, <1>c DEF CommitHF, ClearPendingHF, FutureType, Saves
  <2> QED BY <1>o, <2>1, <1>m DEF HfOrder, AsyncHf
<1>8. CASE RunCallback("hf")
  <2>1. /\ config' = config /\ step' = step /\ mem' = mem /\ pc' = pc /\ future' = future
        /\ callback["hf"] = "cleared" /\ callback'["hf"] = "running"
        /\ fin'["hf"].pc = "append" /\ fin'["hf"].step = future["hf"].step /\ fin'["hf"].doomed = <<>>
    <3>1. future["hf"].state # "failed"
      BY <1>0
    <3>2. /\ callback' = [callback EXCEPT !["hf"] = "running"] /\ callback["hf"] = "cleared"
          /\ fin' = [fin EXCEPT !["hf"] = [Idle EXCEPT !.pc = "append", !.step = future["hf"].step,
                                                      !.to = future["hf"].to]]
      BY <1>8, <3>1 DEF RunCallback
    <3>3. /\ fin'["hf"].pc = "append" /\ fin'["hf"].step = future["hf"].step /\ fin'["hf"].doomed = <<>>
      BY <3>2, <1>c DEF Idle, Saves
    <3> QED BY <1>8, <3>2, <3>3, <1>c DEF RunCallback, Saves
  <2> QED BY <1>o, <2>1, <1>m, <1>i DEF HfOrder, AsyncHf
<1>9. CASE FinAppend("hf")
  <2> DEFINE longer == Append(mem["hf"], fin["hf"].step)
             over == IF KeepOf("hf") > 0 /\ Len(longer) > KeepOf("hf") THEN Len(longer) - KeepOf("hf") ELSE 0
             kept == SubSeq(longer, over + 1, Len(longer))
             off == SubSeq(longer, 1, over)
  <2>1. /\ config' = config /\ step' = step /\ pc' = pc /\ future' = future /\ callback' = callback
        /\ mem'["hf"] = kept /\ fin["hf"].pc = "append" /\ fin'["hf"].pc = "prune"
        /\ fin'["hf"].step = fin["hf"].step /\ fin'["hf"].doomed = off
    BY <1>9, <1>c DEF FinAppend, ListOf, FinType, Saves, Lists
  <2>2. mem["hf"] \in Seq(Steps) /\ fin["hf"].step \in Steps /\ KeepOf("hf") \in Nat
    BY <2>1, <1>c DEF KeepOf, Lists
  <2>3. End(mem["hf"]) < fin["hf"].step
    BY <2>1, <1>o DEF Known, LastOf, End
  <2>4. InOrder(kept) /\ End(kept) = fin["hf"].step /\ \A i \in DOMAIN off : off[i] < fin["hf"].step
    BY <2>2, <2>3, <1>o, CutKeeps
  <2> HIDE DEF kept, off
  <2>5. Known("hf")' = fin["hf"].step /\ InOrder(mem["hf"])'
    BY <2>1, <2>4 DEF Known, LastOf, End, InOrder
  <2>6. /\ fin["hf"].step <= step /\ callback["hf"] \notin {"registered", "cleared"}
        /\ pc \in HfPcs \ {"HFFinalizing"} => fin["hf"].step < step
    <3>1. CASE AsyncHf
      BY <3>1, <2>1, <1>o, <1>i DEF HfPcs
    <3>2. CASE ~AsyncHf
      BY <3>2, <2>1, <1>o, <1>i, <1>c
    <3> QED BY <3>1, <3>2
  <2> QED BY <2>1, <2>4, <2>5, <2>6, <1>o DEF HfOrder, AsyncHf
<1>10. CASE FinPrune("hf")
  <2>1. /\ config' = config /\ step' = step /\ mem' = mem /\ pc' = pc /\ future' = future /\ callback' = callback
        /\ fin["hf"].pc \in {"prune", "removing"} /\ fin'["hf"].pc \in {"prune", "removing"}
        /\ fin["hf"].doomed # <<>> /\ fin'["hf"].step = fin["hf"].step
        /\ fin'["hf"].doomed \in {fin["hf"].doomed, Tail(fin["hf"].doomed)}
    BY <1>10, <1>c DEF FinPrune, FinType, Saves
  <2>2. \A i \in DOMAIN fin'["hf"].doomed : fin'["hf"].doomed[i] < fin["hf"].step
    <3>1. CASE fin'["hf"].doomed = fin["hf"].doomed
      BY <3>1, <1>o
    <3>2. CASE fin'["hf"].doomed = Tail(fin["hf"].doomed)
      <4>1. \A i \in DOMAIN Tail(fin["hf"].doomed) : \E j \in DOMAIN fin["hf"].doomed :
               Tail(fin["hf"].doomed)[i] = fin["hf"].doomed[j]
        BY <2>1, <1>c, LaterEntries
      <4> QED BY <3>2, <4>1, <1>o
    <3> QED BY <2>1, <3>1, <3>2
  <2> QED BY <1>o, <2>1, <2>2, <1>m DEF HfOrder, AsyncHf
<1>11. CASE FinLink \/ FinOpen("hf") \/ FinWrite("hf") \/ FinHook("hf")
  <2>1. /\ config' = config /\ step' = step /\ mem' = mem /\ pc' = pc /\ future' = future
        /\ callback'["hf"] \in {callback["hf"], "none"}
        /\ \/ /\ fin["hf"].pc # "idle" /\ fin'["hf"].pc # "append"
              /\ fin'["hf"].step = fin["hf"].step /\ fin'["hf"].doomed = fin["hf"].doomed
           \/ fin'["hf"].pc = "idle" /\ fin'["hf"].doomed = <<>>
    BY <1>11, <1>c DEF FinLink, FinOpen, FinWrite, FinHook, FinType, Idle, Saves
  <2> QED BY <1>o, <2>1, <1>m DEF HfOrder, AsyncHf
<1> QED BY <1>0, <1>1, <1>2, <1>3, <1>4, <1>5, <1>6, <1>7, <1>8, <1>9, <1>10, <1>11 DEF FinStep

\* The files of an export, from its commit to the hook: it is whole, recorded last
\* and linked.
HfFiles ==
  /\ config.hf_max_keep = 0 => fin["hf"].doomed = <<>>
  /\ pc = "HFRegister" => future["hf"].state = "writing"
  /\ HfSafe =>
       /\ fin["hf"].pc # "idle" => hf[fin["hf"].step] = "whole"
       /\ callback["hf"] \in {"registered", "cleared"} /\ future["hf"].state = "done" =>
            hf[future["hf"].step] = "whole"
       /\ fin["hf"].pc \in CriticalPcs => Known("hf") = fin["hf"].step
       /\ fin["hf"].pc \in {"open", "write", "hook"} => link = fin["hf"].step
       /\ fin["hf"].pc = "hook" => Filed("hf") = fin["hf"].step

\* In whatever order a list is, its new last entry survives the cut; nothing is
\* cut off when all are kept.
LEMMA CutEnds ==
  ASSUME NEW l \in Seq(Steps), NEW s \in Steps, NEW keep \in Nat
  PROVE  LET longer == Append(l, s)
             over == IF keep > 0 /\ Len(longer) > keep THEN Len(longer) - keep ELSE 0
         IN  /\ End(SubSeq(longer, over + 1, Len(longer))) = s
             /\ keep = 0 => SubSeq(longer, 1, over) = <<>>
<1> DEFINE longer == Append(l, s)
           over == IF keep > 0 /\ Len(longer) > keep THEN Len(longer) - keep ELSE 0
           kept == SubSeq(longer, over + 1, Len(longer))
<1>1. longer \in Seq(Steps) /\ Len(longer) = Len(l) + 1 /\ longer[Len(longer)] = s
  OBVIOUS
<1>2. over \in 0..Len(l) /\ (keep = 0 => over = 0)
  BY <1>1
<1> HIDE DEF longer, over
<1>3. keep = 0 => SubSeq(longer, 1, over) = <<>>
  BY <1>1, <1>2
<1>4. Len(kept) = Len(longer) - over /\ Len(kept) \in 1..Len(kept)
  BY <1>1, <1>2
<1>5. kept[Len(kept)] = longer[Len(longer)]
  BY <1>1, <1>2, <1>4
<1> HIDE DEF kept
<1>6. kept # <<>>
  BY <1>4
<1> QED BY <1>1, <1>3, <1>5, <1>6 DEF End, longer, over, kept

\* The condition on exports holds before a step if it holds after it.
LEMMA SafeBefore ==
  ASSUME Inv, FaultInv, DrainInv, [Next]_vars, HfSafe' PROVE HfSafe
  BY StepsUp, ConfigStays DEF HfSafe

\* Where the threads of an export are.
LEMMA ExportThreads ==
  ASSUME Inv
  PROVE  /\ ~AsyncHf /\ pc # "HFFinalizing" => fin["hf"].pc = "idle"
         /\ ~AsyncHf => callback["hf"] = "none"
         /\ AsyncHf /\ pc \in {"HFLaunch", "HFRegister"} => callback["hf"] = "none" /\ fin["hf"].pc = "idle"
         /\ AsyncHf /\ fin["hf"].pc # "idle" => callback["hf"] = "running"
         /\ pc \in {"HFLaunch", "HFRegister"} => AsyncHf
         /\ pc \in {"HFWriting", "HFFinalizing"} => ~AsyncHf
         /\ fin["hf"].pc # "idle" => fin["hf"].step \in Steps
         /\ future["hf"].state # "none" => future["hf"].step \in Steps
         /\ pc \in HfPcs => step \in Steps
<1>1. /\ ~AsyncHf /\ pc # "HFFinalizing" => fin["hf"].pc = "idle"
      /\ ~AsyncHf => callback["hf"] = "none"
      /\ AsyncHf /\ pc \in {"HFLaunch", "HFRegister"} => callback["hf"] = "none" /\ fin["hf"].pc = "idle"
      /\ AsyncHf /\ fin["hf"].pc # "idle" => callback["hf"] = "running"
      /\ pc \in {"HFLaunch", "HFRegister"} => AsyncHf
      /\ pc \in {"HFWriting", "HFFinalizing"} => ~AsyncHf
  BY DEF Inv, CallbackInv, HandleInv, Async, Awaiting, Preparing, Saves
<1>2. /\ step \in 0..TotalStep /\ fin["hf"].step \in 0..TotalStep /\ future["hf"].step \in 0..TotalStep
  BY DEF Inv, TypeOK, Saves
<1>3. /\ fin["hf"].pc # "idle" => fin["hf"].step # 0
      /\ future["hf"].state # "none" => future["hf"].step # 0
      /\ pc \in HfPcs => step # 0
  BY DEF Inv, StepInv, Saves, HfPcs, Gone
<1> QED BY <1>1, <1>2, <1>3 DEF Steps

\* An export that is recorded and not pruned stays complete.
LEMMA NextHfFiles ==
  ASSUME Inv, Progress, FaultInv, DrainInv, HfOrder, HfFiles, [Next]_vars PROVE HfFiles'
<1> USE DEF main, disk, background, finalizer, job
<1>c. /\ fin \in [Saves -> FinType] /\ future \in [Saves -> FutureType] /\ DOMAIN callback = Saves
      /\ mem \in [Lists -> Seq(Steps)] /\ config.hf_max_keep \in Nat
      /\ fin["hf"].doomed \in Seq(Steps) /\ hf \in [Steps -> {"none", "partial", "whole"}]
  BY ConstantsAssumption DEF Inv, TypeOK, FinType, FutureType, Saves
<1>i. /\ ~AsyncHf /\ pc # "HFFinalizing" => fin["hf"].pc = "idle"
      /\ ~AsyncHf => callback["hf"] = "none"
      /\ AsyncHf /\ pc \in {"HFLaunch", "HFRegister"} => callback["hf"] = "none" /\ fin["hf"].pc = "idle"
      /\ AsyncHf /\ fin["hf"].pc # "idle" => callback["hf"] = "running"
      /\ pc \in {"HFLaunch", "HFRegister"} => AsyncHf
      /\ pc \in {"HFWriting", "HFFinalizing"} => ~AsyncHf
      /\ fin["hf"].pc # "idle" => fin["hf"].step \in Steps
      /\ future["hf"].state # "none" => future["hf"].step \in Steps
      /\ pc \in HfPcs => step \in Steps
  BY ExportThreads
<1>s. config' = config /\ (HfSafe' => HfSafe)
  BY ConfigStays, SafeBefore
<1>m. /\ mem'["hf"] = mem["hf"] => Known("hf")' = Known("hf")
      /\ meta'.lists["hf"] = meta.lists["hf"] => Filed("hf")' = Filed("hf")
  BY DEF Known, Filed, LastOf
<1> USE <1>s, <1>m
<1>1. CASE CkptStep \/ Rest \/ UNCHANGED vars
  <2>1. /\ UNCHANGED <<hf, link, step>>
        /\ mem'["hf"] = mem["hf"] /\ meta'.lists["hf"] = meta.lists["hf"]
        /\ future'["hf"] = future["hf"] /\ callback'["hf"] = callback["hf"] /\ fin'["hf"] = fin["hf"]
        /\ pc' = pc \/ pc' \notin HfPcs
    BY <1>1, CheckpointSide DEF Rest, vars
  <2> QED BY <2>1 DEF HfFiles, HfPcs
<1>2. CASE TrainStep \/ SkipHF \/ HFFinalized \/ WaitHF
  <2>1. /\ UNCHANGED <<hf, link, mem, meta, future, callback, fin>> /\ pc' # "HFRegister"
    BY <1>2 DEF TrainStep, SkipHF, HFFinalized, WaitHF, WaitForPending, Goto
  <2> QED BY <2>1 DEF HfFiles
<1>3. CASE SaveHFBegin
  <2>1. fin' = fin /\ callback' = callback /\ pc = "HF" /\ pc' = "HFWriting" /\ ~AsyncHf
    BY <1>3 DEF SaveHFBegin, Goto
  <2> QED BY <2>1, <1>i DEF HfFiles, CriticalPcs
<1>4. CASE SaveHFEnd
  <2>1. /\ callback' = callback /\ pc = "HFWriting" /\ pc' = "HFFinalizing" /\ hf' = [hf EXCEPT ![step] = "whole"]
    BY <1>4 DEF SaveHFEnd, Goto
  <2>2. fin'["hf"].pc = "append" /\ fin'["hf"].step = step /\ fin'["hf"].doomed = <<>>
    BY <1>4, <1>c DEF SaveHFEnd, Idle, Saves
  <2>3. hf'[step] = "whole" /\ callback["hf"] = "none"
    BY <2>1, <1>c, <1>i DEF HfPcs
  <2> QED BY <2>1, <2>2, <2>3 DEF HfFiles, CriticalPcs
<1>5. CASE LaunchHF
  <2>1. /\ callback' = callback /\ fin' = fin /\ pc = "HFLaunch"
        /\ pc' = "Raised" \/ (pc' = "HFRegister" /\ future'["hf"].state = "writing")
    <3>1. CASE handle
      BY <1>5, <3>1 DEF LaunchHF, Goto
    <3>2. CASE ~handle
      BY <1>5, <3>2, <1>c DEF LaunchHF, Goto, NoFuture, Saves
    <3> QED BY <3>1, <3>2
  <2> QED BY <2>1, <1>i DEF HfFiles, CriticalPcs
<1>6. CASE RegisterHF
  <2>1. /\ UNCHANGED <<hf, link, mem, meta, future, fin>> /\ pc = "HFRegister" /\ pc' = "Ckpt"
    BY <1>6 DEF RegisterHF, Goto
  <2> QED BY <2>1 DEF HfFiles
<1>7. CASE CommitHF
  <2>1. /\ callback["hf"] = "registered" /\ callback' = callback /\ fin' = fin /\ pc' = pc
        /\ future["hf"].state = "writing"
    BY <1>7 DEF CommitHF
  <2>2. future'["hf"].state = "done" => hf'[future'["hf"].step] = "whole"
    <3>1. CASE hf[future["hf"].step] # "none"
      BY <1>7, <2>1, <3>1 DEF CommitHF
    <3>2. CASE hf[future["hf"].step] = "none"
      <4>1. /\ hf' = [hf EXCEPT ![future["hf"].step] = "whole"]
            /\ future' = [future EXCEPT !["hf"].state = "done"]
        BY <1>7, <3>2 DEF CommitHF
      <4>2. future'["hf"].step = future["hf"].step
        BY <4>1, <1>c DEF FutureType, Saves
      <4> QED BY <4>1, <4>2, <2>1, <1>c, <1>i
    <3> QED BY <3>1, <3>2
  <2>3. fin["hf"].pc = "idle" /\ pc # "HFRegister"
    BY <2>1, <1>i
  <2> QED BY <2>1, <2>2, <2>3 DEF HfFiles, CriticalPcs
<1>8. CASE ClearPendingHF
  <2>1. /\ UNCHANGED <<hf, link, mem, meta, future, fin, pc>> /\ callback["hf"] = "registered"
    BY <1>8 DEF ClearPendingHF
  <2> QED BY <2>1 DEF HfFiles
<1>9. CASE RunCallback("hf")
  <2>1. /\ UNCHANGED <<hf, link, mem, meta, future, pc>> /\ callback["hf"] = "cleared"
    BY <1>9 DEF RunCallback
  <2>2. fin["hf"].pc = "idle" /\ pc # "HFRegister"
    BY <2>1, <1>i
  <2>3. CASE future["hf"].state = "done"
    <3>1. /\ callback' = [callback EXCEPT !["hf"] = "running"]
          /\ fin' = [fin EXCEPT !["hf"] = [Idle EXCEPT !.pc = "append", !.step = future["hf"].step,
                                                      !.to = future["hf"].to]]
      BY <1>9, <2>3 DEF RunCallback
    <3>2. /\ fin'["hf"].pc = "append" /\ fin'["hf"].step = future["hf"].step /\ fin'["hf"].doomed = <<>>
      BY <3>1, <1>c DEF Idle, Saves
    <3>3. callback'["hf"] = "running"
      BY <3>1, <1>c DEF Saves
    <3> QED BY <2>1, <2>2, <2>3, <3>2, <3>3 DEF HfFiles, CriticalPcs
  <2>4. CASE future["hf"].state # "done"
    <3>1. fin' = fin /\ callback' = [callback EXCEPT !["hf"] = "none"]
      BY <1>9, <2>4 DEF RunCallback
    <3>2. callback'["hf"] = "none"
      BY <3>1, <1>c DEF Saves
    <3> QED BY <2>1, <2>2, <3>1, <3>2 DEF HfFiles, CriticalPcs
  <2> QED BY <2>3, <2>4
<1>10. CASE FailSave("hf")
  <2>1. /\ UNCHANGED <<hf, link, mem, meta, callback, fin, pc>> /\ callback["hf"] = "registered"
        /\ future'["hf"].state = "failed"
    BY <1>10, <1>c DEF FailSave, FutureType, Saves
  <2>2. fin["hf"].pc = "idle" /\ pc # "HFRegister"
    BY <2>1, <1>i
  <2> QED BY <2>1, <2>2 DEF HfFiles, CriticalPcs
<1>11. CASE FinAppend("hf")
  <2> DEFINE longer == Append(mem["hf"], fin["hf"].step)
             over == IF KeepOf("hf") > 0 /\ Len(longer) > KeepOf("hf") THEN Len(longer) - KeepOf("hf") ELSE 0
             kept == SubSeq(longer, over + 1, Len(longer))
             off == SubSeq(longer, 1, over)
  <2>1. /\ UNCHANGED <<hf, link, meta, future, callback, pc>>
        /\ mem'["hf"] = kept /\ fin["hf"].pc = "append" /\ fin'["hf"].pc = "prune"
        /\ fin'["hf"].step = fin["hf"].step /\ fin'["hf"].doomed = off
    BY <1>11, <1>c DEF FinAppend, ListOf, FinType, Saves, Lists
  <2>2. mem["hf"] \in Seq(Steps) /\ fin["hf"].step \in Steps /\ KeepOf("hf") \in Nat /\ KeepOf("hf") = config.hf_max_keep
    BY <2>1, <1>c, <1>i DEF KeepOf, Lists
  <2>3. End(kept) = fin["hf"].step /\ (config.hf_max_keep = 0 => off = <<>>)
    BY <2>2, CutEnds
  <2> HIDE DEF kept, off
  <2>4. Known("hf")' = fin["hf"].step
    BY <2>1, <2>3 DEF Known, LastOf, End
  <2> QED BY <2>1, <2>3, <2>4 DEF HfFiles
<1>12. CASE FinPrune("hf")
  <2>1. /\ UNCHANGED <<link, mem, meta, future, callback, pc>>
        /\ fin["hf"].pc \in {"prune", "removing"} /\ fin'["hf"].pc \in {"prune", "removing"}
        /\ fin["hf"].doomed # <<>> /\ fin'["hf"].step = fin["hf"].step
        /\ \E v \in {"none", "partial"} : hf' = [hf EXCEPT ![Head(fin["hf"].doomed)] = v]
    BY <1>12, <1>c DEF FinPrune, FinType, Saves
  <2>2. config.hf_max_keep # 0 /\ (HfSafe => NeverDied)
    BY <2>1 DEF HfFiles, HfSafe
  <2>3. 1 \in DOMAIN fin["hf"].doomed /\ Head(fin["hf"].doomed) = fin["hf"].doomed[1] /\ Head(fin["hf"].doomed) \in Steps
    BY <2>1, <1>c
  <2>4. HfSafe => Head(fin["hf"].doomed) # fin["hf"].step
    BY <2>2, <2>3, <2>1, <1>i DEF HfOrder, Steps
  <2>5. HfSafe => hf'[fin["hf"].step] = hf[fin["hf"].step]
    BY <2>1, <2>4, <1>c, <1>i
  <2>6. callback["hf"] \notin {"registered", "cleared"}
    BY <2>1, <1>i
  <2> QED BY <2>1, <2>2, <2>5, <2>6 DEF HfFiles, CriticalPcs
<1>13. CASE FinLink
  <2>1. /\ UNCHANGED <<mem, meta, future, callback, pc>> /\ link' = fin["hf"].step
        /\ fin["hf"].pc = "prune" /\ fin'["hf"].pc = "open" /\ fin'["hf"].step = fin["hf"].step
        /\ fin["hf"].doomed = <<>> /\ fin'["hf"].doomed = <<>>
        /\ hf' = [hf EXCEPT ![fin["hf"].step] = IF hf[fin["hf"].step] = "none" THEN "partial" ELSE hf[fin["hf"].step]]
    BY <1>13, <1>c DEF FinLink, FinType, Saves
  <2>2. HfSafe => hf'[fin["hf"].step] = "whole"
    BY <2>1, <1>c, <1>i DEF HfFiles
  <2>3. callback["hf"] \notin {"registered", "cleared"}
    BY <2>1, <1>i
  <2> QED BY <2>1, <2>2, <2>3 DEF HfFiles, CriticalPcs
<1>14. CASE FinOpen("hf") \/ FinWrite("hf")
  <2>1. /\ UNCHANGED <<hf, link, mem, future, callback, pc>>
        /\ fin'["hf"].step = fin["hf"].step /\ fin'["hf"].doomed = fin["hf"].doomed
        /\ \/ fin["hf"].pc = "open" /\ fin'["hf"].pc = "write"
           \/ fin["hf"].pc = "write" /\ fin'["hf"].pc = "hook" /\ meta'.lists = mem
    BY <1>14, <1>c DEF FinOpen, FinWrite, FinType, Saves
  <2>2. meta'.lists = mem => Filed("hf")' = Known("hf")
    BY DEF Filed, Known, LastOf
  <2> QED BY <2>1, <2>2 DEF HfFiles, CriticalPcs
<1>15. CASE FinHook("hf")
  <2>1. /\ UNCHANGED <<hf, future, pc>> /\ fin["hf"].pc = "hook"
        /\ fin'["hf"].pc = "idle" /\ fin'["hf"].doomed = <<>> /\ callback'["hf"] \in {"none", callback["hf"]}
    BY <1>15, <1>c DEF FinHook, Idle, Saves
  <2>2. callback["hf"] \notin {"registered", "cleared"}
    BY <2>1, <1>i
  <2> QED BY <2>1, <2>2 DEF HfFiles, CriticalPcs
<1>16. CASE Die
  <2>1. pc' = "Down" /\ callback'["hf"] = "none" /\ fin'["hf"].pc = "idle" /\ fin'["hf"].doomed = <<>>
    BY <1>16 DEF Die, Idle, Saves
  <2> QED BY <2>1 DEF HfFiles, CriticalPcs
<1>17. CASE Restart
  <2>1. pc = "Down" /\ pc' \in {"Train", "Unloadable"} /\ callback' = callback /\ fin' = fin
    BY <1>17 DEF Restart, Goto
  <2>2. callback["hf"] = "none" /\ fin["hf"].pc = "idle"
    BY <2>1 DEF Inv, DownInv, Gone, Saves
  <2> QED BY <2>1, <2>2 DEF HfFiles, CriticalPcs
<1> QED BY <1>1, <1>2, <1>3, <1>4, <1>5, <1>6, <1>7, <1>8, <1>9, <1>10, <1>11, <1>12, <1>13, <1>14, <1>15, <1>16, <1>17
       DEF Next, MainStep, SaveStep, FinStep, CkptStep, Saves, Crash, Terminate

\* The export of step s is on disk, recorded last and linked.
Out(s) == Filed("hf") = s /\ hf[s] = "whole" /\ link = s

\* A synchronous export is out when the main thread goes on.
SyncDone ==
  pc = "HFFinalizing" => IF fin["hf"].pc = "idle" THEN HfSafe => Out(step) ELSE fin["hf"].step = step

\* The checkpoint of the last step is recorded after the synchronous export of
\* that step, so that a job resumed from it has nothing left to export.
SyncOut ==
  HfSafe /\ config.hf # 0 /\ ~AsyncHf =>
    /\ LatestCheckpoint(meta.lists).step = TotalStep => Out(TotalStep)
    /\ step = TotalStep /\ pc \notin {"HF", "HFWriting", "HFFinalizing"} \cup Gone => Out(TotalStep)

\* An asynchronous export whose callback has ended is out, and the last one
\* launched is of the last step.
AsyncOut ==
  NeverDied /\ config.hf # 0 /\ AsyncHf =>
    /\ future["hf"].state # "none" /\ callback["hf"] = "none" /\ pc # "HFRegister" => Out(future["hf"].step)
    /\ step = TotalStep /\ pc \notin {"HF", "HFLaunch"} =>
         future["hf"].step = TotalStep /\ future["hf"].state # "none"

\* The export just finished is out.
LEMMA HookedIsOut ==
  ASSUME Inv, HfFiles, HfSafe, FinHook("hf")
  PROVE  Out(fin["hf"].step) /\ UNCHANGED <<hf, link, meta>>
  BY DEF FinHook, HfFiles, Out, disk

\* A synchronous export is out when the main thread gets on from its finalizer.
LEMMA NextSyncDone ==
  ASSUME Inv, Progress, FaultInv, DrainInv, HfOrder, HfFiles, SyncDone, [Next]_vars PROVE SyncDone'
<1> USE DEF main, disk, background, finalizer, job
<1>c. /\ fin \in [Saves -> FinType] /\ DOMAIN callback = Saves
  BY DEF Inv, TypeOK, FinType
<1>s. config' = config /\ (HfSafe' => HfSafe)
  BY ConfigStays, SafeBefore
<1> SUFFICES ASSUME pc' = "HFFinalizing" PROVE SyncDone'
  BY DEF SyncDone
<1>1. CASE CkptStep \/ Rest \/ UNCHANGED vars
  <2>1. /\ UNCHANGED <<hf, link, step>> /\ meta'.lists["hf"] = meta.lists["hf"] /\ fin'["hf"] = fin["hf"] /\ pc' = pc
    BY <1>1, CheckpointSide DEF Rest, vars, HfPcs
  <2>2. Out(step)' <=> Out(step)
    BY <2>1 DEF Out, Filed, LastOf
  <2> QED BY <1>s, <2>1, <2>2 DEF SyncDone
<1>2. CASE MainStep /\ ~CkptStep
  <2>1. SaveHFEnd
    BY <1>2 DEF MainStep, CkptStep, TrainStep, SkipHF, SaveHFBegin, HFFinalized, WaitHF, LaunchHF, RegisterHF, Goto
  <2>2. fin'["hf"].pc = "append" /\ fin'["hf"].step = step /\ step' = step
    BY <2>1, <1>c DEF SaveHFEnd, Idle, Saves
  <2> QED BY <2>2 DEF SyncDone
<1>3. CASE SaveStep("hf") \/ FailSave("hf")
  <2>1. callback["hf"] # "none" /\ pc' = pc
    BY <1>3 DEF SaveStep, CommitHF, ClearPendingHF, RunCallback, FailSave
  <2> QED BY <2>1, ExportThreads
<1>4. CASE FinStep("hf") /\ ~FinHook("hf")
  <2>1. /\ pc' = pc /\ step' = step /\ fin["hf"].pc # "idle" /\ fin'["hf"].pc # "idle" /\ fin'["hf"].step = fin["hf"].step
    <3>1. CASE FinAppend("hf") \/ FinPrune("hf")
      BY <3>1, <1>c DEF FinAppend, FinPrune, FinType, Saves
    <3>2. CASE FinLink \/ FinOpen("hf") \/ FinWrite("hf")
      BY <3>2, <1>c DEF FinLink, FinOpen, FinWrite, FinType, Saves
    <3> QED BY <1>4, <3>1, <3>2 DEF FinStep
  <2> QED BY <2>1 DEF SyncDone
<1>5. CASE FinHook("hf")
  <2>1. pc' = pc /\ step' = step /\ fin["hf"].pc = "hook" /\ fin'["hf"].pc = "idle"
    BY <1>5, <1>c DEF FinHook, Idle, Saves
  <2>2. HfSafe => Out(step)
    BY <1>5, <2>1, HookedIsOut DEF SyncDone
  <2>3. Out(step)' <=> Out(step)
    BY <1>5, <2>1 DEF FinHook, Out, Filed, LastOf
  <2> QED BY <1>s, <2>1, <2>2, <2>3 DEF SyncDone
<1>6. CASE Crash \/ Terminate \/ Restart
  BY <1>6 DEF Crash, Terminate, Die, Restart, Goto
<1> QED BY <1>1, <1>2, <1>3, <1>4, <1>5, <1>6 DEF Next, CkptStep, Saves

\* With synchronous exports the last one is out once the training is past it.
LEMMA NextSyncOut ==
  ASSUME Inv, Progress, FaultInv, DrainInv, HfFiles, SyncDone, SyncOut, [Next]_vars PROVE SyncOut'
<1> USE DEF main, disk, background, finalizer, job
<1>s. config' = config /\ (HfSafe' => HfSafe)
  BY ConfigStays, SafeBefore
<1> SUFFICES ASSUME HfSafe', HfSafe, config.hf # 0, ~AsyncHf PROVE SyncOut'
  BY <1>s DEF SyncOut, AsyncHf
<1> DEFINE Kept == LatestCheckpoint(meta.lists).step = TotalStep
<1>t. TotalStep \in Nat /\ TotalStep # 0
  BY ConstantsAssumption
<1>c. /\ meta.lists \in [Lists -> Seq(Steps)] /\ mem \in [Lists -> Seq(Steps)] /\ step \in 0..TotalStep
  BY DEF Inv, TypeOK
<1>k. \A l \in Dcp : Known(l) \in 0..TotalStep /\ Filed(l) \in 0..TotalStep
  BY KnownType DEF Inv, Lists
<1>n. Kept' => Out(TotalStep) /\ pc \notin Early
  <2> SUFFICES ASSUME Kept' PROVE Out(TotalStep) /\ pc \notin Early
    OBVIOUS
  <2>1. CASE meta'.lists = meta.lists
    <3>1. Kept
      BY <2>1
    <3>2. PICK l \in Dcp : Filed(l) = TotalStep
      BY <3>1, <1>c, LatestIs DEF Filed
    <3>3. pc \in Early => Filed(l) <= Known(l) /\ Known(l) < step
      BY DEF Progress, OrderInv, Early, Gone
    <3> QED BY <3>1, <3>2, <3>3, <1>k, <1>c, <1>t DEF SyncOut
  <2>2. CASE meta'.lists # meta.lists
    <3>1. PICK k \in Saves : meta'.lists = mem /\ fin[k].pc = "write"
      BY <2>2, FileChanges
    <3>2. LatestCheckpoint(mem).step = TotalStep
      BY <3>1
    <3>3. PICK l \in Dcp : Known(l) = TotalStep
      BY <3>2, <1>c, LatestIs DEF Known
    <3>4. pc \notin Gone
      BY <3>1 DEF Inv, DownInv
    <3>5. Known(l) <= step /\ (pc \in Early => Known(l) < step)
      BY <3>4 DEF Progress, OrderInv
    <3>6. step = TotalStep /\ pc \notin Early
      BY <3>3, <3>5, <1>c, <1>k, <1>t
    <3> QED BY <3>4, <3>6 DEF SyncOut, Early
  <2> QED BY <2>1, <2>2
<1>a. SUFFICES /\ Kept' => Out(TotalStep)'
               /\ step' = TotalStep /\ pc' \notin {"HF", "HFWriting", "HFFinalizing"} \cup Gone => Out(TotalStep)'
  BY DEF SyncOut
<1> HIDE DEF Kept
<1>i. /\ pc # "HFFinalizing" => fin["hf"].pc = "idle"
      /\ callback["hf"] = "none"
      /\ pc \notin {"HFLaunch", "HFRegister"}
  BY ExportThreads
<1>1. CASE CkptStep \/ Rest \/ UNCHANGED vars
  <2>1. /\ UNCHANGED <<hf, link, step>> /\ meta'.lists["hf"] = meta.lists["hf"]
        /\ pc' = pc \/ (pc \notin HfPcs \cup Gone /\ pc' \notin HfPcs \cup Gone)
    BY <1>1, CheckpointSide DEF Rest, vars
  <2>2. Out(TotalStep)' <=> Out(TotalStep)
    BY <2>1 DEF Out, Filed, LastOf
  <2> QED BY <1>n, <2>1, <2>2 DEF SyncOut, HfPcs
<1>2. CASE TrainStep \/ SkipHF \/ HFFinalized
  <2>1. UNCHANGED <<hf, link, meta>>
    BY <1>2 DEF TrainStep, SkipHF, HFFinalized
  <2>2. Out(TotalStep)' <=> Out(TotalStep)
    BY <2>1 DEF Out, Filed, LastOf
  <2>3. step' = TotalStep /\ pc' \notin {"HF", "HFWriting", "HFFinalizing"} \cup Gone => Out(TotalStep)
    <3>1. CASE TrainStep
      BY <3>1 DEF TrainStep, Goto
    <3>2. CASE SkipHF
      BY <3>2 DEF SkipHF, HfDue
    <3>3. CASE HFFinalized
      BY <3>3 DEF HFFinalized, Goto, SyncDone
    <3> QED BY <1>2, <3>1, <3>2, <3>3
  <2> QED BY <1>n, <2>2, <2>3
<1>3. CASE SaveHFBegin \/ SaveHFEnd \/ FinStep("hf")
  <2>1. pc \in Early /\ pc' \in {"HFWriting", "HFFinalizing"}
    <3>1. CASE SaveHFBegin \/ SaveHFEnd
      BY <3>1 DEF SaveHFBegin, SaveHFEnd, Goto, Early
    <3>2. CASE FinStep("hf")
      <4>1. fin["hf"].pc # "idle" /\ pc' = pc
        BY <3>2 DEF FinStep, FinAppend, FinPrune, FinLink, FinOpen, FinWrite, FinHook
      <4> QED BY <4>1, <1>i DEF Early
    <3> QED BY <1>3, <3>1, <3>2
  <2> QED BY <1>n, <2>1
<1>4. CASE WaitHF \/ LaunchHF \/ RegisterHF \/ SaveStep("hf") \/ FailSave("hf")
  BY <1>4, <1>i DEF WaitHF, LaunchHF, RegisterHF, Goto, SaveStep, CommitHF, ClearPendingHF, RunCallback, FailSave
<1>5. CASE Die
  <2>1. UNCHANGED <<hf, link, meta>> /\ pc' = "Down"
    BY <1>5 DEF Die
  <2>2. Out(TotalStep)' <=> Out(TotalStep)
    BY <2>1 DEF Out, Filed, LastOf
  <2> QED BY <1>n, <2>1, <2>2 DEF Gone
<1>6. CASE Restart
  <2>1. meta' = meta /\ (step' = 0 \/ step' = LatestCheckpoint(meta.lists).step)
    BY <1>6 DEF Restart
  <2>2. step' = TotalStep => Kept'
    BY <2>1, <1>t DEF Kept
  <2>3. CASE meta.state = "empty"
    <3>1. LatestCheckpoint(meta.lists).step = 0
      BY <2>3 DEF Progress, ListInv, NoLists, LatestCheckpoint, LastOf, Lists, Dcp
    <3> QED BY <2>1, <2>2, <3>1, <1>t DEF Kept
  <2>4. CASE meta.state # "empty"
    <3>1. hf' = hf /\ link' = link
      BY <1>6, <2>4 DEF Restart
    <3>2. Out(TotalStep)' <=> Out(TotalStep)
      BY <2>1, <3>1 DEF Out, Filed, LastOf
    <3> QED BY <2>2, <3>2, <1>n
  <2> QED BY <2>3, <2>4
<1> QED BY <1>1, <1>2, <1>3, <1>4, <1>5, <1>6
       DEF Next, MainStep, CkptStep, Saves, Crash, Terminate

\* With background exports, in a job that never died, it is out once it was drained.
LEMMA NextAsyncOut ==
  ASSUME Inv, Progress, FaultInv, DrainInv, HfOrder, HfFiles, AsyncOut, [Next]_vars PROVE AsyncOut'
<1> USE DEF main, disk, background, finalizer, job
<1>s. config' = config
  BY ConfigStays
<1> SUFFICES ASSUME NeverDied', config.hf # 0, AsyncHf PROVE AsyncOut'
  BY <1>s DEF AsyncOut, AsyncHf
<1>0. NeverDied /\ pc \notin Gone /\ future["hf"].state # "failed"
  BY StepsUp
<1>p. \/ CkptStep \/ Rest \/ UNCHANGED vars
      \/ TrainStep \/ SkipHF \/ SaveHFBegin \/ SaveHFEnd \/ HFFinalized \/ WaitHF \/ LaunchHF \/ RegisterHF
      \/ CommitHF \/ ClearPendingHF \/ RunCallback("hf") \/ FinStep("hf")
  BY StepsUp
<1>c. /\ fin \in [Saves -> FinType] /\ future \in [Saves -> FutureType] /\ DOMAIN callback = Saves
  BY DEF Inv, TypeOK, FinType, FutureType
<1>o. /\ future["hf"].state # "none" /\ callback["hf"] = "none" /\ pc # "HFRegister" => Out(future["hf"].step)
      /\ step = TotalStep /\ pc \notin {"HF", "HFLaunch"} =>
           future["hf"].step = TotalStep /\ future["hf"].state # "none"
  BY <1>0 DEF AsyncOut
<1>i. /\ pc \in {"HFLaunch", "HFRegister"} => callback["hf"] = "none" /\ fin["hf"].pc = "idle"
      /\ fin["hf"].pc # "idle" => callback["hf"] = "running"
      /\ pc \notin {"HFWriting", "HFFinalizing"}
  BY ExportThreads
<1>1. CASE CkptStep \/ Rest \/ UNCHANGED vars
  <2>1. /\ UNCHANGED <<hf, link, step>> /\ meta'.lists["hf"] = meta.lists["hf"]
        /\ future'["hf"] = future["hf"] /\ callback'["hf"] = callback["hf"]
        /\ pc' = pc \/ (pc \notin HfPcs \cup Gone /\ pc' \notin HfPcs \cup Gone)
    BY <1>1, CheckpointSide DEF Rest, vars
  <2>2. Out(future["hf"].step)' <=> Out(future["hf"].step)
    BY <2>1 DEF Out, Filed, LastOf
  <2> QED BY <1>o, <2>1, <2>2 DEF AsyncOut, HfPcs
<1>2. CASE TrainStep \/ SkipHF \/ WaitHF
  <2>1. /\ UNCHANGED <<hf, link, meta, future, callback>> /\ pc' \in {"HF", "Ckpt", "HFLaunch"} /\ pc # "HFRegister"
        /\ pc' = "Ckpt" => step' = step /\ step # TotalStep
    BY <1>2 DEF TrainStep, SkipHF, WaitHF, WaitForPending, HfDue, Goto
  <2>2. Out(future["hf"].step)' <=> Out(future["hf"].step)
    BY <2>1 DEF Out, Filed, LastOf
  <2> QED BY <1>o, <2>1, <2>2 DEF AsyncOut
<1>3. CASE SaveHFBegin \/ SaveHFEnd \/ HFFinalized
  BY <1>3, <1>i DEF SaveHFBegin, SaveHFEnd, HFFinalized, Goto
<1>4. CASE LaunchHF
  <2>1. ~handle /\ step' = step
    BY <1>4, <1>i DEF LaunchHF, Goto, Inv, HandleInv
  <2>2. pc' = "HFRegister" /\ future'["hf"].step = step /\ future'["hf"].state = "writing"
    BY <1>4, <2>1, <1>c DEF LaunchHF, Goto, NoFuture, Saves
  <2> QED BY <2>1, <2>2 DEF AsyncOut
<1>5. CASE RegisterHF
  <2>1. /\ step' = step /\ future' = future /\ pc = "HFRegister" /\ callback'["hf"] = "registered"
    BY <1>5, <1>c DEF RegisterHF, Goto, Saves
  <2> QED BY <1>o, <2>1 DEF AsyncOut
<1>6. CASE CommitHF \/ ClearPendingHF
  <2>1. /\ pc' = pc /\ step' = step /\ future'["hf"].step = future["hf"].step
        /\ future'["hf"].state # "none" /\ callback'["hf"] # "none"
    BY <1>6, <1>c DEF CommitHF, ClearPendingHF, FutureType, Saves
  <2> QED BY <1>o, <2>1 DEF AsyncOut
<1>7. CASE RunCallback("hf")
  <2>1. pc' = pc /\ step' = step /\ future' = future /\ callback' = [callback EXCEPT !["hf"] = "running"]
    BY <1>7, <1>0 DEF RunCallback
  <2>2. callback'["hf"] = "running"
    BY <2>1, <1>c DEF Saves
  <2> QED BY <1>o, <2>1, <2>2 DEF AsyncOut
<1>8. CASE FinStep("hf") /\ ~FinHook("hf")
  <2>1. pc' = pc /\ step' = step /\ future' = future /\ callback' = callback /\ fin["hf"].pc # "idle"
    BY <1>8 DEF FinStep, FinAppend, FinPrune, FinLink, FinOpen, FinWrite
  <2> QED BY <1>o, <1>i, <2>1 DEF AsyncOut
<1>9. CASE FinHook("hf")
  <2>1. pc' = pc /\ step' = step /\ future' = future /\ fin["hf"].pc = "hook" /\ UNCHANGED <<hf, link, meta>>
    BY <1>9 DEF FinHook
  <2>2. fin["hf"].step = future["hf"].step
    BY <2>1, <1>0 DEF HfOrder
  <2>3. Out(future["hf"].step)
    BY <1>9, <1>0, <2>2, HookedIsOut DEF HfSafe
  <2>4. Out(future["hf"].step)'
    BY <2>1, <2>3 DEF Out, Filed, LastOf
  <2> QED BY <1>o, <2>1, <2>4 DEF AsyncOut
<1> QED BY <1>p, <1>1, <1>2, <1>3, <1>4, <1>5, <1>6, <1>7, <1>8, <1>9

-----------------------------------------------------------------------------
(* The whole invariant. *)

\* A job that can be resumed is.
Reloads == Resumable /\ ~TornWrites => RestartSucceeds

Durable == /\ Inv /\ Progress /\ Files /\ Resume /\ Reloads /\ DrainInv /\ TotalIsWhole /\ FinalInv
           /\ HfOrder /\ HfFiles /\ SyncDone /\ SyncOut /\ AsyncOut

\* A job that starts satisfies the invariant.
LEMMA InitDurable == Init => Durable
<1> SUFFICES ASSUME Init PROVE Durable
  OBVIOUS
<1>1. Inv
  BY InitInv
<1>c. /\ \A l \in Lists : Known(l) = 0 /\ Filed(l) = 0 /\ mem[l] = <<>> /\ meta.lists[l] = <<>>
      /\ \A k \in Saves : fin[k].pc = "idle" /\ fin[k].doomed = <<>> /\ callback[k] = "none"
                          /\ future[k].state = "none" /\ future[k].step = 0
      /\ pc = "Train" /\ step = 0 /\ lock = "none" /\ meta.state = "empty" /\ ~failed
      /\ crashes = 0 /\ failures = 0 /\ mem = NoLists /\ meta.lists = NoLists
      /\ TotalStep \in Nat /\ TotalStep # 0 /\ config \in Configs
  BY ConstantsAssumption DEF Init, Known, Filed, LastOf, NoLists, Idle, NoFuture
<1>d. config.failures \in Nat /\ config.crashes \in Nat
  BY <1>c, ConstantsAssumption
<1> USE <1>c DEF Dcp, Lists, Saves
<1>2. Progress
  BY DEF Progress, ListInv, LagInv, OrderInv, InOrder, Early, Writing, Gone, CriticalPcs
<1>3. Files
  <2>1. \A l \in Dcp, s \in Steps : Clean(l, s)
    BY DEF Init, Clean
  <2> QED BY <2>1 DEF Files, DoomInv, DirsInv, Writing
<1>4. Resume
  BY <1>d DEF Resume, FaultInv, NoSnapshots, LastIsWhole, Writing, Gone
<1>5. Reloads /\ DrainInv /\ TotalIsWhole
  BY DEF Reloads, RestartSucceeds, DrainInv, TotalIsWhole
<1>6. FinalInv
  BY DEF FinalInv, Writing, Past
<1>7. HfOrder /\ HfFiles
  BY DEF HfOrder, HfFiles, InOrder, HfPcs, CriticalPcs
<1>8. SyncDone /\ AsyncOut
  BY DEF SyncDone, AsyncOut
<1>9. SyncOut
  <2>1. LatestCheckpoint(meta.lists).step = 0
    BY DEF LatestCheckpoint, Filed
  <2> QED BY <2>1 DEF SyncOut
<1> QED BY <1>1, <1>2, <1>3, <1>4, <1>5, <1>6, <1>7, <1>8, <1>9 DEF Durable

\* A job that went down finds a complete checkpoint or starts anew.
LEMMA NextReloads ==
  ASSUME Inv, Resume, Reloads, [Next]_vars PROVE Reloads'
<1>s. config' = config
  BY ConfigStays
<1> SUFFICES ASSUME Resumable, ~TornWrites, pc # "Unloadable", pc' = "Unloadable" PROVE FALSE
  BY <1>s DEF Reloads, Resumable, RestartSucceeds
<1> USE DEF main, disk, background, finalizer, job
<1>1. ~MainStep
  BY DEF Goto, MainStep, TrainStep, SkipHF, SaveHFBegin, SaveHFEnd, HFFinalized, WaitHF, LaunchHF,
     RegisterHF, MaybeSaveCkpt, MaybeSaveSnap, MkDir, WaitCkpt, SaveDcpBegin, SaveDcpEnd, LaunchDcp,
     SaveState, RegisterDcp, DcpFinalized, DrainHF, DrainDcp, StopMonitor
<1>2. \A k \in Saves : ~SaveStep(k) /\ ~FailSave(k) /\ ~FinStep(k)
  BY DEF SaveStep, FailSave, FinStep, CommitDcp, CommitHF, ClearPendingHF, RunCallback,
     FinAppend, FinPrune, FinLink, FinOpen, FinWrite, FinHook
<1>3. Restart
  BY <1>1, <1>2 DEF Next, Crash, Terminate, Die, Rest, vars
<1>4. pc = "Down" /\ meta.state = "ok"
  BY <1>3 DEF Restart, Goto, Resume, FaultInv, Gone, Inv, TypeOK
<1>5. config.snapshot = 0 /\ config.maxkeep # 1
  <2>1. config \in Configs /\ crashes \in Nat /\ failures \in Nat /\ config.crashes \in Nat /\ config.failures \in Nat
    BY ConstantsAssumption DEF Inv, TypeOK
  <2> QED BY <1>4, <2>1 DEF Resumable, Survivable, Resume, FaultInv, Gone
<1>6. LastOf(meta.lists, "snapshot") = 0
  BY <1>5 DEF Resume, NoSnapshots, LastOf
<1>7. LastOf(meta.lists, "ckpt") \in 0..TotalStep
  BY KnownType DEF Inv, Filed, Lists, Dcp
<1>8. CASE LastOf(meta.lists, "ckpt") = 0
  <2>1. LatestCheckpoint(meta.lists).step = 0
    BY <1>6, <1>8 DEF LatestCheckpoint
  <2> QED BY <1>3, <1>4, <2>1 DEF Restart, Goto
<1>9. CASE LastOf(meta.lists, "ckpt") # 0
  <2>1. LatestCheckpoint(meta.lists).step = LastOf(meta.lists, "ckpt") /\ LatestCheckpoint(meta.lists).to = "ckpt"
    BY <1>6, <1>7, <1>9 DEF LatestCheckpoint
  <2>2. Whole("ckpt", LastOf(meta.lists, "ckpt"))
    BY <1>5, <1>9 DEF Resume, LastIsWhole, Filed
  <2> QED BY <1>3, <1>4, <2>1, <2>2 DEF Restart, Goto
<1> QED BY <1>8, <1>9

\* Every step keeps the invariant.
LEMMA NextDurable == Durable /\ [Next]_vars => Durable'
<1> SUFFICES ASSUME Durable, [Next]_vars PROVE Durable'
  OBVIOUS
<1>0. /\ Inv /\ Progress /\ Files /\ Resume /\ Reloads /\ DrainInv /\ TotalIsWhole /\ FinalInv
      /\ HfOrder /\ HfFiles /\ SyncDone /\ SyncOut /\ AsyncOut /\ FaultInv /\ NoSnapshots /\ LastIsWhole
  BY DEF Durable, Resume
<1>1. Inv'
  BY <1>0, NextInv
<1>2. Progress' /\ Files'
  <2>1. CASE MainStep
    BY <2>1, <1>0, <1>1, MainProgress, MainFiles
  <2>2. CASE \E k \in Saves : SaveStep(k) \/ FailSave(k)
    BY <2>2, <1>0, BackgroundProgress, BackgroundFiles
  <2>3. CASE \E k \in Saves : FinStep(k)
    BY <2>3, <1>0, FinalizerProgress, FinalizerFiles
  <2>4. CASE Crash \/ Terminate \/ Restart \/ Rest \/ UNCHANGED vars
    BY <2>4, <1>0, EndProgress, EndFiles
  <2> QED BY <2>1, <2>2, <2>3, <2>4 DEF Next
<1>3. Resume' /\ Reloads'
  BY <1>0, NextFaults, NextNoSnapshots, NextLastIsWhole, NextReloads DEF Resume
<1>4. DrainInv' /\ TotalIsWhole' /\ FinalInv'
  BY <1>0, NextDrained, NextTotalIsWhole, NextFinal
<1>5. HfOrder' /\ HfFiles'
  BY <1>0, NextHfOrder, NextHfFiles
<1>6. SyncDone' /\ SyncOut' /\ AsyncOut'
  BY <1>0, NextSyncDone, NextSyncOut, NextAsyncOut
<1> QED BY <1>1, <1>2, <1>3, <1>4, <1>5, <1>6 DEF Durable

\* Every reachable state satisfies the invariant.
LEMMA AlwaysDurable == Spec => []Durable
  BY InitDurable, NextDurable, PTL DEF Spec

-----------------------------------------------------------------------------
(* The theorems. *)

\* A job that went down can be resumed, whatever was being saved, pruned or
\* recorded at that moment (_finalize_dcp_save, _load_checkpoint): without
\* snapshots and with two or more checkpoints kept, the newest one the meta file
\* names is complete at every moment.
THEOREM RestartAlwaysSucceeds == ASSUME ~TornWrites PROVE Spec => [](Resumable => RestartSucceeds)
<1>1. Durable => (Resumable => RestartSucceeds)
  BY DEF Durable, Reloads
<1> QED BY <1>1, AlwaysDurable, PTL

\* The AFTER_SAVE_DCP hook is handed a complete checkpoint in every configuration;
\* so is the export's hook when no export is pruned or the job never went down.
THEOREM HooksSeeTheSave == Spec => [](/\ HfSafe => HookSeesTheSave
                                      /\ fin["dcp"].pc = "hook" => Whole(fin["dcp"].to, fin["dcp"].step))
<1>1. Durable => /\ HfSafe => HookSeesTheSave
                 /\ fin["dcp"].pc = "hook" => Whole(fin["dcp"].to, fin["dcp"].step)
  BY DEF Durable, HookSeesTheSave, Files, DirsInv, HfFiles
<1> QED BY <1>1, AlwaysDurable, PTL

\* When fit returns, the last checkpoint and the last export are complete, recorded
\* and linked, and no thread is left (DrainHF, DrainDcp and StopMonitor).
THEOREM FitReturnsDurable == Spec => [](HfSafe => DoneIsDurable)
<1>1. ASSUME Durable, HfSafe, pc = "Done" PROVE DoneIsDurable
  <2>0. Inv /\ Progress /\ DrainInv /\ TotalIsWhole /\ FinalInv /\ HfFiles /\ SyncOut /\ AsyncOut
    BY <1>1 DEF Durable
  <2>1. /\ step = TotalStep /\ ~failed
        /\ \A k \in Saves : callback[k] = "none" /\ fin[k].pc = "idle" /\ future[k].state # "writing"
    BY <1>1, <2>0 DEF DrainInv, Saves, Launched
  <2>2. lock = "none" /\ pc \notin Gone
    BY <1>1, <2>0, <2>1 DEF Inv, TypeOK, LockInv, CriticalPcs, Gone
  <2>3. config.ckpt # 0 => LastOf(meta.lists, "ckpt") = TotalStep /\ Whole("ckpt", TotalStep)
    <3>1. config.ckpt # 0 => Known("ckpt") = TotalStep
      BY <1>1, <2>0, <2>1 DEF FinalInv, Underway, Past, Saves
    <3>2. mem = meta.lists
      BY <2>0, <2>2 DEF Progress, LagInv
    <3> QED BY <3>1, <3>2, <2>0, <2>2 DEF TotalIsWhole, Known, LastOf, Dcp
  <2>4. ASSUME config.hf # 0, AsyncHf => crashes = 0 /\ failures = 0 PROVE Out(TotalStep)
    <3>1. CASE ~AsyncHf
      BY <1>1, <2>0, <2>1, <2>4, <3>1 DEF SyncOut, Gone
    <3>2. CASE AsyncHf
      BY <1>1, <2>0, <2>1, <2>4, <3>2 DEF AsyncOut, NeverDied, Saves
    <3> QED BY <3>1, <3>2
  <2> QED BY <2>1, <2>3, <2>4 DEF DoneIsDurable, Out, Filed
<1>2. Durable => (HfSafe => DoneIsDurable)
  BY <1>1 DEF DoneIsDurable
<1> QED BY <1>2, AlwaysDurable, PTL

-----------------------------------------------------------------------------
(* The promise of DurableProgress. *)

PStep == IF pc = "Down" THEN Lasting ELSE step
PMode == CASE pc = "Down" -> "down"
           [] pc = "Done" -> "done"
           [] pc = "Unloadable" -> "lost"
           [] OTHER -> "up"

\* The resume point, before and after a step, by what is in the file.
LEMMA LastingIs ==
  /\ meta.state = "torn" => Lasting = LatestCheckpoint(mem).step
  /\ meta.state # "torn" => Lasting = LatestCheckpoint(meta.lists).step
  BY DEF Lasting

\* The same for the state after a step.
LEMMA LastingNext ==
  /\ meta'.state = "torn" => Lasting' = LatestCheckpoint(mem').step
  /\ meta'.state # "torn" => Lasting' = LatestCheckpoint(meta'.lists).step
  BY DEF Lasting, LatestCheckpoint, LastOf

\* Only the two lists of checkpoints count.
LEMMA SameLatest ==
  ASSUME NEW a, NEW b, \A l \in Dcp : a[l] = b[l]
  PROVE  LatestCheckpoint(a) = LatestCheckpoint(b)
  BY DEF LatestCheckpoint, LastOf, Dcp

\* Every step of the trainer is a step of DurableProgress, or none.
LEMMA StepSimulates ==
  ASSUME ~TornWrites, Durable, [Next]_vars, pc # "Unloadable", pc' # "Unloadable"
  PROVE  [Promise!Next]_(Promise!vars)
<1> USE DEF main, disk, background, finalizer, job
<1> DEFINE same == PStep' = PStep /\ Lasting' = Lasting /\ PMode' = PMode
<1>a. same => UNCHANGED Promise!vars
  BY DEF Promise!vars, PStep, PMode
<1>b. Inv /\ Progress /\ FaultInv /\ DrainInv
  BY DEF Durable, Resume
<1>c. /\ mem \in [Lists -> Seq(Steps)] /\ meta.lists \in [Lists -> Seq(Steps)] /\ step \in 0..TotalStep
      /\ fin["dcp"].step \in 0..TotalStep /\ TotalStep \in Nat /\ fin \in [Saves -> FinType]
  BY <1>b, ConstantsAssumption DEF Inv, TypeOK, FinType, Saves
<1>t. \A k \in Saves : fin[k].pc \in {"append", "prune", "open"} /\ (fin[k].pc = "append" => lock = "none") =>
        meta.state # "torn" /\ pc \notin Gone
  <2> SUFFICES ASSUME NEW k \in Saves, fin[k].pc \in {"append", "prune", "open"}, fin[k].pc = "append" => lock = "none"
               PROVE  meta.state # "torn" /\ pc \notin Gone
    OBVIOUS
  <2>1. pc \notin Gone
    BY <1>b DEF Inv, DownInv
  <2>2. \A j \in Saves : fin[j].pc # "write"
    <3>1. lock = "none" \/ lock = k
      BY <1>b DEF Inv, LockInv, CriticalPcs
    <3>2. \A j \in Saves : fin[j].pc = "write" => lock = j
      BY <1>b DEF Inv, LockInv, CriticalPcs
    <3> QED BY <3>1, <3>2 DEF Saves
  <2> QED BY <2>1, <2>2, <1>b DEF Progress, LagInv
<1>q. UNCHANGED <<mem, meta>> => Lasting' = Lasting
  BY LastingIs, LastingNext
<1>1. CASE TrainStep
  <2>1. pc = "Train" /\ pc' = "HF" /\ step < TotalStep /\ step' = step + 1 /\ UNCHANGED <<mem, meta>>
    BY <1>1 DEF TrainStep, Goto
  <2> QED BY <2>1, <1>q DEF Promise!Next, Promise!Train
<1>2. CASE StopMonitor
  <2>1. pc = "Stop" /\ pc' = "Done" /\ step' = step /\ UNCHANGED <<mem, meta>>
    BY <1>2 DEF StopMonitor, Goto
  <2>2. step = TotalStep
    BY <2>1, <1>b DEF DrainInv
  <2> QED BY <2>1, <2>2, <1>q DEF Promise!Next, Promise!Finish
<1>3. CASE MainStep /\ ~TrainStep /\ ~StopMonitor
  <2>1. /\ pc \notin {"Down", "Done", "Unloadable"} /\ pc' \notin {"Down", "Done", "Unloadable"}
        /\ step' = step /\ UNCHANGED <<mem, meta>>
    BY <1>3 DEF Goto, MainStep, SkipHF, SaveHFBegin, SaveHFEnd, HFFinalized, WaitHF, LaunchHF, RegisterHF,
       MaybeSaveCkpt, MaybeSaveSnap, MkDir, WaitCkpt, SaveDcpBegin, SaveDcpEnd, LaunchDcp, SaveState,
       RegisterDcp, DcpFinalized, DrainHF, DrainDcp
  <2>2. same
    BY <2>1, <1>q DEF PStep, PMode
  <2> QED BY <2>2, <1>a
<1>4. CASE \E k \in Saves : \/ SaveStep(k) \/ FailSave(k) \/ FinPrune(k) \/ FinHook(k)
                            \/ (k = "hf" /\ FinLink)
  <2>1. UNCHANGED <<mem, meta, pc, step>>
    BY <1>4 DEF SaveStep, FailSave, CommitDcp, CommitHF, ClearPendingHF, RunCallback, FinPrune, FinLink, FinHook
  <2>2. same
    BY <2>1, <1>q DEF PStep, PMode
  <2> QED BY <2>2, <1>a
<1>5. ASSUME NEW k \in Saves, FinAppend(k) PROVE same
  <2>1. UNCHANGED <<meta, pc, step>> /\ fin[k].pc = "append" /\ lock = "none"
    BY <1>5 DEF FinAppend
  <2>2. Lasting' = Lasting
    BY <2>1, <1>t, LastingIs, LastingNext
  <2> QED BY <2>1, <2>2 DEF PStep, PMode
<1>6. ASSUME NEW k \in Saves, FinOpen(k) PROVE [Promise!Next]_(Promise!vars)
  <2>1. /\ UNCHANGED <<mem, pc, step>> /\ meta'.state = "torn" /\ fin[k].pc \in {"prune", "open"}
    BY <1>6 DEF FinOpen, Inv, TypeOK
  <2>2. /\ Lasting = LatestCheckpoint(meta.lists).step /\ Lasting' = LatestCheckpoint(mem).step
        /\ pc \notin Gone /\ lock = k
    BY <2>1, <1>t, <1>b, LastingIs, LastingNext DEF Inv, LockInv, CriticalPcs
  <2>3. CASE k = "hf"
    <3>1. \A l \in Dcp : mem[l] = meta.lists[l]
      BY <2>2, <2>3, <1>b DEF Progress, LagInv
    <3>2. same
      BY <2>1, <2>2, <3>1, SameLatest DEF PStep, PMode
    <3> QED BY <3>2, <1>a
  <2>4. CASE k = "dcp"
    <3>1. \A l \in Dcp : Filed(l) < fin["dcp"].step
      BY <2>2, <2>4, <1>b DEF Progress, LagInv
    <3>2. fin["dcp"].to \in Dcp /\ Known(fin["dcp"].to) = fin["dcp"].step
      BY <2>1, <2>4, <1>b DEF Progress, OrderInv, Inv, TypeOK, CriticalPcs, Saves
    <3>3. PICK l \in Dcp : Lasting = Filed(l)
      BY <2>2, <1>c, LatestIs DEF Filed
    <3>4. PICK m \in Dcp : Lasting' = Known(m) /\ \A d \in Dcp : Known(d) <= Lasting'
      BY <2>2, <1>c, LatestIs DEF Known
    <3>5. Known(m) <= step
      BY <2>2, <1>b DEF Progress, OrderInv
    <3>6. Lasting < Lasting' /\ Lasting' <= step /\ Lasting \in Nat /\ Lasting' \in Nat
      <4>1. Filed(l) \in 0..TotalStep /\ Known(m) \in 0..TotalStep
        BY <1>b, KnownType DEF Inv, Lists
      <4>2. fin["dcp"].step <= Lasting'
        BY <3>2, <3>4
      <4> QED BY <3>1, <3>3, <3>4, <3>5, <4>1, <4>2, <1>c
    <3>7. Lasting' \in (Lasting + 1)..step
      BY <3>6, <1>c
    <3>8. pc # "Done"
      BY <2>1, <2>4, <1>b DEF DrainInv
    <3> QED BY <2>1, <2>2, <3>7, <3>8 DEF Promise!Next, Promise!Save, Gone
  <2> QED BY <2>3, <2>4 DEF Saves
<1>7. ASSUME NEW k \in Saves, FinWrite(k) PROVE same
  <2>1. UNCHANGED <<mem, pc, step>> /\ meta'.state = "ok" /\ meta'.lists = mem /\ fin[k].pc = "write"
    BY <1>7 DEF FinWrite
  <2>2. meta.state = "torn"
    BY <2>1, <1>b DEF Inv, DownInv, Progress, LagInv
  <2>3. Lasting' = Lasting
    BY <2>1, <2>2, LastingIs, LastingNext
  <2> QED BY <2>1, <2>3 DEF PStep, PMode
<1>8. CASE Crash \/ Terminate
  <2>1. /\ pc \notin {"Down", "Done", "Unloadable"} /\ pc' = "Down" /\ meta.state # "torn" /\ meta' = meta
    BY <1>8 DEF Crash, Terminate, Die, Alive
  <2>2. Lasting' = Lasting
    BY <2>1, LastingIs, LastingNext
  <2> QED BY <2>1, <2>2 DEF Promise!Next, Promise!Fail
<1>9. CASE Restart
  <2>1. pc = "Down" /\ pc' = "Train" /\ step' = LatestCheckpoint(meta.lists).step /\ meta' = meta
    BY <1>9 DEF Restart, Goto
  <2>2. meta.state # "torn"
    BY <2>1, <1>b DEF FaultInv, Gone
  <2>3. Lasting = LatestCheckpoint(meta.lists).step /\ Lasting' = Lasting
    BY <2>1, <2>2, LastingIs, LastingNext
  <2> QED BY <2>1, <2>3 DEF Promise!Next, Promise!Recover
<1>10. CASE Rest \/ UNCHANGED vars
  <2>1. UNCHANGED <<mem, meta, pc, step>>
    BY <1>10 DEF Rest, vars
  <2>2. same
    BY <2>1, <1>q DEF PStep, PMode
  <2> QED BY <2>2, <1>a
<1> QED BY <1>1, <1>2, <1>3, <1>4, <1>5, <1>6, <1>7, <1>8, <1>9, <1>10, <1>a DEF Next, FinStep

\* The supervised trainer implements DurableProgress: the step a restart resumes
\* from only moves forward, to a step that was trained, and a failure anywhere in
\* a save costs the steps since that point and nothing else.
THEOREM TrainerKeepsPromise ==
  ASSUME ~TornWrites, \A c \in Configs : Survivable(c)
  PROVE  Spec => KeepsPromise
<1>1. Init => Promise!Init
  <2> SUFFICES ASSUME Init PROVE Promise!Init
    OBVIOUS
  <2>1. Lasting = 0
    BY LastingIs DEF Init, LatestCheckpoint, LastOf, NoLists, Lists, Dcp
  <2> QED BY <2>1 DEF Init, Promise!Init
<1>2. Durable => pc # "Unloadable"
  BY DEF Durable, Inv, TypeOK, Reloads, Resumable, RestartSucceeds
<1>3. Durable /\ Durable' /\ [Next]_vars => [Promise!Next]_(Promise!vars)
  <2>1. Durable' => pc' # "Unloadable"
    BY DEF Durable, Inv, TypeOK, Reloads, Resumable, RestartSucceeds
  <2> QED BY <1>2, <2>1, StepSimulates
<1> QED BY <1>1, <1>3, AlwaysDurable, PTL DEF Spec, KeepsPromise, Promise!Spec
===============================================================================
