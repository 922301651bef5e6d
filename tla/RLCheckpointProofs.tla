-------------------------- MODULE RLCheckpointProofs --------------------------
(***************************************************************************)
(* For every number of steps, every interval and every number of crashes:  *)
(* the RL trainers keep the promise of DurableProgress and prune only old  *)
(* exports, provided that more than one checkpoint is kept (or all of      *)
(* them) and that no crash falls inside the rewrite of the meta file.      *)
(***************************************************************************)
EXTENDS RLCheckpoint, TLAPS, SequenceTheorems, FiniteSetTheorems

-----------------------------------------------------------------------------
(* What keeping the newest entries of a list does. *)

InOrder(l) == \A i, j \in 1..Len(l) : i < j => l[i] < l[j]

\* The cut leaves a suffix of the list that ends with the new entry.
LEMMA CutEntries ==
  ASSUME NEW l \in Seq(Steps), NEW s \in Steps, NEW keep \in Nat
  PROVE  LET a == Append(l, s)
             o == Over(a, keep)
             m == Cut(a, keep)
         IN  /\ a \in Seq(Steps) /\ Len(a) = Len(l) + 1 /\ a[Len(a)] = s
             /\ \A i \in 1..Len(l) : a[i] = l[i]
             /\ o \in 0..Len(l)
             /\ m \in Seq(Steps) /\ Len(m) = Len(a) - o
             /\ \A i \in 1..Len(m) : m[i] = a[i + o]
<1> DEFINE a == Append(l, s)
           o == Over(a, keep)
           m == Cut(a, keep)
<1>1. a \in Seq(Steps) /\ Len(a) = Len(l) + 1 /\ a[Len(a)] = s
      /\ \A i \in 1..Len(l) : a[i] = l[i]
  OBVIOUS
<1>2. o \in 0..Len(l)
  BY <1>1 DEF Over
<1>3. m = SubSeq(a, o + 1, Len(a))
  BY DEF Cut
<1> HIDE DEF a, o, m
<1>4. o + 1 \in 1..(Len(a) + 1) /\ Len(a) \in o..Len(a) /\ Len(a) \in Nat
  BY <1>1, <1>2
<1>5. m \in Seq(Steps) /\ Len(m) = Len(a) - o
  BY <1>1, <1>2, <1>3, <1>4
<1>6. ASSUME NEW i \in 1..Len(m) PROVE m[i] = a[i + o]
  BY <1>1, <1>2, <1>3, <1>4, <1>5, <1>6
<1> QED BY <1>1, <1>2, <1>5, <1>6 DEF m, a, o

\* The last entry of a list of steps is a step, or 0 for the empty list.
LEMMA LastType == ASSUME NEW l \in Seq(Steps)
                  PROVE  Last(l) \in 0..TotalSteps /\ (Last(l) # 0 => Last(l) \in Steps)
  BY RLConstantsAssumption DEF Last, Steps

\* What the cut leaves is a list of steps again.
LEMMA CutIsList == ASSUME NEW l \in Seq(Steps), NEW s \in Steps, NEW keep \in Nat
                   PROVE  Cut(Append(l, s), keep) \in Seq(Steps)
  BY CutEntries

\* In a list in order the last entry is the largest one.
LEMMA LastIsLargest ==
  ASSUME NEW l \in Seq(Steps), InOrder(l), NEW i \in 1..Len(l)
  PROVE  l[i] \in Steps /\ l[i] <= Last(l) /\ (i # Len(l) => l[i] < Last(l))
<1>1. Len(l) \in 1..Len(l) /\ Len(l) # 0
  OBVIOUS
<1>2. l[i] \in Steps /\ l[Len(l)] \in Steps
  BY <1>1
<1>3. Last(l) = l[Len(l)]
  BY <1>1 DEF Last
<1> QED BY <1>1, <1>2, <1>3 DEF InOrder, Steps

\* Cutting the list with the new checkpoint keeps it in order and ends it with
\* that checkpoint.
LEMMA CutKeeps ==
  ASSUME NEW l \in Seq(Steps), NEW s \in Steps, NEW keep \in Nat,
         InOrder(l), Last(l) < s
  PROVE  LET m == Cut(Append(l, s), keep)
         IN  m \in Seq(Steps) /\ InOrder(m) /\ Last(m) = s
<1> DEFINE a == Append(l, s)
           o == Over(a, keep)
           m == Cut(a, keep)
<1>1. /\ a \in Seq(Steps) /\ Len(a) = Len(l) + 1 /\ a[Len(a)] = s
      /\ \A i \in 1..Len(l) : a[i] = l[i]
      /\ o \in 0..Len(l)
      /\ m \in Seq(Steps) /\ Len(m) = Len(a) - o
      /\ \A i \in 1..Len(m) : m[i] = a[i + o]
  BY CutEntries
<1>2. \A i \in 1..Len(l) : l[i] < s
  <2>1. Last(l) \in Int
    BY LastType, RLConstantsAssumption
  <2> QED BY <2>1, LastIsLargest DEF Steps
<1>3. InOrder(a)
  <2>1. Len(a) = Len(l) + 1 /\ a[Len(a)] = s /\ \A i \in 1..Len(l) : a[i] = l[i]
    BY <1>1
  <2> HIDE DEF a
  <2> QED BY <2>1, <1>2 DEF InOrder
<1> HIDE DEF a, o, m
<1>4. InOrder(m)
  <2> SUFFICES ASSUME NEW i \in 1..Len(m), NEW j \in 1..Len(m), i < j PROVE m[i] < m[j]
    BY DEF InOrder
  <2>1. i + o \in 1..Len(a) /\ j + o \in 1..Len(a) /\ i + o < j + o
    BY <1>1
  <2>2. a[i + o] < a[j + o]
    BY <2>1, <1>3 DEF InOrder
  <2> QED BY <2>2, <1>1
<1>5. Last(m) = s
  <2>1. Len(m) # 0 /\ Len(m) \in 1..Len(m) /\ Len(m) + o = Len(a)
    BY <1>1
  <2>2. m[Len(m)] = a[Len(m) + o]
    BY <2>1, <1>1
  <2> QED BY <1>1, <2>1, <2>2 DEF Last
<1> QED BY <1>1, <1>4, <1>5 DEF m, a

\* What is cut off are steps, and when two or more entries are kept the entry
\* that was last before is not among them.
LEMMA CutOffSpares ==
  ASSUME NEW l \in Seq(Steps), NEW s \in Steps, NEW keep \in Nat,
         InOrder(l)
  PROVE  LET off == CutOff(Append(l, s), keep)
         IN  off \subseteq Steps /\ (keep # 1 => \A d \in off : d < Last(l))
<1> DEFINE a == Append(l, s)
           o == Over(a, keep)
<1>1. a \in Seq(Steps) /\ Len(a) = Len(l) + 1 /\ \A i \in 1..Len(l) : a[i] = l[i]
  OBVIOUS
<1>2. o \in 0..Len(l)
  BY <1>1 DEF Over
<1>3. \A i \in 1..o : a[i] = l[i] /\ l[i] \in Steps
  BY <1>1, <1>2
<1>4. CutOff(a, keep) \subseteq Steps
  BY <1>3 DEF CutOff
<1>5. ASSUME keep # 1, NEW i \in 1..o PROVE l[i] < Last(l)
  <2>1. o < Len(l)
    BY <1>1, <1>2, <1>5 DEF Over
  <2>2. i \in 1..Len(l) /\ Len(l) \in 1..Len(l) /\ i < Len(l)
    BY <2>1, <1>2
  <2> QED BY <2>2 DEF InOrder, Last
<1> QED BY <1>3, <1>4, <1>5 DEF CutOff
-----------------------------------------------------------------------------
(* The inductive invariant. *)

Saving == {"Manager", "DCP", "TrainState", "Append", "Prune", "Write"}

\* The resume point is complete and behind the checkpoint being saved; the lists
\* agree but while a new entry is on its way to the disk.
Inv ==
  /\ TypeOK
  /\ InOrder(list) /\ InOrder(meta.list)
  /\ pc \in {"Train", "HF", "HFWriting", "Manager", "DCP", "TrainState", "Append"}
       => list = meta.list
  /\ pc \in {"Prune", "Write"} => Last(list) = step
  /\ pc \in Saving => Last(meta.list) < step /\ synced = step
  /\ pc \in {"Train", "HF", "HFWriting", "Done"} => Last(meta.list) <= synced /\ synced <= step
  /\ pc \in {"HF", "HFWriting"} => step # 0
  /\ pc = "DCP" => dirs[step] = {"manager"}
  /\ pc = "TrainState" => dirs[step] = {"manager", "dcp"}
  /\ pc \in {"Append", "Prune", "Write"} => Whole(step)
  /\ pc = "Down" => list = <<>> /\ hf_list = <<>> /\ step = 0 /\ synced = 0
  /\ \A d \in doomed : d < Last(meta.list)
  /\ pc # "Prune" => doomed = {}
  /\ meta.state = "torn" => pc = "Write"
  /\ pc = "Write" => meta.state = "torn"
  /\ meta.state = "empty" => meta.list = <<>> /\ meta.hfs = <<>>
  /\ Last(meta.list) # 0 => Whole(Last(meta.list))
  /\ pc # "Unloadable"

\* The invariant holds before anything is saved.
LEMMA InitInv == Init => Inv
  BY RLConstantsAssumption DEF Init, Inv, TypeOK, InOrder, Last, Saving, NoDirs, NoExports,
     Steps, Parts, Whole

\* Every step of a save, a crash and a resume keeps the invariant.
LEMMA NextInv == ASSUME MaxKeep # 1, ~TornWrites, Inv, [Next]_vars PROVE Inv'
<1> USE RLConstantsAssumption
<1>0. /\ Last(meta.list) \in 0..TotalSteps /\ (Last(meta.list) # 0 => Last(meta.list) \in Steps)
      /\ Last(list) \in 0..TotalSteps
  BY LastType DEF Inv, TypeOK
<1>1. CASE Train
  BY <1>1, <1>0, SMTT(60) DEF Train, Inv, TypeOK, InOrder, Last, Saving, Steps, Whole
<1>2. CASE SyncPoint
  BY <1>2, <1>0, SMTT(60) DEF SyncPoint, Inv, TypeOK, InOrder, Last, Saving, Steps, Whole
<1>3. CASE SaveManager
  BY <1>3, <1>0 DEF SaveManager, Inv, TypeOK, InOrder, Saving, Steps, Whole, Parts
<1>4. CASE SaveDCP
  BY <1>4, <1>0 DEF SaveDCP, Inv, TypeOK, InOrder, Saving, Steps, Whole, Parts
<1>5. CASE SaveTrainState
  BY <1>5, <1>0 DEF SaveTrainState, Inv, TypeOK, InOrder, Saving, Steps, Whole, Parts
<1>6. CASE AppendMeta
  <2>1. step \in Steps /\ list \in Seq(Steps) /\ InOrder(list) /\ Last(list) < step /\ list = meta.list
    BY <1>6, <1>0 DEF AppendMeta, Inv, TypeOK, Saving, Steps
  <2>2. list' \in Seq(Steps) /\ InOrder(list') /\ Last(list') = step
    BY <2>1, <1>6, CutKeeps DEF AppendMeta
  <2>3. doomed' \subseteq Steps /\ \A d \in doomed' : d < Last(meta.list)
    BY <2>1, <1>6, CutOffSpares DEF AppendMeta
  <2>4. InOrder(list)' /\ Last(list)' = step'
    BY <2>2, <1>6 DEF AppendMeta, InOrder, Last
  <2>5. /\ pc' = "Prune" /\ Last(list)' = step' /\ InOrder(list)'
        /\ UNCHANGED <<step, synced, hf_list, meta, dirs, hf, crashes>>
    BY <2>4, <1>6 DEF AppendMeta
  <2>6. TypeOK'
    BY <2>2, <2>3, <2>5 DEF Inv, TypeOK
  <2>7. (\A d \in doomed : d < Last(meta.list))'
    BY <2>3, <2>5 DEF Last
  <2>8. InOrder(meta.list)' /\ Last(meta.list)' = Last(meta.list) /\ Whole(step)'
        /\ (Last(meta.list) # 0 => Whole(Last(meta.list)))'
    BY <2>5, <1>6 DEF Inv, AppendMeta, Whole
  <2> QED BY <2>5, <2>6, <2>7, <2>8, <1>6 DEF AppendMeta, Inv, Saving
<1>7. CASE Prune
  BY <1>7, <1>0, SMTT(60) DEF Prune, Inv, TypeOK, InOrder, Saving, Steps, Whole, Parts
<1>8. CASE OpenMeta
  BY <1>8, <1>0 DEF OpenMeta, Inv, TypeOK, InOrder, Last, Saving, Whole
<1>9. CASE WriteMeta
  BY <1>9, <1>0 DEF WriteMeta, Inv, TypeOK, InOrder, Last, Saving, Whole
<1>10. CASE SaveHFBegin
  <2>1. hf_list' \in Seq(Steps)
    BY <1>10, <1>0, CutIsList DEF SaveHFBegin, Inv, TypeOK, Steps
  <2>2. hf' \in [Steps -> {"none", "partial", "whole"}]
    BY <1>10 DEF SaveHFBegin, Inv, TypeOK
  <2>3. /\ pc' = "HFWriting" /\ pc = "HF"
        /\ UNCHANGED <<step, synced, list, doomed, meta, dirs, crashes>>
    BY <1>10 DEF SaveHFBegin
  <2> QED BY <2>1, <2>2, <2>3, <1>0 DEF Inv, TypeOK, InOrder, Last, Saving, Whole
<1>11. CASE SaveHFEnd
  BY <1>11, <1>0 DEF SaveHFEnd, Inv, TypeOK, InOrder, Last, Saving, Whole, Steps
<1>12. CASE SkipHF
  BY <1>12, <1>0 DEF SkipHF, Inv, TypeOK, InOrder, Last, Saving, Whole
<1>13. CASE Finish
  BY <1>13, <1>0 DEF Finish, Inv, TypeOK, InOrder, Last, Saving, Whole
<1>14. CASE Crash
  BY <1>14, <1>0 DEF Crash, Alive, Inv, TypeOK, InOrder, Last, Saving, Whole, Steps
<1>15. CASE RestartFresh
  BY <1>15, <1>0 DEF RestartFresh, Inv, TypeOK, InOrder, Last, Saving, Whole, Steps, NoDirs, NoExports
<1>16. CASE Restart
  BY <1>16, <1>0 DEF Restart, Inv, TypeOK, InOrder, Last, Saving, Whole, Steps
<1>17. CASE Rest \/ UNCHANGED vars
  <2>1. UNCHANGED vars
    BY <1>17 DEF Rest
  <2>2. /\ step' = step /\ synced' = synced /\ pc' = pc /\ list' = list /\ hf_list' = hf_list
        /\ doomed' = doomed /\ meta' = meta /\ dirs' = dirs /\ hf' = hf /\ crashes' = crashes
    BY <2>1 DEF vars
  <2>3. TypeOK' /\ Last(list)' = Last(list) /\ Last(meta.list)' = Last(meta.list)
        /\ InOrder(list)' /\ InOrder(meta.list)'
    BY <2>2 DEF Inv, TypeOK, Last, InOrder
  <2>4. \A s : Whole(s)' = Whole(s)
    BY <2>2 DEF Whole
  <2> QED BY <2>2, <2>3, <2>4 DEF Inv, Whole
<1> QED BY <1>1, <1>2, <1>3, <1>4, <1>5, <1>6, <1>7, <1>8, <1>9, <1>10, <1>11, <1>12, <1>13,
           <1>14, <1>15, <1>16, <1>17 DEF Next, Work

-----------------------------------------------------------------------------
(* The theorems. *)

\* The invariant holds in every state of every run.
LEMMA AlwaysInv == ASSUME MaxKeep # 1, ~TornWrites PROVE Spec => []Inv
<1>1. Init => Inv
  BY InitInv
<1>2. Inv /\ [Next]_vars => Inv'
  BY NextInv
<1> QED BY <1>1, <1>2, PTL DEF Spec

\* What is listed, and what is cut off for it, are steps: while something is saved or
\* exported there is a step it belongs to.
StepInv == pc \in Saving \cup {"HF", "HFWriting"} => step # 0

\* Types alone need neither of the two conditions.
LEMMA NextTypes == ASSUME TypeOK, StepInv, [Next]_vars PROVE TypeOK' /\ StepInv'
<1> USE RLConstantsAssumption
<1>0. Last(meta.list) \in 0..TotalSteps
  BY LastType DEF TypeOK
<1>1. CASE Train \/ SyncPoint
  BY <1>1 DEF Train, SyncPoint, TypeOK, StepInv, Saving
<1>2. CASE SaveManager \/ SaveDCP \/ SaveTrainState
  <2>1. step \in Steps
    BY <1>2 DEF SaveManager, SaveDCP, SaveTrainState, TypeOK, StepInv, Saving, Steps
  <2>2. dirs' \in [Steps -> SUBSET Parts]
    BY <1>2, <2>1 DEF SaveManager, SaveDCP, SaveTrainState, TypeOK, Parts
  <2>3. /\ pc' \in {"DCP", "TrainState", "Append"} /\ step # 0
        /\ UNCHANGED <<step, synced, list, hf_list, doomed, meta, hf, crashes>>
    BY <1>2 DEF SaveManager, SaveDCP, SaveTrainState, StepInv, Saving
  <2> QED BY <2>2, <2>3 DEF TypeOK, StepInv
<1>3. CASE AppendMeta
  <2>1. step \in Steps /\ list \in Seq(Steps) /\ MaxKeep \in Nat
    BY <1>3 DEF AppendMeta, TypeOK, StepInv, Saving, Steps
  <2>2. list' \in Seq(Steps)
    BY <2>1, <1>3, CutIsList DEF AppendMeta
  <2>3. doomed' \subseteq Steps
    BY <2>1, <1>3 DEF AppendMeta, CutOff, Over
  <2>4. pc' = "Prune" /\ UNCHANGED <<step, synced, hf_list, meta, dirs, hf, crashes>> /\ step # 0
    BY <1>3 DEF AppendMeta, StepInv, Saving
  <2> QED BY <2>2, <2>3, <2>4 DEF TypeOK, StepInv
<1>4. CASE Prune
  BY <1>4 DEF Prune, TypeOK, StepInv, Saving
<1>5. CASE OpenMeta \/ WriteMeta
  <2>1. meta' \in [state : {"empty", "torn", "ok"}, list : Seq(Steps), hfs : Seq(Steps)]
    <3>1. CASE OpenMeta
      BY <3>1 DEF OpenMeta, TypeOK
    <3>2. CASE WriteMeta
      BY <3>2 DEF WriteMeta, TypeOK
    <3> QED BY <1>5, <3>1, <3>2
  <2>2. /\ pc' \in {"Write", "HF"} /\ step # 0
        /\ UNCHANGED <<step, synced, list, hf_list, doomed, dirs, hf, crashes>>
    BY <1>5 DEF OpenMeta, WriteMeta, StepInv, Saving
  <2> QED BY <2>1, <2>2 DEF TypeOK, StepInv
<1>6. CASE SaveHFBegin
  <2>1. step \in Steps /\ hf_list \in Seq(Steps) /\ HfMaxKeep \in Nat
    BY <1>6 DEF SaveHFBegin, TypeOK, StepInv, Steps
  <2>2. hf_list' \in Seq(Steps)
    BY <2>1, <1>6, CutIsList DEF SaveHFBegin
  <2>3. hf' \in [Steps -> {"none", "partial", "whole"}]
    BY <1>6 DEF SaveHFBegin, TypeOK
  <2>4. pc' = "HFWriting" /\ UNCHANGED <<step, synced, list, doomed, meta, dirs, crashes>> /\ step # 0
    BY <1>6 DEF SaveHFBegin, StepInv
  <2> QED BY <2>2, <2>3, <2>4 DEF TypeOK, StepInv
<1>7. CASE SaveHFEnd \/ SkipHF \/ Finish
  BY <1>7 DEF SaveHFEnd, SkipHF, Finish, TypeOK, StepInv, Saving
<1>8. CASE Crash
  BY <1>8 DEF Crash, Alive, TypeOK, StepInv, Saving
<1>9. CASE RestartFresh \/ Restart
  <2>1. CASE RestartFresh
    BY <2>1 DEF RestartFresh, TypeOK, StepInv, Saving, NoDirs, NoExports
  <2>2. CASE Restart
    BY <2>2, <1>0 DEF Restart, TypeOK, StepInv, Saving
  <2> QED BY <1>9, <2>1, <2>2
<1>10. CASE Rest \/ UNCHANGED vars
  BY <1>10 DEF Rest, vars, TypeOK, StepInv
<1> QED BY <1>1, <1>2, <1>3, <1>4, <1>5, <1>6, <1>7, <1>8, <1>9, <1>10 DEF Next, Work

\* Type correctness of _maybe_save_checkpoint, _maybe_save_hf and the resume.
THEOREM TypeCorrect == Spec => []TypeOK
<1>1. Init => TypeOK /\ StepInv
  BY RLConstantsAssumption DEF Init, TypeOK, StepInv, Saving, NoDirs, NoExports, Steps
<1>2. TypeOK /\ StepInv /\ [Next]_vars => (TypeOK /\ StepInv)'
  BY NextTypes
<1> QED BY <1>1, <1>2, PTL DEF Spec

\* Whatever the intervals and wherever the crashes fall, the checkpoint the meta
\* file names last is complete (_maybe_save_checkpoint prunes, then writes).
THEOREM ResumePointStaysWhole ==
  ASSUME MaxKeep # 1, ~TornWrites PROVE Spec => []ResumePointIsWhole
<1>1. Inv => ResumePointIsWhole
  BY DEF Inv, ResumePointIsWhole
<1> QED BY <1>1, AlwaysInv, PTL

\* What Promise's variables are in a state, spelled out.
PStep == IF pc = "Down" THEN Lasting ELSE step
PMode == IF pc = "Down" THEN "down" ELSE IF pc = "Done" THEN "done"
         ELSE IF pc = "Unloadable" THEN "lost" ELSE "up"

\* The lasting checkpoint is what the file says, or is about to say.
LEMMA LastingIs ==
  ASSUME Inv
  PROVE  /\ pc = "Write" => Lasting = step
         /\ pc # "Write" => Lasting = Last(meta.list)
  BY DEF Inv, Lasting

\* Every step maps to a step of DurableProgress or to a stutter.
LEMMA StepSimulates ==
  ASSUME MaxKeep # 1, ~TornWrites, Inv, Inv', [Next]_vars
  PROVE  [Promise!Next]_(Promise!vars)
<1> USE RLConstantsAssumption
<1> DEFINE same == PStep' = PStep /\ Lasting' = Lasting /\ PMode' = PMode
<1>a. same => UNCHANGED Promise!vars
  BY DEF Promise!vars, PStep, PMode
<1>0. /\ pc = "Write" => Lasting = step
      /\ pc # "Write" => Lasting = Last(meta.list)
      /\ pc' = "Write" => Lasting' = step'
      /\ pc' # "Write" => Lasting' = Last(meta'.list)
  <2>1. /\ pc' = "Write" => Lasting' = step'
        /\ pc' # "Write" => Lasting' = Last(meta.list)'
    BY DEF Inv, Lasting
  <2>2. Last(meta.list)' = Last(meta'.list)
    BY DEF Last
  <2> QED BY <2>1, <2>2, LastingIs
<1>9. /\ Last(meta.list) \in 0..TotalSteps /\ step \in 0..TotalSteps
      /\ pc # "Unloadable" /\ pc' # "Unloadable"
  BY LastType DEF Inv, TypeOK
<1>1. CASE Train
  <2>1. /\ pc = "Train" /\ pc' = "Train" /\ step < TotalSteps /\ step' = step + 1
        /\ Lasting' = Lasting
    BY <1>1, <1>0 DEF Train
  <2> QED BY <2>1 DEF Promise!Next, Promise!Train
<1>2. CASE SyncPoint
  <2>1. same
    BY <1>2, <1>0 DEF SyncPoint, PStep, PMode
  <2> QED BY <2>1, <1>a
<1>3. CASE SaveManager \/ SaveDCP \/ SaveTrainState
  <2>1. same
    BY <1>3, <1>0 DEF SaveManager, SaveDCP, SaveTrainState, PStep, PMode
  <2> QED BY <2>1, <1>a
<1>4. CASE AppendMeta \/ Prune
  <2>1. same
    BY <1>4, <1>0 DEF AppendMeta, Prune, PStep, PMode
  <2> QED BY <2>1, <1>a
<1>5. CASE OpenMeta
  <2>1. pc = "Prune" /\ pc' = "Write" /\ step' = step /\ Lasting = Last(meta.list) /\ Lasting' = step
    BY <1>5, <1>0 DEF OpenMeta
  <2>2. Last(meta.list) < step
    BY <2>1 DEF Inv, Saving
  <2>3. Lasting' \in (Lasting + 1)..step
    BY <2>1, <2>2, <1>9
  <2> QED BY <2>1, <2>3 DEF Promise!Next, Promise!Save
<1>6. CASE WriteMeta
  <2>1. pc = "Write" /\ pc' = "HF" /\ step' = step /\ meta'.list = list
    BY <1>6 DEF WriteMeta
  <2>2. Last(list) = step
    BY <2>1 DEF Inv
  <2>3. same
    BY <2>1, <2>2, <1>0 DEF PStep, PMode
  <2> QED BY <2>3, <1>a
<1>7. CASE SaveHFBegin \/ SaveHFEnd \/ SkipHF
  <2>1. same
    BY <1>7, <1>0 DEF SaveHFBegin, SaveHFEnd, SkipHF, PStep, PMode
  <2> QED BY <2>1, <1>a
<1>8. CASE Finish
  <2>1. pc = "Train" /\ pc' = "Done" /\ step = TotalSteps /\ step' = step /\ Lasting' = Lasting
    BY <1>8, <1>0 DEF Finish
  <2> QED BY <2>1 DEF Promise!Next, Promise!Finish
<1>10. CASE Crash
  <2>1. /\ pc \notin {"Down", "Done"} /\ pc' = "Down" /\ meta.state # "torn" /\ meta' = meta
    BY <1>10 DEF Crash, Alive
  <2>2. pc # "Write" /\ Lasting' = Lasting
    BY <2>1, <1>0 DEF Inv
  <2> QED BY <2>1, <2>2, <1>9 DEF Promise!Next, Promise!Fail
<1>11. CASE RestartFresh
  <2>1. /\ pc = "Down" /\ pc' = "Train" /\ step' = step /\ step = 0 /\ meta' = meta
        /\ meta.list = <<>>
    BY <1>11 DEF RestartFresh, Inv
  <2>2. Lasting = 0 /\ Lasting' = 0
    BY <2>1, <1>0 DEF Last
  <2> QED BY <2>1, <2>2 DEF Promise!Next, Promise!Recover
<1>12. CASE Restart
  <2>1. pc = "Down" /\ pc' = "Train" /\ step' = Last(meta.list) /\ meta' = meta
    BY <1>12, <1>9 DEF Restart
  <2>2. Lasting = Last(meta.list) /\ Lasting' = Lasting
    BY <2>1, <1>0
  <2> QED BY <2>1, <2>2 DEF Promise!Next, Promise!Recover
<1>13. CASE Rest \/ UNCHANGED vars
  <2>1. pc' = pc /\ step' = step /\ meta' = meta
    BY <1>13 DEF Rest, vars
  <2>2. same
    BY <2>1, <1>0 DEF PStep, PMode
  <2> QED BY <2>2, <1>a
<1> QED BY <1>1, <1>2, <1>3, <1>4, <1>5, <1>6, <1>7, <1>8, <1>10, <1>11, <1>12, <1>13
        DEF Next, Work

\* The RL trainers' checkpointing implements DurableProgress: the resume point
\* only moves forward, to a step that was trained, and a crash anywhere between
\* two steps of a save costs the steps since that point and nothing else.
THEOREM RLKeepsPromise == ASSUME MaxKeep # 1, ~TornWrites PROVE Spec => KeepsPromise
<1>1. Init => Promise!Init
  BY DEF Init, Promise!Init, Lasting, Last
<1>2. Inv /\ Inv' /\ [Next]_vars => [Promise!Next]_(Promise!vars)
  BY StepSimulates
<1> QED BY <1>1, <1>2, AlwaysInv, PTL DEF Spec, KeepsPromise, Promise!Spec

-----------------------------------------------------------------------------
(* Exports. *)

\* Of the exports in a list only the oldest ones are gone; the newest may be the
\* one being written.
Kept(l, written) ==
  \A i, j \in 1..Len(l) : i < j /\ hf[l[i]] = "whole" => hf[l[j]] = "whole" \/ l[j] = written
Written == IF pc = "HFWriting" THEN step ELSE 0

\* The lists of exports are in order, the file's ends before the resume point, and
\* what is left of it is still listed in memory.
HfInv ==
  /\ InOrder(hf_list) /\ InOrder(meta.hfs)
  /\ Kept(hf_list, Written) /\ Kept(meta.hfs, 0)
  /\ Last(meta.hfs) <= Last(meta.list)
  /\ pc \in {"HF", "HFWriting"} => synced = step /\ Last(meta.hfs) < step
  /\ pc \in Saving \cup {"HF"} => Last(hf_list) < step
  /\ pc \in {"Train", "Done"} => Last(hf_list) <= synced
  /\ pc = "HFWriting" => Last(hf_list) = step
  /\ pc # "Down" => \A j \in 1..Len(meta.hfs) : hf[meta.hfs[j]] = "whole" =>
                        \E i \in 1..Len(hf_list) : hf_list[i] = meta.hfs[j]

\* What is said of the exports holds before the first one.
LEMMA InitHf == Init => HfInv
  BY DEF Init, HfInv, InOrder, Kept, Last, Saving

\* What pruning by position does, and what is left.
LEMMA ExportStep ==
  ASSUME Inv, HfInv, SaveHFBegin
  PROVE  LET n == Len(hf_list)
             o == Over(Append(hf_list, step), HfMaxKeep)
         IN  /\ step \in Steps /\ n \in Nat /\ o \in 0..n
             /\ hf_list' \in Seq(Steps) /\ Len(hf_list') = n + 1 - o
             /\ InOrder(hf_list') /\ Last(hf_list') = step /\ hf_list'[n + 1 - o] = step
             /\ \A i \in 1..(n - o) : hf_list'[i] = hf_list[i + o]
             /\ \A i \in 1..n : hf_list[i] \in Steps /\ hf_list[i] < step
             /\ \A i \in 1..n : hf'[hf_list[i]] = IF i <= o THEN "none" ELSE hf[hf_list[i]]
             /\ hf'[step] = "partial"
             /\ \A s \in Steps : hf'[s] # hf[s] /\ s # step => \E i \in 1..o : s = hf_list[i]
<1> DEFINE n == Len(hf_list)
           a == Append(hf_list, step)
           o == Over(a, HfMaxKeep)
           cut == CutOff(a, HfMaxKeep)
<1> USE RLConstantsAssumption
<1>1. pc = "HF" /\ step \in Steps /\ hf_list \in Seq(Steps) /\ InOrder(hf_list) /\ Last(hf_list) < step
  BY DEF SaveHFBegin, Inv, HfInv, TypeOK, Steps
<1>2. hf_list' = Cut(a, HfMaxKeep)
  BY DEF SaveHFBegin
<1>3. /\ Len(a) = n + 1 /\ a[n + 1] = step /\ n \in Nat
      /\ \A i \in 1..n : a[i] = hf_list[i]
      /\ o \in 0..n
      /\ hf_list' \in Seq(Steps) /\ Len(hf_list') = n + 1 - o
      /\ \A i \in 1..(n + 1 - o) : hf_list'[i] = a[i + o]
  <2> DEFINE m == Cut(a, HfMaxKeep)
  <2>1. /\ a \in Seq(Steps) /\ Len(a) = Len(hf_list) + 1 /\ a[Len(a)] = step
        /\ \A i \in 1..Len(hf_list) : a[i] = hf_list[i]
        /\ o \in 0..Len(hf_list)
        /\ m \in Seq(Steps) /\ Len(m) = Len(a) - o
        /\ \A i \in 1..Len(m) : m[i] = a[i + o]
    <3>1. hf_list \in Seq(Steps) /\ step \in Steps /\ HfMaxKeep \in Nat
      BY <1>1
    <3> HIDE RLConstantsAssumption
    <3> QED BY <3>1, CutEntries
  <2>2. hf_list' = m
    BY <1>2
  <2> HIDE DEF a, o, m
  <2>3. n \in Nat
    BY <1>1
  <2> QED BY <2>1, <2>2, <2>3
<1>4. InOrder(hf_list') /\ Last(hf_list') = step
  BY <1>1, <1>2, CutKeeps
<1>5. \A i \in 1..n : hf_list[i] \in Steps /\ hf_list[i] < step
  <2>1. Last(hf_list) \in Int
    BY <1>1, LastType
  <2> QED BY <2>1, <1>1, LastIsLargest DEF Steps
<1>6. \A s : s \in cut <=> \E i \in 1..o : s = hf_list[i]
  BY <1>3 DEF CutOff
<1>7. \A s \in Steps : hf'[s] = IF s \in cut THEN "none" ELSE IF s = step THEN "partial" ELSE hf[s]
  BY DEF SaveHFBegin
<1> HIDE DEF n, a, o, cut
<1>8. step \notin cut
  <2>1. \A i \in 1..o : hf_list[i] \in Steps /\ hf_list[i] < step
    BY <1>3, <1>5
  <2> QED BY <2>1, <1>1, <1>6 DEF Steps
<1>9. ASSUME NEW i \in 1..n PROVE hf'[hf_list[i]] = IF i <= o THEN "none" ELSE hf[hf_list[i]]
  <2>1. CASE i <= o
    <3>1. i \in 1..o
      BY <2>1, <1>3
    <3> QED BY <3>1, <2>1, <1>5, <1>6, <1>7
  <2>2. CASE i > o
    <3>1. \A j \in 1..o : hf_list[j] # hf_list[i]
      <4>1. ASSUME NEW j \in 1..o PROVE hf_list[j] < hf_list[i]
        BY <2>2, <1>1, <1>3, <4>1, SMTT(60) DEF InOrder, n
      <4> QED BY <4>1, <1>3, <1>5 DEF Steps
    <3>2. hf_list[i] \in Steps /\ hf_list[i] # step /\ hf_list[i] \notin cut
      BY <3>1, <1>1, <1>5, <1>6 DEF Steps
    <3> QED BY <3>2, <2>2, <1>3, <1>7
  <2> QED BY <2>1, <2>2, <1>3
<1>10. hf'[step] = "partial"
  BY <1>1, <1>7, <1>8
<1>11. \A s \in Steps : hf'[s] # hf[s] /\ s # step => \E i \in 1..o : s = hf_list[i]
  BY <1>6, <1>7
<1>12. hf_list'[n + 1 - o] = step /\ \A i \in 1..(n - o) : hf_list'[i] = hf_list[i + o]
  <2>1. n + 1 - o \in 1..(n + 1 - o) /\ n + 1 - o + o = n + 1
    BY <1>3
  <2>2. hf_list'[n + 1 - o] = step
    BY <2>1, <1>3
  <2>3. ASSUME NEW i \in 1..(n - o) PROVE hf_list'[i] = hf_list[i + o]
    <3>1. i \in 1..(n + 1 - o) /\ i + o \in 1..n
      BY <1>3
    <3> QED BY <3>1, <1>3
  <2> QED BY <2>2, <2>3
<1> QED BY <1>1, <1>3, <1>4, <1>5, <1>9, <1>10, <1>11, <1>12 DEF n, o, a

\* A step that touches neither the exports nor their lists.
LEMMA SameExports ==
  ASSUME HfInv, pc # "Down", pc' # "HFWriting", pc # "HFWriting",
         hf' = hf, hf_list' = hf_list, meta'.hfs = meta.hfs
  PROVE  /\ InOrder(hf_list)' /\ InOrder(meta.hfs)'
         /\ Kept(hf_list, Written)' /\ Kept(meta.hfs, 0)'
         /\ Last(hf_list)' = Last(hf_list) /\ Last(meta.hfs)' = Last(meta.hfs)
         /\ (\A j \in 1..Len(meta.hfs) : hf[meta.hfs[j]] = "whole" =>
                \E i \in 1..Len(hf_list) : hf_list[i] = meta.hfs[j])'
<1>1. InOrder(hf_list)' /\ InOrder(meta.hfs)'
  BY DEF HfInv, InOrder
<1>2. Kept(hf_list, Written)' /\ Kept(meta.hfs, 0)'
  BY DEF HfInv, Kept, Written
<1>3. Last(hf_list)' = Last(hf_list) /\ Last(meta.hfs)' = Last(meta.hfs)
  BY DEF Last
<1>4. (\A j \in 1..Len(meta.hfs) : hf[meta.hfs[j]] = "whole" =>
          \E i \in 1..Len(hf_list) : hf_list[i] = meta.hfs[j])'
  BY DEF HfInv
<1> QED BY <1>1, <1>2, <1>3, <1>4

\* ... is kept by every step of _maybe_save_checkpoint, _maybe_save_hf and the resume,
LEMMA NextHf == ASSUME MaxKeep # 1, ~TornWrites, Inv, Inv', HfInv, [Next]_vars PROVE HfInv'
<1> USE RLConstantsAssumption
<1>0. /\ Last(meta.list) \in 0..TotalSteps /\ Last(list) \in 0..TotalSteps
      /\ Last(hf_list) \in 0..TotalSteps /\ Last(meta.hfs) \in 0..TotalSteps
      /\ step \in 0..TotalSteps /\ synced \in 0..TotalSteps
  BY LastType DEF Inv, TypeOK
<1>1. CASE Train \/ SyncPoint \/ SaveManager \/ SaveDCP \/ SaveTrainState \/ AppendMeta \/ Prune
           \/ OpenMeta \/ SkipHF \/ Finish
  <2>1. /\ pc # "Down" /\ pc' # "HFWriting" /\ pc # "HFWriting" /\ pc' # "Down"
        /\ hf' = hf /\ hf_list' = hf_list /\ meta'.hfs = meta.hfs /\ meta'.list = meta.list
    <3>1. CASE OpenMeta
      BY <3>1 DEF OpenMeta, Inv, TypeOK
    <3>2. CASE Train \/ SyncPoint \/ SaveManager \/ SaveDCP \/ SaveTrainState
      BY <3>2 DEF Train, SyncPoint, SaveManager, SaveDCP, SaveTrainState
    <3>3. CASE AppendMeta \/ Prune \/ SkipHF \/ Finish
      BY <3>3 DEF AppendMeta, Prune, SkipHF, Finish
    <3> QED BY <1>1, <3>1, <3>2, <3>3
  <2>2. Last(meta.list)' = Last(meta.list)
    BY <2>1 DEF Last
  <2>3. /\ Last(hf_list)' = Last(hf_list) /\ Last(meta.hfs)' = Last(meta.hfs)
    BY <2>1, SameExports
  <2>4. /\ pc' \in {"HF", "HFWriting"} => synced' = step' /\ Last(meta.hfs) < step'
        /\ pc' \in Saving \cup {"HF"} => Last(hf_list) < step'
        /\ pc' \in {"Train", "Done"} => Last(hf_list) <= synced'
    BY <1>1, <1>0 DEF Train, SyncPoint, SaveManager, SaveDCP, SaveTrainState, AppendMeta, Prune, OpenMeta,
       SkipHF, Finish, HfInv, Inv, Saving
  <2>5. Last(meta.hfs)' <= Last(meta.list)'
    BY <2>2, <2>3 DEF HfInv
  <2> QED BY <2>1, <2>3, <2>4, <2>5, SameExports DEF HfInv
<1>2. CASE WriteMeta
  <2>1. /\ pc = "Write" /\ pc' = "HF" /\ meta'.hfs = hf_list /\ meta'.list = list
        /\ step' = step /\ synced' = synced /\ hf' = hf /\ hf_list' = hf_list
    BY <1>2 DEF WriteMeta
  <2>2. Last(list) = step /\ synced = step /\ Last(hf_list) < step
    BY <2>1 DEF Inv, HfInv, Saving
  <2>3. Last(meta.list)' = step /\ Last(meta.hfs)' = Last(hf_list) /\ Last(hf_list)' = Last(hf_list)
    BY <2>1, <2>2 DEF Last
  <2>4. InOrder(hf_list)' /\ InOrder(meta.hfs)'
    BY <2>1 DEF HfInv, InOrder
  <2>5. Kept(hf_list, Written)' /\ Kept(meta.hfs, 0)'
    BY <2>1 DEF HfInv, Kept, Written
  <2> QED BY <2>1, <2>2, <2>3, <2>4, <2>5, <1>0 DEF HfInv, Saving
<1>3. CASE SaveHFBegin
  <2> DEFINE n == Len(hf_list)
             o == Over(Append(hf_list, step), HfMaxKeep)
  <2>0. /\ pc = "HF" /\ pc' = "HFWriting" /\ meta' = meta /\ step' = step /\ synced' = synced
    BY <1>3 DEF SaveHFBegin
  <2>1. /\ step \in Steps /\ n \in Nat /\ o \in 0..n
        /\ hf_list' \in Seq(Steps) /\ Len(hf_list') = n + 1 - o
        /\ InOrder(hf_list') /\ Last(hf_list') = step /\ hf_list'[n + 1 - o] = step
        /\ \A i \in 1..(n - o) : hf_list'[i] = hf_list[i + o]
        /\ \A i \in 1..n : hf_list[i] \in Steps /\ hf_list[i] < step
        /\ \A i \in 1..n : hf'[hf_list[i]] = IF i <= o THEN "none" ELSE hf[hf_list[i]]
        /\ hf'[step] = "partial"
        /\ \A s \in Steps : hf'[s] # hf[s] /\ s # step => \E i \in 1..o : s = hf_list[i]
    BY <1>3, ExportStep
  <2>2. /\ \A i, j \in 1..n : i < j /\ hf[hf_list[i]] = "whole" => hf[hf_list[j]] = "whole"
        /\ \A i, j \in 1..n : i < j => hf_list[i] < hf_list[j]
    <3>1. \A i, j \in 1..n : i < j /\ hf[hf_list[i]] = "whole" => hf[hf_list[j]] = "whole" \/ hf_list[j] = 0
      BY <2>0 DEF HfInv, Kept, Written
    <3>2. \A i \in 1..n : hf_list[i] # 0
      BY <2>1 DEF Steps
    <3> QED BY <3>1, <3>2 DEF HfInv, InOrder
  <2>3. /\ meta.hfs \in Seq(Steps) /\ InOrder(meta.hfs) /\ Last(meta.hfs) < step
        /\ \A i \in 1..Len(meta.hfs) : meta.hfs[i] \in Steps /\ meta.hfs[i] < step
    <3>1. meta.hfs \in Seq(Steps) /\ InOrder(meta.hfs) /\ Last(meta.hfs) < step
      BY <2>0 DEF Inv, HfInv, TypeOK
    <3>2. \A i \in 1..Len(meta.hfs) : meta.hfs[i] \in Steps /\ meta.hfs[i] <= Last(meta.hfs)
      BY <3>1, LastIsLargest
    <3>3. step \in Int /\ Last(meta.hfs) \in Int /\ \A s \in Steps : s \in Int
      BY <3>1, LastType DEF Steps, Inv, TypeOK
    <3> QED BY <3>1, <3>2, <3>3
  <2> HIDE DEF n, o
  <2>5. ASSUME NEW j \in 1..Len(meta.hfs), hf'[meta.hfs[j]] = "whole"
        PROVE  \E p \in (o + 1)..n : hf_list[p] = meta.hfs[j] /\ hf[meta.hfs[j]] = "whole"
    <3>1. hf[meta.hfs[j]] = "whole"
      <4>1. CASE hf'[meta.hfs[j]] # hf[meta.hfs[j]]
        <5>1. \E i \in 1..o : meta.hfs[j] = hf_list[i]
          <6>1. meta.hfs[j] \in Steps /\ meta.hfs[j] # step
            <7>1. meta.hfs[j] \in Steps /\ meta.hfs[j] < step
              BY <2>3
            <7>2. step \in Int
              BY DEF Inv, TypeOK
            <7>3. \A s \in Steps : s \in Int
              BY DEF Steps
            <7> QED BY <7>1, <7>2, <7>3
          <6>2. \A s \in Steps : hf'[s] # hf[s] /\ s # step => \E i \in 1..o : s = hf_list[i]
            BY <2>1
          <6> QED BY <6>1, <6>2, <4>1
        <5>2. \A i \in 1..o : hf'[hf_list[i]] = "none"
          BY <2>1
        <5> QED BY <5>1, <5>2, <2>5
      <4> QED BY <4>1, <2>5
    <3>2. PICK p \in 1..n : hf_list[p] = meta.hfs[j]
      BY <3>1, <2>0 DEF HfInv, n
    <3>3. ~(p <= o)
      BY <3>2, <2>1, <2>5
    <3>4. p \in (o + 1)..n
      BY <3>3, <2>1
    <3> QED BY <3>1, <3>2, <3>4
  <2>6. Kept(meta.hfs, 0)'
    <3> SUFFICES ASSUME NEW i \in 1..Len(meta.hfs), NEW j \in 1..Len(meta.hfs), i < j,
                        hf'[meta.hfs[i]] = "whole"
                 PROVE  hf'[meta.hfs[j]] = "whole"
      BY <2>0 DEF Kept
    <3>1. PICK p \in (o + 1)..n : hf_list[p] = meta.hfs[i] /\ hf[meta.hfs[i]] = "whole"
      BY <2>5
    <3>2. meta.hfs[i] < meta.hfs[j] /\ meta.hfs[j] \in Steps
      BY <2>3 DEF InOrder
    <3>3. hf[meta.hfs[j]] = "whole"
      <4>1. hf[meta.hfs[j]] = "whole" \/ meta.hfs[j] = 0
        BY <3>1 DEF HfInv, Kept
      <4> QED BY <4>1, <3>2 DEF Steps
    <3>4. PICK q \in 1..n : hf_list[q] = meta.hfs[j]
      BY <3>3, <2>0 DEF HfInv, n
    <3>5. hf_list[p] < hf_list[q] /\ p \in 1..n /\ hf_list[p] \in Int /\ hf_list[q] \in Int
      <4>1. p \in 1..n
        BY <2>1
      <4>2. hf_list[p] \in Int /\ hf_list[q] \in Int
        <5>1. meta.hfs[i] \in Steps /\ meta.hfs[j] \in Steps
          BY <2>3
        <5>2. hf_list[p] \in Steps /\ hf_list[q] \in Steps
          BY <5>1, <3>1, <3>4
        <5>3. \A s \in Steps : s \in Int
          BY DEF Steps
        <5> QED BY <5>2, <5>3
      <4> QED BY <4>1, <4>2, <3>1, <3>2, <3>4
    <3>6. q > p
      <4>1. CASE q < p
        BY <4>1, <3>5, <2>2
      <4>2. CASE q = p
        BY <4>2, <3>5
      <4> QED BY <4>1, <4>2, <3>1, <3>4, <2>1
    <3>7. ~(q <= o)
      BY <3>6, <3>1, <2>1
    <3> QED BY <3>7, <3>4, <3>3, <2>1
  <2>7. Kept(hf_list, Written)'
    <3> SUFFICES ASSUME NEW i \in 1..Len(hf_list'), NEW j \in 1..Len(hf_list'), i < j,
                        hf'[hf_list'[i]] = "whole"
                 PROVE  hf'[hf_list'[j]] = "whole" \/ hf_list'[j] = step
      BY <2>0 DEF Kept, Written
    <3>1. i \in 1..(n - o) /\ i + o \in 1..n /\ i + o > o
      BY <2>1
    <3>2. hf_list'[i] = hf_list[i + o] /\ hf[hf_list[i + o]] = "whole"
      BY <3>1, <2>1
    <3>3. CASE j = n + 1 - o
      BY <3>3, <2>1
    <3>4. CASE j # n + 1 - o
      <4>1. j \in 1..(n - o) /\ j + o \in 1..n /\ j + o > o /\ i + o < j + o
        BY <3>4, <2>1
      <4>2. hf_list'[j] = hf_list[j + o] /\ hf[hf_list[j + o]] = "whole"
        BY <4>1, <3>1, <3>2, <2>1, <2>2
      <4> QED BY <4>1, <4>2, <2>1
    <3> QED BY <3>3, <3>4
  <2>8. (\A j \in 1..Len(meta.hfs) : hf[meta.hfs[j]] = "whole" =>
            \E i \in 1..Len(hf_list) : hf_list[i] = meta.hfs[j])'
    <3> SUFFICES ASSUME NEW j \in 1..Len(meta.hfs), hf'[meta.hfs[j]] = "whole"
                 PROVE  \E i \in 1..Len(hf_list') : hf_list'[i] = meta.hfs[j]
      BY <2>0
    <3>1. PICK p \in (o + 1)..n : hf_list[p] = meta.hfs[j]
      BY <2>5
    <3>2. p - o \in 1..(n - o) /\ p - o \in 1..Len(hf_list') /\ p - o + o = p
      BY <3>1, <2>1
    <3>3. hf_list'[p - o] = hf_list[p]
      BY <3>2, <2>1
    <3> QED BY <3>1, <3>2, <3>3
  <2>9. InOrder(hf_list)' /\ InOrder(meta.hfs)' /\ Last(hf_list)' = step
        /\ Last(meta.hfs)' = Last(meta.hfs) /\ Last(meta.list)' = Last(meta.list)
    BY <2>0, <2>1, <2>3 DEF InOrder, Last
  <2> QED BY <2>0, <2>3, <2>6, <2>7, <2>8, <2>9 DEF HfInv, Saving
<1>4. CASE SaveHFEnd
  <2>0. /\ pc = "HFWriting" /\ pc' = "Train" /\ meta' = meta /\ step' = step /\ synced' = synced
        /\ hf_list' = hf_list /\ hf' = [hf EXCEPT ![step] = "whole"]
    BY <1>4 DEF SaveHFEnd
  <2>1. /\ hf_list \in Seq(Steps) /\ meta.hfs \in Seq(Steps) /\ hf \in [Steps -> {"none", "partial", "whole"}]
        /\ InOrder(hf_list) /\ InOrder(meta.hfs) /\ Last(hf_list) = step /\ Last(meta.hfs) < step
        /\ synced = step
    BY <2>0 DEF Inv, HfInv, TypeOK
  <2>2. \A i, j \in 1..Len(hf_list) : i < j => hf_list[i] \in Steps /\ hf_list[i] < step
    BY <2>1, <1>0, LastIsLargest
  <2>3. \A i \in 1..Len(meta.hfs) : meta.hfs[i] \in Steps /\ meta.hfs[i] < step
    BY <2>1, <1>0, LastIsLargest DEF Steps
  <2>4. \A s \in Steps : hf'[s] = IF s = step THEN "whole" ELSE hf[s]
    BY <2>0, <2>1
  <2>5. Kept(hf_list, Written)'
    <3> SUFFICES ASSUME NEW i \in 1..Len(hf_list), NEW j \in 1..Len(hf_list), i < j,
                        hf'[hf_list[i]] = "whole"
                 PROVE  hf'[hf_list[j]] = "whole"
      BY <2>0 DEF Kept, Written
    <3>1. hf_list[j] \in Steps /\ hf_list[i] \in Steps /\ hf_list[i] # step
      <4>1. hf_list[j] \in Steps
        BY <2>1
      <4>2. hf_list[i] \in Steps /\ hf_list[i] < step
        BY <2>2
      <4>3. step \in Int
        BY DEF Inv, TypeOK
      <4>4. hf_list[i] \in Int
        BY <4>2 DEF Steps
      <4> QED BY <4>1, <4>2, <4>3, <4>4
    <3>2. hf[hf_list[i]] = "whole"
      BY <3>1, <2>4
    <3>3. hf[hf_list[j]] = "whole" \/ hf_list[j] = step
      BY <3>2, <2>0 DEF HfInv, Kept, Written
    <3> QED BY <3>1, <3>3, <2>4
  <2>6. \A j \in 1..Len(meta.hfs) : hf'[meta.hfs[j]] = hf[meta.hfs[j]]
    BY <2>3, <2>4, <1>0 DEF Steps
  <2>7. Kept(meta.hfs, 0)'
    BY <2>0, <2>6 DEF HfInv, Kept
  <2>8. (\A j \in 1..Len(meta.hfs) : hf[meta.hfs[j]] = "whole" =>
            \E i \in 1..Len(hf_list) : hf_list[i] = meta.hfs[j])'
    BY <2>0, <2>6 DEF HfInv
  <2>9. InOrder(hf_list)' /\ InOrder(meta.hfs)' /\ Last(hf_list)' = step
        /\ Last(meta.hfs)' = Last(meta.hfs) /\ Last(meta.list)' = Last(meta.list)
    BY <2>0, <2>1 DEF InOrder, Last
  <2> QED BY <2>0, <2>1, <2>5, <2>7, <2>8, <2>9, <1>0 DEF HfInv, Saving
<1>5. CASE Crash \/ RestartFresh \/ Restart
  <2>1. CASE Crash
    <3>1. /\ pc' = "Down" /\ hf_list' = <<>> /\ meta' = meta /\ hf' = hf
      BY <2>1 DEF Crash
    <3>2. Kept(hf_list, Written)' /\ Kept(meta.hfs, 0)' /\ InOrder(hf_list)' /\ InOrder(meta.hfs)'
      BY <3>1 DEF HfInv, Kept, InOrder
    <3>3. Last(meta.hfs)' = Last(meta.hfs) /\ Last(meta.list)' = Last(meta.list)
      BY <3>1 DEF Last
    <3> QED BY <3>1, <3>2, <3>3 DEF HfInv, Saving
  <2>2. CASE RestartFresh
    <3>1. /\ pc = "Down" /\ pc' = "Train" /\ hf_list' = hf_list /\ meta' = meta /\ synced' = synced
          /\ hf_list = <<>> /\ meta.hfs = <<>> /\ meta.list = <<>> /\ synced = 0
      BY <2>2 DEF RestartFresh, Inv
    <3>2. Last(hf_list)' = 0 /\ Last(meta.hfs)' = 0 /\ Last(meta.list)' = 0
      BY <3>1 DEF Last
    <3>3. Kept(hf_list, Written)' /\ Kept(meta.hfs, 0)' /\ InOrder(hf_list)' /\ InOrder(meta.hfs)'
      BY <3>1 DEF Kept, InOrder
    <3> QED BY <3>1, <3>2, <3>3 DEF HfInv, Saving
  <2>3. CASE Restart
    <3>1. /\ pc = "Down" /\ pc' \in {"Train", "Unloadable"} /\ hf_list' = meta.hfs /\ meta' = meta
          /\ hf' = hf /\ synced' = Last(meta.list)
      <4>1. pc' # "Unloadable"
        BY DEF Inv
      <4> QED BY <2>3, <4>1 DEF Restart
    <3>2. /\ Last(hf_list)' = Last(meta.hfs) /\ Last(meta.hfs)' = Last(meta.hfs)
          /\ Last(meta.list)' = Last(meta.list)
      BY <3>1 DEF Last
    <3>3. Kept(hf_list, Written)' /\ Kept(meta.hfs, 0)' /\ InOrder(hf_list)' /\ InOrder(meta.hfs)'
      BY <3>1 DEF HfInv, Kept, InOrder, Written
    <3> QED BY <3>1, <3>2, <3>3 DEF HfInv, Saving
  <2> QED BY <1>5, <2>1, <2>2, <2>3
<1>6. CASE Rest \/ UNCHANGED vars
  <2>1. UNCHANGED <<step, synced, pc, hf_list, meta, hf>>
    BY <1>6 DEF Rest, vars
  <2>2. Kept(hf_list, Written)' /\ Kept(meta.hfs, 0)' /\ InOrder(hf_list)' /\ InOrder(meta.hfs)'
    BY <2>1 DEF HfInv, Kept, InOrder, Written
  <2>3. /\ Last(hf_list)' = Last(hf_list) /\ Last(meta.hfs)' = Last(meta.hfs)
        /\ Last(meta.list)' = Last(meta.list)
    BY <2>1 DEF Last
  <2> QED BY <2>1, <2>2, <2>3 DEF HfInv
<1> QED BY <1>1, <1>2, <1>3, <1>4, <1>5, <1>6 DEF Next, Work

\* ... and holds in every state of every run.
LEMMA AlwaysHf == ASSUME MaxKeep # 1, ~TornWrites PROVE Spec => []HfInv
<1>1. Init => HfInv
  BY InitHf
<1>2. Inv /\ Inv' /\ HfInv /\ [Next]_vars => HfInv'
  BY NextHf
<1> QED BY <1>1, <1>2, AlwaysInv, PTL DEF Spec

\* Pruning exports by position (_maybe_save_hf) never removes one of the HfMaxKeep
\* newest, although a resume goes back to an older list and makes exports again: the
\* file hears of an export only with the next checkpoint, so none is listed twice.
THEOREM PruningSparesTheNewest ==
  ASSUME MaxKeep # 1, ~TornWrites PROVE Spec => OnlyOldExportsGo
<1> DEFINE Newer(s) == {t \in Steps : t > s /\ (hf[t] = "whole" \/ t = step)}
           Spared == \A s \in Steps : hf[s] = "whole" /\ hf'[s] = "none" /\ pc # "Down"
                                         => Cardinality(Newer(s)) >= HfMaxKeep
<1>1. Inv /\ HfInv /\ [Next]_vars => [Spared]_vars
  <2> SUFFICES ASSUME Inv, HfInv, Next, NEW s \in Steps,
                      hf[s] = "whole", hf'[s] = "none", pc # "Down"
               PROVE  Cardinality(Newer(s)) >= HfMaxKeep
    OBVIOUS
  <2>1. CASE SaveHFBegin
    <3> DEFINE n == Len(hf_list)
               o == Over(Append(hf_list, step), HfMaxKeep)
    <3>0. pc = "HF" /\ Len(Append(hf_list, step)) = n + 1 /\ HfMaxKeep \in Nat
      BY <2>1, RLConstantsAssumption DEF SaveHFBegin, Inv, TypeOK
    <3>1. /\ step \in Steps /\ n \in Nat /\ o \in 0..n
          /\ hf_list' \in Seq(Steps) /\ Len(hf_list') = n + 1 - o
          /\ InOrder(hf_list') /\ hf_list'[n + 1 - o] = step
          /\ \A i \in 1..(n - o) : hf_list'[i] = hf_list[i + o]
          /\ \A i \in 1..n : hf_list[i] \in Steps /\ hf_list[i] < step
          /\ hf'[step] = "partial"
          /\ \A t \in Steps : hf'[t] # hf[t] /\ t # step => \E i \in 1..o : t = hf_list[i]
      BY <2>1, ExportStep
    <3>2. PICK p \in 1..o : s = hf_list[p]
      BY <3>1
    <3>3. n + 1 - o = HfMaxKeep
      BY <3>0, <3>1, <3>2 DEF Over
    <3> HIDE DEF n, o
    <3>4. ASSUME NEW i \in 1..HfMaxKeep PROVE hf_list'[i] \in Newer(s)
      <4>1. CASE i = HfMaxKeep
        <5>1. s < step /\ hf_list'[i] = step
          BY <4>1, <3>1, <3>2, <3>3
        <5> QED BY <5>1, <3>1 DEF Steps
      <4>2. CASE i # HfMaxKeep
        <5>1. i \in 1..(n - o) /\ i + o \in 1..n /\ p \in 1..n /\ p < i + o
          BY <4>2, <3>0, <3>1, <3>2, <3>3
        <5>2. hf_list'[i] = hf_list[i + o] /\ hf_list[i + o] \in Steps
          BY <5>1, <3>1
        <5>3. hf_list[p] < hf_list[i + o]
          BY <5>1 DEF HfInv, InOrder, n
        <5>4. hf[hf_list[i + o]] = "whole"
          <6>1. hf[hf_list[i + o]] = "whole" \/ hf_list[i + o] = 0
            BY <5>1, <3>0, <3>2 DEF HfInv, Kept, Written, n
          <6> QED BY <6>1, <5>2 DEF Steps
        <5> QED BY <5>2, <5>3, <5>4, <3>2 DEF Steps
      <4> QED BY <4>1, <4>2
    <3> DEFINE f == [i \in 1..HfMaxKeep |-> hf_list'[i]]
    <3>5. f \in [1..HfMaxKeep -> Newer(s)]
      BY <3>4
    <3>6. ASSUME NEW i \in 1..HfMaxKeep, NEW j \in 1..HfMaxKeep, f[i] = f[j] PROVE i = j
      <4>1. Len(hf_list') = HfMaxKeep /\ hf_list'[i] = hf_list'[j] /\ hf_list'[i] \in Steps
        BY <3>1, <3>3, <3>4, <3>6
      <4>2. ~(i < j) /\ ~(j < i)
        BY <4>1, <3>1 DEF InOrder, Steps
      <4> QED BY <4>2, <3>0
    <3>7. f \in Injection(1..HfMaxKeep, Newer(s))
      BY <3>5, <3>6 DEF Injection, IsInjective
    <3>8. IsFiniteSet(Newer(s))
      <4>1. IsFiniteSet(Steps)
        BY FS_Interval, RLConstantsAssumption DEF Steps
      <4> QED BY <4>1, FS_Subset
    <3> HIDE DEF f, Newer
    <3>9. Cardinality(1..HfMaxKeep) <= Cardinality(Newer(s))
      BY <3>7, <3>8, FS_Injection
    <3>10. Cardinality(1..HfMaxKeep) = HfMaxKeep
      BY <3>0, FS_Interval
    <3>11. Cardinality(Newer(s)) \in Nat
      BY <3>8, FS_CardinalityType
    <3> QED BY <3>0, <3>9, <3>10, <3>11
  <2>2. CASE ~SaveHFBegin
    BY <2>2 DEF Next, Work, Train, SyncPoint, SaveManager, SaveDCP, SaveTrainState, AppendMeta, Prune,
       OpenMeta, WriteMeta, SaveHFEnd, SkipHF, Finish, RestartFresh, Restart, Crash, Rest, vars,
       Inv, TypeOK
  <2> QED BY <2>1, <2>2
<1> QED BY <1>1, AlwaysInv, AlwaysHf, PTL DEF Spec, OnlyOldExportsGo
===============================================================================
