--------------------------- MODULE DurableProgress ---------------------------
(***************************************************************************)
(* What a trainer with checkpoints promises, whatever it does to keep the  *)
(* promise: training moves one step at a time, the step a restart would    *)
(* resume from only moves forward and never past what was trained, and a   *)
(* failure costs the steps since that point and nothing else.              *)
(* TrainerCheckpoint (the supervised trainer) and RLCheckpoint (the RL     *)
(* trainers) implement it.                                                 *)
(***************************************************************************)
EXTENDS Naturals

CONSTANT Total \* training steps of the job

VARIABLES step,  \* steps trained
          saved, \* the step a restart resumes from, 0 for the beginning
          mode   \* "up", "down" (failed, not yet restarted) or "done"

vars == <<step, saved, mode>>

Init == step = 0 /\ saved = 0 /\ mode = "up"

Train == /\ mode = "up"
         /\ step < Total
         /\ step' = step + 1
         /\ UNCHANGED <<saved, mode>>

Save == /\ mode = "up"
        /\ saved' \in (saved + 1)..step
        /\ UNCHANGED <<step, mode>>

Fail == /\ mode = "up"
        /\ mode' = "down"
        /\ step' = saved
        /\ UNCHANGED saved

Recover == /\ mode = "down"
           /\ mode' = "up"
           /\ UNCHANGED <<step, saved>>

Finish == /\ mode = "up"
          /\ step = Total
          /\ mode' = "done"
          /\ UNCHANGED <<step, saved>>

Next == Train \/ Save \/ Fail \/ Recover \/ Finish

Spec == Init /\ [][Next]_vars

TypeOK == /\ step \in 0..Total
          /\ saved \in 0..Total
          /\ mode \in {"up", "down", "done"}

\* Nothing is saved that was not trained (both trainers name a checkpoint after
\* the step they just finished), so a failure never moves a job forward.
SavedWasTrained == saved <= step
==============================================================================
