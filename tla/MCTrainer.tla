----------------------------- MODULE MCTrainer -----------------------------
(* Small instances of TrainerCheckpoint: the configurations of the runs.   *)
EXTENDS TrainerCheckpoint

Config(ckpt, snapshot, hf_interval, async_checkpoint, async_hf_export, crash, failure) ==
  [ckpt |-> ckpt, snapshot |-> snapshot, hf |-> hf_interval, maxkeep |-> 2, hf_max_keep |-> 0,
   async_checkpoint |-> async_checkpoint, async_hf_export |-> async_hf_export,
   crashes |-> crash, failures |-> failure]

\* Everything on the main thread, with two crashes, after which an export is made
\* again and listed again, up to as many times as exports are kept; exports in the
\* background that may fail, with a crash; everything in the background, one kept.
Mixed == {[Config(2, 0, 3, FALSE, FALSE, 2, 0) EXCEPT !.hf_max_keep = 3],
          Config(2, 0, 2, FALSE, TRUE, 1, 2),
          [Config(2, 3, 2, TRUE, TRUE, 0, 0) EXCEPT !.hf_max_keep = 1]}

\* Asynchronous checkpoints and a crash.
AsyncCrash == {Config(2, 0, 0, TRUE, FALSE, 1, 0)}
=============================================================================
