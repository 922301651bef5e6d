------------------------------ MODULE DataOrder ------------------------------
(***************************************************************************)
(* The order in which training consumes its dataset, across restarts that  *)
(* may change the number of data-parallel ranks (datasets/sampler.py,      *)
(* datasets/preset_sampler.py, datasets/dataloader.py, and                 *)
(* Trainer._data_iter, _save_dataloader and _load_checkpoint).             *)
(*                                                                         *)
(* Each rank owns a loader that prefetches indices from its sampler, and   *)
(* only a training step synchronises the ranks.  A sample is its position  *)
(* in the shuffled order of one pass over the data; that order is a        *)
(* function of the seed, which never changes, the sampler's epoch and, for *)
(* LengthGroupedSampler, its group size.                                   *)
(***************************************************************************)
EXTENDS Integers, Sequences, FiniteSets

CONSTANTS
    TotalSize,    \* total_size: samples of one pass, padded or cut to whole batches
    GlobalBatch,  \* global_batch_size
    Worlds,       \* numbers of data-parallel ranks a launch may use
    FirstEpoch,   \* _cur_epoch of a new trainer: 1, while its sampler is at epoch 0
    Ahead,        \* batches a loader may draw ahead of the one it delivers
    MaxSteps,     \* total_step
    MaxRestarts   \* bound: crashes of the job

ASSUME DataConstantsAssumption ==
    /\ GlobalBatch \in Nat \ {0}
    /\ TotalSize \in Nat \ {0} /\ TotalSize % GlobalBatch = 0
    /\ Worlds \subseteq 1..GlobalBatch /\ Worlds # {}
    /\ \A w \in Worlds : GlobalBatch % w = 0
    /\ FirstEpoch \in Nat /\ Ahead \in Nat \ {0}
    /\ MaxSteps \in Nat /\ MaxRestarts \in Nat

VARIABLES
    world,       \* data-parallel ranks of this launch
    loader,      \* the loader, its sampler and the iterator of each rank
    cur_epoch,   \* _cur_epoch of each rank
    batch,       \* the batch each rank has fetched and not trained, <<>> if none
    init_total,  \* _init_total_samples
    group_size,  \* LengthGroupedSampler.group_size
    saved,       \* the checkpoint a restart loads, <<>> if there is none
    history,     \* ghost: the batches the current weights were trained on
    resumed,     \* ghost: the lengths of history at which it was resumed
    restarts

vars == <<world, loader, cur_epoch, batch, init_total, group_size, saved, history, resumed,
          restarts>>

Ranks == 0..(world - 1)
PerRank(w) == GlobalBatch \div w

\* sampler.__iter__: the i-th index of indices[step + rank : total_size : world_size].
Slice(l, r, i) == [at |-> l.start + r + world * i, epoch |-> l.key, group |-> group_size]

\* How many indices that slice has.
SliceLen(l, r, w) == (TotalSize - l.start - r + w - 1) \div w

\* iter(dataloader): the sampler's epoch and step are read when the order is made.
Opened(epoch, step) ==
    [epoch |-> epoch, step |-> step, key |-> epoch, start |-> step,
     drawn |-> 0, given |-> 0, exhausted |-> FALSE, local |-> 0]

\* Mutant: a restart groups the lengths by its own number of ranks.
LaunchRegroups(w, epoch, step, total, cur, group) ==
    /\ world' = w
    /\ loader' = [r \in 0..(w - 1) |-> Opened(epoch, step)]
    /\ cur_epoch' = [r \in 0..(w - 1) |-> cur]
    /\ batch' = [r \in 0..(w - 1) |-> <<>>]
    /\ init_total' = total
    /\ group_size' = w

\* The trainer of w ranks is built, with the state the checkpoint gives it.
Launch(w, epoch, step, total, cur, group) ==
    /\ world' = w
    /\ loader' = [r \in 0..(w - 1) |-> Opened(epoch, step)]
    /\ cur_epoch' = [r \in 0..(w - 1) |-> cur]
    /\ batch' = [r \in 0..(w - 1) |-> <<>>]
    /\ init_total' = total
    /\ group_size' = group

Init ==
    /\ world \in Worlds
    /\ loader = [r \in Ranks |-> Opened(0, 0)]
    /\ cur_epoch = [r \in Ranks |-> FirstEpoch]
    /\ batch = [r \in Ranks |-> <<>>]
    /\ init_total = 0
    /\ group_size = world
    /\ saved = <<>>
    /\ history = <<>> /\ resumed = {}
    /\ restarts = 0

-----------------------------------------------------------------------------
\* The loader draws the indices of one more batch from the sampler.
Draw(r) ==
    LET l == loader[r] IN
    /\ l.drawn < SliceLen(l, r, world)
    /\ l.drawn - l.given < Ahead * PerRank(world)
    /\ loader' = [loader EXCEPT ![r].drawn = @ + PerRank(world)]
    /\ UNCHANGED <<world, cur_epoch, batch, init_total, group_size, saved, history, resumed,
                   restarts>>

\* The draw that finds the sampler empty: __iter__ ends by resetting its step.
Exhaust(r) ==
    LET l == loader[r] IN
    /\ ~l.exhausted /\ l.drawn = SliceLen(l, r, world)
    /\ l.drawn - l.given < Ahead * PerRank(world)
    /\ loader' = [loader EXCEPT ![r].exhausted = TRUE, ![r].step = 0]
    /\ UNCHANGED <<world, cur_epoch, batch, init_total, group_size, saved, history, resumed,
                   restarts>>

\* next(data_iter) delivers a batch, which counts as consumed from then on.
Fetch(r) ==
    LET l == loader[r]
        size == PerRank(world)
    IN  /\ Len(history) < MaxSteps
        /\ batch[r] = <<>> /\ l.given < l.drawn
        /\ batch' = [batch EXCEPT ![r] = [i \in 1..size |-> Slice(l, r, l.given + i - 1)]]
        /\ loader' = [loader EXCEPT ![r].given = @ + size, ![r].local = @ + size]
        /\ UNCHANGED <<world, cur_epoch, init_total, group_size, saved, history, resumed, restarts>>

\* Mutant: the sampler is not told of the new epoch.
NextEpochSameOrder(r) ==
    LET l == loader[r] IN
    /\ Len(history) < MaxSteps
    /\ batch[r] = <<>> /\ l.exhausted /\ l.given = l.drawn
    /\ cur_epoch' = [cur_epoch EXCEPT ![r] = @ + 1]
    /\ loader' = [loader EXCEPT ![r] = [Opened(l.epoch, l.step) EXCEPT !.local = l.local]]
    /\ UNCHANGED <<world, batch, init_total, group_size, saved, history, resumed, restarts>>

\* next(data_iter) raises StopIteration: the next pass begins.
NextEpoch(r) ==
    LET l == loader[r] IN
    /\ Len(history) < MaxSteps
    /\ batch[r] = <<>> /\ l.exhausted /\ l.given = l.drawn
    /\ cur_epoch' = [cur_epoch EXCEPT ![r] = @ + 1]
    /\ loader' = [loader EXCEPT ![r] = [Opened(cur_epoch[r] + 1, l.step) EXCEPT !.local = l.local]]
    /\ UNCHANGED <<world, batch, init_total, group_size, saved, history, resumed, restarts>>

\* One training step, on the batches of all ranks.
TrainStep ==
    /\ \A r \in Ranks : batch[r] # <<>>
    /\ history' = Append(history, UNION {{batch[r][i] : i \in DOMAIN batch[r]} : r \in Ranks})
    /\ batch' = [r \in Ranks |-> <<>>]
    /\ UNCHANGED <<world, loader, cur_epoch, init_total, group_size, saved, resumed, restarts>>

\* Mutant: what the prefetching has drawn counts as consumed.
ConsumedWithPrefetch(r) == loader[r].local + (loader[r].drawn - loader[r].given)

\* _local_samples of a rank: what reached the caller.
Consumed(r) == loader[r].local

\* reduce_sum_across_dp_group.
TotalConsumed ==
    LET upto[r \in -1..(world - 1)] == IF r = -1 THEN 0 ELSE upto[r - 1] + Consumed(r)
    IN  init_total + upto[world - 1]

\* A checkpoint is written after a step, before any rank fetches again.
AfterStep == history # <<>> /\ \A r \in Ranks : batch[r] = <<>> /\ loader[r].given > 0

\* Mutant: the step is not taken modulo the size of a pass.
StateWithoutWrap ==
    [epoch |-> loader[0].epoch, step |-> TotalConsumed, total |-> TotalConsumed,
     cur |-> cur_epoch[0], group |-> group_size, history |-> history, resumed |-> resumed]

\* get_state_dict of rank 0, and the trainer's own epoch in the train state.
State ==
    [epoch |-> loader[0].epoch, step |-> TotalConsumed % TotalSize, total |-> TotalConsumed,
     cur |-> cur_epoch[0], group |-> group_size, history |-> history, resumed |-> resumed]

Save ==
    /\ AfterStep
    /\ saved' = State
    /\ saved' # saved
    /\ UNCHANGED <<world, loader, cur_epoch, batch, init_total, group_size, history, resumed,
                   restarts>>

-----------------------------------------------------------------------------
\* The job dies and is launched again, with any number of ranks.
Restart(w) ==
    /\ restarts < MaxRestarts
    /\ restarts' = restarts + 1
    /\ IF saved = <<>>
       THEN /\ Launch(w, 0, 0, 0, FirstEpoch, w)
            /\ history' = <<>> /\ resumed' = {}
       ELSE /\ Launch(w, saved.epoch, saved.step, saved.total, saved.cur, saved.group)
            /\ history' = saved.history
            /\ resumed' = saved.resumed \cup {Len(saved.history)}
    /\ UNCHANGED saved

\* The loop of fit ends.
Done == Len(history) = MaxSteps /\ UNCHANGED vars

Next ==
    \/ \E r \in Ranks : Draw(r) \/ Exhaust(r) \/ Fetch(r) \/ NextEpoch(r)
    \/ TrainStep \/ Save \/ Done
    \/ \E w \in Worlds : Restart(w)

Spec == Init /\ [][Next]_vars

-----------------------------------------------------------------------------
Samples == [at : Nat, epoch : Nat, group : Worlds]

\* Type invariant.
TypeOK ==
    /\ world \in Worlds /\ group_size \in Worlds
    /\ cur_epoch \in [Ranks -> Nat] /\ init_total \in Nat
    /\ batch \in [Ranks -> Seq(Samples)]
    /\ loader \in [Ranks -> [epoch : Nat, step : 0..(TotalSize - 1), key : Nat,
                             start : 0..(TotalSize - 1), drawn : Nat, given : Nat,
                             exhausted : BOOLEAN, local : Nat]]
    /\ history \in Seq(SUBSET Samples) /\ resumed \subseteq Nat
    /\ restarts \in 0..MaxRestarts
    /\ saved = <<>> \/ saved.step \in 0..(TotalSize - 1)

\* The positions of the pass that the n-th batch has to hold.
Block(n) == LET from == ((n - 1) * GlobalBatch) % TotalSize IN from..(from + GlobalBatch - 1)

\* However often the job was restarted, with however many ranks and however far the
\* loaders had prefetched, the weights have seen every pass in order: no sample of it
\* twice and none left out.
EachSampleOnce ==
    \A n \in DOMAIN history :
        /\ {s.at : s \in history[n]} = Block(n)
        /\ Cardinality(history[n]) = GlobalBatch

\* The positions above are positions in ONE order: all ranks, and all batches of a
\* pass, before and after a restart, use the same shuffle.
OneOrderPerPass ==
    \A n \in DOMAIN history : \A s \in history[n] :
        /\ \A t \in history[n] : s.epoch = t.epoch /\ s.group = t.group
        /\ (n > 1 /\ (n - 1) * GlobalBatch % TotalSize # 0) =>
               \A t \in history[n - 1] : s.epoch = t.epoch /\ s.group = t.group

\* A new pass gets a new shuffle (set_epoch), unless a restart loaded a checkpoint
\* written exactly at the end of the previous pass: then the sampler is resumed at
\* step 0 of the epoch just finished, and that pass is shuffled as the one before.
NewPassNewOrder ==
    \A n \in DOMAIN history :
        (n > 1 /\ (n - 1) * GlobalBatch % TotalSize = 0 /\ n - 1 \notin resumed) =>
            \A s \in history[n], t \in history[n - 1] : s.epoch > t.epoch

=============================================================================
