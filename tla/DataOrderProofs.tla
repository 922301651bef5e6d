-------------------------- MODULE DataOrderProofs --------------------------
(***************************************************************************)
(* Proofs about DataOrder, for every size of a pass, every global batch,   *)
(* every set of numbers of ranks that divide it, every depth of prefetch   *)
(* and any number of restarts.                                             *)
(***************************************************************************)
EXTENDS DataOrder, TLAPS, FiniteSetTheorems, WellFoundedInduction

-----------------------------------------------------------------------------
\* Samples that were fetched for the step to come.
Held(r) == IF batch[r] = <<>> THEN 0 ELSE GlobalBatch

\* The position in the pass of a rank at which the step to come starts.
At(r) == loader[r].start + world * loader[r].given - Held(r)

\* What a loader has drawn and delivered is whole batches, and the pass it serves
\* starts and ends at a whole batch.
Whole(l) ==
  \E m \in Nat, d \in Nat, g \in Nat :
    /\ TotalSize = l.start + GlobalBatch * m /\ m > 0
    /\ l.drawn = PerRank(world) * d /\ l.given = PerRank(world) * g
    /\ g <= d /\ d <= m
    /\ l.exhausted => d = m /\ l.step = 0

LoaderInv == \A r \in Ranks : Whole(loader[r])

\* A fetched batch is the last one its loader delivered, out of the current pass.
BatchInv ==
  \A r \in Ranks :
    batch[r] # <<>> =>
      /\ loader[r].given >= PerRank(world)
      /\ batch[r] = [i \in 1..PerRank(world) |->
                       Slice(loader[r], r, loader[r].given - PerRank(world) + i - 1)]

\* What the checkpoint will count: _init_total_samples and the samples of every rank
\* are the samples the weights have seen, and the batches held for the next step.
CountInv ==
  \A r \in Ranks : init_total + world * loader[r].local = GlobalBatch * Len(history) + Held(r)

\* The launch resumed h0 steps of a run, p0 whole passes and some, with the sampler
\* at epoch e0 and the trainer at epoch c0.  Since then a rank has begun
\* cur_epoch[r] - c0 passes, and that tells the shuffle it uses and its position.
LaunchedAt(e0, c0, p0, h0) ==
  /\ e0 <= c0 /\ init_total = GlobalBatch * h0 /\ (h0 = 0 \/ h0 \in resumed)
  /\ \A r \in Ranks :
       /\ cur_epoch[r] >= c0 /\ loader[r].epoch = loader[r].key
       /\ loader[r].key = IF cur_epoch[r] = c0 THEN e0 ELSE cur_epoch[r]
       /\ GlobalBatch * Len(history) = TotalSize * (p0 + cur_epoch[r] - c0) + At(r)
       /\ cur_epoch[r] = c0 => GlobalBatch * h0 = TotalSize * p0 + loader[r].start
       /\ cur_epoch[r] # c0 => loader[r].start = 0

LaunchInv == \E e0 \in Nat, c0 \in Nat, p0 \in Nat, h0 \in Nat : LaunchedAt(e0, c0, p0, h0)

\* In the middle of a pass the rank uses the shuffle of the step before; at its start,
\* a later one unless the job was resumed right there.
EpochInv ==
  \A r \in Ranks : history # <<>> => \A s \in history[Len(history)] :
    /\ At(r) > 0 => s.epoch = loader[r].key
    /\ At(r) = 0 /\ Len(history) \notin resumed => s.epoch < loader[r].key

\* A run of steps, resumed at the lengths res, that has gone through its passes in order.
InOrder(h, g, res) ==
  \A n \in DOMAIN h :
    /\ {s.at : s \in h[n]} = Block(n) /\ Cardinality(h[n]) = GlobalBatch
    /\ \A s \in h[n] : s.group = g /\ \A t \in h[n] : s.epoch = t.epoch
    /\ n > 1 =>
         \A s \in h[n], t \in h[n - 1] :
           /\ (n - 1) * GlobalBatch % TotalSize # 0 => s.epoch = t.epoch
           /\ (n - 1) * GlobalBatch % TotalSize = 0 /\ n - 1 \notin res => s.epoch > t.epoch

\* A checkpoint holds such a run, and the state it resumes is the state at its end.
SavedRecords ==
  [epoch : Nat, step : 0..(TotalSize - 1), total : Nat, cur : Nat, group : Worlds,
   history : Seq(SUBSET Samples), resumed : SUBSET Nat]

SavedInv ==
  saved # <<>> =>
    /\ saved \in SavedRecords
    /\ saved.group = group_size /\ saved.history # <<>> /\ saved.epoch <= saved.cur
    /\ saved.total = GlobalBatch * Len(saved.history) /\ saved.step = saved.total % TotalSize
    /\ \A s \in saved.history[Len(saved.history)] : s.epoch = saved.epoch
    /\ InOrder(saved.history, saved.group, saved.resumed)

Inv ==
  /\ TypeOK /\ LoaderInv /\ BatchInv /\ CountInv /\ LaunchInv /\ EpochInv /\ SavedInv
  /\ InOrder(history, group_size, resumed)

-----------------------------------------------------------------------------
(***************************************************************************)
(* Arithmetic: multiplication keeps the order, and a quotient and a        *)
(* remainder are determined by the equation they satisfy.                  *)
(***************************************************************************)
LEMMA Monotone ==
  ASSUME NEW n \in Nat, NEW a \in Int, NEW b \in Int, a <= b
  PROVE  n * a <= n * b
OBVIOUS

\* Order is read off a product with a positive factor.
LEMMA Strict ==
  ASSUME NEW n \in Nat \ {0}, NEW a \in Int, NEW b \in Int, n * a < n * b
  PROVE  a < b
BY Monotone

\* A product over a quotient and a remainder.
LEMMA Distribute ==
  ASSUME NEW n \in Int, NEW a \in Int, NEW b \in Int, NEW c \in Int
  PROVE  n * (a * b + c) = (n * a) * b + n * c
OBVIOUS

\* Every number has a quotient and a remainder.
LEMMA DivisionIs ==
  ASSUME NEW n \in Nat \ {0}, NEW x \in Int
  PROVE  \E q \in Int, y \in 0..(n - 1) : q = x \div n /\ y = x % n /\ x = n * q + y
<1> DEFINE p == x \div n
           z == x % n
<1>1. p \in Int /\ z \in 0..(n - 1)
  OBVIOUS
<1>2. z = x - n * p
  OBVIOUS
<1>3. p = x \div n /\ z = x % n
  OBVIOUS
<1> HIDE DEF p, z
<1>4. x = n * p + z
  BY <1>1, <1>2
<1> QED BY <1>1, <1>3, <1>4

\* They are the only ones.
LEMMA DivisionUnique ==
  ASSUME NEW n \in Nat \ {0}, NEW q \in Int, NEW y \in 0..(n - 1), NEW x \in Int, x = n * q + y
  PROVE  x \div n = q /\ x % n = y
<1>1. PICK p \in Int, z \in 0..(n - 1) : p = x \div n /\ z = x % n /\ x = n * p + z
  BY DivisionIs
<1>2. n * p < n * (q + 1) /\ n * q < n * (p + 1)
  BY <1>1
<1>3. p < q + 1 /\ q < p + 1
  BY <1>1, <1>2, Strict
<1>4. p = q /\ z = y
  BY <1>1, <1>3
<1> QED BY <1>1, <1>4

\* Every set of naturals that is not empty has a least member.
LEMMA LeastNat ==
  ASSUME NEW S, S \subseteq Nat, S # {}
  PROVE  \E n \in S : \A m \in S : n <= m
<1>1. PICK n \in S : \A m \in S : ~(<<m, n>> \in OpToRel(<, Nat))
  BY WFMin, NatLessThanWellFounded
<1>2. \A m \in S : ~(m < n)
  BY <1>1 DEF OpToRel
<1> QED BY <1>2

-----------------------------------------------------------------------------
(***************************************************************************)
(* What the code computes with them.                                       *)
(***************************************************************************)
LEMMA PerRankIs ==
  ASSUME NEW w \in Worlds
  PROVE  w \in Nat \ {0} /\ PerRank(w) \in Nat \ {0} /\ w * PerRank(w) = GlobalBatch
<1>1. w \in Nat \ {0} /\ GlobalBatch \in Nat \ {0} /\ GlobalBatch % w = 0
  BY DataConstantsAssumption
<1>2. PICK q \in Int, y \in 0..(w - 1) :
        q = GlobalBatch \div w /\ y = GlobalBatch % w /\ GlobalBatch = w * q + y
  BY <1>1, DivisionIs
<1>3. w * q = GlobalBatch
  BY <1>1, <1>2
<1>4. w * 0 < w * q
  BY <1>1, <1>3
<1>5. q > 0
  BY <1>1, <1>4, Strict
<1> QED BY <1>1, <1>2, <1>3, <1>5 DEF PerRank

\* A pass is a positive number of whole batches (the samplers round its size up).
LEMMA PassIsWhole == \E q \in Nat \ {0} : TotalSize = GlobalBatch * q
<1>1. GlobalBatch \in Nat \ {0} /\ TotalSize \in Nat \ {0} /\ TotalSize % GlobalBatch = 0
  BY DataConstantsAssumption
<1>2. PICK q \in Int, y \in 0..(GlobalBatch - 1) :
        /\ q = TotalSize \div GlobalBatch /\ y = TotalSize % GlobalBatch
        /\ TotalSize = GlobalBatch * q + y
  BY <1>1, DivisionIs
<1>3. y = 0
  BY <1>1, <1>2
<1>4. TotalSize = GlobalBatch * q
  BY <1>1, <1>2, <1>3
<1>5. GlobalBatch * 0 < GlobalBatch * q
  BY <1>1, <1>4
<1>6. q \in Nat \ {0}
  BY <1>1, <1>5, Strict
<1> QED BY <1>4, <1>6

\* A pass is a whole number of batches, so the position after k of them, taken modulo
\* the pass (get_state_dict), is the start of a batch.
LEMMA WrapIs ==
  ASSUME NEW k \in Nat
  PROVE  \E p \in Nat, y \in 0..(TotalSize - 1), m \in Nat \ {0} :
           /\ y = (GlobalBatch * k) % TotalSize /\ GlobalBatch * k = TotalSize * p + y
           /\ TotalSize = y + GlobalBatch * m
<1>1. GlobalBatch \in Nat \ {0} /\ TotalSize \in Nat \ {0} /\ TotalSize % GlobalBatch = 0
  BY DataConstantsAssumption
<1>2. PICK q \in Nat \ {0} : TotalSize = GlobalBatch * q
  BY PassIsWhole
<1>3. q \in Nat \ {0}
  OBVIOUS
<1>4. PICK a \in Int, b \in 0..(q - 1) : a = k \div q /\ b = k % q /\ k = q * a + b
  BY <1>3, DivisionIs
<1>5. a \in Nat
  <2>1. q * (-1) < q * a
    BY <1>3, <1>4
  <2> QED BY <1>3, <2>1, Strict
<1> DEFINE y == GlobalBatch * b
<1>6. GlobalBatch * k = TotalSize * a + y
  <2>1. GlobalBatch * (q * a + b) = (GlobalBatch * q) * a + GlobalBatch * b
    BY <1>1, <1>3, Distribute
  <2> QED BY <1>2, <1>4, <2>1
<1>7. y \in 0..(TotalSize - 1) /\ TotalSize = y + GlobalBatch * (q - b)
  <2>1. GlobalBatch * 1 <= GlobalBatch * (q - b) /\ GlobalBatch * 0 <= GlobalBatch * b
    BY <1>1, <1>3, Monotone
  <2>2. GlobalBatch * q = GlobalBatch * b + GlobalBatch * (q - b)
    BY <1>1, <1>3
  <2> QED BY <1>1, <1>2, <1>3, <2>1, <2>2
<1>8. y = (GlobalBatch * k) % TotalSize
  <2>1. GlobalBatch * k \in Int /\ a \in Int
    BY <1>1, <1>5
  <2>2. y \in 0..(TotalSize - 1)
    BY <1>7
  <2> HIDE DEF y
  <2>3. \A x \in Int : x = TotalSize * a + y => x % TotalSize = y
    BY <1>1, <2>1, <2>2, DivisionUnique
  <2> QED BY <1>6, <2>1, <2>3
<1> HIDE DEF y
<1>9. q - b \in Nat \ {0}
  BY <1>3
<1> QED BY <1>5, <1>6, <1>7, <1>8, <1>9

\* Every rank's slice of what is left of a pass has the same length, whole batches.
LEMMA SliceLenIs ==
  ASSUME NEW w \in Worlds, NEW r \in 0..(w - 1), NEW l, l.start \in Nat,
         NEW m \in Nat, TotalSize = l.start + GlobalBatch * m
  PROVE  SliceLen(l, r, w) = PerRank(w) * m
<1> DEFINE c == PerRank(w)
           x == TotalSize - l.start - r + w - 1
<1>1. w \in Nat \ {0} /\ c \in Nat \ {0} /\ w * c = GlobalBatch
  BY PerRankIs
<1>2. TotalSize \in Nat /\ GlobalBatch \in Nat
  BY DataConstantsAssumption
<1>3. w * (c * m) = GlobalBatch * m
  <2> HIDE DEF c
  <2>1. w * (c * m) = (w * c) * m
    BY <1>1
  <2> QED BY <1>1, <2>1
<1>4. x = w * (c * m) + (w - 1 - r)
  BY <1>1, <1>2, <1>3
<1>5. w - 1 - r \in 0..(w - 1) /\ c * m \in Int /\ x \in Int
  BY <1>1, <1>2
<1>6. x \div w = c * m
  <2>1. \A q \in Int, y \in 0..(w - 1) : x = w * q + y => x \div w = q
    <3> HIDE DEF x
    <3> QED BY <1>1, <1>5, DivisionUnique
  <2> QED BY <1>4, <1>5, <2>1
<1> QED BY <1>6 DEF SliceLen

\* Ranks that take every w-th sample cover the batch, each sample once.
LEMMA Interleaved ==
  ASSUME NEW w \in Worlds, NEW x \in 0..(GlobalBatch - 1)
  PROVE  \E r \in 0..(w - 1), i \in 1..PerRank(w) : x = r + w * (i - 1)
<1> DEFINE c == PerRank(w)
<1>1. w \in Nat \ {0} /\ c \in Nat \ {0} /\ w * c = GlobalBatch
  BY PerRankIs
<1> HIDE DEF c
<1>2. PICK q \in Int, r \in 0..(w - 1) : q = x \div w /\ r = x % w /\ x = w * q + r
  BY <1>1, DivisionIs, DataConstantsAssumption
<1>3. w * q < w * c /\ w * (-1) < w * q
  BY <1>1, <1>2
<1>4. q < c /\ -1 < q
  BY <1>1, <1>3, Strict
<1>5. q + 1 \in 1..c /\ x = r + w * ((q + 1) - 1)
  BY <1>1, <1>2, <1>4
<1> QED BY <1>2, <1>5 DEF c

\* The sample a rank draws for a place of its share lies in the batch.
LEMMA InBatch ==
  ASSUME NEW w \in Worlds, NEW r \in 0..(w - 1), NEW i \in 1..PerRank(w)
  PROVE  r + w * (i - 1) \in 0..(GlobalBatch - 1)
<1> DEFINE c == PerRank(w)
<1>1. w \in Nat \ {0} /\ c \in Nat \ {0} /\ w * c = GlobalBatch /\ i \in 1..c
  BY PerRankIs
<1> HIDE DEF c
<1>2. w * 0 <= w * (i - 1) /\ w * (i - 1) <= w * (c - 1)
  BY <1>1, Monotone
<1>3. w * (c - 1) = w * c - w
  BY <1>1
<1> QED BY <1>1, <1>2, <1>3, DataConstantsAssumption

\* reduce_sum_across_dp_group over ranks that have consumed the same.
LEMMA TotalIs ==
  ASSUME world \in Nat \ {0}, init_total \in Nat, NEW n \in Nat,
         \A r \in Ranks : loader[r].local = n
  PROVE  TotalConsumed = init_total + world * n
<1> DEFINE Sum(f) == [r \in -1..(world - 1) |-> IF r = -1 THEN 0 ELSE f[r - 1] + Consumed(r)]
           upto == CHOOSE f : f = Sum(f)
           g == [r \in -1..(world - 1) |-> (r + 1) * n]
<1>1. TotalConsumed = init_total + upto[world - 1]
  BY DEF TotalConsumed
<1>2. g = Sum(g)
  <2>1. \A r \in -1..(world - 1) : g[r] = IF r = -1 THEN 0 ELSE g[r - 1] + Consumed(r)
    <3> SUFFICES ASSUME NEW r \in -1..(world - 1), r # -1 PROVE g[r] = g[r - 1] + Consumed(r)
      OBVIOUS
    <3>1. Consumed(r) = n /\ r - 1 \in -1..(world - 1) /\ r \in Nat
      BY DEF Consumed, Ranks
    <3>2. g[r] = (r + 1) * n /\ g[r - 1] = (r - 1 + 1) * n
      BY <3>1
    <3>3. (r + 1) * n = (r - 1 + 1) * n + n
      BY <3>1
    <3> QED BY <3>1, <3>2, <3>3
  <2> QED BY <2>1
<1> HIDE DEF Sum, g
<1>3. upto = Sum(upto)
  BY <1>2
<1> HIDE DEF upto
<1>4. /\ upto[-1] = 0
      /\ \A r \in 0..(world - 1) : upto[r] = upto[r - 1] + n
  BY <1>3 DEF Sum, Consumed, Ranks
<1> DEFINE bad == {r \in 0..(world - 1) : upto[r] # (r + 1) * n}
<1>5. bad = {}
  <2> SUFFICES ASSUME bad # {} PROVE FALSE
    OBVIOUS
  <2>0. bad \subseteq Nat
    OBVIOUS
  <2>1. PICK r \in bad : \A m \in bad : r <= m
    <3> HIDE DEF bad
    <3> QED BY <2>0, LeastNat
  <2>2. r \in 0..(world - 1) /\ upto[r] # (r + 1) * n
    BY <2>1
  <2>3. CASE r = 0
    BY <1>4, <2>2, <2>3
  <2>4. CASE r # 0
    <3>1. r - 1 \in 0..(world - 1) /\ r - 1 \notin bad
      BY <2>1, <2>2, <2>4
    <3>2. upto[r - 1] = (r - 1 + 1) * n
      BY <3>1
    <3>3. (r + 1) * n = (r - 1 + 1) * n + n
      BY <2>2
    <3> QED BY <1>4, <2>2, <3>2, <3>3
  <2> QED BY <2>3, <2>4
<1>6. upto[world - 1] = (world - 1 + 1) * n
  BY <1>5
<1>7. (world - 1 + 1) * n = world * n
  OBVIOUS
<1> QED BY <1>1, <1>6, <1>7

-----------------------------------------------------------------------------
(***************************************************************************)
(* What the invariant says of one rank.                                    *)
(***************************************************************************)
LoaderType ==
  [epoch : Nat, step : 0..(TotalSize - 1), key : Nat, start : 0..(TotalSize - 1),
   drawn : Nat, given : Nat, exhausted : BOOLEAN, local : Nat]

\* The numbers behind a launch: ranks, share of a rank, batch and pass.
LEMMA Shapes ==
  ASSUME TypeOK
  PROVE  /\ world \in Worlds /\ world \in Nat \ {0} /\ 0 \in Ranks
         /\ PerRank(world) \in Nat \ {0} /\ world * PerRank(world) = GlobalBatch
         /\ GlobalBatch \in Nat \ {0} /\ TotalSize \in Nat \ {0}
         /\ loader \in [Ranks -> LoaderType] /\ cur_epoch \in [Ranks -> Nat] /\ init_total \in Nat
         /\ history \in Seq(SUBSET Samples) /\ Len(history) \in Nat
<1>1. world \in Worlds
  BY DEF TypeOK
<1>2. world \in Nat \ {0} /\ PerRank(world) \in Nat \ {0} /\ world * PerRank(world) = GlobalBatch
  BY <1>1, PerRankIs
<1>3. 0 \in Ranks
  BY <1>2 DEF Ranks
<1>4. /\ loader \in [Ranks -> LoaderType] /\ cur_epoch \in [Ranks -> Nat] /\ init_total \in Nat
      /\ history \in Seq(SUBSET Samples)
  BY DEF TypeOK, LoaderType
<1> QED BY <1>1, <1>2, <1>3, <1>4, DataConstantsAssumption

\* The fields of a loader are numbers.
LEMMA Fields ==
  ASSUME TypeOK, NEW r \in Ranks
  PROVE  /\ loader[r].start \in 0..(TotalSize - 1) /\ loader[r].start \in Nat
         /\ loader[r].step \in 0..(TotalSize - 1)
         /\ loader[r].epoch \in Nat /\ loader[r].key \in Nat /\ loader[r].drawn \in Nat
         /\ loader[r].given \in Nat /\ loader[r].local \in Nat /\ loader[r].exhausted \in BOOLEAN
         /\ cur_epoch[r] \in Nat
<1>1. loader[r] \in LoaderType /\ cur_epoch[r] \in Nat
  BY Shapes
<1>2. TotalSize \in Nat
  BY Shapes
<1> QED BY <1>1, <1>2 DEF LoaderType

\* In batches: where the pass started, what was drawn and what was delivered.
LEMMA Batches ==
  ASSUME TypeOK, NEW r \in Ranks, Whole(loader[r])
  PROVE  \E m \in Nat, d \in Nat, g \in Nat :
           /\ TotalSize = loader[r].start + GlobalBatch * m /\ m > 0
           /\ SliceLen(loader[r], r, world) = PerRank(world) * m
           /\ loader[r].drawn = PerRank(world) * d
           /\ loader[r].given = PerRank(world) * g /\ world * loader[r].given = GlobalBatch * g
           /\ g <= d /\ d <= m /\ (loader[r].exhausted => d = m /\ loader[r].step = 0)
<1> DEFINE c == PerRank(world)
<1>1. PICK m \in Nat, d \in Nat, g \in Nat :
        /\ TotalSize = loader[r].start + GlobalBatch * m /\ m > 0
        /\ loader[r].drawn = c * d /\ loader[r].given = c * g
        /\ g <= d /\ d <= m /\ (loader[r].exhausted => d = m /\ loader[r].step = 0)
  BY DEF Whole
<1>2. world \in Nat \ {0} /\ c \in Nat \ {0} /\ world * c = GlobalBatch /\ loader[r] \in LoaderType
  BY Shapes
<1>3. SliceLen(loader[r], r, world) = c * m
  <2>1. world \in Worlds /\ r \in 0..(world - 1) /\ loader[r].start \in Nat
    BY <1>2, Shapes DEF Ranks, LoaderType
  <2>2. TotalSize = loader[r].start + GlobalBatch * m
    BY <1>1
  <2> QED BY <2>1, <2>2, SliceLenIs
<1>4. world * loader[r].given = GlobalBatch * g
  <2>1. \A k \in Nat : world * (k * g + 0) = (world * k) * g + world * 0
    BY <1>2, Distribute
  <2>2. world * (c * g + 0) = GlobalBatch * g + world * 0
    BY <1>2, <2>1
  <2>3. c * g \in Nat /\ GlobalBatch * g \in Nat /\ world * 0 = 0
    BY <1>2, DataConstantsAssumption
  <2> HIDE DEF c
  <2>4. world * (c * g) = GlobalBatch * g
    BY <2>2, <2>3
  <2> QED BY <1>1, <2>4
<1> HIDE DEF c
<1> QED BY <1>1, <1>3, <1>4 DEF c

\* The step to come starts inside the pass of each rank, or at its end; once the rank
\* has fetched its batch, inside.
LEMMA AtIs ==
  ASSUME TypeOK, LoaderInv, BatchInv, NEW r \in Ranks
  PROVE  /\ At(r) \in 0..TotalSize
         /\ batch[r] # <<>> =>
              /\ At(r) + GlobalBatch <= TotalSize
              /\ At(r) = loader[r].start + world * (loader[r].given - PerRank(world))
<1>1. PICK m \in Nat, d \in Nat, g \in Nat :
        /\ TotalSize = loader[r].start + GlobalBatch * m
        /\ loader[r].given = PerRank(world) * g /\ world * loader[r].given = GlobalBatch * g
        /\ g <= d /\ d <= m
  BY Batches DEF LoaderInv
<1>2. PICK c \in Nat \ {0} : c = PerRank(world) /\ world * c = GlobalBatch
  BY Shapes
<1>3. PICK s \in Nat, v \in Nat : s = loader[r].start /\ v = loader[r].given
  BY Fields
<1>4. GlobalBatch \in Nat \ {0} /\ TotalSize \in Nat /\ world \in Nat \ {0}
  BY Shapes
<1>5. TotalSize = s + GlobalBatch * m /\ world * v = GlobalBatch * g /\ v = c * g /\ g <= m
  BY <1>1, <1>2, <1>3
<1>6. GlobalBatch * g <= GlobalBatch * m /\ GlobalBatch * 0 <= GlobalBatch * g
  BY <1>4, <1>5, Monotone
<1>7. At(r) = s + GlobalBatch * g - Held(r)
  BY <1>3, <1>5 DEF At
<1>8. CASE batch[r] = <<>>
  <2>1. Held(r) = 0
    BY <1>8 DEF Held
  <2> QED BY <1>4, <1>5, <1>6, <1>7, <1>8, <2>1
<1>9. CASE batch[r] # <<>>
  <2>0. Held(r) = GlobalBatch
    BY <1>9 DEF Held
  <2>1. c <= v
    BY <1>2, <1>3, <1>9 DEF BatchInv
  <2>2. c * 0 < c * g
    BY <1>5, <2>1
  <2>3. 0 < g
    BY <2>2, Strict
  <2>4. GlobalBatch * 1 <= GlobalBatch * g
    BY <1>4, <2>3, Monotone
  <2>5. world * (v - c) = world * v - world * c
    BY <1>4
  <2>6. /\ At(r) \in 0..TotalSize /\ At(r) + GlobalBatch <= TotalSize
        /\ At(r) = s + world * (v - c)
    BY <1>2, <1>4, <1>5, <1>6, <1>7, <2>0, <2>4, <2>5
  <2> QED BY <1>2, <1>3, <2>6
<1> QED BY <1>8, <1>9

-----------------------------------------------------------------------------
(***************************************************************************)
(* Every step of the specification preserves the invariant.                *)
(***************************************************************************)
\* The parts that only a step of training, a new pass or a restart can disturb.
LEMMA SamePlace ==
  ASSUME Inv, UNCHANGED <<world, cur_epoch, init_total, group_size, history, resumed>>,
         \A q \in Ranks : /\ At(q)' = At(q) /\ loader'[q].start = loader[q].start
                          /\ loader'[q].key = loader[q].key /\ loader'[q].epoch = loader[q].epoch
  PROVE  LaunchInv' /\ EpochInv' /\ InOrder(history', group_size', resumed')
<1>1. Ranks' = Ranks
  BY DEF Ranks
<1>2. PICK e0 \in Nat, c0 \in Nat, p0 \in Nat, h0 \in Nat : LaunchedAt(e0, c0, p0, h0)
  BY DEF Inv, LaunchInv
<1>3. LaunchedAt(e0, c0, p0, h0)'
  BY <1>1, <1>2 DEF LaunchedAt
<1>4. LaunchInv'
  BY <1>3 DEF LaunchInv
<1>5. EpochInv'
  BY <1>1 DEF Inv, EpochInv
<1>6. InOrder(history', group_size', resumed')
  BY DEF Inv
<1> QED BY <1>4, <1>5, <1>6

\* Drawing ahead disturbs nothing but the count of what is drawn.
LEMMA DrawKeepsInv == ASSUME Inv, NEW r \in Ranks, Draw(r) \/ Exhaust(r) PROVE Inv'
<1>1. UNCHANGED <<world, cur_epoch, batch, init_total, group_size, saved, history, resumed, restarts>>
  BY DEF Draw, Exhaust
<1>2. TypeOK /\ LoaderInv /\ BatchInv /\ CountInv /\ SavedInv /\ Ranks' = Ranks
  BY <1>1 DEF Inv, Ranks
<1>3. /\ loader \in [Ranks -> LoaderType] /\ loader[r] \in LoaderType /\ PerRank(world) \in Nat \ {0}
      /\ TotalSize \in Nat \ {0}
  BY <1>2, Shapes
<1>4. /\ \A q \in Ranks : q # r => loader'[q] = loader[q]
      /\ loader'[r].epoch = loader[r].epoch /\ loader'[r].key = loader[r].key
      /\ loader'[r].start = loader[r].start /\ loader'[r].given = loader[r].given
      /\ loader'[r].local = loader[r].local
      /\ \/ /\ loader'[r].drawn = loader[r].drawn + PerRank(world)
            /\ loader'[r].exhausted = loader[r].exhausted /\ loader'[r].step = loader[r].step
            /\ loader[r].drawn < SliceLen(loader[r], r, world)
         \/ /\ loader'[r].drawn = loader[r].drawn
            /\ loader'[r].exhausted = TRUE /\ loader'[r].step = 0
            /\ loader[r].drawn = SliceLen(loader[r], r, world)
  BY <1>3 DEF Draw, Exhaust, LoaderType
<1>5. loader' \in [Ranks -> LoaderType]
  <2>1. CASE Draw(r)
    <3>1. loader' = [loader EXCEPT ![r] = [loader[r] EXCEPT !.drawn = loader[r].drawn + PerRank(world)]]
      BY <2>1 DEF Draw
    <3>2. [loader[r] EXCEPT !.drawn = loader[r].drawn + PerRank(world)] \in LoaderType
      BY <1>3 DEF LoaderType
    <3> QED BY <1>3, <3>1, <3>2
  <2>2. CASE Exhaust(r)
    <3>1. loader' = [loader EXCEPT ![r] = [loader[r] EXCEPT !.exhausted = TRUE, !.step = 0]]
      BY <1>3, <2>2 DEF Exhaust
    <3>2. [loader[r] EXCEPT !.exhausted = TRUE, !.step = 0] \in LoaderType
      <4>1. 0 \in 0..(TotalSize - 1)
        BY <1>3
      <4> QED BY <1>3, <4>1, Zenon DEF LoaderType
    <3> QED BY <1>3, <3>1, <3>2
  <2> QED BY <2>1, <2>2
<1>6. TypeOK'
  BY <1>1, <1>2, <1>5 DEF TypeOK, LoaderType
<1>7. Whole(loader[r])'
  <2>1. PICK m \in Nat, d \in Nat, g \in Nat :
          /\ TotalSize = loader[r].start + GlobalBatch * m /\ m > 0
          /\ SliceLen(loader[r], r, world) = PerRank(world) * m
          /\ loader[r].drawn = PerRank(world) * d
          /\ loader[r].given = PerRank(world) * g
          /\ g <= d /\ d <= m /\ (loader[r].exhausted => d = m /\ loader[r].step = 0)
    BY <1>2, Batches DEF LoaderInv
  <2>2. CASE Draw(r)
    <3>1. PerRank(world) * d < PerRank(world) * m
      BY <1>3, <1>4, <2>1, <2>2 DEF Draw
    <3>2. d < m
      BY <1>3, <3>1, Strict
    <3>3. PerRank(world) * d + PerRank(world) = PerRank(world) * (d + 1)
      BY <1>3
    <3>4. loader'[r].drawn = PerRank(world) * (d + 1) /\ loader'[r].exhausted = loader[r].exhausted
      <4>1. /\ loader'[r].drawn = loader[r].drawn + PerRank(world)
            /\ loader'[r].exhausted = loader[r].exhausted
        BY <1>3, <2>2 DEF Draw, LoaderType
      <4> QED BY <2>1, <3>3, <4>1
    <3>5. d + 1 \in Nat /\ g <= d + 1 /\ d + 1 <= m /\ ~loader'[r].exhausted
      BY <2>1, <3>2, <3>4
    <3> QED BY <1>1, <1>4, <2>1, <3>4, <3>5 DEF Whole
  <2>3. CASE Exhaust(r)
    <3>1. /\ loader'[r].drawn = loader[r].drawn /\ loader'[r].step = 0
          /\ PerRank(world) * d = PerRank(world) * m
      BY <1>3, <2>1, <2>3 DEF Exhaust, LoaderType
    <3>2. ~(d < m)
      <4> SUFFICES ASSUME d + 1 <= m PROVE FALSE
        BY <2>1
      <4>1. PerRank(world) * (d + 1) <= PerRank(world) * m
        BY <1>3, Monotone
      <4> QED BY <1>3, <3>1, <4>1
    <3>3. d = m
      BY <2>1, <3>2
    <3> QED BY <1>1, <1>4, <2>1, <3>1, <3>3 DEF Whole
  <2> QED BY <2>2, <2>3
<1>8. LoaderInv'
  <2> SUFFICES ASSUME NEW q \in Ranks PROVE Whole(loader[q])'
    BY <1>2 DEF LoaderInv
  <2>1. CASE q # r
    BY <1>1, <1>2, <1>4, <2>1 DEF LoaderInv, Whole
  <2> QED BY <1>7, <2>1
<1>9. BatchInv' /\ CountInv'
  BY <1>1, <1>2, <1>4 DEF BatchInv, CountInv, Held, Slice
<1>10. LaunchInv' /\ EpochInv' /\ InOrder(history', group_size', resumed')
  BY <1>1, <1>4, SamePlace DEF At, Held
<1>11. SavedInv'
  BY <1>1, <1>2 DEF SavedInv
<1> QED BY <1>6, <1>8, <1>9, <1>10, <1>11 DEF Inv

\* A delivered batch is counted where it is consumed, and the place of the next step
\* stays what it was.
LEMMA FetchKeepsInv == ASSUME Inv, NEW r \in Ranks, Fetch(r) PROVE Inv'
<1> DEFINE new == [i \in 1..PerRank(world) |-> Slice(loader[r], r, loader[r].given + i - 1)]
<1>1. /\ UNCHANGED <<world, cur_epoch, init_total, group_size, saved, history, resumed, restarts>>
      /\ batch[r] = <<>> /\ loader[r].given < loader[r].drawn
      /\ batch' = [batch EXCEPT ![r] = new]
  BY DEF Fetch
<1>2. TypeOK /\ LoaderInv /\ BatchInv /\ CountInv /\ SavedInv /\ Ranks' = Ranks
  BY <1>1 DEF Inv, Ranks
<1>3. PICK c \in Nat \ {0} : c = PerRank(world) /\ world * c = GlobalBatch
  BY <1>2, Shapes
<1>4. PICK v \in Nat, s \in Nat, n \in Nat :
        v = loader[r].given /\ s = loader[r].start /\ n = loader[r].local
  BY <1>2, Fields
<1>5. /\ loader \in [Ranks -> LoaderType] /\ loader[r] \in LoaderType /\ world \in Nat \ {0}
      /\ TotalSize \in Nat \ {0} /\ batch \in [Ranks -> Seq(Samples)] /\ r \in Nat
      /\ GlobalBatch \in Nat \ {0} /\ group_size \in Worlds /\ loader[r].key \in Nat
  <2>1. /\ loader \in [Ranks -> LoaderType] /\ world \in Nat \ {0}
        /\ TotalSize \in Nat \ {0} /\ GlobalBatch \in Nat \ {0}
    BY <1>2, Shapes
  <2>2. batch \in [Ranks -> Seq(Samples)] /\ group_size \in Worlds
    BY <1>2 DEF TypeOK
  <2>3. r \in Nat /\ loader[r].key \in Nat
    BY <1>2, <2>1, Fields DEF Ranks
  <2> QED BY <2>1, <2>2, <2>3
<1>6. loader' = [loader EXCEPT ![r] = [loader[r] EXCEPT !.given = v + c, !.local = n + c]]
  BY <1>3, <1>4, <1>5 DEF Fetch
<1>7. [loader[r] EXCEPT !.given = v + c, !.local = n + c] \in LoaderType
  <2>1. v + c \in Nat /\ n + c \in Nat
    OBVIOUS
  <2> QED BY <1>5, <2>1, Zenon DEF LoaderType
<1>8. /\ \A q \in Ranks : q # r => loader'[q] = loader[q] /\ batch'[q] = batch[q]
      /\ loader'[r].epoch = loader[r].epoch /\ loader'[r].key = loader[r].key
      /\ loader'[r].start = s /\ loader'[r].given = v + c /\ loader'[r].local = n + c
      /\ loader'[r].drawn = loader[r].drawn /\ loader'[r].step = loader[r].step
      /\ loader'[r].exhausted = loader[r].exhausted /\ batch'[r] = new
  BY <1>1, <1>4, <1>5, <1>6 DEF LoaderType
<1>9. new \in Seq(Samples) /\ new # <<>>
  <2>1. \A i \in 1..c : Slice(loader[r], r, v + i - 1) \in Samples
    <3> SUFFICES ASSUME NEW i \in 1..c PROVE Slice(loader[r], r, v + i - 1) \in Samples
      OBVIOUS
    <3>1. s + r + world * (v + i - 1) \in Nat
      <4>1. v + i - 1 \in Nat
        OBVIOUS
      <4>2. world * (v + i - 1) \in Nat
        BY <1>5, <4>1
      <4> QED BY <1>5, <4>2
    <3> QED BY <1>4, <1>5, <3>1 DEF Slice, Samples
  <2>2. new \in [1..c -> Samples]
    BY <1>3, <1>4, <2>1
  <2>3. 1 \in DOMAIN new
    BY <1>3, <2>2
  <2> HIDE DEF new
  <2>4. new \in Seq(Samples)
    BY <2>2
  <2> QED BY <2>3, <2>4
<1>10. TypeOK'
  <2>1. loader' \in [Ranks -> LoaderType]
    BY <1>5, <1>6, <1>7
  <2>2. batch' \in [Ranks -> Seq(Samples)]
    <3> HIDE DEF new
    <3> QED BY <1>1, <1>5, <1>9
  <2> QED BY <1>1, <1>2, <2>1, <2>2 DEF TypeOK, LoaderType
<1>11. LoaderInv'
  <2>1. Whole(loader[r])'
    <3>1. PICK m \in Nat, d \in Nat, g \in Nat :
            /\ TotalSize = loader[r].start + GlobalBatch * m /\ m > 0
            /\ loader[r].drawn = c * d /\ loader[r].given = c * g
            /\ g <= d /\ d <= m /\ (loader[r].exhausted => d = m /\ loader[r].step = 0)
      BY <1>2, <1>3, Batches DEF LoaderInv
    <3>2. c * g < c * d
      BY <1>1, <3>1
    <3>3. g < d
      BY <3>2, Strict
    <3>4. v + c = c * (g + 1)
      <4>1. c * g + c = c * (g + 1)
        OBVIOUS
      <4> QED BY <1>4, <3>1, <4>1
    <3>5. g + 1 \in Nat /\ g + 1 <= d
      BY <3>3
    <3> QED BY <1>1, <1>3, <1>4, <1>8, <3>1, <3>4, <3>5 DEF Whole
  <2> SUFFICES ASSUME NEW q \in Ranks PROVE Whole(loader[q])'
    BY <1>2 DEF LoaderInv
  <2>2. CASE q # r
    BY <1>1, <1>2, <1>8, <2>2 DEF LoaderInv, Whole
  <2> QED BY <2>1, <2>2
<1>12. BatchInv'
  <2> SUFFICES ASSUME NEW q \in Ranks, batch'[q] # <<>>
               PROVE  /\ loader'[q].given >= PerRank(world')
                      /\ batch'[q] = [i \in 1..PerRank(world') |->
                           Slice(loader[q], q, loader[q].given - PerRank(world) + i - 1)']
    BY <1>2 DEF BatchInv
  <2>1. CASE q # r
    BY <1>1, <1>2, <1>8, <2>1 DEF BatchInv, Slice
  <2>2. CASE q = r
    <3>1. loader'[r].given >= PerRank(world')
      BY <1>1, <1>3, <1>8
    <3>2. \A i \in 1..c : Slice(loader[r], r, loader[r].given - PerRank(world) + i - 1)'
                            = Slice(loader[r], r, loader[r].given + i - 1)
      <4> SUFFICES ASSUME NEW i \in 1..c
                   PROVE  Slice(loader[r], r, loader[r].given - PerRank(world) + i - 1)'
                            = Slice(loader[r], r, loader[r].given + i - 1)
        OBVIOUS
      <4>1. loader'[r].given - PerRank(world') + i - 1 = loader[r].given + i - 1
        BY <1>1, <1>3, <1>4, <1>8
      <4> QED BY <1>1, <1>4, <1>8, <4>1 DEF Slice
    <3>3. batch'[r] = [i \in 1..c |-> Slice(loader[r], r, loader[r].given + i - 1)]
      BY <1>3, <1>8
    <3>4. c = PerRank(world')
      BY <1>1, <1>3
    <3> HIDE DEF new
    <3> QED BY <2>2, <3>1, <3>2, <3>3, <3>4
  <2> QED BY <2>1, <2>2
<1>13. \A q \in Ranks : q # r => Held(q)' = Held(q)
  BY <1>8 DEF Held
<1>14. Held(r) = 0 /\ Held(r)' = GlobalBatch
  <2> HIDE DEF new
  <2> QED BY <1>1, <1>8, <1>9 DEF Held
<1>15. \A k \in Nat : world * (k + c) = world * k + GlobalBatch
  <2>1. \A k \in Nat : world * (k + c) = world * k + world * c
    BY <1>5
  <2> QED BY <1>3, <2>1
<1>16. CountInv'
  <2> SUFFICES ASSUME NEW q \in Ranks
               PROVE  init_total' + world' * loader'[q].local
                        = GlobalBatch * Len(history') + Held(q)'
    BY <1>2 DEF CountInv
  <2>1. CASE q # r
    BY <1>1, <1>2, <1>8, <1>13, <2>1 DEF CountInv
  <2>2. CASE q = r
    <3>1. init_total + world * n = GlobalBatch * Len(history)
      <4>1. init_total + world * n = GlobalBatch * Len(history) + 0
        BY <1>2, <1>4, <1>14 DEF CountInv
      <4>2. GlobalBatch * Len(history) \in Nat
        BY <1>2, Shapes
      <4> QED BY <4>1, <4>2
    <3>2. PICK x \in Nat, y \in Nat : x = world * n /\ y = init_total
      <4>1. world * n \in Nat
        BY <1>5
      <4> QED BY <1>2, <4>1, Shapes
    <3>3. world * (n + c) = x + GlobalBatch
      BY <1>15, <3>2
    <3>4. y + (x + GlobalBatch) = y + x + GlobalBatch
      BY <1>5
    <3>5. init_total + world * (n + c) = GlobalBatch * Len(history) + GlobalBatch
      BY <3>1, <3>2, <3>3, <3>4
    <3> QED BY <1>1, <1>8, <1>14, <2>2, <3>5
  <2> QED BY <2>1, <2>2
<1>17. \A q \in Ranks : At(q)' = At(q)
  <2> SUFFICES ASSUME NEW q \in Ranks PROVE At(q)' = At(q)
    OBVIOUS
  <2>1. CASE q # r
    BY <1>1, <1>8, <1>13, <2>1 DEF At
  <2>2. CASE q = r
    <3>1. At(r) = s + world * v - 0 /\ At(r)' = s + world * (v + c) - GlobalBatch
      BY <1>1, <1>4, <1>8, <1>14 DEF At
    <3>2. world * (v + c) = world * v + GlobalBatch /\ world * v \in Nat
      BY <1>5, <1>15
    <3> QED BY <1>5, <2>2, <3>1, <3>2
  <2> QED BY <2>1, <2>2
<1>18. LaunchInv' /\ EpochInv' /\ InOrder(history', group_size', resumed')
  <2>1. \A q \in Ranks : /\ loader'[q].start = loader[q].start
                         /\ loader'[q].key = loader[q].key /\ loader'[q].epoch = loader[q].epoch
    BY <1>4, <1>8
  <2> QED BY <1>1, <1>17, <2>1, SamePlace
<1>19. SavedInv'
  BY <1>1, <1>2 DEF SavedInv
<1> QED BY <1>10, <1>11, <1>12, <1>16, <1>18, <1>19 DEF Inv

\* A rank that has been through its pass begins the next one at its first sample,
\* under a shuffle later than the one it leaves.
LEMMA NextEpochKeepsInv == ASSUME Inv, NEW r \in Ranks, NextEpoch(r) PROVE Inv'
<1>1. /\ UNCHANGED <<world, batch, init_total, group_size, saved, history, resumed, restarts>>
      /\ batch[r] = <<>> /\ loader[r].exhausted /\ loader[r].given = loader[r].drawn
      /\ cur_epoch' = [cur_epoch EXCEPT ![r] = cur_epoch[r] + 1]
  BY DEF NextEpoch
<1>2. TypeOK /\ LoaderInv /\ BatchInv /\ CountInv /\ SavedInv /\ Ranks' = Ranks
  BY <1>1 DEF Inv, Ranks
<1>3. PICK c \in Nat \ {0} : c = PerRank(world) /\ world * c = GlobalBatch
  BY <1>2, Shapes
<1>4. PICK n \in Nat, k \in Nat, s \in Nat :
        n = loader[r].local /\ k = cur_epoch[r] /\ s = loader[r].start
  BY <1>2, Fields
<1>5. /\ loader \in [Ranks -> LoaderType] /\ cur_epoch \in [Ranks -> Nat]
      /\ world \in Nat \ {0} /\ TotalSize \in Nat \ {0} /\ GlobalBatch \in Nat \ {0}
  BY <1>2, Shapes
<1>6. PICK m \in Nat : /\ TotalSize = s + GlobalBatch * m
                       /\ world * loader[r].given = GlobalBatch * m /\ loader[r].step = 0
  <2>1. PICK m \in Nat, d \in Nat, g \in Nat :
          /\ TotalSize = loader[r].start + GlobalBatch * m
          /\ loader[r].drawn = c * d /\ loader[r].given = c * g
          /\ world * loader[r].given = GlobalBatch * g
          /\ g <= d /\ d <= m /\ (loader[r].exhausted => d = m /\ loader[r].step = 0)
    BY <1>2, <1>3, Batches DEF LoaderInv
  <2>2. c * g = c * d /\ d = m /\ loader[r].step = 0
    BY <1>1, <2>1
  <2>3. ~(g + 1 <= d)
    <3> SUFFICES ASSUME g + 1 <= d PROVE FALSE
      OBVIOUS
    <3>1. c * (g + 1) <= c * d
      BY Monotone
    <3> QED BY <2>2, <3>1
  <2>4. g = m
    BY <2>1, <2>2, <2>3
  <2> QED BY <1>4, <2>1, <2>2, <2>4
<1>7. At(r) = TotalSize
  <2>1. At(r) = s + GlobalBatch * m - 0
    BY <1>1, <1>4, <1>6 DEF At, Held
  <2> QED BY <1>5, <1>6, <2>1
<1>8. loader' = [loader EXCEPT ![r] = [Opened(k + 1, 0) EXCEPT !.local = n]]
  BY <1>4, <1>6 DEF NextEpoch
<1>9. /\ \A q \in Ranks : q # r => loader'[q] = loader[q] /\ cur_epoch'[q] = cur_epoch[q]
      /\ loader'[r].epoch = k + 1 /\ loader'[r].key = k + 1 /\ cur_epoch'[r] = k + 1
      /\ loader'[r].start = 0 /\ loader'[r].step = 0 /\ loader'[r].drawn = 0
      /\ loader'[r].given = 0 /\ loader'[r].local = n /\ loader'[r].exhausted = FALSE
  BY <1>1, <1>4, <1>5, <1>8 DEF Opened
<1>10. TypeOK'
  <2>1. 0 \in 0..(TotalSize - 1) /\ k + 1 \in Nat /\ 0 \in Nat
    BY <1>5
  <2>2. [Opened(k + 1, 0) EXCEPT !.local = n] \in LoaderType
    BY <2>1 DEF LoaderType, Opened
  <2>3. loader' \in [Ranks -> LoaderType]
    BY <1>5, <1>8, <2>2
  <2>4. cur_epoch' \in [Ranks -> Nat]
    BY <1>1, <1>4, <1>5, <2>1
  <2> QED BY <1>1, <1>2, <2>3, <2>4 DEF TypeOK, LoaderType
<1>11. LoaderInv'
  <2>1. Whole(loader[r])'
    <3>1. PICK q \in Nat \ {0} : TotalSize = GlobalBatch * q
      BY PassIsWhole
    <3>2. TotalSize = 0 + GlobalBatch * q /\ q > 0
      BY <1>5, <3>1
    <3>3. 0 = PerRank(world') * 0 /\ 0 <= q /\ 0 \in Nat
      BY <1>1, <1>3
    <3> QED BY <1>9, <3>2, <3>3 DEF Whole
  <2> SUFFICES ASSUME NEW q \in Ranks PROVE Whole(loader[q])'
    BY <1>2 DEF LoaderInv
  <2>2. CASE q # r
    BY <1>1, <1>2, <1>9, <2>2 DEF LoaderInv, Whole
  <2> QED BY <2>1, <2>2
<1>12. BatchInv' /\ CountInv'
  BY <1>1, <1>2, <1>4, <1>9 DEF BatchInv, CountInv, Held, Slice
<1>13. /\ At(r)' = 0
       /\ \A q \in Ranks : q # r => At(q)' = At(q)
  <2>1. At(r)' = 0 + world * 0 - 0
    BY <1>1, <1>9 DEF At, Held
  <2>2. \A q \in Ranks : q # r => At(q)' = At(q)
    BY <1>1, <1>9 DEF At, Held
  <2> QED BY <1>5, <2>1, <2>2
<1>14. PICK e0 \in Nat, c0 \in Nat, p0 \in Nat, h0 \in Nat : LaunchedAt(e0, c0, p0, h0)
  BY DEF Inv, LaunchInv
<1>15. /\ k >= c0 /\ loader[r].key = (IF k = c0 THEN e0 ELSE k) /\ e0 <= c0
       /\ GlobalBatch * Len(history) = TotalSize * (p0 + k - c0) + TotalSize
  BY <1>4, <1>7, <1>14 DEF LaunchedAt
<1>16. LaunchInv'
  <2>1. GlobalBatch * Len(history) = TotalSize * (p0 + (k + 1) - c0) + 0
    <3>1. TotalSize * (p0 + (k + 1) - c0) = TotalSize * (p0 + k - c0) + TotalSize
      BY <1>5
    <3>2. TotalSize * (p0 + (k + 1) - c0) \in Int
      BY <1>5
    <3> QED BY <1>15, <3>1, <3>2
  <2>2. k + 1 >= c0 /\ k + 1 # c0
    BY <1>15
  <2>3. LaunchedAt(e0, c0, p0, h0)'
    BY <1>1, <1>2, <1>9, <1>13, <1>14, <2>1, <2>2 DEF LaunchedAt
  <2> QED BY <2>3 DEF LaunchInv
<1>17. EpochInv'
  <2> SUFFICES ASSUME NEW q \in Ranks, history # <<>>, NEW t \in history[Len(history)]
               PROVE  /\ At(q)' > 0 => t.epoch = loader'[q].key
                      /\ At(q)' = 0 /\ Len(history) \notin resumed => t.epoch < loader'[q].key
    BY <1>1, <1>2 DEF EpochInv
  <2>1. CASE q # r
    BY <1>9, <1>13, <2>1 DEF Inv, EpochInv
  <2>2. CASE q = r
    <3>1. t.epoch = loader[r].key
      BY <1>5, <1>7 DEF Inv, EpochInv
    <3>2. t.epoch < k + 1
      BY <1>15, <3>1
    <3> QED BY <1>9, <1>13, <2>2, <3>2
  <2> QED BY <2>1, <2>2
<1>18. SavedInv' /\ InOrder(history', group_size', resumed')
  BY <1>1, <1>2 DEF SavedInv, Inv
<1> QED BY <1>10, <1>11, <1>12, <1>16, <1>17, <1>18 DEF Inv

\* When every rank has its batch they are at the same place of the same pass, and use
\* the same shuffle, however far any of them has drawn ahead.
LEMMA Aligned ==
  ASSUME Inv, \A r \in Ranks : batch[r] # <<>>
  PROVE  \E key \in Nat, from \in 0..(TotalSize - 1) :
           /\ from = (GlobalBatch * Len(history)) % TotalSize
           /\ \A r \in Ranks : loader[r].key = key /\ At(r) = from
<1>1. TypeOK /\ LoaderInv /\ BatchInv
  BY DEF Inv
<1>2. GlobalBatch \in Nat \ {0} /\ TotalSize \in Nat \ {0} /\ Len(history) \in Nat /\ 0 \in Ranks
  BY <1>1, Shapes
<1>3. PICK x \in Nat : x = GlobalBatch * Len(history)
  BY <1>2
<1>4. PICK e0 \in Nat, c0 \in Nat, p0 \in Nat, h0 \in Nat : LaunchedAt(e0, c0, p0, h0)
  BY DEF Inv, LaunchInv
<1>5. ASSUME NEW r \in Ranks
      PROVE  /\ At(r) \in 0..(TotalSize - 1) /\ x % TotalSize = At(r)
             /\ cur_epoch[r] = x \div TotalSize + c0 - p0
  <2>1. PICK y \in Int : y = At(r) /\ y \in 0..TotalSize /\ y + GlobalBatch <= TotalSize
    BY <1>1, AtIs
  <2>2. y \in 0..(TotalSize - 1)
    BY <1>2, <2>1
  <2>3. PICK k \in Nat : k = cur_epoch[r]
    BY <1>1, Fields
  <2>4. PICK q \in Int : q = p0 + k - c0
    OBVIOUS
  <2>5. x = TotalSize * q + y
    BY <1>3, <1>4, <2>1, <2>3, <2>4 DEF LaunchedAt
  <2>6. x \div TotalSize = q /\ x % TotalSize = y
    BY <1>2, <2>2, <2>5, DivisionUnique
  <2>7. k = q + c0 - p0
    BY <2>4
  <2> QED BY <2>1, <2>2, <2>3, <2>6, <2>7
<1>6. \A r \in Ranks : cur_epoch[r] = cur_epoch[0]
  BY <1>2, <1>5
<1>7. \A r \in Ranks : loader[r].key = loader[0].key
  BY <1>2, <1>4, <1>6 DEF LaunchedAt
<1>8. loader[0].key \in Nat
  BY <1>1, <1>2, Fields
<1>9. x % TotalSize \in 0..(TotalSize - 1)
  BY <1>2, <1>5
<1> QED BY <1>3, <1>5, <1>7, <1>8, <1>9

\* The samples of a step, seen as one set.
Together == UNION {{batch[r][i] : i \in DOMAIN batch[r]} : r \in Ranks}

\* What the ranks hold together is the next block of the pass, under one shuffle.
LEMMA TheBatch ==
  ASSUME Inv, \A r \in Ranks : batch[r] # <<>>,
         NEW key \in Nat, NEW from \in 0..(TotalSize - 1),
         \A r \in Ranks : loader[r].key = key /\ At(r) = from
  PROVE  Together = {[at |-> a, epoch |-> key, group |-> group_size] :
                       a \in from..(from + GlobalBatch - 1)}
<1> DEFINE S(a) == [at |-> a, epoch |-> key, group |-> group_size]
<1>1. TypeOK /\ LoaderInv /\ BatchInv
  BY DEF Inv
<1>2. /\ world \in Worlds /\ world \in Nat \ {0} /\ GlobalBatch \in Nat \ {0}
      /\ TotalSize \in Nat \ {0}
  BY <1>1, Shapes
<1>3. PICK c \in Nat \ {0} : c = PerRank(world)
  BY <1>1, Shapes
<1>4. ASSUME NEW r \in Ranks
      PROVE  /\ DOMAIN batch[r] = 1..c
             /\ \A i \in 1..c : batch[r][i] = S(from + (r + world * (i - 1)))
  <2>1. batch[r] = [i \in 1..c |-> Slice(loader[r], r, loader[r].given - c + i - 1)]
    BY <1>1, <1>3 DEF BatchInv
  <2>2. PICK s \in Nat, v \in Nat : s = loader[r].start /\ v = loader[r].given
    BY <1>1, Fields
  <2>3. from = s + world * (v - c)
    BY <1>1, <1>3, <2>2, AtIs
  <2>4. ASSUME NEW i \in 1..c PROVE batch[r][i] = S(from + (r + world * (i - 1)))
    <3>1. r \in Int
      BY <1>2 DEF Ranks
    <3>2. world * (v - c + i - 1) = world * (v - c) + world * (i - 1)
      BY <1>2
    <3>3. s + r + world * (v - c + i - 1) = from + (r + world * (i - 1))
      <4>1. PICK x \in Int, y \in Int : x = world * (v - c) /\ y = world * (i - 1)
        BY <1>2
      <4>2. s + r + (x + y) = (s + x) + (r + y)
        BY <3>1
      <4> QED BY <2>3, <3>2, <4>1, <4>2
    <3>4. batch[r][i] = Slice(loader[r], r, v - c + i - 1)
      BY <2>1, <2>2
    <3>5. batch[r][i] = [at |-> s + r + world * (v - c + i - 1), epoch |-> key, group |-> group_size]
      BY <2>2, <3>4 DEF Slice
    <3> QED BY <3>3, <3>5
  <2> QED BY <2>1, <2>4
<1>5. ASSUME NEW x \in Together PROVE \E a \in from..(from + GlobalBatch - 1) : x = S(a)
  <2>1. PICK r \in Ranks, i \in 1..c : x = S(from + (r + world * (i - 1)))
    <3>1. PICK r \in Ranks : x \in {batch[r][i] : i \in DOMAIN batch[r]}
      BY DEF Together
    <3>2. PICK i \in DOMAIN batch[r] : x = batch[r][i]
      BY <3>1
    <3> QED BY <1>4, <3>2
  <2>2. r \in 0..(world - 1)
    BY DEF Ranks
  <2>3. PICK b \in 0..(GlobalBatch - 1) : b = r + world * (i - 1)
    BY <1>2, <1>3, <2>2, InBatch
  <2>4. from + b \in from..(from + GlobalBatch - 1)
    BY <1>2
  <2> QED BY <2>1, <2>3, <2>4
<1>6. ASSUME NEW a \in from..(from + GlobalBatch - 1) PROVE S(a) \in Together
  <2>1. PICK b \in 0..(GlobalBatch - 1) : a = from + b
    <3>1. a - from \in 0..(GlobalBatch - 1) /\ a = from + (a - from)
      BY <1>2
    <3> QED BY <3>1
  <2>2. PICK r \in 0..(world - 1), i \in 1..c : b = r + world * (i - 1)
    BY <1>2, <1>3, Interleaved
  <2>3. r \in Ranks
    BY DEF Ranks
  <2>4. i \in DOMAIN batch[r] /\ batch[r][i] = S(a)
    BY <1>4, <2>1, <2>2, <2>3
  <2> HIDE DEF S
  <2> QED BY <2>3, <2>4 DEF Together
<1> HIDE DEF S
<1>7. Together = {S(a) : a \in from..(from + GlobalBatch - 1)}
  BY <1>5, <1>6
<1> QED BY <1>7 DEF S

\* As many samples as positions.
LEMMA SizeOfBatch ==
  ASSUME NEW from \in Nat, NEW key, NEW B,
         B = {[at |-> a, epoch |-> key, group |-> group_size] :
                a \in from..(from + GlobalBatch - 1)}
  PROVE  Cardinality(B) = GlobalBatch
<1> DEFINE I == from..(from + GlobalBatch - 1)
           f == [a \in I |-> [at |-> a, epoch |-> key, group |-> group_size]]
<1>1. GlobalBatch \in Nat \ {0}
  BY DataConstantsAssumption
<1>2. IsFiniteSet(I) /\ Cardinality(I) = GlobalBatch
  BY <1>1, FS_Interval
<1>3. \A a \in I, b \in I : f[a] = f[b] => a = b
  OBVIOUS
<1>4. f \in [I -> B] /\ \A x \in B : \E a \in I : f[a] = x
  OBVIOUS
<1>5. f \in Bijection(I, B)
  <2> HIDE DEF f, I
  <2> QED BY <1>3, <1>4 DEF Bijection, Injection, Surjection, IsInjective
<1>6. ExistsBijection(I, B)
  <2> HIDE DEF f, I
  <2> QED BY <1>5 DEF ExistsBijection
<1>7. Cardinality(B) = GlobalBatch
  <2> HIDE DEF I
  <2> QED BY <1>2, <1>6, FS_Bijection
<1> QED BY <1>7

\* A step of training takes the next batch of the pass, whole.
LEMMA TrainKeepsInv == ASSUME Inv, TrainStep PROVE Inv'
<1>1. /\ UNCHANGED <<world, loader, cur_epoch, init_total, group_size, saved, resumed, restarts>>
      /\ \A r \in Ranks : batch[r] # <<>>
      /\ history' = Append(history, Together)
      /\ batch' = [r \in Ranks |-> <<>>]
  BY DEF TrainStep, Together
<1>2. TypeOK /\ LoaderInv /\ BatchInv /\ CountInv /\ SavedInv /\ Ranks' = Ranks
  BY <1>1 DEF Inv, Ranks
<1>3. PICK key \in Nat, from \in 0..(TotalSize - 1) :
        /\ from = (GlobalBatch * Len(history)) % TotalSize
        /\ \A r \in Ranks : loader[r].key = key /\ At(r) = from
  BY <1>1, Aligned
<1>4. /\ history \in Seq(SUBSET Samples) /\ Len(history) \in Nat /\ 0 \in Ranks
      /\ GlobalBatch \in Nat \ {0} /\ TotalSize \in Nat \ {0} /\ world \in Nat \ {0}
  BY <1>2, Shapes
<1>5. PICK k \in Nat : k = Len(history)
  BY <1>4
<1>6. from \in Nat
  BY <1>4
<1>7. Together = {[at |-> a, epoch |-> key, group |-> group_size] :
                    a \in from..(from + GlobalBatch - 1)}
  BY <1>1, <1>3, TheBatch
<1>8. /\ \A s \in Together : /\ s.epoch = key /\ s.group = group_size
                             /\ s.at \in from..(from + GlobalBatch - 1)
      /\ \A a \in from..(from + GlobalBatch - 1) : \E s \in Together : s.at = a
  <2>1. ASSUME NEW s \in Together
        PROVE  s.epoch = key /\ s.group = group_size /\ s.at \in from..(from + GlobalBatch - 1)
    <3>1. PICK a \in from..(from + GlobalBatch - 1) :
            s = [at |-> a, epoch |-> key, group |-> group_size]
      BY <1>7, <2>1
    <3> QED BY <3>1
  <2>2. ASSUME NEW a \in from..(from + GlobalBatch - 1) PROVE \E s \in Together : s.at = a
    <3>1. [at |-> a, epoch |-> key, group |-> group_size] \in Together
      BY <1>7
    <3> QED BY <3>1
  <2> QED BY <2>1, <2>2
<1>9. Together \in SUBSET Samples
  <2>1. group_size \in Worlds
    BY <1>2 DEF TypeOK
  <2>2. \A a \in from..(from + GlobalBatch - 1) : a \in Nat
    BY <1>4, <1>6
  <2> QED BY <1>7, <2>1, <2>2 DEF Samples
<1>10. /\ Len(history') = k + 1 /\ history' \in Seq(SUBSET Samples) /\ history' # <<>>
       /\ DOMAIN history' = 1..(k + 1) /\ DOMAIN history = 1..k
       /\ \A n \in 1..k : history'[n] = history[n]
       /\ history'[k + 1] = Together
  BY <1>1, <1>4, <1>5, <1>9
<1>11. TypeOK'
  <2>1. batch' \in [Ranks -> Seq(Samples)]
    BY <1>1
  <2> QED BY <1>1, <1>2, <1>10, <2>1 DEF TypeOK
<1>12. LoaderInv' /\ BatchInv'
  BY <1>1, <1>2 DEF LoaderInv, BatchInv, Whole
<1>13. \A r \in Ranks : Held(r)' = 0 /\ Held(r) = GlobalBatch
  BY <1>1, <1>2 DEF Held
<1>14. GlobalBatch * (k + 1) = GlobalBatch * k + GlobalBatch /\ GlobalBatch * k \in Nat
  BY <1>4
<1>15. CountInv'
  <2> SUFFICES ASSUME NEW r \in Ranks
               PROVE  init_total + world * loader[r].local = GlobalBatch * (k + 1) + 0
    BY <1>1, <1>2, <1>10, <1>13 DEF CountInv
  <2>1. init_total + world * loader[r].local = GlobalBatch * k + GlobalBatch
    BY <1>2, <1>5, <1>13 DEF CountInv
  <2>2. GlobalBatch * k + GlobalBatch = GlobalBatch * (k + 1) + 0
    BY <1>4, <1>14
  <2> QED BY <2>1, <2>2
<1>16. \A r \in Ranks : At(r)' = from + GlobalBatch
  <2> SUFFICES ASSUME NEW r \in Ranks PROVE At(r)' = from + GlobalBatch
    OBVIOUS
  <2>1. PICK s \in Nat, v \in Nat : s = loader[r].start /\ v = loader[r].given
    BY <1>2, Fields
  <2>2. PICK x \in Int : x = world * v
    BY <1>4
  <2>3. At(r) = s + x - GlobalBatch
    BY <1>13, <2>1, <2>2 DEF At
  <2>4. At(r)' = s + x - 0
    BY <1>1, <1>13, <2>1, <2>2 DEF At
  <2> QED BY <1>3, <1>4, <2>3, <2>4
<1>17. LaunchInv'
  <2>1. PICK e0 \in Nat, c0 \in Nat, p0 \in Nat, h0 \in Nat : LaunchedAt(e0, c0, p0, h0)
    BY DEF Inv, LaunchInv
  <2>2. ASSUME NEW r \in Ranks
        PROVE  GlobalBatch * (k + 1) = TotalSize * (p0 + cur_epoch[r] - c0) + (from + GlobalBatch)
    <3>1. PICK j \in Nat : j = cur_epoch[r]
      BY <1>2, Fields
    <3>2. GlobalBatch * k = TotalSize * (p0 + j - c0) + from
      BY <1>3, <1>5, <2>1, <3>1 DEF LaunchedAt
    <3>3. PICK y \in Int : y = TotalSize * (p0 + j - c0)
      BY <1>4
    <3>4. GlobalBatch * (k + 1) = y + (from + GlobalBatch)
      BY <1>4, <1>14, <3>2, <3>3
    <3> QED BY <3>1, <3>3, <3>4
  <2>3. LaunchedAt(e0, c0, p0, h0)'
    BY <1>1, <1>2, <1>10, <1>16, <2>1, <2>2 DEF LaunchedAt
  <2> QED BY <2>3 DEF LaunchInv
<1>18. EpochInv'
  <2>1. from + GlobalBatch > 0
    BY <1>4, <1>6
  <2> QED BY <1>1, <1>2, <1>3, <1>8, <1>10, <1>16, <2>1 DEF EpochInv
<1>19. InOrder(history', group_size', resumed')
  <2>1. ASSUME NEW n \in 1..k
        PROVE  /\ {s.at : s \in history'[n]} = Block(n) /\ Cardinality(history'[n]) = GlobalBatch
               /\ \A s \in history'[n] : s.group = group_size /\ \A t \in history'[n] : s.epoch = t.epoch
               /\ n > 1 =>
                    \A s \in history'[n], t \in history'[n - 1] :
                      /\ (n - 1) * GlobalBatch % TotalSize # 0 => s.epoch = t.epoch
                      /\ (n - 1) * GlobalBatch % TotalSize = 0 /\ n - 1 \notin resumed => s.epoch > t.epoch
    <3>1. history'[n] = history[n] /\ (n > 1 => history'[n - 1] = history[n - 1])
      BY <1>10
    <3>2. n \in DOMAIN history
      BY <1>10
    <3> QED BY <3>1, <3>2 DEF Inv, InOrder
  <2>2. (k + 1 - 1) * GlobalBatch = GlobalBatch * Len(history)
    BY <1>4, <1>5
  <2>3. {s.at : s \in Together} = Block(k + 1)
    <3>1. Block(k + 1) = from..(from + GlobalBatch - 1)
      BY <1>3, <2>2 DEF Block
    <3> QED BY <1>8, <3>1
  <2>4. Cardinality(Together) = GlobalBatch
    BY <1>6, <1>7, SizeOfBatch
  <2>5. ASSUME k + 1 > 1, NEW t \in history[k]
        PROVE  /\ from # 0 => t.epoch = key
               /\ from = 0 /\ k \notin resumed => t.epoch < key
    <3>1. history # <<>>
      BY <1>4, <1>5, <2>5
    <3> QED BY <1>3, <1>4, <1>5, <1>6, <2>5, <3>1 DEF Inv, EpochInv
  <2>6. k + 1 > 1 =>
          \A s \in Together, t \in history'[k] :
            /\ (k + 1 - 1) * GlobalBatch % TotalSize # 0 => s.epoch = t.epoch
            /\ (k + 1 - 1) * GlobalBatch % TotalSize = 0 /\ k \notin resumed => s.epoch > t.epoch
    <3> SUFFICES ASSUME k + 1 > 1, NEW s \in Together, NEW t \in history'[k]
                 PROVE  /\ from # 0 => s.epoch = t.epoch
                        /\ from = 0 /\ k \notin resumed => s.epoch > t.epoch
      BY <1>3, <2>2
    <3>1. k \in 1..k
      BY <1>5
    <3>2. t \in history[k] /\ s.epoch = key
      BY <1>8, <1>10, <3>1
    <3>3. \A x \in history[k] : x.epoch < key <=> key > x.epoch
      <4>1. k \in DOMAIN history
        BY <1>10, <3>1
      <4>2. \A x \in history[k] : x.epoch \in Nat
        BY <1>4, <4>1 DEF Samples
      <4> QED BY <4>2
    <3> QED BY <2>5, <3>2, <3>3
  <2>7. k + 1 - 1 = k
    OBVIOUS
  <2> SUFFICES ASSUME NEW n \in 1..(k + 1)
               PROVE  /\ {s.at : s \in history'[n]} = Block(n) /\ Cardinality(history'[n]) = GlobalBatch
                      /\ \A s \in history'[n] : s.group = group_size /\ \A t \in history'[n] : s.epoch = t.epoch
                      /\ n > 1 =>
                           \A s \in history'[n], t \in history'[n - 1] :
                             /\ (n - 1) * GlobalBatch % TotalSize # 0 => s.epoch = t.epoch
                             /\ (n - 1) * GlobalBatch % TotalSize = 0 /\ n - 1 \notin resumed =>
                                  s.epoch > t.epoch
    BY <1>1, <1>10 DEF InOrder
  <2>8. CASE n \in 1..k
    BY <2>1, <2>8
  <2>9. CASE n = k + 1
    BY <1>8, <1>10, <2>3, <2>4, <2>6, <2>7, <2>9
  <2> QED BY <2>8, <2>9
<1>20. SavedInv'
  BY <1>1, <1>2 DEF SavedInv
<1> QED BY <1>11, <1>12, <1>15, <1>17, <1>18, <1>19, <1>20 DEF Inv

\* What a checkpoint records is the end of the last step, whatever was prefetched.
LEMMA SaveKeepsInv == ASSUME Inv, Save PROVE Inv'
<1>1. /\ UNCHANGED <<world, loader, cur_epoch, batch, init_total, group_size, history, resumed, restarts>>
      /\ saved' = State /\ history # <<>>
      /\ \A r \in Ranks : batch[r] = <<>> /\ loader[r].given > 0
  BY DEF Save, AfterStep
<1>2. TypeOK /\ LoaderInv /\ BatchInv /\ CountInv /\ Ranks' = Ranks
  BY <1>1 DEF Inv, Ranks
<1>3. /\ history \in Seq(SUBSET Samples) /\ Len(history) \in Nat /\ 0 \in Ranks /\ init_total \in Nat
      /\ GlobalBatch \in Nat \ {0} /\ TotalSize \in Nat \ {0} /\ world \in Nat \ {0}
  BY <1>2, Shapes
<1>4. PICK n \in Nat, x \in Nat : n = loader[0].local /\ x = GlobalBatch * Len(history)
  BY <1>2, <1>3, Fields
<1>5. ASSUME NEW r \in Ranks PROVE init_total + world * loader[r].local = x
  <2>1. init_total + world * loader[r].local = x + 0
    BY <1>1, <1>2, <1>4 DEF CountInv, Held
  <2> QED BY <2>1
<1>6. \A r \in Ranks : loader[r].local = n
  <2> SUFFICES ASSUME NEW r \in Ranks PROVE loader[r].local = n
    OBVIOUS
  <2>1. PICK j \in Nat : j = loader[r].local
    BY <1>2, Fields
  <2>2. PICK y \in Int, z \in Int : y = world * j /\ z = world * n
    BY <1>3
  <2>3. init_total + y = x /\ init_total + z = x
    BY <1>3, <1>4, <1>5, <2>1, <2>2
  <2>4. y = z
    BY <1>3, <2>3
  <2>5. ~(j + 1 <= n) /\ ~(n + 1 <= j)
    <3>1. \A a \in Nat, b \in Nat : a + 1 <= b => world * (a + 1) <= world * b
      BY <1>3, Monotone
    <3>2. \A a \in Nat : world * (a + 1) = world * a + world
      BY <1>3
    <3>3. world * (j + 1) = y + world /\ world * (n + 1) = z + world
      BY <2>2, <3>2
    <3>4. ASSUME j + 1 <= n PROVE FALSE
      <4>1. y + world <= z
        BY <2>2, <3>1, <3>3, <3>4
      <4> QED BY <1>3, <2>4, <4>1
    <3>5. ASSUME n + 1 <= j PROVE FALSE
      <4>1. z + world <= y
        BY <2>2, <3>1, <3>3, <3>5
      <4> QED BY <1>3, <2>4, <4>1
    <3> QED BY <3>4, <3>5
  <2> QED BY <2>1, <2>5
<1>7. TotalConsumed = x
  <2>1. TotalConsumed = init_total + world * n
    BY <1>3, <1>6, TotalIs
  <2> QED BY <1>3, <1>4, <1>5, <2>1
<1>8. At(0) > 0
  <2>1. PICK s \in Nat, v \in Nat : s = loader[0].start /\ v = loader[0].given
    BY <1>2, <1>3, Fields
  <2>2. v > 0
    BY <1>1, <1>3, <2>1
  <2>3. world * v > 0
    BY <1>3, <2>2
  <2>4. At(0) = s + world * v - 0
    BY <1>1, <1>3, <2>1 DEF At, Held
  <2> QED BY <1>3, <2>3, <2>4
<1>9. loader[0].epoch \in Nat /\ cur_epoch[0] \in Nat /\ group_size \in Worlds /\ resumed \subseteq Nat
  BY <1>2, <1>3, Fields DEF TypeOK
<1>10. loader[0].epoch = loader[0].key /\ loader[0].epoch <= cur_epoch[0]
  <2>1. PICK e0 \in Nat, c0 \in Nat, p0 \in Nat, h0 \in Nat : LaunchedAt(e0, c0, p0, h0)
    BY DEF Inv, LaunchInv
  <2>2. /\ e0 <= c0 /\ cur_epoch[0] >= c0 /\ loader[0].epoch = loader[0].key
        /\ loader[0].key = IF cur_epoch[0] = c0 THEN e0 ELSE cur_epoch[0]
    BY <1>3, <2>1 DEF LaunchedAt
  <2> QED BY <1>9, <2>2
<1>11. x % TotalSize \in 0..(TotalSize - 1)
  BY <1>3
<1>12. saved' = [epoch |-> loader[0].epoch, step |-> x % TotalSize, total |-> x, cur |-> cur_epoch[0],
                 group |-> group_size, history |-> history, resumed |-> resumed]
  BY <1>1, <1>7 DEF State
<1>13. saved' \in SavedRecords
  BY <1>3, <1>9, <1>11, <1>12 DEF SavedRecords
<1>14. \A s \in history[Len(history)] : s.epoch = loader[0].epoch
  BY <1>1, <1>3, <1>8, <1>10 DEF Inv, EpochInv
<1>15. InOrder(history, group_size, resumed)
  BY DEF Inv
<1>16. SavedInv'
  <2>1. /\ saved'.epoch = loader[0].epoch /\ saved'.step = x % TotalSize /\ saved'.total = x
        /\ saved'.cur = cur_epoch[0] /\ saved'.group = group_size /\ saved'.history = history
        /\ saved'.resumed = resumed
    BY <1>12
  <2> QED BY <1>1, <1>4, <1>10, <1>13, <1>14, <1>15, <2>1 DEF SavedInv
<1>17. TypeOK'
  <2>1. saved'.step \in 0..(TotalSize - 1)
    BY <1>11, <1>12
  <2> QED BY <1>1, <1>2, <2>1 DEF TypeOK
<1>18. LoaderInv' /\ BatchInv' /\ CountInv'
  BY <1>1, <1>2 DEF LoaderInv, BatchInv, CountInv, Whole, Held, Slice
<1>19. LaunchInv' /\ EpochInv' /\ InOrder(history', group_size', resumed')
  BY <1>1, SamePlace DEF At, Held
<1> QED BY <1>16, <1>17, <1>18, <1>19 DEF Inv

\* A launch of w ranks that resumes the k steps of h, trained last at epoch e.
LEMMA LaunchResumes ==
  ASSUME NEW w \in Worlds, NEW e \in Nat, NEW cur \in Nat, e <= cur, NEW g \in Worlds,
         NEW k \in Nat, NEW h \in Seq(SUBSET Samples), Len(h) = k,
         Launch(w, e, (GlobalBatch * k) % TotalSize, GlobalBatch * k, cur, g),
         history' = h, k = 0 \/ k \in resumed', k # 0 => \A s \in h[k] : s.epoch = e
  PROVE  /\ LoaderInv' /\ BatchInv' /\ CountInv' /\ LaunchInv' /\ EpochInv'
         /\ world' \in Worlds /\ group_size' \in Worlds /\ init_total' \in Nat
         /\ cur_epoch' \in [Ranks' -> Nat] /\ batch' \in [Ranks' -> Seq(Samples)]
         /\ loader' \in [Ranks' -> LoaderType]
<1>1. PICK p \in Nat, y \in 0..(TotalSize - 1), m \in Nat \ {0} :
        /\ y = (GlobalBatch * k) % TotalSize /\ GlobalBatch * k = TotalSize * p + y
        /\ TotalSize = y + GlobalBatch * m
  BY WrapIs
<1>2. /\ world' = w /\ Ranks' = 0..(w - 1) /\ init_total' = GlobalBatch * k /\ group_size' = g
      /\ cur_epoch' = [r \in 0..(w - 1) |-> cur] /\ batch' = [r \in 0..(w - 1) |-> <<>>]
      /\ loader' = [r \in 0..(w - 1) |-> Opened(e, y)]
  BY <1>1 DEF Launch, Ranks
<1>3. /\ w \in Nat \ {0} /\ PerRank(w) \in Nat \ {0} /\ GlobalBatch \in Nat \ {0}
      /\ TotalSize \in Nat \ {0}
  BY PerRankIs, DataConstantsAssumption
<1>4. PICK x \in Nat : x = GlobalBatch * k
  BY <1>3
<1>5. Opened(e, y) \in LoaderType
  BY <1>3 DEF Opened, LoaderType
<1>6. /\ loader' \in [Ranks' -> LoaderType] /\ cur_epoch' \in [Ranks' -> Nat]
      /\ batch' \in [Ranks' -> Seq(Samples)]
  BY <1>2, <1>5
<1>7. ASSUME NEW r \in Ranks'
      PROVE  /\ loader'[r].epoch = e /\ loader'[r].key = e /\ loader'[r].start = y /\ loader'[r].drawn = 0
             /\ loader'[r].given = 0 /\ loader'[r].local = 0 /\ loader'[r].exhausted = FALSE
             /\ batch'[r] = <<>> /\ cur_epoch'[r] = cur /\ Held(r)' = 0 /\ At(r)' = y
  <2>1. /\ loader'[r].epoch = e /\ loader'[r].key = e /\ loader'[r].start = y /\ loader'[r].drawn = 0
        /\ loader'[r].given = 0 /\ loader'[r].local = 0 /\ loader'[r].exhausted = FALSE
        /\ batch'[r] = <<>> /\ cur_epoch'[r] = cur
    BY <1>2 DEF Opened
  <2>2. Held(r)' = 0
    BY <2>1 DEF Held
  <2>3. At(r)' = y + w * 0 - 0
    BY <1>2, <2>1, <2>2 DEF At
  <2>4. At(r)' = y
    BY <1>3, <2>3
  <2> QED BY <2>1, <2>2, <2>4
<1>8. LoaderInv'
  <2> SUFFICES ASSUME NEW r \in Ranks' PROVE Whole(loader[r])'
    BY DEF LoaderInv
  <2>1. PICK c \in Nat : c = PerRank(world')
    BY <1>2, <1>3
  <2>2. 0 = c * 0 /\ m > 0 /\ m \in Nat /\ 0 \in Nat /\ 0 <= m /\ 0 <= 0
    OBVIOUS
  <2>3. loader'[r].drawn = c * 0 /\ loader'[r].given = c * 0 /\ TotalSize = loader'[r].start + GlobalBatch * m
    BY <1>1, <1>7, <2>2
  <2> QED BY <1>7, <2>1, <2>2, <2>3 DEF Whole
<1>9. BatchInv'
  BY <1>7 DEF BatchInv
<1>10. CountInv'
  <2>1. x + w * 0 = x + 0
    BY <1>3
  <2> QED BY <1>2, <1>4, <1>7, <2>1 DEF CountInv
<1>11. LaunchInv'
  <2>1. p + cur - cur = p /\ cur >= cur
    OBVIOUS
  <2>2. GlobalBatch * k = TotalSize * (p + cur - cur) + y /\ GlobalBatch * k = TotalSize * p + y
    BY <1>1, <2>1
  <2>3. LaunchedAt(e, cur, p, k)'
    BY <1>2, <1>7, <2>1, <2>2 DEF LaunchedAt
  <2> QED BY <2>3 DEF LaunchInv
<1>12. EpochInv'
  <2>1. h # <<>> => k # 0
    OBVIOUS
  <2> QED BY <1>7, <2>1 DEF EpochInv
<1>13. world' \in Worlds /\ group_size' \in Worlds /\ init_total' \in Nat
  BY <1>2, <1>4
<1> QED BY <1>6, <1>8, <1>9, <1>10, <1>11, <1>12, <1>13

\* A run stays in order when one more resume is noted.
LEMMA OneMoreResume ==
  ASSUME NEW h, NEW g, NEW res, NEW more, InOrder(h, g, res), res \subseteq more
  PROVE  InOrder(h, g, more)
BY DEF InOrder

\* A restart resumes the run its checkpoint holds, or a run of no steps.
LEMMA RestartKeepsInv == ASSUME Inv, NEW w \in Worlds, Restart(w) PROVE Inv'
<1>1. /\ restarts < MaxRestarts /\ restarts' = restarts + 1 /\ saved' = saved
      /\ TypeOK /\ SavedInv /\ restarts \in 0..MaxRestarts /\ MaxRestarts \in Nat
  BY DataConstantsAssumption DEF Restart, Inv, TypeOK
<1>2. restarts' \in 0..MaxRestarts
  BY <1>1
<1>3. /\ TypeOK' /\ LoaderInv' /\ BatchInv' /\ CountInv' /\ LaunchInv' /\ EpochInv'
      /\ (saved # <<>> => group_size' = saved.group) /\ InOrder(history', group_size', resumed')
  <2>1. CASE saved = <<>>
    <3>1. Launch(w, 0, 0, 0, FirstEpoch, w) /\ history' = <<>> /\ resumed' = {}
      BY <2>1 DEF Restart
    <3>2. 0 = GlobalBatch * 0 /\ 0 = (GlobalBatch * 0) % TotalSize
      <4>1. 0 = TotalSize * 0 + 0 /\ 0 \in 0..(TotalSize - 1) /\ 0 = GlobalBatch * 0 /\ 0 \in Int
        BY DataConstantsAssumption
      <4>2. TotalSize \in Nat \ {0}
        BY DataConstantsAssumption
      <4>3. 0 % TotalSize = 0
        BY <4>1, <4>2, DivisionUnique
      <4> QED BY <4>1, <4>3
    <3>3. Launch(w, 0, (GlobalBatch * 0) % TotalSize, GlobalBatch * 0, FirstEpoch, w)
      BY <3>1, <3>2
    <3>4. <<>> \in Seq(SUBSET Samples) /\ Len(<<>>) = 0 /\ 0 \in Nat
      OBVIOUS
    <3>5. FirstEpoch \in Nat /\ 0 <= FirstEpoch
      BY DataConstantsAssumption
    <3>6. /\ LoaderInv' /\ BatchInv' /\ CountInv' /\ LaunchInv' /\ EpochInv'
          /\ world' \in Worlds /\ group_size' \in Worlds /\ init_total' \in Nat
          /\ cur_epoch' \in [Ranks' -> Nat] /\ batch' \in [Ranks' -> Seq(Samples)]
          /\ loader' \in [Ranks' -> LoaderType]
      BY <3>1, <3>3, <3>4, <3>5, LaunchResumes
    <3>7. TypeOK'
      BY <1>1, <1>2, <2>1, <3>1, <3>6 DEF TypeOK, LoaderType
    <3>8. InOrder(history', group_size', resumed')
      BY <3>1 DEF InOrder
    <3> QED BY <2>1, <3>6, <3>7, <3>8
  <2>2. CASE saved # <<>>
    <3>1. /\ Launch(w, saved.epoch, saved.step, saved.total, saved.cur, saved.group)
          /\ history' = saved.history /\ resumed' = saved.resumed \cup {Len(saved.history)}
      BY <2>2 DEF Restart
    <3>2. /\ saved.epoch \in Nat /\ saved.cur \in Nat /\ saved.group \in Worlds
          /\ saved.history \in Seq(SUBSET Samples) /\ saved.resumed \subseteq Nat
          /\ saved.epoch <= saved.cur
          /\ saved.total = GlobalBatch * Len(saved.history) /\ saved.step = saved.total % TotalSize
          /\ \A s \in saved.history[Len(saved.history)] : s.epoch = saved.epoch
          /\ InOrder(saved.history, saved.group, saved.resumed)
      BY <1>1, <2>2 DEF SavedInv, SavedRecords
    <3>3. PICK k \in Nat : k = Len(saved.history)
      BY <3>2
    <3>4. Launch(w, saved.epoch, (GlobalBatch * k) % TotalSize, GlobalBatch * k, saved.cur, saved.group)
      BY <3>1, <3>2, <3>3
    <3>5. k \in resumed' /\ resumed' \subseteq Nat
      BY <3>1, <3>2, <3>3
    <3>6. /\ LoaderInv' /\ BatchInv' /\ CountInv' /\ LaunchInv' /\ EpochInv'
          /\ world' \in Worlds /\ group_size' \in Worlds /\ init_total' \in Nat
          /\ cur_epoch' \in [Ranks' -> Nat] /\ batch' \in [Ranks' -> Seq(Samples)]
          /\ loader' \in [Ranks' -> LoaderType]
      BY <3>1, <3>2, <3>3, <3>4, <3>5, LaunchResumes
    <3>7. TypeOK'
      <4>1. saved' = <<>> \/ saved'.step \in 0..(TotalSize - 1)
        BY <1>1 DEF TypeOK
      <4>2. history' \in Seq(SUBSET Samples)
        BY <3>1, <3>2
      <4> QED BY <1>2, <3>5, <3>6, <4>1, <4>2 DEF TypeOK, LoaderType
    <3>8. group_size' = saved.group
      BY <3>1 DEF Launch
    <3>9. InOrder(history', group_size', resumed')
      <4>1. saved.resumed \subseteq resumed'
        BY <3>1
      <4>2. InOrder(saved.history, saved.group, resumed')
        BY <3>2, <4>1, OneMoreResume
      <4> QED BY <3>1, <3>8, <4>2
    <3> QED BY <3>6, <3>7, <3>8, <3>9
  <2> QED BY <2>1, <2>2
<1>4. SavedInv'
  BY <1>1, <1>3 DEF SavedInv
<1> QED BY <1>3, <1>4 DEF Inv

\* A first launch satisfies the invariant.
LEMMA InitInv == Init => Inv
<1> SUFFICES ASSUME Init PROVE Inv
  OBVIOUS
<1>1. /\ world \in Worlds /\ loader = [r \in Ranks |-> Opened(0, 0)] /\ group_size = world
      /\ cur_epoch = [r \in Ranks |-> FirstEpoch] /\ batch = [r \in Ranks |-> <<>>]
      /\ init_total = 0 /\ saved = <<>> /\ history = <<>> /\ resumed = {} /\ restarts = 0
  BY DEF Init
<1>2. /\ world \in Nat \ {0} /\ GlobalBatch \in Nat \ {0} /\ TotalSize \in Nat \ {0}
      /\ FirstEpoch \in Nat /\ MaxRestarts \in Nat
  BY <1>1, PerRankIs, DataConstantsAssumption
<1>3. 0 \in 0..(TotalSize - 1) /\ 0 \in Nat /\ 0 \in 0..MaxRestarts
  BY <1>2
<1>4. TypeOK
  <2>1. Opened(0, 0) \in LoaderType
    BY <1>3 DEF Opened, LoaderType
  <2>2. loader \in [Ranks -> LoaderType]
    BY <1>1, <2>1
  <2>3. cur_epoch \in [Ranks -> Nat] /\ batch \in [Ranks -> Seq(Samples)]
    BY <1>1, <1>2
  <2>4. history \in Seq(SUBSET Samples)
    BY <1>1
  <2> QED BY <1>1, <1>3, <2>2, <2>3, <2>4 DEF TypeOK, LoaderType
<1>5. ASSUME NEW r \in Ranks
      PROVE  /\ loader[r].epoch = 0 /\ loader[r].key = 0 /\ loader[r].start = 0 /\ loader[r].drawn = 0
             /\ loader[r].given = 0 /\ loader[r].local = 0 /\ loader[r].exhausted = FALSE
             /\ batch[r] = <<>> /\ cur_epoch[r] = FirstEpoch /\ Held(r) = 0 /\ At(r) = 0
  <2>1. /\ loader[r].epoch = 0 /\ loader[r].key = 0 /\ loader[r].start = 0 /\ loader[r].drawn = 0
        /\ loader[r].given = 0 /\ loader[r].local = 0 /\ loader[r].exhausted = FALSE
        /\ batch[r] = <<>> /\ cur_epoch[r] = FirstEpoch
    BY <1>1 DEF Opened
  <2>2. Held(r) = 0
    BY <2>1 DEF Held
  <2>3. At(r) = 0 + world * 0 - 0
    BY <2>1, <2>2 DEF At
  <2> QED BY <1>2, <2>1, <2>2, <2>3
<1>6. LoaderInv
  <2> SUFFICES ASSUME NEW r \in Ranks PROVE Whole(loader[r])
    BY DEF LoaderInv
  <2>1. PICK q \in Nat \ {0} : TotalSize = GlobalBatch * q
    BY PassIsWhole
  <2>2. PICK c \in Nat : c = PerRank(world)
    BY <1>1, PerRankIs
  <2>3. TotalSize = 0 + GlobalBatch * q /\ q > 0 /\ q \in Nat /\ 0 = c * 0 /\ 0 <= q /\ 0 <= 0 /\ 0 \in Nat
    BY <1>2, <2>1
  <2>4. /\ loader[r].drawn = c * 0 /\ loader[r].given = c * 0
        /\ TotalSize = loader[r].start + GlobalBatch * q
    BY <1>5, <2>3
  <2> QED BY <1>5, <2>2, <2>3, <2>4 DEF Whole
<1>7. BatchInv
  BY <1>5 DEF BatchInv
<1>8. CountInv
  <2>1. Len(history) = 0 /\ 0 + world * 0 = GlobalBatch * 0 + 0
    BY <1>1, <1>2
  <2> QED BY <1>1, <1>5, <2>1 DEF CountInv
<1>9. LaunchInv
  <2>1. /\ GlobalBatch * 0 = TotalSize * (0 + FirstEpoch - FirstEpoch) + 0
        /\ GlobalBatch * 0 = TotalSize * 0 + 0 /\ 0 <= FirstEpoch /\ FirstEpoch >= FirstEpoch
        /\ 0 = GlobalBatch * 0
    BY <1>2
  <2>2. Len(history) = 0
    BY <1>1
  <2>3. LaunchedAt(0, FirstEpoch, 0, 0)
    BY <1>1, <1>5, <2>1, <2>2 DEF LaunchedAt
  <2> QED BY <1>2, <2>3 DEF LaunchInv
<1>10. EpochInv /\ SavedInv /\ InOrder(history, group_size, resumed)
  BY <1>1 DEF EpochInv, SavedInv, InOrder
<1> QED BY <1>4, <1>6, <1>7, <1>8, <1>9, <1>10 DEF Inv

\* Every step keeps it.
LEMMA NextInv == Inv /\ [Next]_vars => Inv'
<1> SUFFICES ASSUME Inv, [Next]_vars PROVE Inv'
  OBVIOUS
<1>1. CASE \E r \in Ranks : Draw(r) \/ Exhaust(r)
  BY <1>1, DrawKeepsInv
<1>2. CASE \E r \in Ranks : Fetch(r)
  BY <1>2, FetchKeepsInv
<1>3. CASE \E r \in Ranks : NextEpoch(r)
  BY <1>3, NextEpochKeepsInv
<1>4. CASE TrainStep
  BY <1>4, TrainKeepsInv
<1>5. CASE Save
  BY <1>5, SaveKeepsInv
<1>6. CASE \E w \in Worlds : Restart(w)
  BY <1>6, RestartKeepsInv
<1>7. CASE Done \/ UNCHANGED vars
  <2>1. /\ UNCHANGED <<world, loader, cur_epoch, batch, init_total, group_size, saved>>
        /\ UNCHANGED <<history, resumed, restarts>>
    BY <1>7 DEF Done, vars
  <2>2. Ranks' = Ranks /\ TypeOK'
    BY <2>1 DEF Ranks, TypeOK, Inv
  <2>3. LoaderInv' /\ BatchInv' /\ CountInv'
    BY <2>1, <2>2 DEF LoaderInv, BatchInv, CountInv, Whole, Held, Slice, Inv
  <2>4. LaunchInv' /\ EpochInv' /\ InOrder(history', group_size', resumed')
    BY <2>1, SamePlace DEF At, Held
  <2>5. SavedInv'
    BY <2>1 DEF SavedInv, Inv
  <2> QED BY <2>2, <2>3, <2>4, <2>5 DEF Inv
<1> QED BY <1>1, <1>2, <1>3, <1>4, <1>5, <1>6, <1>7 DEF Next

\* Every reachable state satisfies it.
LEMMA AlwaysInv == Spec => []Inv
BY InitInv, NextInv, PTL DEF Spec

-----------------------------------------------------------------------------
\* Every variable keeps its type: the ranks' loaders and counters, the batches they
\* hold and the resume point of the sampler, which is a position of a pass.
THEOREM DataTypes == Spec => []TypeOK
<1>1. Inv => TypeOK
  BY DEF Inv
<1> QED BY <1>1, AlwaysInv, PTL

\* The weights see every pass sample by sample, none twice and none left out, over any
\* restarts, any change of the number of ranks that divides the global batch, and any
\* depth of prefetch (sampler.__iter__, get_state_dict, _load_checkpoint).
THEOREM SamplesOnce == Spec => []EachSampleOnce
<1>1. Inv => EachSampleOnce
  BY DEF Inv, InOrder, EachSampleOnce
<1> QED BY <1>1, AlwaysInv, PTL

\* The positions of a pass are positions of one shuffle, before and after a restart:
\* the checkpoint carries the epoch and the group size that make it (load_state_dict).
THEOREM PassHasOneOrder == Spec => []OneOrderPerPass
<1>1. Inv => OneOrderPerPass
  <2> SUFFICES ASSUME Inv, NEW n \in DOMAIN history, NEW s \in history[n]
               PROVE  /\ \A t \in history[n] : s.epoch = t.epoch /\ s.group = t.group
                      /\ (n > 1 /\ (n - 1) * GlobalBatch % TotalSize # 0) =>
                           \A t \in history[n - 1] : s.epoch = t.epoch /\ s.group = t.group
    BY DEF OneOrderPerPass
  <2>1. InOrder(history, group_size, resumed)
    BY DEF Inv
  <2>2. \A k \in DOMAIN history : \A t \in history[k] : t.group = group_size
    BY <2>1 DEF InOrder
  <2>3. n > 1 => n - 1 \in DOMAIN history
    BY DEF Inv, TypeOK
  <2> QED BY <2>1, <2>2, <2>3 DEF InOrder
<1> QED BY <1>1, AlwaysInv, PTL

\* A pass that begins while the job runs is shuffled anew: its epoch is above every
\* epoch of the pass before (set_epoch), which also holds after earlier restarts.
THEOREM NewPassIsShuffled == Spec => []NewPassNewOrder
<1>1. Inv => NewPassNewOrder
  BY DEF Inv, InOrder, NewPassNewOrder
<1> QED BY <1>1, AlwaysInv, PTL
===============================================================================
