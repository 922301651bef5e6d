----------------------------- MODULE Staleness -----------------------------
(***************************************************************************)
(* Arithmetic of sample staleness, shared by the producer and the buffer.  *)
(*                                                                         *)
(* A rollout token remembers the model step that is recorded for it        *)
(* (RolloutState.response_model_steps).  The model adds one ghost field:   *)
(* the step of the weights that really produced the token, which the code  *)
(* cannot see and the properties compare with the recorded step.           *)
(***************************************************************************)
EXTENDS Integers

\* A response token: the recorded model step, and the weights that made it.
Token == [label : Nat, gen : Nat]

\* calculate_stale_threshold: max_staleness counts weight-sync periods, and the
\* current period is always accepted.
StaleThreshold(max_staleness, sync_weights_interval) ==
    (max_staleness + 1) * sync_weights_interval

\* calculate_seq_staleness: how many trained steps lie between the model that
\* produced a token and the step that consumes it.
SeqStaleness(model_step, current_train_step) == current_train_step - model_step - 1

\* A token recorded at `model_step` is too old for `train_step`.
IsStale(model_step, train_step, threshold) ==
    SeqStaleness(model_step, train_step) >= threshold

\* refresh_seq_staleness uses min(response_model_steps): a sequence is stale as
\* soon as one of its tokens is.
HasStale(tokens, train_step, threshold) ==
    \E k \in tokens : IsStale(k.label, train_step, threshold)

FreshPart(tokens, train_step, threshold) ==
    {k \in tokens : ~IsStale(k.label, train_step, threshold)}

\* Key of StalenessReplayPolicy's sort at `train_step`: `a` is at least as stale as
\* `b`.  A group without labelled tokens has staleness 0.
AtLeastAsStale(a, b, train_step) ==
    \A l \in b : SeqStaleness(l.label, train_step) > 0 => \E k \in a : k.label <= l.label
=============================================================================
