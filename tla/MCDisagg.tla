----------------------------- MODULE MCDisagg ------------------------------
(* Small instances of DisaggManager: constants that a cfg cannot spell.    *)
EXTENDS DisaggManager

\* Slots 1, 2, ... are dealt to the tasks in turn.
TaskSeqOfTwo == <<"math", "code">>
OneTask == [g \in Gids |-> "math"]
TwoTasks == [g \in Gids |-> TaskSeqOfTwo[(g % 2) + 1]]

EachZero == [t \in Tasks |-> 0]
EachOne  == [t \in Tasks |-> 1]
EachTwo  == [t \in Tasks |-> 2]
EachNone == [t \in Tasks |-> -1]
=============================================================================
