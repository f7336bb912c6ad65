----------------------------- MODULE BoundedLog -----------------------------
(***************************************************************************)
(* What a fixed-capacity history promises its readers: the most recent     *)
(* Capacity values that were pushed, oldest first.  Nothing here says how  *)
(* they are stored.                                                        *)
(***************************************************************************)
EXTENDS Naturals, Sequences

CONSTANTS Capacity,     \* the most values that are kept
          Value         \* what can be pushed

VARIABLE items          \* the values kept, oldest first

LogInit == items = << >>

LogPush(v) ==
  items' = IF Len(items) < Capacity
             THEN Append(items, v)
             ELSE Append(Tail(items), v)

LogClear == items' = << >>

LogNext == LogClear \/ \E v \in Value : LogPush(v)

LogSpec == LogInit /\ [][LogNext]_items
=============================================================================
