------------------------------ MODULE MCSyncer ------------------------------
(* Small instances of Syncer for TLC. *)
EXTENDS Syncer, TLC

CONSTANT Groups  \* the entries that stand for four adjacent entries each

\* A list from which four adjacent entries were removed cannot be merged.
GroupsRemoved(base, first, second) ==
  \E f \in Groups : Present(base[f]) /\ ~(Present(first[f]) /\ Present(second[f]))

ItemSymmetry == Permutations(Items)
=============================================================================
