----------------------------- MODULE MCAppView ------------------------------
(* Small instances of AppView for TLC. *)
EXTENDS AppView

CONSTANT Groups  \* the entries that stand for four adjacent entries each

\* A list from which four adjacent entries were removed cannot be merged.
GroupsRemoved(base, first, second) ==
  \E f \in Groups : Present(base[f]) /\ ~(Present(first[f]) /\ Present(second[f]))
=============================================================================
