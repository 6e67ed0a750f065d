------------------------------ MODULE UpdateLog ------------------------------
(***************************************************************************)
(* What a queue of updates promises: updates are processed in the order in *)
(* which they were accepted, each exactly once, several at a time.         *)
(***************************************************************************)
EXTENDS Naturals, Sequences

CONSTANT Updates

VARIABLES accepted,  \* the updates accepted so far, in order
          processed  \* how many of them have been processed

vars == <<accepted, processed>>

Init == accepted = <<>> /\ processed = 0

Accept(u) == accepted' = Append(accepted, u) /\ UNCHANGED processed

ProcessBatch ==
  /\ processed' \in (processed + 1)..Len(accepted)
  /\ UNCHANGED accepted

Next == ProcessBatch \/ \E u \in Updates : Accept(u)

Spec == Init /\ [][Next]_vars
=============================================================================
