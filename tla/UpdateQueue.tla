----------------------------- MODULE UpdateQueue -----------------------------
(***************************************************************************)
(* BatchedUpdateQueue (lib/base/collectionutil.ts): updates that are       *)
(* pushed while a batch is processed wait and form the next batch.         *)
(*                                                                         *)
(* An update stands for one call of push().  What a batch does is up to    *)
(* updateFn: here it ends well or badly, in LocalStore it is updateIndex().*)
(***************************************************************************)
EXTENDS Naturals, Sequences, Functions

CONSTANTS Updates,    \* the calls of push()
          MaxFailures \* bound: how many batches fail

ASSUME FailuresAssumption == MaxFailures \in Nat

VARIABLES pendingUpdates, \* the next batch
          nextFlush,      \* whether its promise exists
          currentFlush,   \* the promise of the last batch that was started
          batch,          \* the updates of that batch while it is not resolved
          processed,      \* the updates of all batches that were resolved
          failures

queueVars == <<pendingUpdates, nextFlush, currentFlush, batch, processed>>
vars == <<queueVars, failures>>

Pushed == Range(pendingUpdates) \union Range(batch) \union Range(processed)

\* The state of the promise that push(u) returned.
Answer(u) ==
  IF u \in Range(processed) THEN "resolved"
  ELSE IF u \in Range(batch) /\ currentFlush = "rejected" THEN "rejected"
  ELSE "pending"

TypeOK ==
  /\ pendingUpdates \in Seq(Updates)
  /\ batch \in Seq(Updates)
  /\ processed \in Seq(Updates)
  /\ nextFlush \in BOOLEAN
  /\ currentFlush \in {"pending", "resolved", "rejected"}
  /\ failures \in 0..MaxFailures

Init ==
  /\ pendingUpdates = <<>>
  /\ nextFlush = FALSE
  /\ currentFlush = "resolved"
  /\ batch = <<>>
  /\ processed = <<>>
  /\ failures = 0

-----------------------------------------------------------------------------
(* Pushing *)

\* Faulty variant: the latest update is put first.
PushFirst(u) ==
  /\ u \notin Pushed
  /\ pendingUpdates' = <<u>> \o pendingUpdates
  /\ nextFlush' = TRUE
  /\ UNCHANGED <<currentFlush, batch, processed>>

\* The first update of a batch creates its promise and waits for the batch
\* before; the others share it.
Push(u) ==
  /\ u \notin Pushed
  /\ pendingUpdates' = Append(pendingUpdates, u)
  /\ nextFlush' = TRUE
  /\ UNCHANGED <<currentFlush, batch, processed>>

-----------------------------------------------------------------------------
(* Processing *)

\* Only a batch that is resolved runs the callback that starts the next one.
CanStart == nextFlush /\ currentFlush = "resolved"

StartFlush ==
  /\ CanStart
  /\ currentFlush' = "pending"
  /\ batch' = pendingUpdates
  /\ pendingUpdates' = <<>>
  /\ nextFlush' = FALSE
  /\ UNCHANGED processed

FlushDone ==
  /\ currentFlush = "pending"
  /\ currentFlush' = "resolved"
  /\ processed' = processed \o batch
  /\ batch' = <<>>
  /\ UNCHANGED <<pendingUpdates, nextFlush>>

FlushFails ==
  /\ currentFlush = "pending"
  /\ currentFlush' = "rejected"
  /\ UNCHANGED <<pendingUpdates, nextFlush, batch, processed>>

-----------------------------------------------------------------------------
PushUpdate(u) == Push(u) /\ UNCHANGED failures
StartBatch == StartFlush /\ UNCHANGED failures
BatchDone == FlushDone /\ UNCHANGED failures
BatchFails == failures < MaxFailures /\ failures' = failures + 1 /\ FlushFails

\* Every caller has called and every batch has been dealt with.
Idle == Pushed = Updates /\ ~CanStart /\ currentFlush # "pending" /\ UNCHANGED vars

Next == (\E u \in Updates : PushUpdate(u)) \/ StartBatch \/ BatchDone \/ BatchFails \/ Idle

Spec == Init /\ [][Next]_vars

-----------------------------------------------------------------------------
(* Properties *)

\* In the terms of the promise: what has been accepted is what was processed,
\* what is being processed and what waits, in this order.
Log == INSTANCE UpdateLog WITH
         accepted <- processed \o batch \o pendingUpdates,
         processed <- Len(processed)

\* "Enqueue a new update", "Only one batch of updates will be processed at a
\* time": whatever the pushes and failures, updates are processed in the order
\* in which they were pushed, none is skipped and none is processed twice.
ProcessedInOrder == Log!Spec

\* Updates wait only for a batch that has its promise, each of them for one.
QueueInv ==
  /\ TypeOK
  /\ nextFlush <=> pendingUpdates # <<>>
  /\ currentFlush = "resolved" <=> batch = <<>>
=============================================================================
