---------------------------- MODULE SyncerProofs ----------------------------
(* Theorems about Syncer, and AppView that drives it, for every set of items and
   every bound. *)
EXTENDS AppView, FiniteSetTheorems, TLAPS

-----------------------------------------------------------------------------
(* Facts about the queue *)

Distinct(q) == \A m, n \in 1..Len(q) : m # n => q[m] # q[n]

\* The first n elements of a sequence without repetitions are n elements.
LEMMA PrefixCardinality ==
  ASSUME NEW q \in Seq(Items), Distinct(q), NEW n \in 0..Len(q)
  PROVE  /\ IsFiniteSet({q[k] : k \in 1..n})
         /\ Cardinality({q[k] : k \in 1..n}) = n
<1> DEFINE S == {q[k] : k \in 1..n}
           f == [k \in 1..n |-> q[k]]
<1>1. f \in Bijection(1..n, S)
  <2>1. f \in [1..n -> S] /\ \A t \in S : \E k \in 1..n : f[k] = t
    OBVIOUS
  <2>2. \A k, m \in 1..n : f[k] = f[m] => k = m
    BY DEF Distinct
  <2> QED  BY <2>1, <2>2 DEF Bijection, Injection, Surjection, IsInjective
<1>2. ExistsBijection(1..n, S)
  BY <1>1 DEF ExistsBijection
<1> HIDE DEF S
<1>3. IsFiniteSet(S) /\ Cardinality(S) = n
  BY <1>2, FS_CountingElements, FS_Interval, FS_Bijection
<1> QED  BY <1>3 DEF S

\* Starting a batch: how many items start, and what is left in the queue.
LEMMA Batch ==
  ASSUME NEW q \in Seq(Items), Distinct(q), NEW a \in 0..MaxActive
  PROVE  LET n == Room(a, q)
             rest == SubSeq(q, n + 1, Len(q))
             started == {q[k] : k \in 1..n}
         IN  /\ n \in 0..Len(q)
             /\ a + n \in 0..MaxActive
             /\ rest \in Seq(Items)
             /\ Len(rest) = Len(q) - n
             /\ \A k \in 1..Len(rest) : rest[k] = q[n + k]
             /\ Distinct(rest)
             /\ rest # <<>> => a + n = MaxActive
             /\ a + Len(q) > 0 => a + n > 0
             /\ started \subseteq Items
             /\ \A i \in Items : (\E k \in 1..Len(q) : q[k] = i) <=>
                                  i \in started \/ \E k \in 1..Len(rest) : rest[k] = i
             /\ \A k \in 1..Len(rest) : rest[k] \notin started
<1> DEFINE n == Room(a, q)
           rest == SubSeq(q, n + 1, Len(q))
           started == {q[k] : k \in 1..n}
<1>1. n \in 0..Len(q) /\ a + n \in 0..MaxActive /\ (n < Len(q) => a + n = MaxActive)
      /\ (a + Len(q) > 0 => a + n > 0)
  BY MaxActiveAssumption DEF Room
<1>2. rest \in Seq(Items) /\ Len(rest) = Len(q) - n
  BY <1>1
<1>3. \A k \in 1..Len(rest) : rest[k] = q[n + k] /\ n + k \in 1..Len(q)
  BY <1>1, <1>2, SMTT(60)
<1>4. rest # <<>> => n < Len(q)
  BY <1>1, <1>2
<1>5. Distinct(rest)
  <2> SUFFICES ASSUME NEW k \in 1..Len(rest), NEW m \in 1..Len(rest), k # m
               PROVE  rest[k] # rest[m]
    BY DEF Distinct
  <2>1. n + k # n + m
    BY <1>1
  <2> HIDE DEF n, rest
  <2> QED  BY <1>3, <2>1 DEF Distinct
<1>6. started \subseteq Items
  BY <1>1
<1>7. \A k \in 1..Len(rest) : rest[k] \notin started
  BY <1>1, <1>2, <1>3, SMTT(60) DEF Distinct
<1>8. ASSUME NEW i \in Items
      PROVE (\E k \in 1..Len(q) : q[k] = i) <=>
               i \in started \/ \E k \in 1..Len(rest) : rest[k] = i
  <2>1. ASSUME NEW k \in 1..Len(q), q[k] = i
        PROVE i \in started \/ \E m \in 1..Len(rest) : rest[m] = i
    <3>1. CASE k <= n
      BY <1>1, <2>1, <3>1
    <3>2. CASE k > n
      <4>1. k - n \in 1..Len(rest) /\ rest[k - n] = q[n + (k - n)]
        BY <1>1, <1>2, <1>3, <3>2
      <4> QED  BY <2>1, <4>1, <1>1
    <3> QED  BY <3>1, <3>2, <1>1
  <2>2. ASSUME i \in started \/ \E m \in 1..Len(rest) : rest[m] = i
        PROVE \E k \in 1..Len(q) : q[k] = i
    BY <1>1, <1>2, <1>3, <2>2, SMTT(60)
  <2> QED  BY <2>1, <2>2
<1> QED  BY <1>1, <1>2, <1>3, <1>4, <1>5, <1>6, <1>7, <1>8

-----------------------------------------------------------------------------
(* The 'sync-progress' listener *)

ActiveIn(t) == {i \in Items : t[i].stage \in ActiveStages}

\* What holds of the progress, the queue and the tasks when the listener runs.
Ready(p, q, t) ==
  /\ p \in Progress /\ q \in Seq(Items) /\ t \in [Items -> Tasks]
  /\ p.state = "SyncingItems"
  /\ p.updated + p.failed + p.active + Len(q) = p.total
  /\ p.active \in 0..MaxActive
  /\ p.active = Cardinality(ActiveIn(t))
  /\ Distinct(q)
  /\ \A i \in Items : t[i].stage = "queued" <=> \E n \in 1..Len(q) : q[n] = i

\* Starting a task keeps it a task: loading, with the items it needs pending.
LEMMA StartedTaskType ==
  ASSUME listing \in [Stores -> [Items -> ItemStates]], NEW i \in Items, NEW t \in Tasks
  PROVE  /\ StartedTask(i, t) \in Tasks
         /\ StartedTask(i, t).stage = "loading"
         /\ StartedTask(i, t).state = t.state
         /\ \A s \in Stores :
              /\ Listed(s, i) /\ listing[s][i].deleted =>
                   StartedTask(i, t).item[s] = Tombstone /\ s \notin StartedTask(i, t).pending
              /\ Listed(s, i) /\ ~listing[s][i].deleted => s \in StartedTask(i, t).pending
  BY DEF StartedTask, Tasks, Listed, NoItem, Tombstone, ItemStates

\* The listener keeps the counts, the queue and the phases in step.
LEMMA AdvanceStep ==
  ASSUME NEW STATE p, NEW STATE q, NEW STATE t,
         listing \in [Stores -> [Items -> ItemStates]],
         currentSync = "pending",
         Ready(p, q, t),
         Advance(p, q, t)
  PROVE  /\ progress' \in Progress
         /\ syncQueue' \in Seq(Items)
         /\ task' \in [Items -> Tasks]
         /\ currentSync' \in {"pending", "resolved"}
         /\ ProgressAddsUp' /\ QueueInv' /\ PhaseInv'
         /\ \A i \in Items : \/ task'[i] = t[i]
                             \/ t[i].stage = "queued" /\ task'[i] = StartedTask(i, t[i])
<1>0. p \in Progress /\ q \in Seq(Items) /\ t \in [Items -> Tasks] /\ IsFiniteSet(ActiveIn(t))
  BY ItemsAssumption, FS_Subset DEF Ready, ActiveIn
<1>1. CASE p.updated + p.failed = p.total
  <2>1. /\ progress' = [p EXCEPT !.state = "Idle"] /\ currentSync' = "resolved"
        /\ syncQueue' = q /\ task' = t
    BY <1>1 DEF Advance
  <2>2. p.active = 0 /\ Len(q) = 0
    BY <1>0, <1>1 DEF Ready, Progress
  <2>3. ActiveIn(t) = {} /\ q = <<>>
    <3>1. Cardinality(ActiveIn(t)) = 0
      BY <2>2 DEF Ready
    <3> QED  BY <1>0, <2>2, <3>1, FS_EmptySet
  <2>4. \A i \in Items : t[i].stage = "idle"
    BY <1>0, <2>3 DEF Ready, ActiveIn, ActiveStages, Tasks
  <2>5. progress' \in Progress /\ progress'.state = "Idle" /\ progress'.active = 0
    BY <1>0, <2>1, <2>2 DEF Progress
  <2>6. ProgressAddsUp'
    BY <2>1, <2>2, <2>3, <2>5 DEF ProgressAddsUp, Active, ActiveIn, Ready
  <2>7. QueueInv' /\ PhaseInv'
    BY <2>1, <2>3, <2>4, <2>5 DEF QueueInv, PhaseInv
  <2> QED  BY <1>0, <2>1, <2>5, <2>6, <2>7
<1>2. CASE p.updated + p.failed # p.total
  <2> DEFINE n == Room(p.active, q)
             rest == SubSeq(q, n + 1, Len(q))
             started == {q[k] : k \in 1..n}
  <2>1. /\ progress' = [p EXCEPT !.active = @ + n] /\ currentSync' = "pending"
        /\ syncQueue' = rest
        /\ task' = [i \in Items |-> IF i \in started THEN StartedTask(i, t[i]) ELSE t[i]]
    BY <1>2 DEF Advance
  <2>2. /\ n \in 0..Len(q) /\ p.active + n \in 0..MaxActive
        /\ rest \in Seq(Items) /\ Len(rest) = Len(q) - n
        /\ Distinct(rest)
        /\ rest # <<>> => p.active + n = MaxActive
        /\ p.active + Len(q) > 0 => p.active + n > 0
        /\ started \subseteq Items
        /\ \A i \in Items : (\E k \in 1..Len(q) : q[k] = i) <=>
                             i \in started \/ \E k \in 1..Len(rest) : rest[k] = i
        /\ \A k \in 1..Len(rest) : rest[k] \notin started
    BY <1>0, Batch DEF Ready
  <2>3. IsFiniteSet(started) /\ Cardinality(started) = n
    BY <1>0, <2>2, PrefixCardinality DEF Ready
  <2> HIDE DEF n, rest, started
  <2>4. progress' \in Progress /\ progress'.state = "SyncingItems"
        /\ progress'.active = p.active + n /\ progress'.updated = p.updated
        /\ progress'.failed = p.failed /\ progress'.total = p.total
    <3>1. n \in Nat /\ p.state = "SyncingItems"
      BY <1>0, <2>2 DEF Ready
    <3>2. p.active + n \in Nat
      BY <1>0, <3>1 DEF Progress
    <3>3. progress' = [p EXCEPT !.active = p.active + n]
      BY <1>0, <2>1 DEF Progress
    <3> QED  BY <1>0, <3>1, <3>2, <3>3 DEF Progress
  <2>5. task' \in [Items -> Tasks]
    BY <1>0, <2>1, StartedTaskType
  <2>6. \A i \in Items : i \in started => t[i].stage = "queued"
    BY <2>2 DEF Ready
  <2>7. \A i \in Items : /\ i \in started => task'[i] = StartedTask(i, t[i]) /\ task'[i].stage = "loading"
                         /\ i \notin started => task'[i] = t[i]
    BY <1>0, <2>1, StartedTaskType
  <2>8. ActiveIn(task') = ActiveIn(t) \cup started /\ ActiveIn(t) \cap started = {}
    BY <2>2, <2>6, <2>7 DEF ActiveIn, ActiveStages
  <2>9. Cardinality(ActiveIn(task')) = p.active + n
    <3>1. Cardinality(ActiveIn(t) \cup started) = Cardinality(ActiveIn(t)) + n - Cardinality({})
      BY <1>0, <2>3, <2>8, FS_Union
    <3> QED  BY <1>0, <2>2, <2>8, <3>1, FS_EmptySet DEF Ready, Progress
  <2>10. ProgressAddsUp'
    <3>1. p.active + Len(q) > 0
      BY <1>0, <1>2 DEF Ready, Progress
    <3>2. progress'.active \in 1..MaxActive
      BY <1>0, <2>2, <2>4, <3>1 DEF Progress
    <3>3. progress'.updated + progress'.failed + progress'.active + Len(syncQueue') = progress'.total
      BY <1>0, <2>1, <2>2, <2>4, SMTT(60) DEF Ready, Progress
    <3> QED  BY <2>4, <2>9, <3>2, <3>3 DEF ProgressAddsUp, Active, ActiveIn
  <2>11. QueueInv'
    <3>1. \A i \in Items : task'[i].stage = "queued" <=> \E k \in 1..Len(rest) : rest[k] = i
      BY <2>2, <2>7, SMTT(60) DEF Ready
    <3> QED  BY <2>1, <2>2, <2>4, <3>1 DEF QueueInv, Distinct
  <2>12. PhaseInv'
    BY <2>1, <2>4 DEF PhaseInv
  <2> QED  BY <2>1, <2>2, <2>4, <2>5, <2>6, <2>7, <2>10, <2>11, <2>12
<1> QED  BY <1>1, <1>2

-----------------------------------------------------------------------------
(* Revisions and tasks *)

\* No revision of an item is ever forgotten.
Grown == \A s \in Stores, i \in Items : Latest(s, i) <= Latest(s, i)'

\* Saving an item only adds revisions to the store's history.
LEMMA SavedGrows ==
  ASSUME TypeOK, NEW s \in Stores, NEW i \in Items, NEW STATE c, c \in Contents,
         revisions' = Saved(s, i, c)
  PROVE  /\ revisions' \in [Stores -> [Items -> Seq(Contents)]]
         /\ Latest(s, i)' = Latest(s, i) + 1
         /\ Grown
<1>1. revisions \in [Stores -> [Items -> Seq(Contents)]]
  BY DEF TypeOK
<1>2. Append(revisions[s][i], c) \in Seq(Contents)
      /\ Len(Append(revisions[s][i], c)) = Len(revisions[s][i]) + 1
  BY <1>1
<1>3. revisions' = [revisions EXCEPT ![s] = [revisions[s] EXCEPT ![i] = Append(revisions[s][i], c)]]
  BY <1>1 DEF Saved
<1>4. revisions' \in [Stores -> [Items -> Seq(Contents)]]
  BY <1>1, <1>2, <1>3
<1>5. ASSUME NEW r \in Stores, NEW j \in Items
      PROVE  revisions'[r][j] = IF r = s /\ j = i THEN Append(revisions[s][i], c) ELSE revisions[r][j]
  BY <1>1, <1>3
<1>6. \A r \in Stores, j \in Items : Len(revisions[r][j]) \in Nat
  BY <1>1
<1>7. Latest(s, i)' = Latest(s, i) + 1
  BY <1>2, <1>5 DEF Latest
<1>8. Grown
  <2> SUFFICES ASSUME NEW r \in Stores, NEW j \in Items
               PROVE  Latest(r, j) <= Latest(r, j)'
    BY DEF Grown
  <2>1. Latest(r, j) \in Nat
    BY <1>6 DEF Latest
  <2> QED  BY <1>5, <1>7, <2>1 DEF Latest
<1> QED  BY <1>4, <1>7, <1>8

\* A step that leaves the histories alone lets no revision disappear.
LEMMA SameRevisionsGrow == ASSUME TypeOK, revisions' = revisions PROVE Grown
<1>1. \A s \in Stores, i \in Items : Len(revisions[s][i]) \in Nat
  BY DEF TypeOK
<1> QED  BY <1>1 DEF Grown, Latest

\* A task is not disturbed by what happens to other items and by new revisions.
LEMMA TaskStable ==
  ASSUME TypeOK, TypeOK', Grown, NEW j \in Items, TaskOK(j),
         task'[j] = task[j], \A s \in Stores : listing'[s][j] = listing[s][j],
         lastSynced'[j] = lastSynced[j]
  PROVE  TaskOK(j)'
<1>1. Direction(j)' = Direction(j) /\ Target(j)' = Target(j) /\ Target(j) \subseteq Stores
  BY DEF Direction, Target, Stores
<1>2. \A s \in Stores : Listed(s, j)' = Listed(s, j)
  BY DEF Listed
<1>3. TaskChange(j)' = TaskChange(j)
  BY <1>2 DEF TaskChange
<1>4. ASSUME NEW s \in Stores
      PROVE  /\ HasRevision(s, j, task[j].item[s]) => HasRevision(s, j, task[j].item[s])'
             /\ HasRevision(s, j, task[j].saved[s]) => HasRevision(s, j, task[j].saved[s])'
  <2>1. Latest(s, j) \in Nat /\ Latest(s, j)' \in Nat /\ Latest(s, j) <= Latest(s, j)'
    BY DEF TypeOK, Grown, Latest
  <2> QED  BY <2>1 DEF HasRevision
<1>5. TaskItems(j) => TaskItems(j)'
  BY <1>4 DEF TaskItems
<1>6. TaskSaves(j) => TaskSaves(j)'
  BY <1>1, <1>4 DEF TaskSaves
<1> QED  BY <1>3, <1>5, <1>6 DEF TaskOK

\* The recorded pairs stay valid while the histories only grow.
LEMMA PairsStable ==
  ASSUME TypeOK, TypeOK', Grown, LastSyncedRevisionsExist, NEW j \in Items,
         lastSynced'[j] = lastSynced[j]
  PROVE  lastSynced'[j] = NoPair \/ \A s \in Stores : HasRevision(s, j, lastSynced[j][s])'
<1>1. \A s \in Stores : Latest(s, j) \in Nat /\ Latest(s, j)' \in Nat /\ Latest(s, j) <= Latest(s, j)'
  BY DEF TypeOK, Grown, Latest
<1> QED  BY <1>1 DEF HasRevision, LastSyncedRevisionsExist

\* A queued task that is started loads what it will need.
LEMMA StartedTaskOK ==
  ASSUME TypeOK, NEW j \in Items, TaskOK(j), task[j].stage = "queued",
         listing' = listing, task'[j] = StartedTask(j, task[j])
  PROVE  TaskOK(j)'
<1>1. /\ task'[j].stage = "loading" /\ task'[j].state = task[j].state
      /\ \A s \in Stores :
           /\ Listed(s, j) /\ listing[s][j].deleted =>
                task'[j].item[s] = Tombstone /\ s \notin task'[j].pending
           /\ Listed(s, j) /\ ~listing[s][j].deleted => s \in task'[j].pending
  BY StartedTaskType DEF TypeOK
<1>2. TaskChange(j)
  BY DEF TaskOK
<1>3. TaskChange(j)'
  BY <1>1, <1>2 DEF TaskChange, Listed
<1>4. TaskItems(j)'
  BY <1>1, <1>2 DEF TaskItems, TaskChange
<1> QED  BY <1>1, <1>3, <1>4 DEF TaskOK

-----------------------------------------------------------------------------
(* Finishing an item *)

\* A reset task is an idle task.
LEMMA IdleTaskType == IdleTask \in Tasks /\ IdleTask.stage = "idle"
  BY DEF IdleTask, Tasks, NoPair, NoItem, Stores

\* itemDone frees a place among the active items and runs the listener.
LEMMA ItemDoneStep ==
  ASSUME IInv, NEW i \in Items, NEW outcome \in {"updated", "failed"},
         task[i].stage \in ActiveStages, ItemDone(i, outcome)
  PROVE  /\ progress' \in Progress /\ syncQueue' \in Seq(Items) /\ task' \in [Items -> Tasks]
         /\ currentSync' \in {"pending", "resolved"}
         /\ listing' = listing /\ unlisted' = unlisted
         /\ ProgressAddsUp' /\ QueueInv' /\ PhaseInv'
         /\ task'[i] = IdleTask
         /\ \A j \in Items \ {i} :
              \/ task'[j] = task[j]
              \/ task[j].stage = "queued" /\ task'[j] = StartedTask(j, task[j])
<1> DEFINE p == [progress EXCEPT !.active = @ - 1, ![outcome] = @ + 1]
           t == [task EXCEPT ![i] = IdleTask]
<1>1. Advance(p, syncQueue, t) /\ listing' = listing /\ unlisted' = unlisted
  BY DEF ItemDone
<1>2. /\ progress \in Progress /\ syncQueue \in Seq(Items) /\ task \in [Items -> Tasks]
      /\ listing \in [Stores -> [Items -> ItemStates]]
  BY DEF IInv, TypeOK
<1>3. progress.state = "SyncingItems" /\ currentSync = "pending"
  BY <1>2 DEF IInv, PhaseInv, ActiveStages, Progress
<1>4. /\ progress.updated + progress.failed + progress.active + Len(syncQueue) = progress.total
      /\ progress.active \in 1..MaxActive /\ progress.active = Cardinality(Active)
  BY <1>3 DEF IInv, ProgressAddsUp
<1>5. t \in [Items -> Tasks] /\ t[i].stage = "idle" /\ \A j \in Items \ {i} : t[j] = task[j]
  BY <1>2, IdleTaskType
<1>6. /\ p \in Progress /\ p.state = "SyncingItems" /\ p.active = progress.active - 1
      /\ p.total = progress.total
      /\ p.updated + p.failed = progress.updated + progress.failed + 1
  <2>3. /\ progress.active - 1 \in Nat /\ progress.updated \in Nat /\ progress.failed \in Nat
        /\ progress.updated + 1 \in Nat /\ progress.failed + 1 \in Nat
    BY <1>2, <1>4, MaxActiveAssumption DEF Progress
  <2>1. CASE outcome = "updated"
    <3>1. p = [progress EXCEPT !.active = progress.active - 1, !.updated = progress.updated + 1]
      BY <1>2, <2>1
    <3> HIDE DEF p
    <3>2. /\ p.state = progress.state /\ p.active = progress.active - 1 /\ p.total = progress.total
          /\ p.updated = progress.updated + 1 /\ p.failed = progress.failed
      BY <1>2, <3>1 DEF Progress
    <3>3. p \in Progress
      BY <1>2, <2>3, <3>1 DEF Progress
    <3> QED  BY <1>3, <2>3, <3>2, <3>3
  <2>2. CASE outcome = "failed"
    <3>1. p = [progress EXCEPT !.active = progress.active - 1, !.failed = progress.failed + 1]
      BY <1>2, <2>2
    <3> HIDE DEF p
    <3>2. /\ p.state = progress.state /\ p.active = progress.active - 1 /\ p.total = progress.total
          /\ p.failed = progress.failed + 1 /\ p.updated = progress.updated
      BY <1>2, <3>1 DEF Progress
    <3>3. p \in Progress
      BY <1>2, <2>3, <3>1 DEF Progress
    <3> QED  BY <1>3, <2>3, <3>2, <3>3
  <2> QED  BY <2>1, <2>2
<1>7. Cardinality(ActiveIn(t)) = progress.active - 1
  <2>1. ActiveIn(t) = Active \ {i} /\ i \in Active
    BY <1>2, <1>5 DEF ActiveIn, Active, ActiveStages
  <2>2. IsFiniteSet(Active)
    BY ItemsAssumption, FS_Subset DEF Active
  <2> QED  BY <1>4, <2>1, <2>2, FS_RemoveElement
<1> HIDE DEF p, t
<1>8. Ready(p, syncQueue, t)
  <2>1. Distinct(syncQueue)
    BY DEF IInv, QueueInv, Distinct
  <2>2. \A j \in Items : t[j].stage = "queued" <=> \E n \in 1..Len(syncQueue) : syncQueue[n] = j
    BY <1>5 DEF IInv, QueueInv, ActiveStages
  <2>3. p.updated + p.failed + p.active + Len(syncQueue) = p.total /\ p.active \in 0..MaxActive
    BY <1>2, <1>4, <1>6, MaxActiveAssumption DEF Progress
  <2> QED  BY <1>2, <1>5, <1>6, <1>7, <2>1, <2>2, <2>3 DEF Ready
<1>9. /\ progress' \in Progress /\ syncQueue' \in Seq(Items) /\ task' \in [Items -> Tasks]
      /\ currentSync' \in {"pending", "resolved"}
      /\ ProgressAddsUp' /\ QueueInv' /\ PhaseInv'
      /\ \A j \in Items : \/ task'[j] = t[j]
                          \/ t[j].stage = "queued" /\ task'[j] = StartedTask(j, t[j])
  BY <1>1, <1>2, <1>3, <1>8, AdvanceStep
<1>10. task'[i] = IdleTask
  <2>1. t[i] = IdleTask
    BY <1>2 DEF t
  <2> QED  BY <1>5, <1>9, <2>1
<1> QED  BY <1>1, <1>5, <1>9, <1>10

\* The end of an item, with what may happen to its last-synced pair, keeps the
\* invariant.
LEMMA ItemDoneKeepsInv ==
  ASSUME IInv, NEW i \in Items, NEW outcome \in {"updated", "failed"},
         task[i].stage \in ActiveStages, ItemDone(i, outcome),
         revisions' = revisions, edits' = edits,
         late' \in SUBSET LateSaves, faults' \in Nat,
         lastSynced' \in [Items -> [Stores -> Nat]],
         \A j \in Items \ {i} : lastSynced'[j] = lastSynced[j],
         \/ lastSynced'[i] \in {lastSynced[i], NoPair}
         \/ \A s \in Stores : HasRevision(s, i, lastSynced'[i][s])
  PROVE  IInv'
<1>1. /\ progress' \in Progress /\ syncQueue' \in Seq(Items) /\ task' \in [Items -> Tasks]
      /\ currentSync' \in {"pending", "resolved"}
      /\ listing' = listing /\ unlisted' = unlisted
      /\ ProgressAddsUp' /\ QueueInv' /\ PhaseInv'
      /\ task'[i] = IdleTask
      /\ \A j \in Items \ {i} :
           \/ task'[j] = task[j]
           \/ task[j].stage = "queued" /\ task'[j] = StartedTask(j, task[j])
  BY ItemDoneStep
<1>2. TypeOK /\ LastSyncedRevisionsExist /\ TaskInv
  BY DEF IInv
<1>3. TypeOK'
  BY <1>1, <1>2 DEF TypeOK
<1>4. Grown
  BY <1>2, SameRevisionsGrow
<1>5. LastSyncedRevisionsExist'
  <2>1. \A j \in Items : lastSynced'[j] = lastSynced[j] =>
           lastSynced'[j] = NoPair \/ \A s \in Stores : HasRevision(s, j, lastSynced[j][s])'
    BY <1>2, <1>3, <1>4, PairsStable
  <2>2. \A s \in Stores : HasRevision(s, i, lastSynced'[i][s]) => HasRevision(s, i, lastSynced[i][s])'
    BY DEF HasRevision, Latest
  <2>3. \A j \in Items : (lastSynced[j] = NoPair)' <=> lastSynced'[j] = NoPair
    BY DEF NoPair
  <2> QED  BY <2>1, <2>2, <2>3 DEF LastSyncedRevisionsExist
<1>6. TaskInv'
  <2>1. TaskOK(i)'
    BY <1>1, IdleTaskType DEF TaskOK, ActiveStages
  <2>2. ASSUME NEW j \in Items \ {i}, task'[j] = task[j]
        PROVE  TaskOK(j)'
    BY <1>1, <1>2, <1>3, <1>4, <2>2, TaskStable DEF TaskInv
  <2>3. ASSUME NEW j \in Items \ {i}, task[j].stage = "queued",
               task'[j] = StartedTask(j, task[j])
        PROVE  TaskOK(j)'
    BY <1>1, <1>2, <2>3, StartedTaskOK DEF TaskInv
  <2> QED  BY <1>1, <2>1, <2>2, <2>3 DEF TaskInv
<1> QED  BY <1>1, <1>3, <1>5, <1>6 DEF IInv

-----------------------------------------------------------------------------
(* What a task saves and records *)

\* What is read at an existing revision of an item is a state of the item.
LEMMA RevisionType ==
  ASSUME TypeOK, NEW s \in Stores, NEW i \in Items, NEW STATE r, HasRevision(s, i, r)
  PROVE  /\ r \in Nat /\ r # Tombstone /\ r # NoItem
         /\ revisions[s][i][r] \in Contents
<1>1. revisions[s][i] \in Seq(Contents) /\ r \in 1..Len(revisions[s][i])
  BY DEF TypeOK, HasRevision, Latest
<1> QED  BY <1>1 DEF Tombstone, NoItem

\* A task has loaded the item of each store whose change it carries.
LEMMA LoadedType ==
  ASSUME IInv, NEW i \in Items, task[i].stage \in {"saving", "recording"},
         NEW s \in Stores, task[i].state[s] # "Unchanged"
  PROVE  /\ Loaded(s, i) \in Contents
         /\ HasRevision(s, i, task[i].item[s]) \/ Loaded(s, i).deleted
<1>1. TypeOK /\ TaskItems(i) /\ task[i].state[s] \in {"Updated", "Deleted"}
  BY DEF IInv, TaskInv, TaskOK, ActiveStages, TypeOK, Tasks
<1>2. CASE task[i].state[s] = "Deleted"
  <2>1. Loaded(s, i) = TombstoneContent
    BY <1>1, <1>2 DEF TaskItems, Loaded, ItemContent
  <2> QED  BY <2>1 DEF TombstoneContent, Contents
<1>3. CASE task[i].state[s] = "Updated"
  <2>1. HasRevision(s, i, task[i].item[s])
    BY <1>1, <1>3 DEF TaskItems
  <2> QED  BY <1>1, <2>1, RevisionType DEF Loaded, ItemContent
<1> QED  BY <1>1, <1>2, <1>3

\* The direction of a merge is one of the four the code distinguishes.
LEMMA DirectionCases ==
  ASSUME NEW i \in Items
  PROVE  \/ /\ Direction(i) = "merge" /\ Target(i) = Stores
            /\ \A s \in Stores : task[i].state[s] = "Updated"
         \/ /\ Direction(i) = "up" /\ Target(i) = {"cloud"}
            /\ task[i].state["local"] # "Unchanged"
         \/ /\ Direction(i) = "down" /\ Target(i) = {"local"}
            /\ task[i].state["local"] = "Unchanged"
  BY DEF Direction, Target

\* Merging two states of an item gives a state of the item.
LEMMA MergeType ==
  ASSUME NEW a \in Contents, NEW b \in Contents, NEW base \in Contents
  PROVE  Merge(a, b, base) \in Contents
<1>1. \A x, y, z \in Int : MergeField(x, y, z) \in Int /\ MergeEntry(x, y, z) \in Int
  BY DEF MergeField, MergeEntry
<1>2. \A f \in Fields : a.fields[f] \in Int /\ b.fields[f] \in Int /\ base.fields[f] \in Int
  BY DEF Contents
<1>3. Merge(a, b, base).fields \in [Fields -> Int]
  BY <1>1, <1>2 DEF Merge
<1> QED  BY <1>3 DEF Merge, Contents

\* The saves of a merged item are of item states, to stores that exist.
LEMMA OutgoingType ==
  ASSUME IInv, NEW i \in Items, task[i].stage \in {"saving", "recording"}
  PROVE  Outgoing(i) \in Contents
<1>1. TypeOK /\ TaskChange(i) /\ TaskSaves(i)
  BY DEF IInv, TaskInv, TaskOK
<1>2. "local" \in Stores /\ "cloud" \in Stores /\ \A s \in Stores : s \in {"local", "cloud"}
  BY DEF Stores
<1>3. CASE Direction(i) = "merge"
  <2>1. Loaded("local", i) \in Contents /\ Loaded("cloud", i) \in Contents
    BY <1>2, <1>3, LoadedType, DirectionCases
  <2>2. HasRevision("local", i, lastSynced[i]["local"])
    BY <1>1, <1>2, <1>3 DEF TaskSaves, IInv, LastSyncedRevisionsExist
  <2>3. Base(i) \in Contents
    BY <1>1, <1>2, <2>2, RevisionType DEF Base
  <2>4. Outgoing(i) = Merge(Loaded("local", i), Loaded("cloud", i), Base(i))
    BY <1>3 DEF Outgoing
  <2> QED  BY <2>1, <2>3, <2>4, MergeType
<1>4. CASE Direction(i) = "up"
  <2>1. Outgoing(i) = Loaded("local", i)
    BY <1>4 DEF Outgoing
  <2> QED  BY <1>2, <1>4, <2>1, LoadedType, DirectionCases
<1>5. CASE Direction(i) = "down"
  <2>1. Outgoing(i) = Loaded("cloud", i)
    BY <1>5 DEF Outgoing
  <2>2. task[i].state["cloud"] # "Unchanged"
    BY <1>1, <1>2, <1>5, DirectionCases DEF TaskChange
  <2> QED  BY <1>2, <2>1, <2>2, LoadedType
<1> QED  BY <1>3, <1>4, <1>5, DirectionCases

\* The pair that is recorded names revisions that exist.
LEMMA SyncedPairOK ==
  ASSUME IInv, NEW i \in Items, task[i].stage = "recording"
  PROVE  /\ SyncedPair(i) \in [Stores -> Nat]
         /\ SyncedPair(i) = NoPair \/ \A s \in Stores : HasRevision(s, i, SyncedPair(i)[s])
<1>1. TypeOK /\ TaskChange(i) /\ TaskSaves(i)
  BY DEF IInv, TaskInv, TaskOK
<1>2. "local" \in Stores /\ "cloud" \in Stores /\ \A s \in Stores : s \in {"local", "cloud"}
  BY DEF Stores
<1>3. \A s \in Target(i) : HasRevision(s, i, task[i].saved[s])
  BY <1>1 DEF TaskSaves
<1>4. CASE Outgoing(i).deleted
  BY <1>4 DEF SyncedPair, NoPair, NoItem
<1>5. CASE ~Outgoing(i).deleted /\ Direction(i) = "up"
  <2>1. SyncedPair(i) = [local |-> task[i].item["local"], cloud |-> task[i].saved["cloud"]]
    BY <1>5 DEF SyncedPair
  <2>2. HasRevision("local", i, task[i].item["local"])
    <3>1. Outgoing(i) = Loaded("local", i)
      BY <1>5 DEF Outgoing
    <3> QED  BY <1>2, <1>5, <3>1, LoadedType, DirectionCases
  <2>3. HasRevision("cloud", i, task[i].saved["cloud"])
    BY <1>3, <1>5, DirectionCases
  <2>4. task[i].item["local"] \in Nat /\ task[i].saved["cloud"] \in Nat
    BY <1>1, <1>2, <2>2, <2>3, RevisionType
  <2> QED  BY <1>2, <2>1, <2>2, <2>3, <2>4 DEF Stores
<1>6. CASE ~Outgoing(i).deleted /\ Direction(i) # "up"
  <2>1. SyncedPair(i) = [local |-> task[i].saved["local"], cloud |-> task[i].item["cloud"]]
    BY <1>6 DEF SyncedPair
  <2>2. HasRevision("local", i, task[i].saved["local"])
    BY <1>2, <1>3, <1>6, DirectionCases
  <2>3. HasRevision("cloud", i, task[i].item["cloud"])
    <3>1. CASE Direction(i) = "merge"
      <4>1. \A s \in Stores : task[i].state[s] = "Updated"
        BY <3>1, DirectionCases
      <4>2. TaskItems(i)
        BY DEF IInv, TaskInv, TaskOK, ActiveStages
      <4> QED  BY <1>2, <4>1, <4>2 DEF TaskItems
    <3>2. CASE Direction(i) = "down"
      <4>1. Outgoing(i) = Loaded("cloud", i)
        BY <3>2 DEF Outgoing
      <4>2. task[i].state["cloud"] # "Unchanged"
        BY <1>1, <1>2, <3>2, DirectionCases DEF TaskChange
      <4> QED  BY <1>2, <1>6, <4>1, <4>2, LoadedType
    <3> QED  BY <1>6, <3>1, <3>2, DirectionCases
  <2>4. task[i].saved["local"] \in Nat /\ task[i].item["cloud"] \in Nat
    BY <1>1, <1>2, <2>2, <2>3, RevisionType
  <2> QED  BY <1>2, <2>1, <2>2, <2>3, <2>4 DEF Stores
<1> QED  BY <1>4, <1>5, <1>6

-----------------------------------------------------------------------------
(* One lemma per action: it keeps the invariant *)

\* A step that moves tasks only between active stages keeps the counts.
LEMMA SameStages ==
  ASSUME IInv, progress' = progress, syncQueue' = syncQueue, currentSync' = currentSync,
         \A j \in Items : \/ task'[j].stage = task[j].stage
                          \/ task[j].stage \in ActiveStages /\ task'[j].stage \in ActiveStages
  PROVE  ProgressAddsUp' /\ QueueInv' /\ PhaseInv'
<1>1. Active' = Active
  BY DEF Active
<1>2. \A j \in Items : /\ task'[j].stage = "queued" <=> task[j].stage = "queued"
                       /\ task[j].stage = "idle" => task'[j].stage = "idle"
  BY DEF ActiveStages
<1>3. ProgressAddsUp /\ QueueInv /\ PhaseInv
  BY DEF IInv
<1>4. ProgressAddsUp'
  BY <1>1, <1>3 DEF ProgressAddsUp
<1>5. QueueInv'
  <2>1. \A j \in Items : task'[j].stage = "queued" <=> \E n \in 1..Len(syncQueue) : syncQueue[n] = j
    BY <1>2, <1>3 DEF QueueInv
  <2> QED  BY <1>3, <2>1 DEF QueueInv
<1>6. PhaseInv'
  <2>1. progress.state # "SyncingItems" => \A j \in Items : task'[j].stage = "idle"
    BY <1>2, <1>3 DEF PhaseInv
  <2> QED  BY <1>3, <2>1 DEF PhaseInv
<1> QED  BY <1>4, <1>5, <1>6

\* So does a step of the environment.
LEMMA EnvironmentKeepsInv ==
  ASSUME IInv, UNCHANGED <<lastSynced, syncVars>>,
         revisions' \in [Stores -> [Items -> Seq(Contents)]], Grown,
         late' \in SUBSET LateSaves, edits' \in Nat, faults' \in Nat
  PROVE  IInv'
<1>1. TypeOK /\ LastSyncedRevisionsExist /\ TaskInv
  BY DEF IInv
<1>2. UNCHANGED <<lastSynced, currentSync, progress, listing, unlisted, syncQueue, task>>
  BY DEF syncVars
<1>3. TypeOK'
  BY <1>1, <1>2 DEF TypeOK
<1>4. ProgressAddsUp' /\ QueueInv' /\ PhaseInv'
  <2>1. \A j \in Items : task'[j].stage = task[j].stage
    BY <1>2
  <2> QED  BY <1>2, <2>1, SameStages
<1>5. LastSyncedRevisionsExist'
  BY <1>1, <1>2, <1>3, PairsStable DEF LastSyncedRevisionsExist, NoPair
<1>6. TaskInv'
  BY <1>1, <1>2, <1>3, TaskStable DEF TaskInv
<1> QED  BY <1>3, <1>4, <1>5, <1>6 DEF IInv

\* A step while no item is being synced only has to keep the types.
LEMMA IdleKeepsInv ==
  ASSUME IInv, TypeOK', UNCHANGED <<revisions, lastSynced>>,
         progress'.state # "SyncingItems", progress'.active = 0, syncQueue' = <<>>,
         currentSync' = "pending" <=> progress'.state # "Idle",
         progress'.state = "ListingItems" => progress'.updated = 0 /\ progress'.failed = 0,
         \A j \in Items : task'[j].stage = "idle"
  PROVE  IInv'
<1>1. TypeOK /\ LastSyncedRevisionsExist
  BY DEF IInv
<1>2. Active' = {}
  BY DEF Active, ActiveStages
<1>3. ProgressAddsUp'
  BY <1>2, FS_EmptySet DEF ProgressAddsUp
<1>4. QueueInv' /\ PhaseInv'
  BY DEF QueueInv, PhaseInv
<1>5. TaskInv'
  BY DEF TaskInv, TaskOK, ActiveStages
<1>6. LastSyncedRevisionsExist'
  BY <1>1, SameRevisionsGrow, PairsStable DEF LastSyncedRevisionsExist, NoPair
<1> QED  BY <1>3, <1>4, <1>5, <1>6 DEF IInv

\* Until the items are synced there are no tasks.
LEMMA NotSyncing ==
  ASSUME IInv, progress.state # "SyncingItems"
  PROVE  /\ progress.active = 0 /\ syncQueue = <<>>
         /\ \A j \in Items : task[j].stage = "idle"
  BY DEF IInv, ProgressAddsUp, PhaseInv

\* A syncer that was just constructed, with empty stores, is in order.
LEMMA InitInv == Init => IInv
<1> SUFFICES ASSUME Init PROVE IInv
  OBVIOUS
<1>1. NoPair \in [Stores -> Nat] /\ NoProgress \in Progress
      /\ NoProgress.state = "Idle" /\ NoProgress.active = 0
  BY DEF NoPair, NoItem, NoProgress, Progress
<1>2. TypeOK
  <2>1. revisions \in [Stores -> [Items -> Seq(Contents)]] /\ late \in SUBSET LateSaves
    BY DEF Init
  <2>2. listing \in [Stores -> [Items -> ItemStates]]
    BY DEF Init, Unlisted, ItemStates, NoItem
  <2> QED  BY <1>1, <2>1, <2>2, IdleTaskType DEF Init, TypeOK
<1>3. Active = {} /\ \A j \in Items : task[j].stage = "idle"
  BY IdleTaskType DEF Init, Active, ActiveStages
<1>4. ProgressAddsUp
  BY <1>1, <1>3, FS_EmptySet DEF Init, ProgressAddsUp
<1>5. LastSyncedRevisionsExist
  BY DEF Init, LastSyncedRevisionsExist
<1>6. QueueInv /\ PhaseInv /\ TaskInv
  BY <1>1, <1>3 DEF Init, QueueInv, PhaseInv, TaskInv, TaskOK, ActiveStages
<1> QED  BY <1>2, <1>4, <1>5, <1>6 DEF IInv

\* syncItems keeps the invariant: it resets the progress and the queue.
LEMMA SyncItemsStep == ASSUME IInv, SyncItems PROVE IInv'
<1>1. TypeOK /\ progress.state = "Idle"
  BY DEF IInv, PhaseInv, SyncItems
<1>2. /\ progress.active = 0 /\ syncQueue = <<>>
      /\ \A j \in Items : task[j].stage = "idle"
  BY <1>1, NotSyncing
<1>3. progress' \in Progress /\ progress'.state = "ListingItems" /\ progress'.active = 0
      /\ progress'.updated = 0 /\ progress'.failed = 0
  BY DEF SyncItems, NoProgress, Progress
<1>4. TypeOK'
  BY <1>1, <1>3 DEF TypeOK, SyncItems
<1> QED  BY <1>2, <1>3, <1>4, IdleKeepsInv DEF SyncItems

\* A store's list of item states keeps the invariant.
LEMMA ListItemStatesStep ==
  ASSUME IInv, NEW s \in Stores, ListItemStates(s) PROVE IInv'
<1>1. /\ TypeOK
      /\ currentSync = "pending" <=> progress.state # "Idle"
      /\ progress.updated = 0 /\ progress.failed = 0
  BY DEF IInv, PhaseInv, ListItemStates
<1>2. /\ progress.active = 0 /\ syncQueue = <<>>
      /\ \A j \in Items : task[j].stage = "idle"
  BY NotSyncing DEF ListItemStates
<1>3. listing' \in [Stores -> [Items -> ItemStates]]
  <2>1. ASSUME NEW i \in Items
        PROVE  [rev |-> Latest(s, i), deleted |-> Exists(s, i) /\ Current(s, i).deleted] \in ItemStates
    <3>1. revisions[s][i] \in Seq(Contents)
      BY <1>1 DEF TypeOK
    <3>2. Latest(s, i) \in Nat
      BY <3>1 DEF Latest
    <3>3. (Exists(s, i) /\ Current(s, i).deleted) \in BOOLEAN
      OBVIOUS
    <3> QED  BY <3>2, <3>3 DEF ItemStates
  <2> QED  BY <1>1, <2>1 DEF TypeOK, ListItemStates
<1>4. TypeOK'
  BY <1>1, <1>3 DEF TypeOK, ListItemStates
<1> QED  BY <1>1, <1>2, <1>4, IdleKeepsInv DEF ListItemStates

\* A listing that is rejected keeps the invariant.
LEMMA ListingFailsStep == ASSUME IInv, ListingFails PROVE IInv'
<1>1. TypeOK
  BY DEF IInv
<1>2. /\ progress.active = 0 /\ syncQueue = <<>>
      /\ \A j \in Items : task[j].stage = "idle"
  BY NotSyncing DEF ListingFails
<1>3. progress' \in Progress /\ progress'.state = "Idle" /\ progress'.active = 0
  BY <1>1, <1>2 DEF TypeOK, ListingFails, Progress
<1>4. TypeOK'
  BY <1>1, <1>3 DEF TypeOK, ListingFails, Fault
<1> QED  BY <1>2, <1>3, <1>4, IdleKeepsInv DEF ListingFails

\* Forgetting a sync that has settled keeps the invariant.
LEMMA ForgetSyncStep == ASSUME IInv, ForgetSync PROVE IInv'
<1>1. TypeOK /\ progress.state = "Idle"
  BY DEF IInv, PhaseInv, ForgetSync
<1>2. /\ progress.active = 0 /\ syncQueue = <<>>
      /\ \A j \in Items : task[j].stage = "idle"
  BY <1>1, NotSyncing
<1>3. TypeOK'
  BY <1>1 DEF TypeOK, ForgetSync, Unlisted, ItemStates, NoItem
<1> QED  BY <1>1, <1>2, <1>3, IdleKeepsInv DEF ForgetSync

\* The saves that were in flight at a crash are saves of item states.
LEMMA InFlightType ==
  ASSUME IInv, NEW i \in Items, task[i].stage = "saving", NEW S \in SUBSET Stores
  PROVE  InFlight(i, S) \subseteq LateSaves
<1>1. Outgoing(i) \in Contents
  BY OutgoingType
<1> QED  BY <1>1 DEF InFlight, LateSaves, IInv, TypeOK

\* Losing the process's memory keeps the invariant: the stores persist.
LEMMA CrashStep == ASSUME IInv, Crash PROVE IInv'
<1>1. TypeOK
  BY DEF IInv
<1>2. progress' \in Progress /\ progress'.state = "Idle" /\ progress'.active = 0
  BY DEF Crash, NoProgress, Progress
<1>3. late' \in SUBSET LateSaves
  <2>1. \A i \in {j \in Items : task[j].stage = "saving"} : InFlight(i, {"cloud"}) \subseteq LateSaves
    BY InFlightType DEF Stores
  <2> QED  BY <1>1, <2>1 DEF Crash, TypeOK
<1>4. task' \in [Items -> Tasks] /\ \A j \in Items : task'[j].stage = "idle"
  BY IdleTaskType DEF Crash
<1>5. faults' \in Nat /\ listing' \in [Stores -> [Items -> ItemStates]]
  BY <1>1 DEF Crash, Fault, TypeOK, Unlisted, ItemStates, NoItem
<1>6. TypeOK'
  BY <1>1, <1>2, <1>3, <1>4, <1>5 DEF TypeOK, Crash
<1> QED  BY <1>2, <1>4, <1>6, IdleKeepsInv DEF Crash
\* The type of a queued task.
LEMMA QueuedTaskType ==
  ASSUME NEW i \in Items
  PROVE  /\ QueuedTask(i) \in Tasks /\ QueuedTask(i).stage = "queued"
         /\ QueuedTask(i).state = [s \in Stores |-> ItemSyncState(s, i)]
<1>1. \A s \in Stores : ItemSyncState(s, i) \in {"Unchanged", "Updated", "Deleted"}
  BY DEF ItemSyncState
<1> QED  BY <1>1, IdleTaskType DEF QueuedTask, Tasks

\* Only the changed items are queued, with the change that was listed.
LEMMA ChangeListed ==
  ASSUME NEW i \in Items, i \in Changed
  PROVE  /\ \E s \in Stores : ItemSyncState(s, i) # "Unchanged"
         /\ \A s \in Stores :
              /\ ItemSyncState(s, i) = "Updated" => Listed(s, i) /\ ~listing[s][i].deleted
              /\ ItemSyncState(s, i) = "Deleted" => Listed(s, i) /\ listing[s][i].deleted
  BY DEF ItemSyncState, Changed

\* A queued task carries a change one of the stores listed.
LEMMA QueuedTaskOK ==
  ASSUME NEW i \in Items, i \in Changed, task'[i] = QueuedTask(i), listing' = listing
  PROVE  TaskOK(i)'
<1>1. /\ task'[i].stage = "queued"
      /\ \A s \in Stores : task'[i].state[s] = ItemSyncState(s, i)
  BY QueuedTaskType
<1>2. TaskChange(i)'
  BY <1>1, ChangeListed DEF TaskChange, Listed
<1> QED  BY <1>1, <1>2 DEF TaskOK, ActiveStages

\* Such a task can be started.
LEMMA QueuedTaskStartsOK ==
  ASSUME TypeOK, NEW i \in Items, i \in Changed, listing' = listing,
         task'[i] = StartedTask(i, QueuedTask(i))
  PROVE  TaskOK(i)'
<1>1. QueuedTask(i) \in Tasks /\ QueuedTask(i).state = [s \in Stores |-> ItemSyncState(s, i)]
  BY QueuedTaskType
<1>2. /\ task'[i].stage = "loading" /\ task'[i].state = QueuedTask(i).state
      /\ \A s \in Stores :
           /\ Listed(s, i) /\ listing[s][i].deleted =>
                task'[i].item[s] = Tombstone /\ s \notin task'[i].pending
           /\ Listed(s, i) /\ ~listing[s][i].deleted => s \in task'[i].pending
  BY <1>1, StartedTaskType DEF TypeOK
<1>3. TaskChange(i)'
  BY <1>1, <1>2, ChangeListed DEF TaskChange, Listed
<1>4. TaskItems(i)'
  BY <1>1, <1>2, ChangeListed DEF TaskItems
<1> QED  BY <1>2, <1>3, <1>4 DEF TaskOK

\* Comparing the lists, queueing the changes and starting the first batch keep
\* the invariant.
LEMMA ListingDoneTasks ==
  ASSUME IInv, ListingDone
  PROVE  /\ progress' \in Progress /\ syncQueue' \in Seq(Items) /\ task' \in [Items -> Tasks]
         /\ currentSync' \in {"pending", "resolved"}
         /\ ProgressAddsUp' /\ QueueInv' /\ PhaseInv'
         /\ \A i \in Items : IF i \in Changed
                             THEN task'[i] \in {QueuedTask(i), StartedTask(i, QueuedTask(i))}
                             ELSE task'[i] = IdleTask
<1> DEFINE t == [i \in Items |-> IF i \in Changed THEN QueuedTask(i) ELSE IdleTask]
<1>1. TypeOK /\ LastSyncedRevisionsExist /\ QueueInv /\ PhaseInv /\ ProgressAddsUp
  BY DEF IInv
<1>2. PICK q \in Orders(Changed) :
        Advance([progress EXCEPT !.state = "SyncingItems", !.total = Len(q)], q, t)
  BY DEF ListingDone
<1> DEFINE p == [progress EXCEPT !.state = "SyncingItems", !.total = Len(q)]
<1>3. UNCHANGED <<revisions, lastSynced, listing, unlisted, late, edits, faults>>
  BY DEF ListingDone
<1>4. IsFiniteSet(Changed) /\ Changed \subseteq Items /\ Cardinality(Changed) \in Nat
  BY ItemsAssumption, FS_Subset, FS_CardinalityType DEF Changed
<1>5. /\ q \in Seq(Items) /\ Distinct(q)
      /\ \A i \in Items : i \in Changed <=> \E n \in 1..Len(q) : q[n] = i
  <2>1. q \in [1..Cardinality(Changed) -> Changed]
        /\ (\A m, n \in 1..Cardinality(Changed) : q[m] = q[n] => m = n)
        /\ (\A i \in Changed : \E n \in 1..Cardinality(Changed) : q[n] = i)
    BY DEF Orders, Bijection, Injection, Surjection, IsInjective
  <2>2. q \in Seq(Items) /\ Len(q) = Cardinality(Changed)
    BY <1>4, <2>1
  <2> QED  BY <1>4, <2>1, <2>2 DEF Distinct
<1>6. /\ currentSync = "pending" /\ progress.active = 0
      /\ progress.updated = 0 /\ progress.failed = 0
  BY <1>1 DEF ListingDone, PhaseInv, ProgressAddsUp
<1>7. t \in [Items -> Tasks]
      /\ \A i \in Items : IF i \in Changed THEN t[i] = QueuedTask(i) /\ t[i].stage = "queued"
                                           ELSE t[i] = IdleTask
  BY QueuedTaskType, IdleTaskType
<1>8. p \in Progress /\ p.state = "SyncingItems" /\ p.active = 0
      /\ p.updated = 0 /\ p.failed = 0 /\ p.total = Len(q)
  <2>1. Len(q) \in Nat /\ progress \in Progress
    BY <1>1, <1>5 DEF TypeOK
  <2> QED  BY <1>6, <2>1 DEF Progress
<1> HIDE DEF p, t
<1>9. ActiveIn(t) = {} /\ \A i \in Items : t[i].stage = "queued" <=> i \in Changed
  BY <1>7, IdleTaskType DEF ActiveIn, ActiveStages
<1>10. Ready(p, q, t)
  <2>1. Len(q) \in Nat
    BY <1>5
  <2> QED  BY <1>5, <1>7, <1>8, <1>9, <2>1, FS_EmptySet, MaxActiveAssumption DEF Ready
<1>11. /\ progress' \in Progress /\ syncQueue' \in Seq(Items) /\ task' \in [Items -> Tasks]
       /\ currentSync' \in {"pending", "resolved"}
       /\ ProgressAddsUp' /\ QueueInv' /\ PhaseInv'
       /\ \A i \in Items : \/ task'[i] = t[i]
                           \/ t[i].stage = "queued" /\ task'[i] = StartedTask(i, t[i])
  <2>1. listing \in [Stores -> [Items -> ItemStates]]
    BY <1>1 DEF TypeOK
  <2>2. Advance(p, q, t)
    BY <1>2 DEF p
  <2> QED  BY <1>6, <1>10, <2>1, <2>2, AdvanceStep
<1> QED
  <2>1. \A i \in Items : IF i \in Changed
                         THEN task'[i] \in {QueuedTask(i), StartedTask(i, QueuedTask(i))}
                         ELSE task'[i] = IdleTask
    BY <1>7, <1>9, <1>11
  <2> QED  BY <1>11, <2>1

\* The end of the listing keeps the invariant.
LEMMA ListingDoneStep == ASSUME IInv, ListingDone PROVE IInv'
<1>1. TypeOK /\ LastSyncedRevisionsExist
  BY DEF IInv
<1>2. UNCHANGED <<revisions, lastSynced, listing, unlisted, late, edits, faults>>
  BY DEF ListingDone
<1>3. TypeOK'
  BY <1>1, <1>2, ListingDoneTasks DEF TypeOK
<1>4. LastSyncedRevisionsExist'
  BY <1>1, <1>2, <1>3, SameRevisionsGrow, PairsStable DEF LastSyncedRevisionsExist, NoPair
<1>5. TaskInv'
  <2> SUFFICES ASSUME NEW i \in Items PROVE TaskOK(i)'
    BY DEF TaskInv
  <2>1. CASE i \notin Changed
    <3>1. task'[i].stage = "idle"
      BY <2>1, ListingDoneTasks, IdleTaskType
    <3> QED  BY <3>1 DEF TaskOK, ActiveStages
  <2>2. CASE i \in Changed
    <3>1. task'[i] = QueuedTask(i) => TaskOK(i)'
      BY <1>1, <1>2, <2>2, QueuedTaskOK
    <3>2. task'[i] = StartedTask(i, QueuedTask(i)) => TaskOK(i)'
      BY <1>1, <1>2, <2>2, QueuedTaskStartsOK
    <3> QED  BY <2>2, <3>1, <3>2, ListingDoneTasks
  <2> QED  BY <2>1, <2>2
<1> QED  BY <1>3, <1>4, <1>5, ListingDoneTasks DEF IInv

-----------------------------------------------------------------------------
(* The steps of one item *)

\* A step that moves one task between active stages has to keep that task
\* right.
LEMMA TaskStepKeepsInv ==
  ASSUME IInv, TypeOK', Grown, NEW i \in Items,
         UNCHANGED <<lastSynced, currentSync, progress, listing, syncQueue>>,
         task[i].stage \in ActiveStages, task'[i].stage \in ActiveStages,
         \A j \in Items \ {i} : task'[j] = task[j],
         TaskOK(i)'
  PROVE  IInv'
<1>1. TypeOK /\ LastSyncedRevisionsExist /\ TaskInv
  BY DEF IInv
<1>2. ProgressAddsUp' /\ QueueInv' /\ PhaseInv'
  <2>1. \A j \in Items : \/ task'[j].stage = task[j].stage
                         \/ task[j].stage \in ActiveStages /\ task'[j].stage \in ActiveStages
    OBVIOUS
  <2> QED  BY <2>1, SameStages
<1>3. LastSyncedRevisionsExist'
  BY <1>1, PairsStable DEF LastSyncedRevisionsExist, NoPair
<1>4. TaskInv'
  BY <1>1, TaskStable DEF TaskInv
<1> QED  BY <1>2, <1>3, <1>4 DEF IInv

\* An item that arrives from a store keeps the invariant.
LEMMA LoadItemStep ==
  ASSUME IInv, NEW i \in Items, NEW s \in Stores, LoadItem(i, s) PROVE IInv'
<1>1. TypeOK /\ TaskOK(i) /\ task[i] \in Tasks
  BY DEF IInv, TaskInv, TypeOK
<1>2. HasRevision(s, i, Latest(s, i))
  <2>1. Latest(s, i) \in Nat
    BY <1>1 DEF TypeOK, Latest
  <2> QED  BY <2>1 DEF LoadItem, IsLive, Exists, HasRevision
<1>3. /\ task'[i].stage = "loading" /\ task'[i].state = task[i].state
      /\ task'[i].saved = task[i].saved
      /\ task'[i].item = [task[i].item EXCEPT ![s] = Latest(s, i)]
      /\ task'[i].pending = task[i].pending \ {s}
      /\ \A j \in Items \ {i} : task'[j] = task[j]
      /\ task' \in [Items -> Tasks]
  <2>1. /\ task \in [Items -> Tasks] /\ task[i].stage = "loading"
        /\ task' = [task EXCEPT ![i].item[s] = Latest(s, i), ![i].pending = @ \ {s}]
    BY <1>1 DEF TypeOK, LoadItem
  <2>2. Latest(s, i) \in Nat
    BY <1>1 DEF TypeOK, Latest
  <2>3. task' = [task EXCEPT ![i] = [task[i] EXCEPT !.item = [task[i].item EXCEPT ![s] = Latest(s, i)],
                                                   !.pending = task[i].pending \ {s}]]
    BY <2>1 DEF Tasks
  <2> DEFINE item == [task[i].item EXCEPT ![s] = Latest(s, i)]
             pending == task[i].pending \ {s}
  <2>4. item \in [Stores -> Nat \cup {Tombstone}] /\ pending \in SUBSET Stores
    BY <1>1, <2>2 DEF Tasks
  <2> HIDE DEF item, pending
  <2>5. [task[i] EXCEPT !.item = item, !.pending = pending] \in Tasks
    BY <1>1, <2>4 DEF Tasks
  <2>6. task'[i] = [task[i] EXCEPT !.item = item, !.pending = pending]
        /\ task' \in [Items -> Tasks] /\ \A j \in Items \ {i} : task'[j] = task[j]
    BY <2>1, <2>3, <2>5 DEF item, pending
  <2>7. /\ task'[i].stage = "loading" /\ task'[i].state = task[i].state
        /\ task'[i].saved = task[i].saved /\ task'[i].item = item /\ task'[i].pending = pending
    BY <1>1, <2>1, <2>6 DEF Tasks
  <2> QED  BY <2>6, <2>7 DEF item, pending
<1>4. UNCHANGED <<revisions, lastSynced, currentSync, progress, listing, unlisted, syncQueue, late,
                  edits, faults>>
  BY DEF LoadItem
<1>5. TypeOK' /\ Grown
  BY <1>1, <1>3, <1>4, SameRevisionsGrow DEF TypeOK
<1>6. TaskChange(i)'
  BY <1>1, <1>3, <1>4 DEF TaskOK, TaskChange, Listed, LoadItem
<1>7. TaskItems(i)'
  <2>1. TaskItems(i) /\ TaskChange(i) /\ s \in task[i].pending
    BY <1>1 DEF TaskOK, ActiveStages, LoadItem
  <2>2. task'[i].item[s] = Latest(s, i) /\ \A r \in Stores \ {s} : task'[i].item[r] = task[i].item[r]
    BY <1>1, <1>3 DEF Tasks
  <2>3. task[i].state[s] # "Deleted"
    BY <2>1 DEF TaskItems, LoadItem
  <2>4. task'[i].item[s] \in 1..Latest(s, i)'
    BY <1>2, <1>4, <2>2 DEF HasRevision, Latest
  <2>5. \A r \in Stores \ {s} :
          /\ task[i].state[r] = "Deleted" => task[i].item[r] = Tombstone /\ r \notin task'[i].pending
          /\ task[i].state[r] = "Updated" =>
               r \in task'[i].pending \/ task[i].item[r] \in 1..Latest(r, i)'
    BY <1>3, <1>4, <2>1 DEF TaskItems, HasRevision, Latest, LoadItem
  <2> QED  BY <1>3, <2>2, <2>3, <2>4, <2>5 DEF TaskItems, HasRevision
<1>8. TaskOK(i)' /\ task[i].stage \in ActiveStages /\ task'[i].stage \in ActiveStages
  BY <1>3, <1>6, <1>7 DEF TaskOK, ActiveStages, LoadItem
<1> QED  BY <1>3, <1>4, <1>5, <1>8, TaskStepKeepsInv

\* Merging the loaded items and sending the saves keep the invariant.
LEMMA MergeAndSyncItemStep ==
  ASSUME IInv, NEW i \in Items, MergeAndSyncItem(i) PROVE IInv'
<1>1. TypeOK /\ TaskOK(i)
  BY DEF IInv, TaskInv
<1>2. Target(i) \subseteq Stores
  BY DirectionCases DEF Stores
<1>3. /\ task'[i] = [task[i] EXCEPT !.stage = "saving", !.pending = Target(i)]
      /\ task[i] \in Tasks
      /\ \A j \in Items \ {i} : task'[j] = task[j]
      /\ task' \in [Items -> Tasks]
  <2>1. task \in [Items -> Tasks]
        /\ task' = [task EXCEPT ![i] = [task[i] EXCEPT !.stage = "saving", !.pending = Target(i)]]
    BY <1>1 DEF TypeOK, MergeAndSyncItem, ReadyToSave
  <2>2. [task[i] EXCEPT !.stage = "saving", !.pending = Target(i)] \in Tasks
    BY <1>2, <2>1 DEF Tasks
  <2> QED  BY <2>1, <2>2
<1>4. /\ task'[i].stage = "saving" /\ task'[i].pending = Target(i)
      /\ task'[i].state = task[i].state /\ task'[i].item = task[i].item
  BY <1>3 DEF Tasks
<1>5. UNCHANGED <<revisions, lastSynced, currentSync, progress, listing, unlisted, syncQueue, late,
                  edits, faults>>
  BY DEF MergeAndSyncItem, ReadyToSave
<1>6. TypeOK' /\ Grown
  BY <1>1, <1>3, <1>5, SameRevisionsGrow DEF TypeOK
<1>7. task[i].stage = "loading" /\ task[i].pending = {} /\ TaskChange(i) /\ TaskItems(i)
  BY <1>1 DEF MergeAndSyncItem, ReadyToSave, TaskOK, ActiveStages
<1>8. TaskChange(i)'
  BY <1>4, <1>5, <1>7 DEF TaskChange, Listed
<1>9. TaskItems(i)'
  BY <1>4, <1>5, <1>7 DEF TaskItems, HasRevision, Latest
<1>10. TaskSaves(i)'
  <2>1. Direction(i)' = Direction(i) /\ Target(i)' = Target(i)
    BY <1>4 DEF Direction, Target, Stores
  <2>2. Direction(i) = "merge" => lastSynced[i] # NoPair
    BY DEF MergeAndSyncItem, Succeeds, HasBase
  <2> QED  BY <1>4, <1>5, <2>1, <2>2 DEF TaskSaves, NoPair
<1>11. TaskOK(i)' /\ task[i].stage \in ActiveStages /\ task'[i].stage \in ActiveStages
  BY <1>4, <1>7, <1>8, <1>9, <1>10 DEF TaskOK, ActiveStages
<1> QED  BY <1>3, <1>5, <1>6, <1>11, TaskStepKeepsInv

\* A save that a store acknowledges keeps the invariant.
LEMMA SaveItemStep ==
  ASSUME IInv, NEW i \in Items, NEW s \in Stores, SaveItem(i, s) PROVE IInv'
<1> DEFINE stage == IF task[i].pending = {s} THEN "recording" ELSE "saving"
           saved == [task[i].saved EXCEPT ![s] = Latest(s, i) + 1]
<1>1. TypeOK /\ TaskOK(i) /\ task[i].stage = "saving" /\ s \in task[i].pending
  BY DEF IInv, TaskInv, SaveItem
<1>2. /\ revisions' \in [Stores -> [Items -> Seq(Contents)]]
      /\ Latest(s, i)' = Latest(s, i) + 1 /\ Latest(s, i) \in Nat
      /\ Grown
  <2>1. Outgoing(i) \in Contents
    BY <1>1, OutgoingType
  <2>2. revisions' = Saved(s, i, Outgoing(i))
    BY DEF SaveItem
  <2>3. Latest(s, i) \in Nat
    BY <1>1 DEF TypeOK, Latest
  <2> QED  BY <1>1, <2>1, <2>2, <2>3, SavedGrows
<1>3. /\ task'[i] = [task[i] EXCEPT !.saved = saved, !.pending = task[i].pending \ {s},
                                   !.stage = stage]
      /\ task[i] \in Tasks
      /\ \A j \in Items \ {i} : task'[j] = task[j]
      /\ task' \in [Items -> Tasks]
  <2>1. /\ task \in [Items -> Tasks]
        /\ task' = [task EXCEPT ![i] = [task[i] EXCEPT !.saved = saved,
                                                     !.pending = task[i].pending \ {s},
                                                     !.stage = stage]]
    BY <1>1 DEF TypeOK, SaveItem, Tasks
  <2>2. saved \in [Stores -> Nat] /\ stage \in {"recording", "saving"}
    BY <1>2, <2>1 DEF Tasks
  <2> HIDE DEF saved, stage
  <2>3. [task[i] EXCEPT !.saved = saved, !.pending = task[i].pending \ {s}, !.stage = stage] \in Tasks
    BY <2>1, <2>2 DEF Tasks
  <2> QED  BY <2>1, <2>3
<1>4. /\ task'[i].stage = stage /\ task'[i].pending = task[i].pending \ {s}
      /\ task'[i].saved = saved
      /\ task'[i].state = task[i].state /\ task'[i].item = task[i].item
  BY <1>3 DEF Tasks
<1>5. UNCHANGED <<lastSynced, currentSync, progress, listing, unlisted, syncQueue, late, edits, faults>>
  BY DEF SaveItem
<1>6. TypeOK'
  BY <1>1, <1>2, <1>3, <1>5 DEF TypeOK
<1>7. TaskChange(i) /\ TaskItems(i) /\ TaskSaves(i)
  BY <1>1 DEF TaskOK, ActiveStages
<1>8. TaskChange(i)'
  BY <1>4, <1>5, <1>7 DEF TaskChange, Listed
<1>9. \A r \in Stores : \A n : n \in 1..Latest(r, i) => n \in 1..Latest(r, i)'
  <2>1. \A r \in Stores : Latest(r, i) \in Nat /\ Latest(r, i)' \in Nat
                           /\ Latest(r, i) <= Latest(r, i)'
    BY <1>1, <1>2 DEF TypeOK, Latest, Grown
  <2> QED  BY <2>1
<1>10. TaskItems(i)'
  BY <1>1, <1>4, <1>7, <1>9 DEF TaskItems, HasRevision
<1>11. TaskSaves(i)'
  <2>1. Direction(i)' = Direction(i) /\ Target(i)' = Target(i) /\ Target(i) \subseteq Stores
    BY <1>4, DirectionCases DEF Direction, Target, Stores
  <2>2. saved[s] \in 1..Latest(s, i)'
    <3>1. task[i].saved \in [Stores -> Nat]
      BY <1>3 DEF Tasks
    <3>2. saved[s] = Latest(s, i) + 1
      BY <3>1
    <3> QED  BY <1>2, <3>2
  <2>3. \A r \in Stores \ {s} : saved[r] = task[i].saved[r] /\ saved[r] \in Nat
    BY <1>3 DEF Tasks
  <2> HIDE DEF saved
  <2>4. \A r \in Target(i) \ (task[i].pending \ {s}) : saved[r] \in 1..Latest(r, i)'
    BY <1>7, <1>9, <2>1, <2>2, <2>3 DEF TaskSaves, HasRevision
  <2>5. /\ Direction(i) = "merge" => lastSynced'[i] # NoPair
        /\ task[i].pending \ {s} \subseteq Target(i)
    BY <1>5, <1>7 DEF TaskSaves
  <2>6. task'[i].stage = "recording" => task'[i].pending = {}
    BY <1>4
  <2> HIDE DEF stage
  <2> QED  BY <1>4, <2>1, <2>4, <2>5, <2>6 DEF TaskSaves, HasRevision, NoPair
<1>12. TaskOK(i)' /\ task[i].stage \in ActiveStages /\ task'[i].stage \in ActiveStages
  BY <1>1, <1>4, <1>8, <1>10, <1>11 DEF TaskOK, ActiveStages
<1> QED  BY <1>2, <1>3, <1>5, <1>6, <1>12, TaskStepKeepsInv

-----------------------------------------------------------------------------
(* The steps that finish an item *)

\* A failure that leaves the pair alone.
LEMMA FailedKeepsInv ==
  ASSUME IInv, NEW i \in Items, task[i].stage \in ActiveStages, ItemDone(i, "failed"),
         UNCHANGED <<revisions, lastSynced, edits>>,
         late' \in SUBSET LateSaves, faults' \in Nat
  PROVE  IInv'
<1>1. lastSynced' \in [Items -> [Stores -> Nat]]
  BY DEF IInv, TypeOK
<1> QED  BY <1>1, ItemDoneKeepsInv

\* Loading an item that was removed after the listing keeps the invariant.
LEMMA LoadRejectedStep ==
  ASSUME IInv, NEW i \in Items, NEW s \in Stores, LoadRejected(i, s) PROVE IInv'
<1>1. task[i].stage \in ActiveStages /\ late' \in SUBSET LateSaves /\ faults' \in Nat
  BY DEF IInv, TypeOK, LoadRejected, ActiveStages
<1> QED  BY <1>1, FailedKeepsInv DEF LoadRejected

\* A load that fails keeps the invariant.
LEMMA LoadFailsStep ==
  ASSUME IInv, NEW i \in Items, LoadFails(i) PROVE IInv'
<1>1. task[i].stage \in ActiveStages /\ late' \in SUBSET LateSaves /\ faults' \in Nat
  BY DEF IInv, TypeOK, LoadFails, Fault, ActiveStages
<1> QED  BY <1>1, FailedKeepsInv DEF LoadFails

\* A merge that has no base to merge from keeps the invariant.
LEMMA MergeFailsStep ==
  ASSUME IInv, NEW i \in Items, MergeFails(i) PROVE IInv'
<1>1. task[i].stage \in ActiveStages /\ late' \in SUBSET LateSaves /\ faults' \in Nat
  BY DEF IInv, TypeOK, MergeFails, ReadyToSave, ActiveStages
<1> QED  BY <1>1, FailedKeepsInv DEF MergeFails, ReadyToSave

\* A save that is rejected keeps the invariant.
LEMMA SaveFailsStep ==
  ASSUME IInv, NEW i \in Items, NEW s \in Stores, SaveFails(i, s) PROVE IInv'
<1>1. task[i].stage = "saving" /\ task[i].stage \in ActiveStages /\ faults' \in Nat
  BY DEF IInv, TypeOK, SaveFails, Fault, ActiveStages
<1>2. late' \in SUBSET LateSaves
  <2>1. InFlight(i, Stores \ ({s} \cap {"local"})) \subseteq LateSaves
    BY <1>1, InFlightType
  <2> QED  BY <2>1 DEF IInv, TypeOK, SaveFails
<1> QED  BY <1>1, <1>2, FailedKeepsInv DEF SaveFails

\* Recording the pair of revisions of a synced item keeps the invariant.
LEMMA SetLastSyncedRevisionStep ==
  ASSUME IInv, NEW i \in Items, SetLastSyncedRevision(i) PROVE IInv'
<1>1. /\ task[i].stage = "recording" /\ task[i].stage \in ActiveStages
      /\ late' \in SUBSET LateSaves /\ faults' \in Nat
  BY DEF IInv, TypeOK, SetLastSyncedRevision, ActiveStages
<1>2. lastSynced \in [Items -> [Stores -> Nat]]
      /\ lastSynced' = [lastSynced EXCEPT ![i] = SyncedPair(i)]
  BY DEF IInv, TypeOK, SetLastSyncedRevision
<1>3. SyncedPair(i) \in [Stores -> Nat]
      /\ (SyncedPair(i) = NoPair \/ \A s \in Stores : HasRevision(s, i, SyncedPair(i)[s]))
  BY <1>1, SyncedPairOK
<1>4. /\ lastSynced' \in [Items -> [Stores -> Nat]]
      /\ lastSynced'[i] = SyncedPair(i)
      /\ \A j \in Items \ {i} : lastSynced'[j] = lastSynced[j]
  BY <1>2, <1>3
<1> QED  BY <1>1, <1>3, <1>4, ItemDoneKeepsInv DEF SetLastSyncedRevision

\* A recording that is rejected keeps the invariant.
LEMMA RecordFailsStep ==
  ASSUME IInv, NEW i \in Items, RecordFails(i) PROVE IInv'
<1>1. /\ task[i].stage = "recording" /\ task[i].stage \in ActiveStages
      /\ late' \in SUBSET LateSaves /\ faults' \in Nat
  BY DEF IInv, TypeOK, RecordFails, Fault, ActiveStages
<1>2. CASE lastSynced' = [lastSynced EXCEPT ![i] = SyncedPair(i)]
  <2>1. SyncedPair(i) \in [Stores -> Nat]
        /\ (SyncedPair(i) = NoPair \/ \A s \in Stores : HasRevision(s, i, SyncedPair(i)[s]))
    BY <1>1, SyncedPairOK
  <2>2. /\ lastSynced' \in [Items -> [Stores -> Nat]]
        /\ lastSynced'[i] = SyncedPair(i)
        /\ \A j \in Items \ {i} : lastSynced'[j] = lastSynced[j]
    BY <1>2, <2>1 DEF IInv, TypeOK
  <2> QED  BY <1>1, <2>1, <2>2, ItemDoneKeepsInv DEF RecordFails
<1>3. CASE UNCHANGED lastSynced
  BY <1>1, <1>3, FailedKeepsInv DEF RecordFails
<1> QED  BY <1>2, <1>3 DEF RecordFails

-----------------------------------------------------------------------------
(* The environment *)

\* A save that lands after its task has ended keeps the invariant.
LEMMA LateSaveStep ==
  ASSUME IInv, NEW m \in late, LateSaveLands(m) \/ LateSaveLost(m) PROVE IInv'
<1>1. TypeOK /\ m \in LateSaves
  BY DEF IInv, TypeOK
<1>2. late' \in SUBSET LateSaves /\ edits' \in Nat /\ faults' \in Nat
      /\ UNCHANGED <<lastSynced, syncVars>>
  BY <1>1 DEF TypeOK, LateSaveLands, LateSaveLost
<1>3. revisions' \in [Stores -> [Items -> Seq(Contents)]] /\ Grown
  <2>1. CASE LateSaveLands(m)
    <3>1. m.store \in Stores /\ m.item \in Items /\ m.content \in Contents
      BY <1>1 DEF LateSaves
    <3> QED  BY <1>1, <2>1, <3>1, SavedGrows DEF LateSaveLands
  <2>2. CASE LateSaveLost(m)
    BY <1>1, <2>2, SameRevisionsGrow DEF LateSaveLost, TypeOK
  <2> QED  BY <2>1, <2>2
<1> QED  BY <1>2, <1>3, EnvironmentKeepsInv

\* A user's change saves a new content of a live or new item, and that is all.
LEMMA UserSaves ==
  ASSUME TypeOK, NEW i \in Items, NEW s \in Stores, UserChange(i, s)
  PROVE  /\ \E c \in Contents : revisions' = Saved(s, i, c)
         /\ New(i) \/ IsLive(s, i)
         /\ edits' = edits + 1
         /\ UNCHANGED <<lastSynced, syncVars, late, faults>>
<1>1. edits \in Nat
  BY DEF TypeOK
<1>2. ASSUME NEW old \in Contents, NEW f \in Fields, NEW v \in Int
      PROVE  [old EXCEPT !.fields[f] = v] \in Contents
  <2>1. [old.fields EXCEPT ![f] = v] \in [Fields -> Int]
    BY DEF Contents
  <2>2. [old EXCEPT !.fields[f] = v] = [old EXCEPT !.fields = [old.fields EXCEPT ![f] = v]]
    BY DEF Contents
  <2> QED  BY <2>1, <2>2 DEF Contents
<1>3. IsLive(s, i) => Current(s, i) \in Contents
  <2>1. IsLive(s, i) => HasRevision(s, i, Latest(s, i))
    BY DEF TypeOK, Latest, IsLive, Exists, HasRevision
  <2> QED  BY <2>1, RevisionType DEF Current
<1>4. BlankContent \in Contents /\ TombstoneContent \in Contents
  BY DEF BlankContent, TombstoneContent, Contents
<1>5. ASSUME NEW f \in Fields, EditItem(i, s, f)
      PROVE  \E c \in Contents : revisions' = Saved(s, i, c)
  <2> DEFINE old == IF New(i) THEN BlankContent ELSE Current(s, i)
             new == [old EXCEPT !.fields[f] = edits + 1]
  <2>1. revisions' = Saved(s, i, new)
    BY <1>5 DEF EditItem
  <2>2. old \in Contents /\ edits + 1 \in Int
    BY <1>1, <1>3, <1>4, <1>5 DEF EditItem
  <2> HIDE DEF old
  <2>3. new \in Contents
    BY <1>2, <2>2
  <2> QED  BY <2>1, <2>3
<1>6. ASSUME NEW f \in Fields, RemoveEntry(i, s, f)
      PROVE  \E c \in Contents : revisions' = Saved(s, i, c)
  <2> DEFINE old == Current(s, i)
             new == [old EXCEPT !.fields[f] = -(edits + 1)]
  <2>1. revisions' = Saved(s, i, new)
    BY <1>6 DEF RemoveEntry
  <2>2. old \in Contents /\ -(edits + 1) \in Int
    BY <1>1, <1>3, <1>6 DEF RemoveEntry
  <2> HIDE DEF old
  <2>3. new \in Contents
    BY <1>2, <2>2
  <2> QED  BY <2>1, <2>3
<1>7. \E c \in Contents : revisions' = Saved(s, i, c)
  BY <1>4, <1>5, <1>6 DEF UserChange, RemoveItem
<1>8. /\ New(i) \/ IsLive(s, i)
      /\ edits' = edits + 1
      /\ UNCHANGED <<lastSynced, syncVars, late, faults>>
  BY DEF UserChange, EditItem, RemoveEntry, RemoveItem
<1> QED  BY <1>7, <1>8

\* It keeps the invariant.
LEMMA UserChangeStep ==
  ASSUME IInv, NEW i \in Items, NEW s \in Stores, UserChange(i, s) PROVE IInv'
<1>1. TypeOK /\ edits \in Nat
  BY DEF IInv, TypeOK
<1>2. PICK c \in Contents : revisions' = Saved(s, i, c)
  BY <1>1, UserSaves
<1>3. edits' \in Nat /\ UNCHANGED <<lastSynced, syncVars, late, faults>>
  BY <1>1, UserSaves
<1>4. revisions' \in [Stores -> [Items -> Seq(Contents)]] /\ Grown
  BY <1>1, <1>2, SavedGrows
<1> QED  BY <1>1, <1>3, <1>4, EnvironmentKeepsInv DEF TypeOK

-----------------------------------------------------------------------------
(* The theorems *)

\* Every step keeps the invariant: one step of the proof for each action.
LEMMA NextStep == ASSUME IInv, [Next]_vars PROVE IInv'
<1>1. CASE SyncItems
  BY <1>1, SyncItemsStep
<1>2. CASE Listing
  BY <1>2, ListItemStatesStep, ListingDoneStep DEF Listing
<1>3. CASE ForgetSync
  BY <1>3, ForgetSyncStep
<1>4. ASSUME NEW i \in Items, StoreCall(i) PROVE IInv'
  BY <1>4, LoadItemStep, LoadRejectedStep, SaveItemStep, MergeAndSyncItemStep, MergeFailsStep,
     SetLastSyncedRevisionStep DEF StoreCall
<1>5. CASE LateSave
  BY <1>5, LateSaveStep DEF LateSave
<1>6. CASE Failure
  BY <1>6, ListingFailsStep, LoadFailsStep, RecordFailsStep, SaveFailsStep, CrashStep
     DEF Failure, CallFails
<1>7. CASE Users
  BY <1>7, UserChangeStep DEF Users
<1>8. CASE UNCHANGED vars
  <2>1. TypeOK /\ UNCHANGED <<revisions, lastSynced, syncVars, late, edits, faults>>
    BY <1>8 DEF vars, IInv
  <2> QED  BY <2>1, SameRevisionsGrow, EnvironmentKeepsInv DEF TypeOK
<1> QED  BY <1>1, <1>2, <1>3, <1>4, <1>5, <1>6, <1>7, <1>8 DEF Next

\* IInv is an inductive invariant of the syncer, for every set of items, every
\* limit of active items and every combination of users, failures and crashes.
THEOREM InductiveInvariant == Spec => []IInv
<1> QED  BY InitInv, NextStep, PTL DEF Spec

\* Every variable of the syncer keeps its type.
THEOREM TypeCorrect == Spec => []TypeOK
<1>1. IInv => TypeOK
  BY DEF IInv
<1> QED  BY <1>1, InductiveInvariant, PTL

\* The counts of syncProgress add up, the number of active items stays within
\* SYNC_MAX_ACTIVE_ITEMS, and a sync never waits with no item active.
THEOREM ProgressCorrect == Spec => []ProgressAddsUp
<1>1. IInv => ProgressAddsUp
  BY DEF IInv
<1> QED  BY <1>1, InductiveInvariant, PTL

\* Whatever fails and wherever the program dies, the recorded revisions exist.
THEOREM PairsExist == Spec => []LastSyncedRevisionsExist
<1>1. IInv => LastSyncedRevisionsExist
  BY DEF IInv
<1> QED  BY <1>1, InductiveInvariant, PTL

-----------------------------------------------------------------------------
(* A sync without failures has covered what was listed *)

\* Revisions are added, and the ones there are stay as they are.
Kept == \A s \in Stores, i \in Items :
          /\ Latest(s, i) <= Latest(s, i)'
          /\ \A r \in 1..Latest(s, i) : revisions'[s][i][r] = revisions[s][i][r]

\* Saving an item keeps its revisions.
LEMMA SavedKeeps ==
  ASSUME TypeOK, NEW s \in Stores, NEW i \in Items, NEW STATE c, c \in Contents,
         revisions' = Saved(s, i, c)
  PROVE  Kept
<1>1. revisions \in [Stores -> [Items -> Seq(Contents)]]
  BY DEF TypeOK
<1>2. ASSUME NEW r \in Stores, NEW j \in Items
      PROVE  revisions'[r][j] = IF r = s /\ j = i THEN Append(revisions[s][i], c) ELSE revisions[r][j]
  BY <1>1 DEF Saved
<1>3. ASSUME NEW r \in Stores, NEW j \in Items
      PROVE  /\ Latest(r, j) <= Latest(r, j)'
             /\ \A n \in 1..Latest(r, j) : revisions'[r][j][n] = revisions[r][j][n]
  <2>1. revisions[r][j] \in Seq(Contents)
    BY <1>1
  <2>2. CASE r = s /\ j = i
    <3>1. revisions'[r][j] = Append(revisions[r][j], c)
      BY <1>2, <2>2, Zenon
    <3>0. Len(revisions[r][j]) \in Nat
      BY <2>1
    <3>2. Len(revisions'[r][j]) = Len(revisions[r][j]) + 1
      BY <2>1, <3>1
    <3>3. \A n \in 1..Len(revisions[r][j]) : Append(revisions[r][j], c)[n] = revisions[r][j][n]
      BY <2>1
    <3> QED  BY <3>0, <3>1, <3>2, <3>3 DEF Latest
  <2>3. CASE ~(r = s /\ j = i)
    BY <1>2, <2>1, <2>3 DEF Latest
  <2> QED  BY <2>2, <2>3
<1> QED  BY <1>3 DEF Kept

\* So does a step that leaves the histories alone.
LEMMA SameRevisionsKept == ASSUME TypeOK, revisions' = revisions PROVE Kept
<1>1. \A s \in Stores, i \in Items : Latest(s, i) \in Nat /\ Latest(s, i)' = Latest(s, i)
  BY DEF TypeOK, Latest
<1> QED  BY <1>1 DEF Kept

\* Every step of the program and of its environment keeps the revisions.
LEMMA NextKeeps == ASSUME IInv, [Next]_vars PROVE Kept
<1>1. TypeOK
  BY DEF IInv
<1>2. CASE revisions' = revisions
  BY <1>1, <1>2, SameRevisionsKept
<1>3. ASSUME NEW i \in Items, NEW s \in Stores, SaveItem(i, s) PROVE Kept
  <2>1. Outgoing(i) \in Contents
    BY <1>3, OutgoingType DEF SaveItem
  <2> QED  BY <1>1, <1>3, <2>1, SavedKeeps DEF SaveItem
<1>4. ASSUME NEW m \in late, LateSaveLands(m) PROVE Kept
  <2>1. m.store \in Stores /\ m.item \in Items /\ m.content \in Contents
    BY <1>1 DEF TypeOK, LateSaves
  <2> QED  BY <1>1, <1>4, <2>1, SavedKeeps DEF LateSaveLands
<1>7. CASE Users
  <2>1. PICK i \in Items, s \in Stores : UserChange(i, s)
    BY <1>7 DEF Users
  <2>2. PICK c \in Contents : revisions' = Saved(s, i, c)
    BY <1>1, <2>1, UserSaves
  <2> QED  BY <1>1, <2>2, SavedKeeps
<1>8. CASE LateSave
  BY <1>2, <1>4, <1>8 DEF LateSave, LateSaveLost
<1>9. CASE \E i \in Items : StoreCall(i)
  BY <1>2, <1>3, <1>9 DEF StoreCall, LoadItem, LoadRejected, MergeAndSyncItem, ReadyToSave, MergeFails,
                          SetLastSyncedRevision
<1>10. CASE SyncItems \/ Listing \/ ForgetSync \/ Failure \/ UNCHANGED vars
  BY <1>2, <1>10 DEF SyncItems, Listing, ListItemStates, ListingDone, ForgetSync, Failure,
                     ListingFails, CallFails, LoadFails, SaveFails, RecordFails, Crash, vars
<1> QED  BY <1>7, <1>8, <1>9, <1>10 DEF Next

\* The type of a revision that a task has loaded.
LEMMA LoadedRevision ==
  ASSUME IInv, NEW i \in Items, NEW s \in Stores, task[i].stage \in ActiveStages,
         task[i].state[s] = "Updated", HasLoaded(i, s)
  PROVE  HasRevision(s, i, task[i].item[s])
  BY DEF IInv, TaskInv, TaskOK, TaskItems, HasLoaded

\* A task that goes on as before stays covering.
LEMMA TaskCoversStable ==
  ASSUME IInv, Kept, NEW i \in Items, TaskCovers(i), task'[i] = task[i],
         \A s \in Stores : listing'[s][i] = listing[s][i]
  PROVE  TaskCovers(i)'
<1>1. /\ Direction(i)' = Direction(i) /\ Target(i)' = Target(i)
      /\ \A s \in Stores : HasLoaded(i, s)' = HasLoaded(i, s)
  BY DEF Direction, Target, HasLoaded
<1>2. ASSUME NEW s \in Stores, task[i].stage \in ActiveStages,
             task[i].state[s] = "Updated", HasLoaded(i, s)
      PROVE  revisions'[s][i][task[i].item[s]] = revisions[s][i][task[i].item[s]]
  BY <1>2, LoadedRevision DEF Kept, HasRevision
<1>3. Target(i) \subseteq Stores
  BY DirectionCases DEF Stores
<1> QED  BY <1>1, <1>2, <1>3 DEF TaskCovers

\* A task that was just started has loaded nothing.
LEMMA StartedCovers ==
  ASSUME TypeOK, NEW i \in Items, NEW STATE t, t \in Tasks, listing' = listing,
         \A s \in Stores : t.state[s] = "Updated" => Listed(s, i) /\ ~listing[s][i].deleted,
         task'[i] = StartedTask(i, t)
  PROVE  TaskCovers(i)'
<1>1. /\ task'[i].stage = "loading" /\ task'[i].state = t.state
      /\ \A s \in Stores : Listed(s, i) /\ ~listing[s][i].deleted => s \in task'[i].pending
  BY StartedTaskType DEF TypeOK
<1> QED  BY <1>1 DEF TaskCovers, HasLoaded

\* Nor has a task that waits or an idle one.
LEMMA WaitingCovers ==
  ASSUME NEW i \in Items, task'[i].stage \notin ActiveStages PROVE TaskCovers(i)'
  BY DEF TaskCovers, ActiveStages

\* The listing stays within what the stores have.
LEMMA ListingStep == ASSUME IInv, ListingInv, [Next]_vars PROVE ListingInv'
<1>1. TypeOK /\ TypeOK' /\ Kept
  BY NextStep, NextKeeps DEF IInv
<1>2. \A s \in Stores, i \in Items : /\ listing[s][i].rev \in Nat /\ Latest(s, i) \in Nat
                                     /\ Latest(s, i)' \in Nat /\ Latest(s, i) <= Latest(s, i)'
  BY <1>1 DEF TypeOK, ItemStates, Latest, Kept
<1>3. CASE UNCHANGED listing
  BY <1>2, <1>3 DEF ListingInv
<1>4. CASE listing' = Unlisted
  BY <1>2, <1>4 DEF ListingInv, Unlisted, NoItem
<1>5. ASSUME NEW s \in Stores, ListItemStates(s) PROVE ListingInv'
  <2>1. ASSUME NEW r \in Stores, NEW i \in Items
        PROVE  listing'[r][i].rev = Latest(r, i) \/ listing'[r][i].rev = listing[r][i].rev
    BY <1>1, <1>5 DEF ListItemStates, TypeOK
  <2> QED  BY <1>2, <2>1 DEF ListingInv
<1> QED
  <2>1. CASE SyncItems \/ ListingDone \/ ListingFails \/ LateSave \/ Users \/ UNCHANGED vars
    BY <1>3, <2>1 DEF SyncItems, ListingDone, ListingFails, LateSave, LateSaveLands, LateSaveLost,
                      Users, UserChange, EditItem, RemoveEntry, RemoveItem, syncVars, vars
  <2>2. CASE ForgetSync \/ Crash
    BY <1>4, <2>2 DEF ForgetSync, Crash
  <2>3. CASE \E i \in Items : StoreCall(i) \/ CallFails(i)
    BY <1>3, <2>3 DEF StoreCall, CallFails, LoadItem, LoadRejected, SaveItem, MergeAndSyncItem, ReadyToSave,
                      MergeFails, SetLastSyncedRevision, LoadFails, RecordFails, SaveFails, ItemDone
  <2> QED  BY <1>5, <2>1, <2>2, <2>3 DEF Next, Listing, Failure

\* Every step keeps what the tasks have covered; `i' is the item it is about, if
\* any.
LEMMA OtherTasksCover ==
  ASSUME IInv, Kept, NEW i \in Items, NEW outcome \in {"updated", "failed"},
         task[i].stage \in ActiveStages, ItemDone(i, outcome), \A j \in Items : TaskCovers(j)
  PROVE  \A j \in Items : TaskCovers(j)'
<1>1. /\ task'[i] = IdleTask /\ listing' = listing
      /\ \A j \in Items \ {i} :
           \/ task'[j] = task[j]
           \/ task[j].stage = "queued" /\ task'[j] = StartedTask(j, task[j])
  BY ItemDoneStep
<1>2. TaskCovers(i)'
  BY <1>1, IdleTaskType, WaitingCovers DEF ActiveStages
<1>3. ASSUME NEW j \in Items \ {i}, task'[j] = task[j] PROVE TaskCovers(j)'
  BY <1>1, <1>3, TaskCoversStable
<1>4. ASSUME NEW j \in Items \ {i}, task[j].stage = "queued", task'[j] = StartedTask(j, task[j])
      PROVE  TaskCovers(j)'
  <2>1. TypeOK /\ task[j] \in Tasks /\ TaskChange(j)
    BY <1>4 DEF IInv, TypeOK, TaskInv, TaskOK
  <2> QED  BY <1>1, <1>4, <2>1, StartedCovers DEF TaskChange
<1> QED  BY <1>1, <1>2, <1>3, <1>4

\* When the listing is done nothing has been loaded.
LEMMA ListingDoneCovers ==
  ASSUME IInv, ListingDone
  PROVE  \A i \in Items : TaskCovers(i)'
<1> SUFFICES ASSUME NEW i \in Items PROVE TaskCovers(i)'
  OBVIOUS
<1>1. TypeOK /\ listing' = listing
  BY DEF IInv, ListingDone
<1>2. CASE i \notin Changed
  BY <1>2, ListingDoneTasks, IdleTaskType, WaitingCovers DEF ActiveStages
<1>3. CASE i \in Changed
  <2>1. /\ QueuedTask(i) \in Tasks /\ QueuedTask(i).stage = "queued"
        /\ \A s \in Stores : QueuedTask(i).state[s] = ItemSyncState(s, i)
    BY QueuedTaskType
  <2>2. CASE task'[i] = QueuedTask(i)
    BY <2>1, <2>2, WaitingCovers DEF ActiveStages
  <2>3. CASE task'[i] = StartedTask(i, QueuedTask(i))
    BY <1>1, <1>3, <2>1, <2>3, ChangeListed, StartedCovers
  <2> QED  BY <1>3, <2>2, <2>3, ListingDoneTasks
<1> QED  BY <1>2, <1>3

\* A load gets the listed revision or a newer one, and never a tombstone.
LEMMA LoadItemCovers ==
  ASSUME IInv, Kept, ListingInv, NEW i \in Items, NEW s \in Stores, TaskCovers(i), LoadItem(i, s)
  PROVE  TaskCovers(i)'
<1>1. TypeOK /\ task[i] \in Tasks /\ task[i].stage = "loading" /\ s \in task[i].pending
  BY DEF IInv, TypeOK, LoadItem
<1>2. /\ task'[i].stage = "loading" /\ task'[i].state = task[i].state
      /\ task'[i].pending = task[i].pending \ {s}
      /\ task'[i].item = [task[i].item EXCEPT ![s] = Latest(s, i)]
  BY <1>1 DEF LoadItem, TypeOK, Tasks
<1>3. listing' = listing /\ revisions' = revisions
  BY DEF LoadItem
<1>4. task[i].item \in [Stores -> Nat \cup {Tombstone}]
  BY <1>1 DEF Tasks
<1>5. listing[s][i].rev <= Latest(s, i) /\ ~revisions[s][i][Latest(s, i)].deleted
  BY DEF LoadItem, IsLive, Current, ListingInv
<1>6. ASSUME NEW r \in Stores, task'[i].state[r] = "Updated", HasLoaded(i, r)'
      PROVE  /\ listing[r][i].rev <= task'[i].item[r]
             /\ ~revisions[r][i][task'[i].item[r]].deleted
  <2>1. CASE r = s
    BY <1>2, <1>4, <1>5, <2>1
  <2>2. CASE r # s
    <3>1. task'[i].item[r] = task[i].item[r] /\ task[i].state[r] = "Updated" /\ HasLoaded(i, r)
      BY <1>1, <1>2, <1>4, <1>6, <2>2 DEF HasLoaded
    <3> QED  BY <1>1, <3>1 DEF TaskCovers, ActiveStages
  <2> QED  BY <2>1, <2>2
<1> QED  BY <1>2, <1>3, <1>6 DEF TaskCovers

\* A task that begins to save has loaded what it needs and has saved nothing.
LEMMA MergeAndSyncItemCovers ==
  ASSUME IInv, NEW i \in Items, TaskCovers(i), MergeAndSyncItem(i)
  PROVE  TaskCovers(i)'
<1>1. TypeOK /\ task[i] \in Tasks /\ task[i].stage = "loading" /\ task[i].pending = {}
  BY DEF IInv, TypeOK, MergeAndSyncItem, ReadyToSave
<1>2. /\ task'[i].stage = "saving" /\ task'[i].state = task[i].state
      /\ task'[i].pending = Target(i) /\ task'[i].item = task[i].item
  BY <1>1 DEF MergeAndSyncItem, ReadyToSave, TypeOK, Tasks
<1>3. listing' = listing /\ revisions' = revisions
  BY DEF MergeAndSyncItem, ReadyToSave
<1>4. Direction(i)' = Direction(i) /\ Target(i)' = Target(i)
  BY <1>2 DEF Direction, Target
<1>5. \A r \in Stores : HasLoaded(i, r)
  BY <1>1 DEF HasLoaded
<1>6. ASSUME Direction(i) = "down", task[i].state["cloud"] = "Deleted" PROVE LocalTakesTombstones
  <2>1. task[i].item["cloud"] = Tombstone
    BY <1>1, <1>6 DEF IInv, TaskInv, TaskOK, TaskItems, ActiveStages, Stores
  <2>2. Outgoing(i).deleted
    BY <1>6, <2>1 DEF Outgoing, Loaded, ItemContent, TombstoneContent
  <2> QED  BY <1>6, <2>2 DEF MergeAndSyncItem, Succeeds
<1>7. \A s \in Target(i)' \ task'[i].pending : FALSE
  BY <1>2, <1>4
<1>8. \A s \in Stores : task'[i].state[s] = "Updated" =>
        /\ listing'[s][i].rev <= task'[i].item[s]
        /\ ~revisions'[s][i][task'[i].item[s]].deleted
  BY <1>1, <1>2, <1>3, <1>5 DEF TaskCovers, ActiveStages
<1> QED  BY <1>2, <1>4, <1>6, <1>7, <1>8 DEF TaskCovers

\* What is saved is newer than what was listed.
LEMMA SaveItemCovers ==
  ASSUME IInv, Kept, ListingInv, NEW i \in Items, NEW s \in Stores, TaskCovers(i), SaveItem(i, s)
  PROVE  TaskCovers(i)'
<1> DEFINE saved == [task[i].saved EXCEPT ![s] = Latest(s, i) + 1]
<1>1. TypeOK /\ task[i] \in Tasks /\ task[i].stage = "saving"
  BY DEF IInv, TypeOK, SaveItem
<1>2. /\ task'[i].stage \in {"saving", "recording"} /\ task'[i].state = task[i].state
      /\ task'[i].pending = task[i].pending \ {s} /\ task'[i].item = task[i].item
      /\ task'[i].saved = saved
  BY <1>1 DEF SaveItem, TypeOK, Tasks
<1>3. listing' = listing
  BY DEF SaveItem
<1>4. Direction(i)' = Direction(i) /\ Target(i)' = Target(i) /\ Target(i) \subseteq Stores
  <2>1. Direction(i)' = Direction(i) /\ Target(i)' = Target(i)
    BY <1>2, Zenon DEF Direction, Target
  <2> QED  BY <2>1, DirectionCases DEF Stores
<1>5. \A r \in Stores : HasLoaded(i, r)
  BY <1>1 DEF HasLoaded
<1>6. ASSUME NEW r \in Stores, task[i].state[r] = "Updated"
      PROVE  /\ listing[r][i].rev <= task[i].item[r]
             /\ ~revisions'[r][i][task[i].item[r]].deleted
  <2>1. HasRevision(r, i, task[i].item[r])
    BY <1>1, <1>5, <1>6, LoadedRevision DEF ActiveStages
  <2>2. revisions'[r][i][task[i].item[r]] = revisions[r][i][task[i].item[r]]
    BY <2>1 DEF Kept, HasRevision
  <2> QED  BY <1>1, <1>5, <1>6, <2>2 DEF TaskCovers, ActiveStages
<1>7. ASSUME NEW r \in Target(i) \ (task[i].pending \ {s}) PROVE listing[r][i].rev <= saved[r]
  <2>1. task[i].saved \in [Stores -> Nat] /\ r \in Stores
    BY <1>1, <1>4 DEF Tasks
  <2>2. CASE r = s
    <3>1. Latest(s, i) \in Nat /\ listing[s][i].rev \in Nat /\ listing[s][i].rev <= Latest(s, i)
      BY <1>1 DEF TypeOK, Latest, ItemStates, ListingInv
    <3> QED  BY <2>1, <2>2, <3>1
  <2>3. CASE r # s
    BY <1>1, <2>1, <2>3 DEF TaskCovers
  <2> QED  BY <2>2, <2>3
<1>8. Direction(i) = "down" /\ task[i].state["cloud"] = "Deleted" => LocalTakesTombstones
  BY <1>1 DEF TaskCovers
<1> HIDE DEF saved
<1> QED  BY <1>2, <1>3, <1>4, <1>6, <1>7, <1>8 DEF TaskCovers

\* Every step keeps the tasks covering.
LEMMA TasksStep ==
  ASSUME IInv, ListingInv, \A i \in Items : TaskCovers(i), [Next]_vars
  PROVE  \A i \in Items : TaskCovers(i)'
<1>1. TypeOK /\ Kept
  BY NextKeeps DEF IInv
<1>2. CASE UNCHANGED <<task, listing>>
  BY <1>1, <1>2, TaskCoversStable
<1>3. CASE progress'.state # "SyncingItems"
  <2>1. \A i \in Items : task'[i].stage = "idle"
    BY <1>3, NextStep DEF IInv, PhaseInv
  <2> QED  BY <2>1, WaitingCovers DEF ActiveStages
<1>4. ASSUME NEW i \in Items, NEW outcome \in {"updated", "failed"},
             task[i].stage \in ActiveStages, ItemDone(i, outcome)
      PROVE  \A j \in Items : TaskCovers(j)'
  BY <1>1, <1>4, OtherTasksCover
<1>5. ASSUME NEW i \in Items, StoreCall(i) \/ CallFails(i)
      PROVE  \A j \in Items : TaskCovers(j)'
  <2>1. CASE \E s \in Stores : LoadItem(i, s)
    <3>1. \A j \in Items \ {i} : task'[j] = task[j] /\ listing' = listing
      BY <1>1, <2>1 DEF LoadItem, TypeOK
    <3> QED  BY <1>1, <2>1, <3>1, LoadItemCovers, TaskCoversStable
  <2>2. CASE \E s \in Stores : SaveItem(i, s)
    <3>1. \A j \in Items \ {i} : task'[j] = task[j] /\ listing' = listing
      BY <1>1, <2>2 DEF SaveItem, TypeOK
    <3> QED  BY <1>1, <2>2, <3>1, SaveItemCovers, TaskCoversStable
  <2>3. CASE MergeAndSyncItem(i)
    <3>1. \A j \in Items \ {i} : task'[j] = task[j] /\ listing' = listing
      BY <1>1, <2>3 DEF MergeAndSyncItem, ReadyToSave, TypeOK
    <3> QED  BY <1>1, <2>3, <3>1, MergeAndSyncItemCovers, TaskCoversStable
  <2>4. CASE \/ \E s \in Stores : LoadRejected(i, s) \/ SaveFails(i, s)
             \/ MergeFails(i) \/ SetLastSyncedRevision(i) \/ LoadFails(i) \/ RecordFails(i)
    <3>1. task[i].stage \in ActiveStages /\ \E outcome \in {"updated", "failed"} : ItemDone(i, outcome)
      BY <2>4 DEF LoadRejected, SaveFails, MergeFails, ReadyToSave, SetLastSyncedRevision, LoadFails, RecordFails,
                  ActiveStages
    <3> QED  BY <1>4, <3>1
  <2> QED  BY <1>5, <2>1, <2>2, <2>3, <2>4 DEF StoreCall, CallFails
<1>6. CASE ListingDone
  BY <1>6, ListingDoneCovers
<1>7. CASE SyncItems \/ (\E s \in Stores : ListItemStates(s)) \/ ForgetSync \/ ListingFails \/ Crash
  <2>1. progress'.state # "SyncingItems"
    <3>1. CASE SyncItems \/ Crash
      BY <3>1 DEF SyncItems, Crash, NoProgress
    <3>2. CASE (\E s \in Stores : ListItemStates(s))
      BY <3>2 DEF ListItemStates
    <3>3. CASE ForgetSync
      BY <3>3 DEF ForgetSync, IInv, PhaseInv
    <3>4. CASE ListingFails
      BY <1>1, <3>4 DEF ListingFails, TypeOK, Progress
    <3> QED  BY <1>7, <3>1, <3>2, <3>3, <3>4
  <2> QED  BY <1>3, <2>1
<1>8. CASE LateSave \/ Users \/ UNCHANGED vars
  BY <1>2, <1>8 DEF LateSave, LateSaveLands, LateSaveLost, Users, UserChange, EditItem, RemoveEntry, RemoveItem, syncVars, vars
<1> QED  BY <1>5, <1>6, <1>7, <1>8 DEF Next, Listing, Failure

\* An item that a sync finds unchanged is covered: nothing was listed but what
\* was synced last, or it is gone.
LEMMA UnchangedCovered ==
  ASSUME TypeOK, NEW i \in Items, i \notin Changed PROVE Covered(i)
<1>1. \A s \in Stores : ItemSyncState(s, i) = "Unchanged"
  BY DEF Changed
<1>2. \A s \in Stores : lastSynced[i][s] \in Nat /\ listing[s][i] \in ItemStates
  BY DEF TypeOK
<1>3. CASE \E s \in Stores : Listed(s, i) /\ listing[s][i].deleted
  <2>1. lastSynced[i] = NoPair
    BY <1>1, <1>3 DEF ItemSyncState
  <2>2. Listed("local", i) => listing["local"][i].deleted
    BY <1>1, <2>1 DEF ItemSyncState, Listed, NoPair, Stores
  <2>3. listing["local"][i].deleted \/ listing["cloud"][i].deleted
    BY <1>3 DEF Stores
  <2> QED  BY <2>1, <2>2, <2>3 DEF Covered
<1>4. CASE \A s \in Stores : ~Listed(s, i) \/ ~listing[s][i].deleted
  <2>1. \A s \in Stores : listing[s][i].rev = 0 \/ listing[s][i].rev = lastSynced[i][s]
    BY <1>1, <1>4 DEF ItemSyncState, Listed, NoItem
  <2>2. \A s \in Stores : listing[s][i].rev <= lastSynced[i][s]
    BY <1>2, <2>1 DEF ItemStates
  <2> QED  BY <2>2 DEF Covered
<1> QED  BY <1>3, <1>4

\* The pair that is recorded covers what was listed: the revision that was read
\* in one store, and in the other one a revision that was saved since.
LEMMA SyncedPairCovers ==
  ASSUME IInv, NEW i \in Items, TaskCovers(i), task[i].stage = "recording",
         listing' = listing, lastSynced'[i] = SyncedPair(i)
  PROVE  Covered(i)'
<1>1. TypeOK /\ TaskChange(i) /\ TaskItems(i) /\ TaskSaves(i) /\ task[i] \in Tasks
  BY DEF IInv, TaskInv, TaskOK, TypeOK, ActiveStages
<1>2. "local" \in Stores /\ "cloud" \in Stores /\ \A s \in Stores : s = "local" \/ s = "cloud"
  BY DEF Stores
<1>3. \A s \in Target(i) : listing[s][i].rev <= task[i].saved[s]
  BY <1>1 DEF TaskCovers, TaskSaves
<1>4. \A s \in Stores : task[i].state[s] = "Updated" =>
          /\ listing[s][i].rev <= task[i].item[s]
          /\ ~revisions[s][i][task[i].item[s]].deleted
          /\ HasRevision(s, i, task[i].item[s])
  BY <1>1, LoadedRevision DEF TaskCovers, ActiveStages, HasLoaded
<1>5. ASSUME NEW s \in Stores, task[i].state[s] = "Updated" PROVE ~Loaded(s, i).deleted
  <2>1. task[i].item[s] # Tombstone
    BY <1>1, <1>4, <1>5, RevisionType
  <2> QED  BY <1>4, <1>5, <2>1 DEF Loaded, ItemContent
<1>6. \A s \in Stores : task[i].state[s] \in {"Unchanged", "Updated", "Deleted"}
  BY <1>1 DEF Tasks
<1>7. CASE ~Outgoing(i).deleted /\ Direction(i) = "up"
  <2>1. SyncedPair(i) = [local |-> task[i].item["local"], cloud |-> task[i].saved["cloud"]]
    BY <1>7 DEF SyncedPair
  <2>2. task[i].state["local"] # "Deleted"
    <3>1. task[i].state["local"] = "Deleted" => Loaded("local", i).deleted
      BY <1>1, <1>2 DEF TaskItems, Loaded, ItemContent, TombstoneContent
    <3> QED  BY <1>7, <3>1 DEF Outgoing
  <2>3. task[i].state["local"] = "Updated" /\ Target(i) = {"cloud"}
    BY <1>2, <1>6, <1>7, <2>2, DirectionCases
  <2> QED  BY <1>2, <1>3, <1>4, <2>1, <2>3 DEF Covered
<1>8. CASE ~Outgoing(i).deleted /\ Direction(i) # "up"
  <2>1. SyncedPair(i) = [local |-> task[i].saved["local"], cloud |-> task[i].item["cloud"]]
    BY <1>8 DEF SyncedPair
  <2>2. "local" \in Target(i) /\ task[i].state["cloud"] # "Unchanged"
    BY <1>1, <1>2, <1>8, DirectionCases DEF TaskChange
  <2>3. task[i].state["cloud"] # "Deleted"
    <3>1. CASE Direction(i) = "merge"
      BY <1>2, <3>1, DirectionCases
    <3>2. CASE Direction(i) = "down"
      <4>1. task[i].state["cloud"] = "Deleted" => Loaded("cloud", i).deleted
        BY <1>1, <1>2 DEF TaskItems, Loaded, ItemContent, TombstoneContent
      <4> QED  BY <1>8, <3>2, <4>1 DEF Outgoing
    <3> QED  BY <1>8, <3>1, <3>2, DirectionCases
  <2> QED  BY <1>2, <1>3, <1>4, <1>6, <2>1, <2>2, <2>3 DEF Covered
<1>9. CASE Outgoing(i).deleted
  <2>1. SyncedPair(i) = NoPair
    BY <1>9 DEF SyncedPair
  <2>2. \/ task[i].state["local"] = "Deleted"
        \/ task[i].state["cloud"] = "Deleted" /\ LocalTakesTombstones
    <3>1. CASE Direction(i) = "merge"
      BY <1>9, <3>1 DEF Outgoing, Merge
    <3>2. CASE Direction(i) = "up"
      BY <1>2, <1>5, <1>6, <1>9, <3>2, DirectionCases DEF Outgoing
    <3>3. CASE Direction(i) = "down"
      <4>1. task[i].state["cloud"] # "Unchanged"
        BY <1>1, <1>2, <3>3, DirectionCases DEF TaskChange
      <4>2. Loaded("cloud", i).deleted
        BY <1>9, <3>3 DEF Outgoing
      <4>3. task[i].state["cloud"] = "Deleted"
        BY <1>2, <1>5, <1>6, <4>1, <4>2
      <4> QED  BY <3>3, <4>3 DEF TaskCovers
    <3> QED  BY <3>1, <3>2, <3>3, DirectionCases
  <2>3. \/ listing["local"][i].deleted
        \/ listing["cloud"][i].deleted /\ LocalTakesTombstones
    BY <1>1, <1>2, <2>2 DEF TaskChange
  <2> QED  BY <2>1, <2>3 DEF Covered
<1> QED  BY <1>7, <1>8, <1>9

\* The listener leaves the count of failed items alone.
LEMMA AdvanceFailed ==
  ASSUME NEW STATE p, NEW STATE q, NEW STATE t, p \in Progress, Advance(p, q, t)
  PROVE  progress'.failed = p.failed
  BY DEF Advance, Progress

\* An item that is done is counted as what it is.
LEMMA ItemDoneFailed ==
  ASSUME IInv, NEW i \in Items, NEW outcome \in {"updated", "failed"},
         task[i].stage \in ActiveStages, ItemDone(i, outcome)
  PROVE  progress'.failed = IF outcome = "failed" THEN progress.failed + 1 ELSE progress.failed
<1> DEFINE p == [progress EXCEPT !.active = @ - 1, ![outcome] = @ + 1]
<1>1. progress \in Progress /\ progress.active \in Nat \ {0}
  <2>1. progress.state = "SyncingItems"
    BY DEF IInv, PhaseInv, ActiveStages
  <2> QED  BY <2>1, MaxActiveAssumption DEF IInv, TypeOK, ProgressAddsUp
<1>2. p \in Progress /\ p.failed = IF outcome = "failed" THEN progress.failed + 1 ELSE progress.failed
  <2>1. CASE outcome = "failed"
    <3>1. p = [progress EXCEPT !.active = progress.active - 1, !.failed = progress.failed + 1]
      BY <1>1, <2>1 DEF Progress
    <3>2. progress.active - 1 \in Nat /\ progress.failed + 1 \in Nat
      BY <1>1 DEF Progress
    <3> HIDE DEF p
    <3> QED  BY <1>1, <2>1, <3>1, <3>2 DEF Progress
  <2>2. CASE outcome = "updated"
    <3>1. p = [progress EXCEPT !.active = progress.active - 1, !.updated = progress.updated + 1]
      BY <1>1, <2>2 DEF Progress
    <3>2. progress.active - 1 \in Nat /\ progress.updated + 1 \in Nat
      BY <1>1 DEF Progress
    <3> HIDE DEF p
    <3> QED  BY <1>1, <2>2, <3>1, <3>2 DEF Progress
  <2> QED  BY <2>1, <2>2
<1>3. Advance(p, syncQueue, [task EXCEPT ![i] = IdleTask])
  BY DEF ItemDone
<1> HIDE DEF p
<1> QED  BY <1>2, <1>3, AdvanceFailed

\* While no item fails the ones that are done stay covered.
LEMMA DoneStep ==
  ASSUME IInv, \A i \in Items : TaskCovers(i), DoneCovered, [Next]_vars
  PROVE  DoneCovered'
<1>1. TypeOK /\ progress \in Progress /\ progress.failed \in Nat
  BY DEF IInv, TypeOK, Progress
<1>2. CASE progress'.state # "SyncingItems" /\ currentSync' # "resolved"
  BY <1>2 DEF DoneCovered
<1>3. CASE /\ UNCHANGED <<progress, currentSync, lastSynced, listing>>
           /\ \A i \in Items : task'[i].stage = "idle" => task[i].stage = "idle"
  BY <1>3 DEF DoneCovered, Covered, Listed
<1>4. ASSUME NEW i \in Items, task[i].stage \in ActiveStages, ItemDone(i, "failed")
      PROVE  DoneCovered'
  BY <1>1, <1>4, ItemDoneFailed DEF DoneCovered
<1>5. ASSUME NEW i \in Items, SetLastSyncedRevision(i) PROVE DoneCovered'
  <2>1. task[i].stage \in ActiveStages /\ task[i].stage = "recording" /\ ItemDone(i, "updated")
    BY <1>5 DEF SetLastSyncedRevision, ActiveStages
  <2>2. /\ listing' = listing
        /\ \A j \in Items \ {i} : task'[j].stage = "idle" => task'[j] = task[j]
    <3>1. ASSUME NEW j \in Items \ {i}, task[j].stage = "queued", task'[j] = StartedTask(j, task[j])
          PROVE  task'[j].stage = "loading"
      BY <1>1, <3>1, StartedTaskType DEF TypeOK
    <3> QED  BY <2>1, <3>1, ItemDoneStep
  <2>3. progress'.failed = progress.failed /\ progress.state = "SyncingItems"
    BY <2>1, ItemDoneFailed DEF IInv, PhaseInv
  <2>4. lastSynced'[i] = SyncedPair(i) /\ \A j \in Items \ {i} : lastSynced'[j] = lastSynced[j]
    BY <1>1, <1>5 DEF SetLastSyncedRevision, TypeOK
  <2>5. Covered(i)'
    BY <2>1, <2>2, <2>4, SyncedPairCovers
  <2>6. ASSUME NEW j \in Items \ {i}, progress.failed = 0, task'[j].stage = "idle" PROVE Covered(j)'
    <3>1. Covered(j)
      BY <2>2, <2>3, <2>6 DEF DoneCovered
    <3> QED  BY <2>2, <2>4, <3>1 DEF Covered, Listed
  <2> QED  BY <2>3, <2>5, <2>6 DEF DoneCovered
<1>6. CASE ListingDone
  <2>1. \A i \in Items : i \in Changed => task'[i].stage # "idle"
    <3>1. ASSUME NEW i \in Items, i \in Changed PROVE task'[i].stage # "idle"
      <4>1. /\ QueuedTask(i) \in Tasks /\ QueuedTask(i).stage = "queued"
            /\ StartedTask(i, QueuedTask(i)).stage = "loading"
        BY <1>1, QueuedTaskType, StartedTaskType DEF TypeOK
      <4> QED  BY <1>6, <3>1, <4>1, ListingDoneTasks
    <3> QED  BY <3>1
  <2>2. \A i \in Items : i \notin Changed => Covered(i)'
    BY <1>1, <1>6, UnchangedCovered DEF ListingDone, Covered, Listed
  <2> QED  BY <2>1, <2>2 DEF DoneCovered
<1>7. CASE SyncItems \/ (\E s \in Stores : ListItemStates(s)) \/ ForgetSync \/ ListingFails \/ Crash
  <2>1. CASE SyncItems \/ Crash
    BY <1>2, <2>1 DEF SyncItems, Crash, NoProgress
  <2>2. CASE \E s \in Stores : ListItemStates(s)
    BY <1>2, <2>2 DEF ListItemStates, IInv, PhaseInv
  <2>3. CASE ForgetSync
    BY <1>2, <2>3 DEF ForgetSync, IInv, PhaseInv
  <2>4. CASE ListingFails
    BY <1>1, <1>2, <2>4 DEF ListingFails, Progress
  <2> QED  BY <1>7, <2>1, <2>2, <2>3, <2>4
<1>8. CASE LateSave \/ Users \/ UNCHANGED vars
  BY <1>3, <1>8 DEF LateSave, LateSaveLands, LateSaveLost, Users, UserChange, EditItem, RemoveEntry, RemoveItem, syncVars, vars
<1>9. ASSUME NEW i \in Items, NEW s \in Stores, LoadItem(i, s) \/ SaveItem(i, s) \/ MergeAndSyncItem(i)
      PROVE  DoneCovered'
  <2>1. UNCHANGED <<progress, currentSync, lastSynced, listing>>
    BY <1>9 DEF LoadItem, SaveItem, MergeAndSyncItem, ReadyToSave
  <2>2. task'[i].stage # "idle" /\ \A j \in Items \ {i} : task'[j] = task[j]
    <3>1. CASE LoadItem(i, s)
      BY <1>1, <3>1 DEF LoadItem, TypeOK, Tasks
    <3>2. CASE SaveItem(i, s)
      BY <1>1, <3>2 DEF SaveItem, TypeOK, Tasks
    <3>3. CASE MergeAndSyncItem(i)
      BY <1>1, <3>3 DEF MergeAndSyncItem, ReadyToSave, TypeOK, Tasks
    <3> QED  BY <1>9, <3>1, <3>2, <3>3
  <2> QED  BY <1>3, <2>1, <2>2
<1>10. ASSUME NEW i \in Items, StoreCall(i) \/ CallFails(i) PROVE DoneCovered'
  <2>1. CASE \/ \E s \in Stores : LoadRejected(i, s) \/ SaveFails(i, s)
             \/ MergeFails(i) \/ LoadFails(i) \/ RecordFails(i)
    <3>1. task[i].stage \in ActiveStages /\ ItemDone(i, "failed")
      BY <2>1 DEF LoadRejected, SaveFails, MergeFails, ReadyToSave, LoadFails, RecordFails, ActiveStages
    <3> QED  BY <1>4, <3>1
  <2> QED  BY <1>5, <1>9, <1>10, <2>1 DEF StoreCall, CallFails, Stores
<1> QED  BY <1>6, <1>7, <1>8, <1>10 DEF Next, Listing, Failure

\* A sync that reports no failed item has synced every item as it was listed, or
\* a newer revision of it, whatever the users of both stores do meanwhile.
THEOREM SyncsCoverListing == Spec => []CompletedSyncCoversListing
<1>1. Init => CoverInv
  <2> SUFFICES ASSUME Init PROVE CoverInv
    OBVIOUS
  <2>1. ListingInv
    BY DEF Init, ListingInv, Unlisted, NoItem, Latest
  <2>2. \A i \in Items : TaskCovers(i)
    BY IdleTaskType DEF Init, TaskCovers, ActiveStages
  <2>3. DoneCovered
    BY DEF Init, DoneCovered, NoProgress
  <2> QED  BY <2>1, <2>2, <2>3 DEF CoverInv
<1>2. IInv /\ CoverInv /\ [Next]_vars => CoverInv'
  <2> SUFFICES ASSUME IInv, CoverInv, [Next]_vars PROVE CoverInv'
    OBVIOUS
  <2> QED  BY ListingStep, TasksStep, DoneStep DEF CoverInv
<1>3. IInv /\ CoverInv => CompletedSyncCoversListing
  <2> SUFFICES ASSUME IInv, CoverInv, currentSync = "resolved", progress.failed = 0
               PROVE  \A i \in Items : Covered(i)
    BY DEF CompletedSyncCoversListing
  <2>1. \A i \in Items : task[i].stage = "idle"
    BY DEF IInv, PhaseInv
  <2> QED  BY <2>1 DEF CoverInv, DoneCovered
<1> QED  BY <1>1, <1>2, <1>3, InductiveInvariant, PTL DEF Spec

-----------------------------------------------------------------------------
(* What the user has changed since the last sync is not overwritten *)

Quiet == ~EditsDuringSync /\ "save" \notin FaultKinds

\* The local item is the one there was.
SameLocal(i) == revisions'["local"][i] = revisions["local"][i]

\* Where the user does not, nothing but a sync's save changes the local store.
LEMMA LocalUnchanged ==
  ASSUME Quiet, IInv, QuietInv, [Next]_vars, currentSync # "none" \/ edits' = edits,
         NEW i \in Items, ~SaveItem(i, "local")
  PROVE  SameLocal(i)
<1>1. revisions \in [Stores -> [Items -> Seq(Contents)]]
  BY DEF IInv, TypeOK
<1>2. ASSUME NEW s \in Stores, NEW j \in Items, NEW c, revisions' = Saved(s, j, c), s # "local" \/ j # i
      PROVE  SameLocal(i)
  BY <1>1, <1>2 DEF Saved, SameLocal, Stores
<1>3. CASE revisions' = revisions
  BY <1>3 DEF SameLocal
<1>4. CASE LateSave
  <2>1. ASSUME NEW m \in late, LateSaveLands(m) PROVE SameLocal(i)
    <3>1. m.store = "cloud" /\ m.store \in Stores /\ m.item \in Items
      BY DEF QuietInv, IInv, TypeOK, LateSaves
    <3> QED  BY <1>2, <2>1, <3>1 DEF LateSaveLands
  <2> QED  BY <1>3, <1>4, <2>1 DEF LateSave, LateSaveLost
<1>5. ~Users
  <2>1. edits \in Nat /\ (currentSync = "none" => edits' # edits + 1)
    BY DEF IInv, TypeOK
  <2> QED  BY <2>1 DEF Quiet, Users, UserChange, EditItem, RemoveEntry, RemoveItem, CanEdit
<1>6. ASSUME NEW j \in Items, StoreCall(j) PROVE SameLocal(i)
  <2>1. ASSUME NEW s \in Stores, SaveItem(j, s) PROVE SameLocal(i)
    BY <1>2, <2>1 DEF SaveItem
  <2> QED  BY <1>3, <1>6, <2>1 DEF StoreCall, LoadItem, LoadRejected, MergeAndSyncItem, ReadyToSave, MergeFails,
                                   SetLastSyncedRevision
<1>7. CASE SyncItems \/ Listing \/ ForgetSync \/ Failure \/ UNCHANGED vars
  BY <1>3, <1>7 DEF SyncItems, Listing, ListItemStates, ListingDone, ForgetSync, Failure,
                    ListingFails, CallFails, LoadFails, SaveFails, RecordFails, Crash, vars
<1> QED  BY <1>4, <1>5, <1>6, <1>7 DEF Next

\* No save to the local store ever lands late: that takes a save that failed.
LEMMA LateStep ==
  ASSUME Quiet, IInv, \A m \in late : m.store = "cloud", [Next]_vars
  PROVE  \A m \in late' : m.store = "cloud"
<1>1. CASE late' \subseteq late
  BY <1>1
<1>2. CASE Crash
  <2>1. \A i \in Items : \A m \in InFlight(i, {"cloud"}) : m.store = "cloud"
    BY DEF InFlight
  <2> QED  BY <1>2, <2>1 DEF Crash
<1>3. ASSUME NEW i \in Items, StoreCall(i) \/ CallFails(i) PROVE late' \subseteq late
  <2>1. ~(\E s \in Stores : SaveFails(i, s))
    BY DEF Quiet, SaveFails, Fault
  <2> QED  BY <1>3, <2>1 DEF StoreCall, CallFails, LoadItem, LoadRejected, SaveItem, MergeAndSyncItem, ReadyToSave,
                             MergeFails, SetLastSyncedRevision, LoadFails, RecordFails
<1>4. CASE SyncItems \/ Listing \/ ForgetSync \/ ListingFails \/ LateSave \/ Users \/ UNCHANGED vars
  <2>1. late' \subseteq late
    BY <1>4 DEF SyncItems, Listing, ListItemStates, ListingDone, ForgetSync, ListingFails, LateSave,
                LateSaveLands, LateSaveLost, Users, UserChange, EditItem, RemoveEntry, RemoveItem, vars
  <2> QED  BY <1>1, <2>1
<1> QED  BY <1>1, <1>2, <1>3, <1>4 DEF Next, Failure

\* The listing of the local store stays current until the sync of items begins.
LEMMA ListingCurrentStep ==
  ASSUME Quiet, IInv, QuietInv, [Next]_vars PROVE ListingCurrent'
<1> SUFFICES ASSUME progress'.state = "ListingItems", "local" \notin unlisted', NEW i \in Items
             PROVE  listing'["local"][i].rev = Latest("local", i)'
  BY DEF ListingCurrent
<1>1. TypeOK /\ IInv' /\ currentSync' = "pending" /\ \A j \in Items : task'[j].stage = "idle"
  BY NextStep DEF IInv, PhaseInv
<1>2. "local" \in Stores
  BY DEF Stores
<1>3. CASE UNCHANGED <<progress, listing, unlisted>>
  <2>1. currentSync = "pending" /\ \A j \in Items : task[j].stage = "idle"
    BY <1>3 DEF IInv, PhaseInv
  <2>2. SameLocal(i)
    BY <2>1, LocalUnchanged DEF SaveItem
  <2> QED  BY <1>3, <2>2 DEF QuietInv, ListingCurrent, SameLocal, Latest
<1>4. CASE \E s \in Stores : ListItemStates(s)
  <2>1. PICK s \in Stores : ListItemStates(s)
    BY <1>4
  <2>2. Latest("local", i)' = Latest("local", i)
    BY <2>1 DEF ListItemStates, Latest
  <2>3. CASE s = "local"
    BY <1>1, <1>2, <2>1, <2>2, <2>3 DEF ListItemStates, TypeOK
  <2>4. CASE s # "local"
    BY <1>1, <1>2, <2>1, <2>2, <2>4 DEF ListItemStates, TypeOK, QuietInv, ListingCurrent
  <2> QED  BY <2>3, <2>4
<1>5. ~SyncItems /\ ~ForgetSync /\ ~Crash /\ ~ListingFails
  BY <1>1, <1>2 DEF SyncItems, ForgetSync, Crash, ListingFails
<1>6. ~ListingDone
  <2>1. ASSUME ListingDone PROVE progress'.state \in {"Idle", "SyncingItems"}
    <3>1. PICK q : \E t : Advance([progress EXCEPT !.state = "SyncingItems", !.total = Len(q)], q, t)
      BY <2>1 DEF ListingDone
    <3>2. [progress EXCEPT !.state = "SyncingItems", !.total = Len(q)].state = "SyncingItems"
      BY <1>1 DEF TypeOK, Progress
    <3>3. progress.state = "ListingItems" /\ progress \in Progress
      BY <1>1, <2>1 DEF ListingDone, TypeOK
    <3> QED  BY <3>1, <3>3 DEF Advance, Progress
  <2> QED  BY <2>1
<1>7. ASSUME NEW j \in Items, StoreCall(j) \/ CallFails(j) PROVE FALSE
  <2>1. task[j].stage # "idle"
    BY <1>7 DEF StoreCall, CallFails, LoadItem, LoadRejected, SaveItem, MergeAndSyncItem, ReadyToSave,
                MergeFails, SetLastSyncedRevision, LoadFails, RecordFails, SaveFails
  <2>2. progress.state = "SyncingItems"
    BY <2>1 DEF IInv, PhaseInv
  <2>3. CASE task'[j].stage # "idle"
    BY <1>1, <2>3
  <2>4. CASE UNCHANGED progress
    BY <2>2, <2>4
  <2>5. ASSUME NEW outcome \in {"updated", "failed"}, ItemDone(j, outcome)
        PROVE progress'.state \in {"Idle", "SyncingItems"}
    <3>1. [progress EXCEPT !.active = @ - 1, ![outcome] = @ + 1].state = "SyncingItems"
      BY <1>1, <2>2, <2>5 DEF TypeOK, Progress
    <3> QED  BY <1>1, <2>2, <2>5, <3>1 DEF ItemDone, Advance, TypeOK, Progress
  <2> QED  BY <1>7, <2>4, <2>5 DEF StoreCall, CallFails, LoadItem, LoadRejected, SaveItem, MergeAndSyncItem, ReadyToSave,
                MergeFails, SetLastSyncedRevision, LoadFails, RecordFails, SaveFails
<1>8. CASE LateSave \/ Users \/ UNCHANGED vars
  BY <1>3, <1>8 DEF LateSave, LateSaveLands, LateSaveLost, Users, UserChange, EditItem, RemoveEntry, RemoveItem, syncVars, vars
<1> QED  BY <1>4, <1>5, <1>6, <1>7, <1>8 DEF Next, Listing, Failure

\* A task that goes on as before, about an item that nobody changed, stays
\* current.
LEMMA TaskCurrentStable ==
  ASSUME NEW i \in Items, TaskCurrent(i), task'[i] = task[i], SameLocal(i),
         \A s \in Stores : listing'[s][i] = listing[s][i], lastSynced'[i] = lastSynced[i]
  PROVE  TaskCurrent(i)'
<1>1. "local" \in Stores
  BY DEF Stores
<1>2. /\ ItemSyncState("local", i)' = ItemSyncState("local", i)
      /\ HasSaved(i, "local")' = HasSaved(i, "local")
      /\ HasLoaded(i, "local")' = HasLoaded(i, "local")
      /\ Latest("local", i)' = Latest("local", i)
  BY <1>1 DEF ItemSyncState, Listed, HasSaved, HasLoaded, Target, Direction, Latest, SameLocal
<1> QED  BY <1>1, <1>2 DEF TaskCurrent

\* A task that is created or started is about the local item as it was listed.
LEMMA FreshTaskCurrent ==
  ASSUME TypeOK, NEW i \in Items, NEW STATE t, t \in Tasks, SameLocal(i),
         \A s \in Stores : listing'[s][i] = listing[s][i], lastSynced'[i] = lastSynced[i],
         \A s \in Stores : t.state[s] = "Updated" => Listed(s, i) /\ ~listing[s][i].deleted,
         t.state["local"] = ItemSyncState("local", i),
         Latest("local", i) = listing["local"][i].rev,
         t.stage = "queued", task'[i] \in {t, StartedTask(i, t)}
  PROVE  TaskCurrent(i)'
<1>1. "local" \in Stores
  BY DEF Stores
<1>2. /\ ItemSyncState("local", i)' = ItemSyncState("local", i)
      /\ Latest("local", i)' = Latest("local", i)
  BY <1>1 DEF ItemSyncState, Listed, Latest, SameLocal
<1>3. CASE task'[i] = t
  BY <1>1, <1>2, <1>3 DEF TaskCurrent, ActiveStages
<1>4. CASE task'[i] = StartedTask(i, t)
  <2>1. /\ task'[i].stage = "loading" /\ task'[i].state = t.state
        /\ \A s \in Stores : Listed(s, i) /\ ~listing[s][i].deleted => s \in task'[i].pending
    BY <1>4, StartedTaskType DEF TypeOK
  <2> QED  BY <1>1, <1>2, <2>1 DEF TaskCurrent, HasLoaded
<1> QED  BY <1>3, <1>4

\* What is loaded from the local store is what was listed.
LEMMA LoadItemCurrent ==
  ASSUME IInv, NEW i \in Items, NEW s \in Stores, TaskCurrent(i), LoadItem(i, s)
  PROVE  TaskCurrent(i)'
<1>1. TypeOK /\ task[i] \in Tasks /\ task[i].stage = "loading" /\ s \in task[i].pending
  BY DEF IInv, TypeOK, LoadItem
<1>2. /\ task'[i].stage = "loading" /\ task'[i].state = task[i].state
      /\ task'[i].pending = task[i].pending \ {s}
      /\ task'[i].item = [task[i].item EXCEPT ![s] = Latest(s, i)]
  BY <1>1 DEF LoadItem, TypeOK, Tasks
<1>3. UNCHANGED <<listing, revisions, lastSynced>>
  BY DEF LoadItem
<1>4. task[i].item \in [Stores -> Nat \cup {Tombstone}] /\ "local" \in Stores
  BY <1>1 DEF Tasks, Stores
<1>5. ItemSyncState("local", i)' = ItemSyncState("local", i) /\ Latest("local", i)' = Latest("local", i)
  BY <1>3 DEF ItemSyncState, Listed, Latest
<1>6. task[i].state["local"] = ItemSyncState("local", i) /\ Latest("local", i) = listing["local"][i].rev
  BY <1>1 DEF TaskCurrent, HasSaved
<1>7. ASSUME task[i].state["local"] = "Updated", HasLoaded(i, "local")'
      PROVE  task'[i].item["local"] = listing["local"][i].rev
  <2>1. CASE s = "local"
    BY <1>2, <1>4, <1>6, <2>1
  <2>2. CASE s # "local"
    <3>1. task'[i].item["local"] = task[i].item["local"] /\ HasLoaded(i, "local")
      BY <1>1, <1>2, <1>4, <1>7, <2>2 DEF HasLoaded
    <3> QED  BY <1>1, <1>7, <3>1 DEF TaskCurrent, ActiveStages
  <2> QED  BY <2>1, <2>2
<1> QED  BY <1>2, <1>3, <1>5, <1>6, <1>7 DEF TaskCurrent, HasSaved

\* Beginning to save changes nothing that was loaded.
LEMMA MergeAndSyncItemCurrent ==
  ASSUME IInv, NEW i \in Items, TaskCurrent(i), MergeAndSyncItem(i)
  PROVE  TaskCurrent(i)'
<1>1. TypeOK /\ task[i] \in Tasks /\ task[i].stage = "loading" /\ task[i].pending = {}
  BY DEF IInv, TypeOK, MergeAndSyncItem, ReadyToSave
<1>2. /\ task'[i].stage = "saving" /\ task'[i].state = task[i].state /\ task'[i].item = task[i].item
  BY <1>1 DEF MergeAndSyncItem, ReadyToSave, TypeOK, Tasks
<1>3. UNCHANGED <<listing, revisions, lastSynced>>
  BY DEF MergeAndSyncItem, ReadyToSave
<1>4. ItemSyncState("local", i)' = ItemSyncState("local", i) /\ Latest("local", i)' = Latest("local", i)
  BY <1>3 DEF ItemSyncState, Listed, Latest
<1>5. HasLoaded(i, "local") /\ ~HasSaved(i, "local")
  BY <1>1 DEF HasLoaded, HasSaved
<1> QED  BY <1>1, <1>2, <1>3, <1>4, <1>5 DEF TaskCurrent, ActiveStages

\* A save to the local store is one that has been made.
LEMMA SaveItemCurrent ==
  ASSUME IInv, NEW i \in Items, NEW s \in Stores, TaskCurrent(i), SaveItem(i, s)
  PROVE  TaskCurrent(i)'
<1>1. TypeOK /\ task[i] \in Tasks /\ task[i].stage = "saving" /\ s \in task[i].pending
      /\ task[i].pending \subseteq Target(i)
  BY DEF IInv, TypeOK, SaveItem, TaskInv, TaskOK, TaskSaves
<1>2. /\ task'[i].stage \in {"saving", "recording"} /\ task'[i].state = task[i].state
      /\ task'[i].pending = task[i].pending \ {s} /\ task'[i].item = task[i].item
  BY <1>1 DEF SaveItem, TypeOK, Tasks
<1>3. UNCHANGED <<listing, lastSynced>> /\ revisions' = Saved(s, i, Outgoing(i))
  BY DEF SaveItem
<1>4. Target(i)' = Target(i)
  BY <1>2, Zenon DEF Direction, Target
<1>5. ItemSyncState("local", i)' = ItemSyncState("local", i)
  BY <1>3 DEF ItemSyncState, Listed
<1>6. HasLoaded(i, "local")
  BY <1>1 DEF HasLoaded
<1>7. ~HasSaved(i, "local")' => Latest("local", i)' = listing["local"][i].rev
  <2>1. CASE s = "local"
    BY <1>1, <1>2, <1>4, <2>1 DEF HasSaved
  <2>2. CASE s # "local"
    <3>1. Latest("local", i)' = Latest("local", i)
      BY <1>1, <1>3, <2>2 DEF Saved, Latest, TypeOK, Stores
    <3> QED  BY <1>1, <1>2, <1>4, <2>2, <3>1 DEF HasSaved, TaskCurrent
  <2> QED  BY <2>1, <2>2
<1> QED  BY <1>1, <1>2, <1>3, <1>5, <1>6, <1>7 DEF TaskCurrent, ActiveStages

\* A task that a step leaves alone stays current.
LEMMA OthersStayCurrent ==
  ASSUME Quiet, IInv, QuietInv, [Next]_vars, NEW j \in Items, task'[j] = task[j],
         \A s \in Stores : listing'[s][j] = listing[s][j], lastSynced'[j] = lastSynced[j]
  PROVE  TaskCurrent(j)'
<1>1. CASE task[j].stage = "idle"
  BY <1>1 DEF TaskCurrent
<1>2. CASE task[j].stage # "idle"
  <2>1. currentSync # "none" /\ TypeOK /\ TaskCurrent(j)
    BY <1>2 DEF IInv, PhaseInv, QuietInv
  <2>2. ASSUME SaveItem(j, "local") PROVE FALSE
    <3>1. task[j] \in Tasks
      BY <2>1 DEF TypeOK
    <3>2. "local" \in task[j].pending /\ task'[j].pending = task[j].pending \ {"local"}
      BY <2>1, <2>2, <3>1 DEF SaveItem, TypeOK, Tasks
    <3> QED  BY <3>2
  <2>3. SameLocal(j)
    BY <2>1, <2>2, LocalUnchanged
  <2> QED  BY <2>1, <2>3, TaskCurrentStable
<1> QED  BY <1>1, <1>2

\* When an item is done, those that were queued and are started are about the
\* local items as they were listed.
LEMMA ItemDoneCurrent ==
  ASSUME Quiet, IInv, QuietInv, [Next]_vars, NEW i \in Items, NEW outcome \in {"updated", "failed"},
         task[i].stage \in ActiveStages, ItemDone(i, outcome),
         \A j \in Items \ {i} : lastSynced'[j] = lastSynced[j], revisions' = revisions
  PROVE  \A j \in Items : TaskCurrent(j)'
<1>1. /\ task'[i] = IdleTask /\ listing' = listing
      /\ \A j \in Items \ {i} :
           \/ task'[j] = task[j]
           \/ task[j].stage = "queued" /\ task'[j] = StartedTask(j, task[j])
  BY ItemDoneStep
<1>2. TaskCurrent(i)'
  BY <1>1, IdleTaskType DEF TaskCurrent
<1>3. ASSUME NEW j \in Items \ {i}, task'[j] = task[j] PROVE TaskCurrent(j)'
  BY <1>1, <1>3, OthersStayCurrent
<1>4. ASSUME NEW j \in Items \ {i}, task[j].stage = "queued", task'[j] = StartedTask(j, task[j])
      PROVE  TaskCurrent(j)'
  <2>1. TypeOK /\ task[j] \in Tasks /\ TaskChange(j) /\ TaskCurrent(j)
    BY <1>4 DEF IInv, TypeOK, TaskInv, TaskOK, QuietInv
  <2>2. SameLocal(j) /\ ~HasSaved(j, "local")
    BY <1>4 DEF SameLocal, HasSaved
  <2> QED  BY <1>1, <1>4, <2>1, <2>2, FreshTaskCurrent DEF TaskChange, TaskCurrent
<1> QED  BY <1>1, <1>2, <1>3, <1>4

\* The tasks that the listing makes are about the local items as they are.
LEMMA ListingDoneCurrent ==
  ASSUME IInv, QuietInv, ListingDone PROVE \A i \in Items : TaskCurrent(i)'
<1> SUFFICES ASSUME NEW i \in Items PROVE TaskCurrent(i)'
  OBVIOUS
<1>1. TypeOK /\ UNCHANGED <<listing, lastSynced, revisions>>
  BY DEF IInv, ListingDone
<1>2. CASE i \notin Changed
  BY <1>2, ListingDoneTasks, IdleTaskType DEF TaskCurrent
<1>3. CASE i \in Changed
  <2>1. /\ QueuedTask(i) \in Tasks /\ QueuedTask(i).stage = "queued"
        /\ \A s \in Stores : QueuedTask(i).state[s] = ItemSyncState(s, i)
    BY QueuedTaskType
  <2>2. Latest("local", i) = listing["local"][i].rev
    BY DEF ListingDone, QuietInv, ListingCurrent
  <2>3. task'[i] \in {QueuedTask(i), StartedTask(i, QueuedTask(i))}
    BY <1>3, ListingDoneTasks
  <2>4. \A s \in Stores : QueuedTask(i).state[s] = "Updated" => Listed(s, i) /\ ~listing[s][i].deleted
    BY <1>1, <1>3, <2>1, ChangeListed
  <2>5. SameLocal(i) /\ "local" \in Stores
    BY <1>1 DEF SameLocal, Stores
  <2> QED  BY <1>1, <2>1, <2>2, <2>3, <2>4, <2>5, FreshTaskCurrent
<1> QED  BY <1>2, <1>3

\* Every step keeps the tasks current.
LEMMA TasksStayCurrent ==
  ASSUME Quiet, IInv, QuietInv, [Next]_vars
  PROVE  \A i \in Items : TaskCurrent(i)'
<1>1. TypeOK /\ \A i \in Items : TaskCurrent(i)
  BY DEF IInv, QuietInv
<1>2. CASE UNCHANGED <<task, listing, lastSynced>>
  BY <1>2, OthersStayCurrent
<1>3. CASE progress'.state # "SyncingItems"
  <2>1. \A i \in Items : task'[i].stage = "idle"
    BY <1>3, NextStep DEF IInv, PhaseInv
  <2> QED  BY <2>1 DEF TaskCurrent
<1>4. ASSUME NEW i \in Items, StoreCall(i) \/ CallFails(i)
      PROVE  \A j \in Items : TaskCurrent(j)'
  <2>1. CASE \E s \in Stores : LoadItem(i, s)
    <3>1. \A j \in Items \ {i} : task'[j] = task[j] /\ UNCHANGED <<listing, lastSynced>>
      BY <1>1, <2>1 DEF LoadItem, TypeOK
    <3> QED  BY <1>1, <2>1, <3>1, LoadItemCurrent, OthersStayCurrent
  <2>2. CASE \E s \in Stores : SaveItem(i, s)
    <3>1. \A j \in Items \ {i} : task'[j] = task[j] /\ UNCHANGED <<listing, lastSynced>>
      BY <1>1, <2>2 DEF SaveItem, TypeOK
    <3> QED  BY <1>1, <2>2, <3>1, SaveItemCurrent, OthersStayCurrent
  <2>3. CASE MergeAndSyncItem(i)
    <3>1. \A j \in Items \ {i} : task'[j] = task[j] /\ UNCHANGED <<listing, lastSynced>>
      BY <1>1, <2>3 DEF MergeAndSyncItem, ReadyToSave, TypeOK
    <3> QED  BY <1>1, <2>3, <3>1, MergeAndSyncItemCurrent, OthersStayCurrent
  <2>4. CASE \/ \E s \in Stores : LoadRejected(i, s) \/ SaveFails(i, s)
             \/ MergeFails(i) \/ SetLastSyncedRevision(i) \/ LoadFails(i) \/ RecordFails(i)
    <3>1. task[i].stage \in ActiveStages /\ \E outcome \in {"updated", "failed"} : ItemDone(i, outcome)
      BY <2>4 DEF LoadRejected, SaveFails, MergeFails, ReadyToSave, SetLastSyncedRevision, LoadFails, RecordFails,
                  ActiveStages
    <3>2. revisions' = revisions /\ \A j \in Items \ {i} : lastSynced'[j] = lastSynced[j]
      BY <1>1, <2>4 DEF LoadRejected, SaveFails, MergeFails, ReadyToSave, SetLastSyncedRevision, LoadFails,
                        RecordFails, TypeOK
    <3> QED  BY <3>1, <3>2, ItemDoneCurrent
  <2> QED  BY <1>4, <2>1, <2>2, <2>3, <2>4 DEF StoreCall, CallFails
<1>5. CASE ListingDone
  BY <1>5, ListingDoneCurrent
<1>6. CASE SyncItems \/ (\E s \in Stores : ListItemStates(s)) \/ ForgetSync \/ ListingFails \/ Crash
  <2>1. progress'.state # "SyncingItems"
    <3>1. CASE SyncItems \/ Crash
      BY <3>1 DEF SyncItems, Crash, NoProgress
    <3>2. CASE (\E s \in Stores : ListItemStates(s))
      BY <3>2 DEF ListItemStates
    <3>3. CASE ForgetSync
      BY <3>3 DEF ForgetSync, IInv, PhaseInv
    <3>4. CASE ListingFails
      BY <1>1, <3>4 DEF ListingFails, TypeOK, Progress
    <3> QED  BY <1>6, <3>1, <3>2, <3>3, <3>4
  <2> QED  BY <1>3, <2>1
<1>7. CASE LateSave \/ Users \/ UNCHANGED vars
  BY <1>2, <1>7 DEF LateSave, LateSaveLands, LateSaveLost, Users, UserChange, EditItem, RemoveEntry, RemoveItem, syncVars, vars
<1> QED  BY <1>4, <1>5, <1>6, <1>7 DEF Next, Listing, Failure

\* Without edits during a sync and without failed saves, the local store is as
\* it was listed until the sync saves to it.
THEOREM LocalStaysAsListed == ASSUME Quiet PROVE Spec => []QuietInv
<1>1. Init => QuietInv
  BY IdleTaskType DEF Init, QuietInv, ListingCurrent, TaskCurrent, NoProgress
<1>2. IInv /\ QuietInv /\ [Next]_vars => QuietInv'
  <2> SUFFICES ASSUME IInv, QuietInv, [Next]_vars PROVE QuietInv'
    OBVIOUS
  <2>1. \A m \in late' : m.store = "cloud"
    BY LateStep DEF QuietInv
  <2>2. ListingCurrent'
    BY ListingCurrentStep
  <2>3. \A i \in Items : TaskCurrent(i)'
    BY TasksStayCurrent
  <2> QED  BY <2>1, <2>2, <2>3 DEF QuietInv
<1> QED  BY <1>1, <1>2, InductiveInvariant, PTL DEF Spec

\* A save to the local store keeps what the user changed since the last sync.
LEMMA SaveKeepsEdits ==
  ASSUME IInv, QuietInv, NEW i \in Items, SaveItem(i, "local"), SyncWrites(i, "local"),
         lastSynced[i] # NoPair, NEW f \in Fields
  PROVE  \/ Current("local", i).fields[f] \in {Base(i).fields[f], Current("local", i)'.fields[f]}
         \/ CloudAddsOrRemoves(i, f)
<1>1. /\ TypeOK /\ task[i] \in Tasks /\ task[i].stage = "saving" /\ "local" \in task[i].pending
      /\ TaskChange(i) /\ TaskItems(i) /\ TaskSaves(i) /\ TaskCurrent(i) /\ "local" \in Stores
  BY DEF SaveItem, IInv, TypeOK, TaskInv, TaskOK, QuietInv, ActiveStages, Stores
<1>2. Latest("local", i) = listing["local"][i].rev
  BY <1>1 DEF TaskCurrent, HasSaved
<1>3. /\ revisions["local"][i] \in Seq(Contents) /\ Outgoing(i) \in Contents
      /\ revisions'["local"][i] = Append(revisions["local"][i], Outgoing(i))
  BY <1>1, OutgoingType DEF SaveItem, Saved, TypeOK, ActiveStages
<1>4. Current("local", i)' = Outgoing(i)
  BY <1>3 DEF Current, Latest
<1>5. CASE Direction(i) = "down"
  <2>1. ItemSyncState("local", i) = "Unchanged" /\ Latest("local", i) > 0
    BY <1>1, <1>5, DirectionCases DEF TaskCurrent, SyncWrites, IsLive, Exists
  <2>2. Listed("local", i)
    BY <1>2, <2>1 DEF Listed, NoItem
  <2>3. listing["local"][i].rev = lastSynced[i]["local"]
    BY <2>1, <2>2 DEF ItemSyncState
  <2> QED  BY <1>2, <2>3 DEF Current, Base
<1>6. CASE Direction(i) = "merge"
  <2>1. task[i].state["local"] = "Updated" /\ HasLoaded(i, "local")
    BY <1>1, <1>6, DirectionCases DEF HasLoaded
  <2>2. task[i].item["local"] = Latest("local", i) /\ task[i].item["local"] # Tombstone
    BY <1>1, <1>2, <2>1, RevisionType DEF TaskCurrent, TaskItems, ActiveStages
  <2>3. Loaded("local", i) = Current("local", i)
    BY <2>2 DEF Loaded, ItemContent, Current
  <2>4. Outgoing(i) = Merge(Current("local", i), Loaded("cloud", i), Base(i))
    BY <1>6, <2>3 DEF Outgoing
  <2>5. CASE f \in Entries
    <3>1. Outgoing(i).fields[f] = MergeEntry(Base(i).fields[f], Current("local", i).fields[f],
                                             Loaded("cloud", i).fields[f])
      BY <2>4, <2>5 DEF Merge
    <3> QED  BY <1>4, <2>5, <3>1 DEF MergeEntry, CloudAddsOrRemoves
  <2>6. CASE f \notin Entries
    <3>1. Outgoing(i).fields[f] = MergeField(Base(i).fields[f], Current("local", i).fields[f],
                                             Loaded("cloud", i).fields[f])
      BY <2>4, <2>6 DEF Merge
    <3> QED  BY <1>4, <3>1 DEF MergeField
  <2> QED  BY <2>5, <2>6
<1>7. Direction(i) # "up"
  BY <1>1, DirectionCases DEF TaskSaves
<1> QED  BY <1>5, <1>6, <1>7, DirectionCases

\* The syncer never replaces a field that the local user has changed since the
\* item was last synced, the other value it could be given is the one that was
\* synced last; but for the entries that it adds or removes as in the cloud.
THEOREM LocalEditsSurvive == ASSUME Quiet PROVE Spec => UnsyncedLocalEditsSurvive
<1>1. IInv /\ QuietInv /\ [Next]_vars => [\A i \in Items : KeepsLocalEdits(i)]_vars
  <2> SUFFICES ASSUME IInv, QuietInv, [Next]_vars, NEW i \in Items, SyncWrites(i, "local"),
                      lastSynced[i] # NoPair, NEW f \in Fields
               PROVE  \/ Current("local", i).fields[f] \in {Base(i).fields[f], Current("local", i)'.fields[f]}
                      \/ CloudAddsOrRemoves(i, f)
    BY DEF KeepsLocalEdits
  <2>1. CASE SaveItem(i, "local")
    BY <2>1, SaveKeepsEdits
  <2>2. CASE ~SaveItem(i, "local")
    BY <2>2, LocalUnchanged DEF SyncWrites, SameLocal
  <2> QED  BY <2>1, <2>2
<1> QED  BY <1>1, InductiveInvariant, LocalStaysAsListed, PTL DEF Spec, UnsyncedLocalEditsSurvive

-----------------------------------------------------------------------------
(* What the user is told *)

\* No edits during a sync, and no failure once an item is being saved; and no
\* failure of an item at all: a sync may only fail or be cut short as a whole.
Orderly == ~EditsDuringSync /\ FaultKinds \subseteq {"list", "load", "quit"}
Undisturbed == ~EditsDuringSync /\ FaultKinds \subseteq {"list", "quit"}

\* A task saves a removal, or an item that is not removed.
LEMMA OutgoingRemoved ==
  ASSUME IInv, NEW i \in Items, TaskCovers(i), task[i].stage \in {"saving", "recording"}
  PROVE  Outgoing(i).deleted <=> Removes(i)
<1>1. /\ TaskChange(i) /\ TaskItems(i) /\ task[i].stage \in ActiveStages
      /\ \A s \in Stores : HasLoaded(i, s)
      /\ \A s \in Stores : task[i].state[s] \in {"Unchanged", "Updated", "Deleted"}
      /\ "local" \in Stores /\ "cloud" \in Stores /\ \A s \in Stores : s = "local" \/ s = "cloud"
  BY DEF IInv, TypeOK, TaskInv, TaskOK, ActiveStages, HasLoaded, Tasks, Stores
<1>2. ASSUME NEW s \in Stores, task[i].state[s] # "Unchanged"
      PROVE  Loaded(s, i).deleted <=> task[i].state[s] = "Deleted"
  <2>1. CASE task[i].state[s] = "Deleted"
    <3>1. task[i].item[s] = Tombstone
      BY <1>1, <2>1 DEF TaskItems
    <3> QED  BY <2>1, <3>1 DEF Loaded, ItemContent, TombstoneContent
  <2>2. CASE task[i].state[s] = "Updated"
    <3>1. ~revisions[s][i][task[i].item[s]].deleted
      BY <1>1, <2>2 DEF TaskCovers
    <3>2. HasRevision(s, i, task[i].item[s])
      BY <1>1, <2>2, LoadedRevision
    <3>3. task[i].item[s] # Tombstone
      BY <3>2, RevisionType DEF IInv
    <3> QED  BY <2>2, <3>1, <3>3 DEF Loaded, ItemContent
  <2> QED  BY <1>1, <1>2, <2>1, <2>2
<1>3. CASE Direction(i) = "merge"
  BY <1>3 DEF Outgoing, Merge, Removes
<1>4. CASE Direction(i) = "up"
  <2>1. task[i].state["local"] # "Unchanged"
    BY <1>4, DirectionCases
  <2>2. Outgoing(i) = Loaded("local", i)
    BY <1>4 DEF Outgoing
  <2> QED  BY <1>1, <1>2, <1>4, <2>1, <2>2 DEF Removes
<1>5. CASE Direction(i) = "down"
  <2>1. task[i].state["cloud"] # "Unchanged"
    BY <1>1, <1>5, DirectionCases DEF TaskChange
  <2>2. Outgoing(i) = Loaded("cloud", i)
    BY <1>5 DEF Outgoing
  <2> QED  BY <1>1, <1>2, <1>5, <2>1, <2>2 DEF Removes
<1> QED  BY <1>3, <1>4, <1>5, DirectionCases

\* The item that is listed and not removed is there, and so is it when it is removed.
LEMMA ListedIsThere ==
  ASSUME TypeOK, ListingHolds, NEW i \in Items, NEW s \in Stores, Latest(s, i) = listing[s][i].rev
  PROVE  /\ Listed(s, i) <=> Exists(s, i)
         /\ listing[s][i].deleted <=> Exists(s, i) /\ Current(s, i).deleted
         /\ IsLive(s, i) <=> Listed(s, i) /\ ~listing[s][i].deleted
<1>1. Latest(s, i) \in Nat /\ (Listed(s, i) <=> Exists(s, i))
  BY DEF TypeOK, Latest, Listed, NoItem, Exists
<1>2. Exists(s, i) => (listing[s][i].deleted <=> Current(s, i).deleted)
  BY <1>1 DEF ListingHolds, Current
<1>3. listing[s][i].deleted => Listed(s, i)
  BY DEF ListingHolds
<1> QED  BY <1>1, <1>2, <1>3 DEF IsLive

\* The program does not crash while it saves an item.
CrashBetweenItems == Crash /\ \A i \in Items : task[i].stage \notin {"saving", "recording"}

\* What does not go wrong.
LEMMA NothingElseFails ==
  ASSUME Orderly, IInv, SettledInv
  PROVE  /\ ~LateSave
         /\ Crash => CrashBetweenItems
         /\ \A i \in Items :
              ~RecordFails(i) /\ \A s \in Stores : ~LoadRejected(i, s) /\ ~SaveFails(i, s)
<1>1. ~Fault("crash") /\ ~Fault("save") /\ ~Fault("record")
  BY DEF Orderly, Fault
<1>2. \A i \in Items : ~RecordFails(i) /\ \A s \in Stores : ~SaveFails(i, s)
  BY <1>1 DEF SaveFails, RecordFails
<1>3. Crash => CrashBetweenItems
  BY <1>1 DEF Crash, CrashBetweenItems
<1>4. ~LateSave
  BY DEF SettledInv, LateSave
<1>5. ASSUME NEW i \in Items, task[i].stage = "loading"
      PROVE  /\ Unpaired(i)
             /\ \A s \in Stores : Latest(s, i) = listing[s][i].rev
             /\ \A s \in task[i].pending : Listed(s, i) /\ ~listing[s][i].deleted
  <2>1. \A s \in Stores : ~HasSaved(i, s)
    BY <1>5 DEF HasSaved
  <2> QED  BY <1>5, <2>1 DEF SettledInv, TaskSettled
<1>6. ASSUME NEW i \in Items, NEW s \in Stores, LoadRejected(i, s) PROVE FALSE
  BY <1>5, <1>6, ListedIsThere DEF LoadRejected, SettledInv, IInv
<1> QED  BY <1>2, <1>3, <1>4, <1>6

\* An item that is to be merged has a base.
LEMMA MergesHaveBase ==
  ASSUME IInv, SettledInv, NEW i \in Items, ReadyToSave(i), Direction(i) = "merge"
  PROVE  HasBase(i) /\ \A s \in Stores : IsLive(s, i)
<1>1. task[i].stage = "loading" /\ \A s \in Stores : task[i].state[s] = "Updated"
  BY DirectionCases DEF ReadyToSave
<1>2. /\ Unpaired(i)
      /\ \A s \in Stores : Latest(s, i) = listing[s][i].rev
  <2>1. \A s \in Stores : ~HasSaved(i, s)
    BY <1>1 DEF HasSaved
  <2> QED  BY <1>1, <2>1 DEF SettledInv, TaskSettled
<1>3. \A s \in Stores : Listed(s, i) /\ ~listing[s][i].deleted
  BY <1>1 DEF IInv, TaskInv, TaskOK, TaskChange
<1>4. \A s \in Stores : IsLive(s, i)
  BY <1>2, <1>3, ListedIsThere DEF SettledInv, IInv
<1>5. "local" \in Stores
  BY DEF Stores
<1>6. lastSynced[i] # NoPair
  BY <1>2, <1>4, <1>5 DEF Unpaired, IsLive
<1> QED  BY <1>4, <1>5, <1>6 DEF HasBase

\* The steps that are left.
FailsUnsaved(i) == LoadFails(i) \/ MergeFails(i)
EarlyFailure == ListingFails \/ (\E i \in Items : FailsUnsaved(i)) \/ CrashBetweenItems

LEMMA OrderlySteps ==
  ASSUME Orderly, IInv, SettledInv, [Next]_vars
  PROVE  \/ SyncItems \/ (\E s \in Stores : ListItemStates(s)) \/ ListingDone \/ ForgetSync
         \/ \E i \in Items : \/ \E s \in Stores : LoadItem(i, s) \/ SaveItem(i, s)
                             \/ MergeAndSyncItem(i) \/ SetLastSyncedRevision(i)
         \/ EarlyFailure
         \/ Users /\ currentSync = "none"
         \/ UNCHANGED vars
<1>1. Users => currentSync = "none"
  BY DEF Orderly, Users, UserChange, EditItem, RemoveEntry, RemoveItem, CanEdit
<1> QED  BY <1>1, NothingElseFails DEF Next, Listing, StoreCall, Failure, CallFails, EarlyFailure, FailsUnsaved

\* What a step writes to the stores.
LEMMA OrderlyWrites ==
  ASSUME Orderly, IInv, SettledInv, [Next]_vars
  PROVE  \/ revisions' = revisions
         \/ \E i \in Items, s \in Stores : SaveItem(i, s) /\ revisions' = Saved(s, i, Outgoing(i))
         \/ /\ currentSync = "none" /\ UNCHANGED <<lastSynced, syncVars>>
            /\ \E i \in Items, s \in Stores : \E c \in Contents :
                 revisions' = Saved(s, i, c) /\ (New(i) \/ IsLive(s, i))
<1>1. CASE SyncItems \/ (\E s \in Stores : ListItemStates(s)) \/ ListingDone \/ ForgetSync \/ UNCHANGED vars
  BY <1>1 DEF SyncItems, ListItemStates, ListingDone, ForgetSync, vars
<1>2. CASE \E i \in Items : \/ \E s \in Stores : LoadItem(i, s) \/ SaveItem(i, s)
                            \/ MergeAndSyncItem(i) \/ SetLastSyncedRevision(i)
  BY <1>2 DEF LoadItem, SaveItem, MergeAndSyncItem, ReadyToSave, SetLastSyncedRevision
<1>3. CASE Users /\ currentSync = "none"
  <2>1. TypeOK
    BY DEF IInv
  <2>2. PICK i \in Items, s \in Stores : UserChange(i, s)
    BY <1>3 DEF Users
  <2> QED  BY <1>3, <2>1, <2>2, UserSaves
<1>4. CASE EarlyFailure
  BY <1>4 DEF EarlyFailure, ListingFails, FailsUnsaved, LoadFails, MergeFails, ReadyToSave, CrashBetweenItems, Crash
<1> QED  BY <1>1, <1>2, <1>3, <1>4, OrderlySteps

\* Once items are being synced the listing is over.
LEMMA ListingOver ==
  ASSUME IInv,
         \/ ListingDone
         \/ \E i \in Items : \/ \E s \in Stores : LoadItem(i, s) \/ SaveItem(i, s)
                             \/ MergeAndSyncItem(i) \/ SetLastSyncedRevision(i)
  PROVE  progress'.state # "ListingItems" /\ progress'.failed = progress.failed /\ currentSync' # "rejected"
         /\ (~ListingDone => progress.state = "SyncingItems")
<1>1. TypeOK /\ progress \in Progress
  BY DEF IInv, TypeOK
<1>2. CASE ListingDone
  <2>1. PICK q : \E t : Advance([progress EXCEPT !.state = "SyncingItems", !.total = Len(q)], q, t)
    BY <1>2 DEF ListingDone
  <2>2. progress.state = "ListingItems" /\ currentSync = "pending"
    BY <1>2 DEF ListingDone, IInv, PhaseInv
  <2>3. progress'.state # "ListingItems" /\ progress'.failed = progress.failed
    BY <1>1, <2>1 DEF Advance, Progress
  <2> QED  BY <1>2, <2>1, <2>2, <2>3 DEF Advance
<1>3. ASSUME NEW i \in Items, task[i].stage # "idle"
      PROVE  progress.state = "SyncingItems" /\ currentSync = "pending"
  BY <1>3 DEF IInv, PhaseInv
<1>4. ASSUME NEW i \in Items, NEW s \in Stores, LoadItem(i, s) \/ SaveItem(i, s) \/ MergeAndSyncItem(i)
      PROVE  UNCHANGED <<progress, currentSync>> /\ task[i].stage # "idle"
  BY <1>4 DEF LoadItem, SaveItem, MergeAndSyncItem, ReadyToSave
<1>5. ASSUME NEW i \in Items, SetLastSyncedRevision(i)
      PROVE  /\ progress'.state # "ListingItems" /\ progress'.failed = progress.failed
             /\ currentSync' # "rejected" /\ progress.state = "SyncingItems"
  <2>1. /\ task[i].stage \in ActiveStages /\ ItemDone(i, "updated") /\ progress.state = "SyncingItems"
        /\ "updated" \in {"updated", "failed"}
    BY <1>3, <1>5 DEF SetLastSyncedRevision, ActiveStages
  <2>2. progress'.failed = progress.failed /\ currentSync' \in {"pending", "resolved"}
    BY <2>1, ItemDoneFailed, ItemDoneStep
  <2>3. progress'.state # "ListingItems"
    <3>1. [progress EXCEPT !.active = @ - 1, !["updated"] = @ + 1].state = "SyncingItems"
      BY <1>1, <2>1 DEF Progress
    <3> QED  BY <1>1, <2>1, <3>1 DEF ItemDone, Advance, Progress
  <2> QED  BY <2>1, <2>2, <2>3
<1> QED  BY <1>2, <1>3, <1>4, <1>5 DEF Stores

\* No save is ever in flight when nobody waits for it.
LEMMA NothingLate ==
  ASSUME Orderly, IInv, SettledInv, [Next]_vars PROVE late' = {}
<1>1. late = {}
  BY DEF SettledInv
<1>2. CASE SyncItems \/ (\E s \in Stores : ListItemStates(s)) \/ ListingDone \/ ForgetSync \/ UNCHANGED vars
  BY <1>1, <1>2 DEF SyncItems, ListItemStates, ListingDone, ForgetSync, vars
<1>3. CASE Users \/ ListingFails \/ \E i \in Items : FailsUnsaved(i)
  BY <1>1, <1>3 DEF Users, UserChange, EditItem, RemoveEntry, RemoveItem, ListingFails, FailsUnsaved, LoadFails, MergeFails, ReadyToSave
<1>4. CASE \E i \in Items : \/ \E s \in Stores : LoadItem(i, s) \/ SaveItem(i, s)
                            \/ MergeAndSyncItem(i) \/ SetLastSyncedRevision(i)
  BY <1>1, <1>4 DEF LoadItem, SaveItem, MergeAndSyncItem, ReadyToSave, SetLastSyncedRevision
<1>5. CASE CrashBetweenItems
  <2>1. {i \in Items : task[i].stage = "saving"} = {}
    BY <1>5 DEF CrashBetweenItems
  <2>2. late' = {m \in late : m.store = "cloud"} \cup UNION {InFlight(i, {"cloud"}) : i \in {}}
    BY <1>5, <2>1 DEF CrashBetweenItems, Crash
  <2> QED  BY <1>1, <2>2
<1> QED  BY <1>2, <1>3, <1>4, <1>5, OrderlySteps DEF EarlyFailure

LEMMA ListingHoldsStep ==
  ASSUME Orderly, IInv, ListingInv, SettledInv, [Next]_vars PROVE ListingHolds'
<1>1. TypeOK /\ TypeOK' /\ Kept /\ ListingHolds /\ ListingInv
      /\ (currentSync = "pending" <=> progress.state # "Idle")
  BY NextStep, NextKeeps DEF IInv, SettledInv, PhaseInv
<1>2. \A s \in Stores, i \in Items : /\ listing[s][i] \in ItemStates /\ listing[s][i].rev \in Nat
                                     /\ Latest(s, i) \in Nat /\ Latest(s, i)' \in Nat
  BY <1>1 DEF TypeOK, ItemStates, Latest
<1>3. ASSUME NEW s \in Stores, NEW i \in Items, listing'[s][i] = listing[s][i]
      PROVE  /\ listing'[s][i].deleted =>
                  Listed(s, i)' /\ revisions'[s][i][listing'[s][i].rev].deleted
             /\ Listed(s, i)' /\ ~listing'[s][i].deleted =>
                  ~revisions'[s][i][listing'[s][i].rev].deleted
  <2>1. Listed(s, i)' = Listed(s, i)
    BY <1>3 DEF Listed
  <2>2. Listed(s, i) => revisions'[s][i][listing[s][i].rev] = revisions[s][i][listing[s][i].rev]
    BY <1>1, <1>2 DEF Listed, NoItem, Kept, ListingInv
  <2> QED  BY <1>1, <1>3, <2>1, <2>2 DEF ListingHolds
<1>4. ASSUME UNCHANGED listing, unlisted' # {} => progress'.state = "ListingItems",
             \A s \in Stores, i \in Items :
               progress'.state = "ListingItems" /\ s \notin unlisted' => listing[s][i].rev = Latest(s, i)'
      PROVE  ListingHolds'
  BY <1>3, <1>4 DEF ListingHolds
<1>5. CASE SyncItems
  BY <1>4, <1>5 DEF SyncItems, NoProgress
<1>6. CASE \/ ListingDone
           \/ \E i \in Items : \/ \E s \in Stores : LoadItem(i, s) \/ SaveItem(i, s)
                               \/ MergeAndSyncItem(i) \/ SetLastSyncedRevision(i)
  <2>1. UNCHANGED <<listing, unlisted>>
    BY <1>6 DEF ListingDone, LoadItem, SaveItem, MergeAndSyncItem, ReadyToSave, SetLastSyncedRevision, ItemDone
  <2>2. unlisted = {}
    BY <1>1, <1>6, ListingOver DEF ListingDone, ListingHolds
  <2> QED  BY <1>4, <1>6, <2>1, <2>2, ListingOver
<1>7. CASE ForgetSync
  <2>1. progress'.state = "Idle" /\ unlisted' = unlisted /\ listing' = Unlisted
    BY <1>1, <1>7 DEF ForgetSync
  <2>2. unlisted' = {}
    BY <1>1, <1>7, <2>1 DEF ListingHolds, ForgetSync
  <2> QED  BY <2>1, <2>2 DEF ListingHolds, Unlisted, Listed, NoItem
<1>8. CASE Users /\ currentSync = "none"
  <2>1. UNCHANGED <<listing, unlisted, progress>> /\ progress.state = "Idle"
    BY <1>1, <1>8 DEF Users, UserChange, EditItem, RemoveEntry, RemoveItem, syncVars
  <2> QED  BY <1>1, <1>4, <2>1 DEF ListingHolds
<1>9. CASE UNCHANGED vars
  BY <1>1, <1>4, <1>9 DEF vars, syncVars, ListingHolds, Latest
<1>10. ASSUME NEW s \in Stores, ListItemStates(s) PROVE ListingHolds'
  <2>1. /\ UNCHANGED <<progress, revisions>> /\ unlisted' = unlisted \ {s} /\ progress.state = "ListingItems"
        /\ \A r \in Stores, i \in Items :
             IF r = s THEN listing'[r][i] = [rev |-> Latest(r, i), deleted |-> Exists(r, i) /\ Current(r, i).deleted]
             ELSE listing'[r][i] = listing[r][i]
    BY <1>1, <1>10 DEF ListItemStates, TypeOK
  <2>2. ASSUME NEW i \in Items
        PROVE  /\ listing'[s][i].deleted =>
                    Listed(s, i)' /\ revisions'[s][i][listing'[s][i].rev].deleted
               /\ Listed(s, i)' /\ ~listing'[s][i].deleted =>
                    ~revisions'[s][i][listing'[s][i].rev].deleted
               /\ listing'[s][i].rev = Latest(s, i)
    <3> DEFINE gone == Exists(s, i) /\ Current(s, i).deleted
    <3>0. listing'[s][i] = [rev |-> Latest(s, i), deleted |-> gone]
      BY <2>1
    <3>1. listing'[s][i].rev = Latest(s, i) /\ (listing'[s][i].deleted <=> Exists(s, i) /\ Current(s, i).deleted)
      <4>1. \A x, y : [rev |-> x, deleted |-> y].rev = x /\ [rev |-> x, deleted |-> y].deleted = y
        OBVIOUS
      <4>2. listing'[s][i].rev = Latest(s, i) /\ listing'[s][i].deleted = gone
        BY <3>0, <4>1
      <4> QED  BY <4>2
    <3> HIDE DEF gone
    <3>2. Listed(s, i)' <=> Exists(s, i)
      BY <1>2, <3>1 DEF Listed, NoItem, Exists
    <3> QED  BY <2>1, <3>1, <3>2 DEF Current
  <2>3. \A r \in Stores, i \in Items : Latest(r, i)' = Latest(r, i)
    BY <2>1 DEF Latest
  <2>4. ASSUME NEW r \in Stores, NEW i \in Items
        PROVE  /\ listing'[r][i].deleted =>
                    Listed(r, i)' /\ revisions'[r][i][listing'[r][i].rev].deleted
               /\ Listed(r, i)' /\ ~listing'[r][i].deleted =>
                    ~revisions'[r][i][listing'[r][i].rev].deleted
               /\ r \notin unlisted' => listing'[r][i].rev = Latest(r, i)'
    <3>1. CASE r = s
      BY <2>2, <2>3, <3>1
    <3>2. CASE r # s
      <4>1. listing'[r][i] = listing[r][i]
        BY <2>1, <3>2
      <4>2. r \notin unlisted' => listing[r][i].rev = Latest(r, i)'
        BY <1>1, <2>1, <2>3, <3>2 DEF ListingHolds
      <4> QED  BY <1>3, <4>1, <4>2
    <3> QED  BY <3>1, <3>2
  <2> QED  BY <2>1, <2>4 DEF ListingHolds
<1>11. CASE ListingFails
  <2>1. UNCHANGED <<listing, revisions>> /\ unlisted' = {} /\ progress'.state = "Idle"
    BY <1>1, <1>11 DEF ListingFails, TypeOK, Progress
  <2> QED  BY <1>4, <2>1
<1>12. ASSUME NEW i \in Items, FailsUnsaved(i) PROVE ListingHolds'
  <2>1. task[i].stage \in ActiveStages /\ ItemDone(i, "failed") /\ progress.state = "SyncingItems"
    BY <1>12 DEF FailsUnsaved, LoadFails, MergeFails, ReadyToSave, ActiveStages, IInv, PhaseInv
  <2>2. UNCHANGED <<listing, unlisted>> /\ unlisted = {}
    BY <1>1, <2>1 DEF ItemDone, ListingHolds
  <2>3. progress'.state # "ListingItems"
    <3>1. progress \in Progress
      BY <1>1 DEF TypeOK
    <3>2. [progress EXCEPT !.active = @ - 1, !["failed"] = @ + 1].state = "SyncingItems"
      BY <2>1, <3>1 DEF Progress
    <3> QED  BY <2>1, <3>1, <3>2 DEF ItemDone, Advance, Progress
  <2> QED  BY <1>4, <2>2, <2>3
<1>13. CASE CrashBetweenItems
  <2>1. listing' = Unlisted /\ unlisted' = {} /\ progress'.state = "Idle"
    BY <1>13 DEF CrashBetweenItems, Crash, NoProgress
  <2> QED  BY <2>1 DEF ListingHolds, Unlisted, Listed, NoItem
<1> QED  BY <1>5, <1>6, <1>7, <1>8, <1>9, <1>10, <1>11, <1>12, <1>13, OrderlySteps DEF EarlyFailure

\* What a save appends to one item.
LEMMA Appended ==
  ASSUME TypeOK, NEW s \in Stores, NEW i \in Items, NEW STATE c, revisions' = Saved(s, i, c)
  PROVE  /\ \A r \in Stores, j \in Items : r # s \/ j # i => revisions'[r][j] = revisions[r][j]
         /\ revisions'[s][i] = Append(revisions[s][i], c)
         /\ Latest(s, i) \in Nat /\ Latest(s, i)' = Latest(s, i) + 1
         /\ \A n \in 1..Latest(s, i) : revisions'[s][i][n] = revisions[s][i][n]
         /\ Current(s, i)' = c
<1>1. revisions \in [Stores -> [Items -> Seq(Contents)]] /\ revisions[s][i] \in Seq(Contents)
  BY DEF TypeOK
<1>2. /\ \A r \in Stores, j \in Items : r # s \/ j # i => revisions'[r][j] = revisions[r][j]
      /\ revisions'[s][i] = Append(revisions[s][i], c)
  BY <1>1 DEF Saved
<1>3. /\ Latest(s, i) \in Nat /\ Latest(s, i)' = Latest(s, i) + 1
      /\ \A n \in 1..Latest(s, i) : revisions'[s][i][n] = revisions[s][i][n]
      /\ revisions'[s][i][Latest(s, i) + 1] = c
  BY <1>1, <1>2 DEF Latest
<1> QED  BY <1>2, <1>3 DEF Current

LEMMA StaysDeadWhenSaved ==
  ASSUME TypeOK, LocalStaysDead, NEW s \in Stores, NEW i \in Items, NEW STATE c,
         revisions' = Saved(s, i, c),
         s = "local" /\ Exists("local", i) /\ Current("local", i).deleted => c.deleted
  PROVE  LocalStaysDead'
<1> SUFFICES ASSUME NEW j \in Items, NEW q \in 1..Latest("local", j)', NEW r \in 1..Latest("local", j)',
                    q < r, revisions'["local"][j][q].deleted
             PROVE  revisions'["local"][j][r].deleted
  BY DEF LocalStaysDead
<1>1. "local" \in Stores
  BY DEF Stores
<1>2. CASE s # "local" \/ j # i
  <2>1. revisions'["local"][j] = revisions["local"][j]
    BY <1>1, <1>2, Appended
  <2> QED  BY <2>1 DEF LocalStaysDead, Latest
<1>3. CASE s = "local" /\ j = i
  <2>1. /\ Latest("local", i) \in Nat /\ Latest("local", i)' = Latest("local", i) + 1
        /\ \A n \in 1..Latest("local", i) : revisions'["local"][i][n] = revisions["local"][i][n]
        /\ revisions'["local"][i][Latest("local", i) + 1] = c
    BY <1>3, Appended DEF Current
  <2>2. q \in 1..Latest("local", i) /\ revisions["local"][i][q].deleted
    BY <1>3, <2>1
  <2>3. CASE r \in 1..Latest("local", i)
    BY <1>3, <2>1, <2>2, <2>3 DEF LocalStaysDead
  <2>4. CASE r = Latest("local", i) + 1
    <3>1. Exists("local", i) /\ Latest("local", i) \in 1..Latest("local", i)
      BY <2>1, <2>2 DEF Exists
    <3>2. Current("local", i).deleted
      <4>1. CASE q = Latest("local", i)
        BY <2>2, <4>1 DEF Current
      <4>2. CASE q < Latest("local", i)
        BY <2>2, <3>1, <4>2 DEF Current, LocalStaysDead
      <4> QED  BY <2>1, <2>2, <4>1, <4>2
    <3> QED  BY <1>3, <2>1, <2>4, <3>1, <3>2
  <2> QED  BY <1>3, <2>1, <2>3, <2>4
<1> QED  BY <1>2, <1>3

\* A removed item of the local store is only saved as one.
LEMMA RemovedStaysRemoved ==
  ASSUME IInv, CoverInv, QuietInv, SettledInv, NEW i \in Items, SaveItem(i, "local"),
         Exists("local", i), Current("local", i).deleted
  PROVE  Outgoing(i).deleted
<1>1. /\ task[i].stage = "saving" /\ "local" \in task[i].pending /\ task[i].pending \subseteq Target(i)
      /\ TaskChange(i) /\ TypeOK /\ TaskCovers(i) /\ TaskCurrent(i) /\ TaskSettled(i) /\ ListingHolds
      /\ "local" \in Stores /\ "cloud" \in Stores /\ \A s \in Stores : s = "local" \/ s = "cloud"
  BY DEF SaveItem, IInv, TaskInv, TaskOK, TaskSaves, CoverInv, QuietInv, SettledInv, Stores
<1>2. ~HasSaved(i, "local") /\ Latest("local", i) = listing["local"][i].rev
  BY <1>1 DEF HasSaved, TaskSettled
<1>3. Listed("local", i) /\ listing["local"][i].deleted
  BY <1>1, <1>2, ListedIsThere
<1>4. Direction(i) = "down" /\ Target(i) = {"local"} /\ task[i].state["local"] = "Unchanged"
  BY <1>1, <1>3, DirectionCases DEF TaskChange
<1>5. lastSynced[i] = NoPair
  BY <1>1, <1>3, <1>4 DEF TaskCurrent, ItemSyncState
<1>6. \A s \in Stores : ~HasSaved(i, s)
  BY <1>1, <1>4 DEF HasSaved
<1>7. Unpaired(i) /\ Latest("cloud", i) = listing["cloud"][i].rev
  BY <1>1, <1>6 DEF TaskSettled
<1>8. task[i].state["cloud"] # "Unchanged" /\ task[i].state["cloud"] \in {"Unchanged", "Updated", "Deleted"}
  BY <1>1, <1>4 DEF TaskChange, TypeOK, Tasks
<1>9. Listed("cloud", i)
  BY <1>1, <1>8 DEF TaskChange
<1>10. \A s \in Stores : Exists(s, i)
  BY <1>1, <1>7, <1>9, ListedIsThere
<1>11. ~IsLive("cloud", i)
  BY <1>1, <1>5, <1>7, <1>10 DEF Unpaired
<1>12. listing["cloud"][i].deleted
  BY <1>1, <1>7, <1>9, <1>11, ListedIsThere
<1>13. task[i].state["cloud"] = "Deleted"
  BY <1>1, <1>8, <1>12 DEF TaskChange
<1> QED  BY <1>1, <1>4, <1>13, OutgoingRemoved DEF Removes

LEMMA StaysDeadStep ==
  ASSUME Orderly, IInv, CoverInv, QuietInv, SettledInv, [Next]_vars PROVE LocalStaysDead'
<1>1. TypeOK /\ LocalStaysDead
  BY DEF IInv, SettledInv
<1>2. CASE revisions' = revisions
  BY <1>1, <1>2 DEF LocalStaysDead, Latest
<1>3. ASSUME NEW i \in Items, NEW s \in Stores, SaveItem(i, s), revisions' = Saved(s, i, Outgoing(i))
      PROVE  LocalStaysDead'
  BY <1>1, <1>3, StaysDeadWhenSaved, RemovedStaysRemoved
<1>4. ASSUME NEW i \in Items, NEW s \in Stores, NEW c \in Contents, revisions' = Saved(s, i, c),
             New(i) \/ IsLive(s, i)
      PROVE  LocalStaysDead'
  BY <1>1, <1>4, StaysDeadWhenSaved DEF New, IsLive
<1> QED  BY <1>2, <1>3, <1>4, OrderlyWrites

\* An item whose revisions and pair stay is unpaired as before.
LEMMA UnpairedStable ==
  ASSUME NEW i \in Items, \A s \in Stores : revisions'[s][i] = revisions[s][i], lastSynced'[i] = lastSynced[i],
         Unpaired(i)
  PROVE  Unpaired(i)'
<1>1. \A s \in Stores : Latest(s, i)' = Latest(s, i) /\ (Exists(s, i)' <=> Exists(s, i))
  BY DEF Latest, Exists
<1>2. \A s \in Stores : IsLive(s, i)' <=> IsLive(s, i)
  BY <1>1 DEF IsLive, Current
<1> QED  BY <1>1, <1>2 DEF Unpaired

\* A task that goes on as before stays settled.
LEMMA SettledStable ==
  ASSUME NEW i \in Items, TaskSettled(i), task'[i] = task[i],
         \A s \in Stores : revisions'[s][i] = revisions[s][i], lastSynced'[i] = lastSynced[i],
         task[i].stage # "idle" => \A s \in Stores : listing'[s][i] = listing[s][i],
         TypeOK
  PROVE  TaskSettled(i)'
<1>1. Unpaired(i) => Unpaired(i)'
  BY UnpairedStable
<1>2. \A s \in Stores : /\ HasSaved(i, s)' <=> HasSaved(i, s)
                        /\ Latest(s, i)' = Latest(s, i) /\ (Current(s, i)' = Current(s, i))
  BY DEF HasSaved, Target, Direction, Latest, Current
<1>3. Removes(i)' <=> Removes(i)
  BY DEF Removes, Direction
<1>4. task[i].stage = "loading" => task[i].pending \subseteq Stores
  BY DEF TypeOK, Tasks
<1>5. task[i].stage # "idle" => \A s \in Stores : Listed(s, i)' <=> Listed(s, i)
  BY DEF Listed
<1> QED  BY <1>1, <1>2, <1>3, <1>4, <1>5 DEF TaskSettled

\* An idle item, or one that waits, has no save.
LEMMA WaitingSettled ==
  ASSUME NEW i \in Items, Unpaired(i)', task'[i].stage \in {"idle", "queued"},
         task'[i].stage # "idle" => \A s \in Stores : Latest(s, i)' = listing'[s][i].rev
  PROVE  TaskSettled(i)'
<1>1. \A s \in Stores : ~HasSaved(i, s)'
  BY DEF HasSaved
<1> QED  BY <1>1 DEF TaskSettled

LEMMA StartedSettled ==
  ASSUME NEW i \in Items, Unpaired(i)', NEW STATE t, task'[i] = StartedTask(i, t), t \in Tasks, TypeOK,
         UNCHANGED listing, \A s \in Stores : Latest(s, i)' = listing[s][i].rev
  PROVE  TaskSettled(i)'
<1>1. /\ task'[i].stage = "loading"
      /\ task'[i].pending = {s \in Stores : Listed(s, i) /\ ~listing[s][i].deleted}
  BY DEF StartedTask, Tasks
<1>2. \A s \in Stores : ~HasSaved(i, s)' /\ (Listed(s, i)' <=> Listed(s, i))
  BY <1>1 DEF HasSaved, Listed
<1> QED  BY <1>1, <1>2 DEF TaskSettled

LEMMA LoadItemSettled ==
  ASSUME IInv, NEW i \in Items, NEW s \in Stores, TaskSettled(i), LoadItem(i, s)
  PROVE  TaskSettled(i)'
<1>1. TypeOK /\ task[i] \in Tasks /\ task[i].stage = "loading"
  BY DEF IInv, TypeOK, LoadItem
<1>2. /\ task'[i].stage = "loading" /\ task'[i].pending = task[i].pending \ {s}
      /\ task'[i].pending \subseteq Stores
  BY <1>1 DEF LoadItem, TypeOK, Tasks
<1>3. UNCHANGED <<listing, revisions, lastSynced>>
  BY DEF LoadItem
<1>4. \A r \in Stores : ~HasSaved(i, r) /\ ~HasSaved(i, r)' /\ (Listed(r, i)' <=> Listed(r, i))
  BY <1>1, <1>2, <1>3 DEF HasSaved, Listed
<1>5. Unpaired(i)'
  BY <1>3, <1>4, UnpairedStable DEF TaskSettled
<1>6. \A r \in Stores : Latest(r, i)' = Latest(r, i)
  BY <1>3 DEF Latest
<1> QED  BY <1>1, <1>2, <1>3, <1>4, <1>5, <1>6 DEF TaskSettled

LEMMA MergeAndSyncItemSettled ==
  ASSUME IInv, NEW i \in Items, TaskSettled(i), MergeAndSyncItem(i)
  PROVE  TaskSettled(i)'
<1>1. TypeOK /\ task[i] \in Tasks /\ task[i].stage = "loading"
  BY DEF IInv, TypeOK, MergeAndSyncItem, ReadyToSave
<1>2. task'[i].stage = "saving" /\ task'[i].pending = Target(i) /\ task'[i].state = task[i].state
  BY <1>1 DEF MergeAndSyncItem, ReadyToSave, TypeOK, Tasks
<1>3. UNCHANGED <<listing, revisions, lastSynced>>
  BY DEF MergeAndSyncItem, ReadyToSave
<1>4. Target(i)' = Target(i)
  BY <1>2, Zenon DEF Direction, Target
<1>5. \A r \in Stores : ~HasSaved(i, r) /\ ~HasSaved(i, r)'
  BY <1>1, <1>2, <1>4 DEF HasSaved
<1>6. Unpaired(i)'
  BY <1>3, <1>5, UnpairedStable DEF TaskSettled
<1>7. \A r \in Stores : Latest(r, i)' = Latest(r, i)
  BY <1>3 DEF Latest
<1> QED  BY <1>1, <1>2, <1>3, <1>5, <1>6, <1>7 DEF TaskSettled

LEMMA SaveItemSettled ==
  ASSUME IInv, CoverInv, NEW i \in Items, NEW s \in Stores, TaskSettled(i), SaveItem(i, s)
  PROVE  TaskSettled(i)'
<1>1. TypeOK /\ task[i] \in Tasks /\ task[i].stage = "saving" /\ s \in task[i].pending
      /\ task[i].pending \subseteq Target(i) /\ task[i].saved \in [Stores -> Nat]
  BY DEF IInv, TypeOK, SaveItem, TaskInv, TaskOK, TaskSaves, Tasks
<1>2. /\ task'[i].stage \in {"saving", "recording"} /\ task'[i].state = task[i].state
      /\ task'[i].pending = task[i].pending \ {s}
      /\ task'[i].saved = [task[i].saved EXCEPT ![s] = Latest(s, i) + 1]
  BY <1>1 DEF SaveItem, TypeOK, Tasks
<1>3. UNCHANGED <<listing, lastSynced>> /\ revisions' = Saved(s, i, Outgoing(i))
  BY DEF SaveItem
<1>4. Target(i)' = Target(i) /\ (Removes(i)' <=> Removes(i))
  BY <1>2, Zenon DEF Direction, Target, Removes
<1>5. Latest(s, i)' = Latest(s, i) + 1 /\ Current(s, i)' = Outgoing(i) /\ Latest(s, i) \in Nat
  BY <1>1, <1>3, Appended
<1>6. Outgoing(i).deleted <=> Removes(i)
  BY <1>1, OutgoingRemoved DEF CoverInv
<1>7. HasSaved(i, s)' /\ task'[i].saved[s] = Latest(s, i)'
  BY <1>1, <1>2, <1>4, <1>5 DEF HasSaved
<1>8. ASSUME NEW r \in Stores, r # s
      PROVE  /\ HasSaved(i, r)' <=> HasSaved(i, r)
             /\ task'[i].saved[r] = task[i].saved[r]
             /\ Latest(r, i)' = Latest(r, i) /\ Current(r, i)' = Current(r, i)
  <2>1. revisions'[r][i] = revisions[r][i]
    BY <1>1, <1>3, <1>8, Appended
  <2> QED  BY <1>1, <1>2, <1>4, <1>8, <2>1 DEF HasSaved, Latest, Current
<1>9. ASSUME NEW r \in Stores
      PROVE  IF HasSaved(i, r)'
             THEN /\ task'[i].saved[r] = Latest(r, i)'
                  /\ Current(r, i)'.deleted <=> Removes(i)'
             ELSE Latest(r, i)' = listing'[r][i].rev
  <2>1. CASE r = s
    BY <1>4, <1>5, <1>6, <1>7, <2>1
  <2>2. CASE r # s
    <3>1. IF HasSaved(i, r)
          THEN task[i].saved[r] = Latest(r, i) /\ (Current(r, i).deleted <=> Removes(i))
          ELSE Latest(r, i) = listing[r][i].rev
      BY <1>1 DEF TaskSettled
    <3> QED  BY <1>3, <1>4, <1>8, <2>2, <3>1
  <2> QED  BY <2>1, <2>2
<1> QED  BY <1>2, <1>7, <1>9 DEF TaskSettled

\* An item that is synced without a pair is removed from both stores.
LEMMA RecordedUnpaired ==
  ASSUME IInv, CoverInv, SettledInv, NEW i \in Items, task[i].stage = "recording", SyncedPair(i) = NoPair
  PROVE  \A s \in Stores : ~IsLive(s, i)
<1>1. /\ TypeOK /\ TaskChange(i) /\ TaskItems(i) /\ TaskSaves(i) /\ TaskCovers(i) /\ TaskSettled(i)
      /\ ListingHolds /\ task[i].pending = {} /\ task[i].stage # "idle"
      /\ "local" \in Stores /\ "cloud" \in Stores /\ "local" # "cloud"
      /\ \A s \in Stores : s = "local" \/ s = "cloud"
  BY DEF IInv, TaskInv, TaskOK, TaskSaves, CoverInv, SettledInv, ActiveStages, Stores
<1>2. Removes(i)
  <2>1. CASE Outgoing(i).deleted
    BY <1>1, <2>1, OutgoingRemoved
  <2>2. CASE ~Outgoing(i).deleted
    <3>1. PICK s \in Target(i) : s \in Stores /\ SyncedPair(i)[s] = task[i].saved[s]
      <4>1. CASE Direction(i) = "up"
        BY <1>1, <2>2, <4>1 DEF SyncedPair, Target
      <4>2. CASE Direction(i) # "up"
        BY <1>1, <2>2, <4>2, DirectionCases DEF SyncedPair, Target
      <4> QED  BY <4>1, <4>2
    <3>2. HasRevision(s, i, task[i].saved[s])
      BY <1>1, <3>1 DEF TaskSaves
    <3>3. task[i].saved[s] # NoItem
      BY <1>1, <3>1, <3>2, RevisionType
    <3> QED  BY <3>1, <3>3 DEF NoPair
  <2> QED  BY <2>1, <2>2
<1>3. ASSUME NEW s \in Stores, HasSaved(i, s) PROVE ~IsLive(s, i)
  BY <1>1, <1>2, <1>3 DEF TaskSettled, IsLive
<1>4. ASSUME NEW s \in Stores, ~HasSaved(i, s), task[i].state[s] = "Deleted" PROVE ~IsLive(s, i)
  <2>1. Latest(s, i) = listing[s][i].rev /\ listing[s][i].deleted
    BY <1>1, <1>4 DEF TaskSettled, TaskChange
  <2> QED  BY <1>1, <2>1, ListedIsThere
<1>5. CASE Direction(i) = "up" /\ task[i].state["local"] = "Deleted"
  <2>1. HasSaved(i, "cloud") /\ ~HasSaved(i, "local")
    BY <1>1, <1>5, DirectionCases DEF HasSaved
  <2> QED  BY <1>1, <1>3, <1>4, <1>5, <2>1
<1>6. CASE Direction(i) = "down" /\ task[i].state["cloud"] = "Deleted"
  <2>1. HasSaved(i, "local") /\ ~HasSaved(i, "cloud")
    BY <1>1, <1>6, DirectionCases DEF HasSaved
  <2> QED  BY <1>1, <1>3, <1>4, <1>6, <2>1
<1> QED  BY <1>2, <1>5, <1>6 DEF Removes

\* What a user changes is in one store only, or was in both.
LEMMA UserKeepsUnpaired ==
  ASSUME TypeOK, NEW i \in Items, NEW s \in Stores, NEW STATE c, revisions' = Saved(s, i, c),
         New(i) \/ IsLive(s, i), UNCHANGED lastSynced, NEW j \in Items, Unpaired(j)
  PROVE  Unpaired(j)'
<1>1. CASE j # i
  <2>1. \A r \in Stores : revisions'[r][j] = revisions[r][j]
    BY <1>1, Appended
  <2> QED  BY <2>1, UnpairedStable
<1>2. CASE j = i
  <2>1. \A r \in Stores : r # s => (Exists(r, i)' <=> Exists(r, i))
    <3>1. \A r \in Stores : r # s => revisions'[r][i] = revisions[r][i]
      BY Appended
    <3> QED  BY <3>1 DEF Exists, Latest
  <2>2. PICK r \in Stores : r # s
    BY DEF Stores
  <2>3. lastSynced[i] = NoPair => ~Exists(r, i)
    <3>1. CASE New(i)
      BY <3>1 DEF New
    <3>2. CASE IsLive(s, i)
      <4>1. \A q \in Stores : q = s \/ q = r
        BY <2>2 DEF Stores
      <4> QED  BY <1>2, <3>2, <4>1 DEF Unpaired, IsLive
    <3> QED  BY <3>1, <3>2
  <2> QED  BY <1>2, <2>1, <2>2, <2>3 DEF Unpaired
<1> QED  BY <1>1, <1>2

LEMMA SettledStep ==
  ASSUME Orderly, IInv, CoverInv, SettledInv, [Next]_vars
  PROVE  \A j \in Items : TaskSettled(j)'
<1> SUFFICES ASSUME NEW j \in Items PROVE TaskSettled(j)'
  OBVIOUS
<1>1. /\ TypeOK /\ TaskSettled(j) /\ ListingHolds /\ PhaseInv
      /\ task[j].stage \in {"idle", "queued"} => Unpaired(j)
  BY DEF IInv, SettledInv, TaskSettled, HasSaved
<1>2. CASE SyncItems \/ UNCHANGED vars
  BY <1>1, <1>2, SettledStable DEF SyncItems, vars, syncVars
<1>3. CASE (\E s \in Stores : ListItemStates(s)) \/ ForgetSync
  <2>1. task[j].stage = "idle" /\ UNCHANGED <<task, revisions, lastSynced>>
    BY <1>1, <1>3 DEF ListItemStates, ForgetSync, PhaseInv
  <2> QED  BY <1>1, <2>1, SettledStable
<1>4. CASE ListingDone
  <2>1. /\ UNCHANGED <<listing, revisions, lastSynced>> /\ unlisted = {} /\ progress.state = "ListingItems"
        /\ task[j].stage = "idle"
    BY <1>1, <1>4 DEF ListingDone, PhaseInv
  <2>2. Unpaired(j)'
    BY <1>1, <2>1, UnpairedStable
  <2>3. \A s \in Stores : Latest(s, j)' = listing[s][j].rev
    BY <1>1, <2>1 DEF ListingHolds, Latest
  <2>4. CASE j \notin Changed
    BY <1>4, <2>2, <2>4, ListingDoneTasks, IdleTaskType, WaitingSettled
  <2>5. CASE j \in Changed
    <3>1. QueuedTask(j) \in Tasks /\ QueuedTask(j).stage = "queued"
      BY QueuedTaskType
    <3>2. task'[j] \in {QueuedTask(j), StartedTask(j, QueuedTask(j))}
      BY <1>4, <2>5, ListingDoneTasks
    <3>3. CASE task'[j] = QueuedTask(j)
      BY <2>1, <2>2, <2>3, <3>1, <3>3, WaitingSettled
    <3>4. CASE task'[j] = StartedTask(j, QueuedTask(j))
      BY <1>1, <2>1, <2>2, <2>3, <3>1, <3>4, StartedSettled
    <3> QED  BY <3>2, <3>3, <3>4
  <2> QED  BY <2>4, <2>5
<1>5. ASSUME NEW i \in Items, NEW s \in Stores, LoadItem(i, s) \/ SaveItem(i, s) \/ MergeAndSyncItem(i)
      PROVE  TaskSettled(j)'
  <2>1. CASE j = i
    BY <1>1, <1>5, <2>1, LoadItemSettled, SaveItemSettled, MergeAndSyncItemSettled
  <2>2. CASE j # i
    <3>1. task'[j] = task[j] /\ UNCHANGED <<listing, lastSynced>>
      BY <1>1, <1>5, <2>2 DEF LoadItem, SaveItem, MergeAndSyncItem, ReadyToSave, TypeOK
    <3>2. \A r \in Stores : revisions'[r][j] = revisions[r][j]
      <4>1. CASE SaveItem(i, s)
        BY <1>1, <2>2, <4>1, Appended DEF SaveItem
      <4>2. CASE LoadItem(i, s) \/ MergeAndSyncItem(i)
        BY <4>2 DEF LoadItem, MergeAndSyncItem, ReadyToSave
      <4> QED  BY <1>5, <4>1, <4>2
    <3> QED  BY <1>1, <3>1, <3>2, SettledStable
  <2> QED  BY <2>1, <2>2
<1>6. ASSUME NEW i \in Items, SetLastSyncedRevision(i) PROVE TaskSettled(j)'
  <2>1. /\ task[i].stage = "recording" /\ task[i].stage \in ActiveStages /\ ItemDone(i, "updated")
        /\ UNCHANGED revisions /\ lastSynced' = [lastSynced EXCEPT ![i] = SyncedPair(i)]
        /\ "updated" \in {"updated", "failed"}
    BY <1>6 DEF SetLastSyncedRevision, ActiveStages
  <2>2. /\ task'[i] = IdleTask /\ listing' = listing
        /\ j # i => \/ task'[j] = task[j]
                    \/ task[j].stage = "queued" /\ task'[j] = StartedTask(j, task[j])
    BY <2>1, ItemDoneStep
  <2>3. \A s \in Stores : Latest(s, j)' = Latest(s, j) /\ (IsLive(s, j)' <=> IsLive(s, j))
    BY <2>1 DEF IsLive, Exists, Current, Latest
  <2>4. CASE j = i
    <3>1. lastSynced'[i] = SyncedPair(i)
      BY <1>1, <2>1 DEF TypeOK
    <3>2. Unpaired(j)'
      BY <2>1, <2>3, <2>4, <3>1, RecordedUnpaired DEF Unpaired
    <3> QED  BY <2>2, <2>4, <3>2, IdleTaskType, WaitingSettled
  <2>5. CASE j # i
    <3>1. lastSynced'[j] = lastSynced[j]
      BY <1>1, <2>1, <2>5 DEF TypeOK
    <3>2. CASE task'[j] = task[j]
      BY <1>1, <2>1, <2>2, <3>1, <3>2, SettledStable
    <3>3. CASE task[j].stage = "queued" /\ task'[j] = StartedTask(j, task[j])
      <4>1. \A s \in Stores : Latest(s, j)' = listing[s][j].rev
        BY <1>1, <2>3, <3>3 DEF TaskSettled, HasSaved
      <4>2. Unpaired(j)' /\ task[j] \in Tasks
        BY <1>1, <2>1, <3>1, <3>3, UnpairedStable DEF TypeOK
      <4> QED  BY <1>1, <2>2, <3>3, <4>1, <4>2, StartedSettled
    <3> QED  BY <2>2, <2>5, <3>2, <3>3
  <2> QED  BY <2>4, <2>5
<1>7. ASSUME currentSync = "none", UNCHANGED <<lastSynced, syncVars>>,
             NEW i \in Items, NEW s \in Stores, NEW c \in Contents, revisions' = Saved(s, i, c),
             New(i) \/ IsLive(s, i)
      PROVE  TaskSettled(j)'
  <2>1. task[j].stage = "idle" /\ task'[j] = task[j]
    BY <1>1, <1>7 DEF PhaseInv, syncVars
  <2>2. Unpaired(j)'
    BY <1>1, <1>7, <2>1, UserKeepsUnpaired
  <2> QED  BY <2>1, <2>2, WaitingSettled
<1>8. CASE Users /\ currentSync = "none"
  <2>1. CASE revisions' = revisions
    <3>1. UNCHANGED <<lastSynced, syncVars>>
      BY <1>8 DEF Users, UserChange, EditItem, RemoveEntry, RemoveItem
    <3> QED  BY <1>1, <2>1, <3>1, SettledStable DEF syncVars
  <2>2. CASE \E i \in Items, s \in Stores : SaveItem(i, s) /\ revisions' = Saved(s, i, Outgoing(i))
    BY <1>1, <1>8, <2>2 DEF SaveItem, PhaseInv
  <2> QED  BY <1>7, <2>1, <2>2, OrderlyWrites
<1>9. CASE ListingFails
  <2>1. task[j].stage = "idle" /\ UNCHANGED <<task, revisions, lastSynced>>
    BY <1>1, <1>9 DEF ListingFails, PhaseInv
  <2> QED  BY <1>1, <2>1, SettledStable
<1>10. ASSUME NEW i \in Items, FailsUnsaved(i) PROVE TaskSettled(j)'
  <2>1. /\ task[i].stage = "loading" /\ task[i].stage \in ActiveStages /\ ItemDone(i, "failed")
        /\ UNCHANGED <<revisions, lastSynced>> /\ "failed" \in {"updated", "failed"}
    BY <1>10 DEF FailsUnsaved, LoadFails, MergeFails, ReadyToSave, ActiveStages
  <2>2. /\ task'[i] = IdleTask /\ listing' = listing
        /\ j # i => \/ task'[j] = task[j]
                    \/ task[j].stage = "queued" /\ task'[j] = StartedTask(j, task[j])
    BY <2>1, ItemDoneStep
  <2>3. \A s \in Stores : Latest(s, j)' = Latest(s, j)
    BY <2>1 DEF Latest
  <2>4. CASE j = i
    <3>1. Unpaired(j)'
      BY <1>1, <2>1, <2>4, UnpairedStable DEF TaskSettled, HasSaved
    <3> QED  BY <2>2, <2>4, <3>1, IdleTaskType, WaitingSettled
  <2>5. CASE j # i /\ task'[j] = task[j]
    BY <1>1, <2>1, <2>2, <2>5, SettledStable
  <2>6. CASE task[j].stage = "queued" /\ task'[j] = StartedTask(j, task[j])
    <3>1. \A s \in Stores : Latest(s, j)' = listing[s][j].rev
      BY <1>1, <2>3, <2>6 DEF TaskSettled, HasSaved
    <3>2. Unpaired(j)' /\ task[j] \in Tasks
      BY <1>1, <2>1, <2>6, UnpairedStable DEF TypeOK
    <3> QED  BY <1>1, <2>2, <2>6, <3>1, <3>2, StartedSettled
  <2> QED  BY <2>2, <2>4, <2>5, <2>6
<1>11. CASE CrashBetweenItems
  <2>1. /\ task'[j].stage = "idle" /\ UNCHANGED <<revisions, lastSynced>>
        /\ task[j].stage \notin {"saving", "recording"}
    BY <1>11, IdleTaskType DEF CrashBetweenItems, Crash
  <2>2. Unpaired(j)'
    BY <1>1, <2>1, UnpairedStable DEF TaskSettled, HasSaved
  <2> QED  BY <2>1, <2>2, WaitingSettled
<1> QED  BY <1>2, <1>3, <1>4, <1>5, <1>6, <1>8, <1>9, <1>10, <1>11, OrderlySteps DEF EarlyFailure, Stores

\* Every step keeps what holds while syncs are orderly.
OrderlyInv == IInv /\ CoverInv /\ QuietInv /\ SettledInv

LEMMA OrderlyStarts == Init => OrderlyInv
<1> SUFFICES ASSUME Init PROVE OrderlyInv
  OBVIOUS
<1>1. \A i \in Items, s \in Stores : ~Exists(s, i) /\ Latest(s, i) = 0
  BY DEF Init, Exists, Latest
<1>2. \A i \in Items : task[i].stage = "idle"
  BY IdleTaskType DEF Init
<1>3. CoverInv
  <2>1. ListingInv
    BY DEF Init, ListingInv, Unlisted, NoItem, Latest
  <2>2. \A i \in Items : TaskCovers(i)
    BY <1>2 DEF TaskCovers, ActiveStages
  <2>3. DoneCovered
    BY DEF Init, DoneCovered, NoProgress
  <2> QED  BY <2>1, <2>2, <2>3 DEF CoverInv
<1>4. QuietInv
  BY <1>2 DEF Init, QuietInv, ListingCurrent, TaskCurrent, NoProgress
<1>5. SettledInv
  <2>1. late = {} /\ ListingHolds
    BY DEF Init, ListingHolds, NoProgress, Unlisted, Listed, NoItem
  <2>2. \A i \in Items : TaskSettled(i)
    BY <1>1, <1>2 DEF TaskSettled, HasSaved, Unpaired, Stores
  <2>3. LocalStaysDead
    BY <1>1 DEF LocalStaysDead, Stores
  <2> QED  BY <2>1, <2>2, <2>3 DEF SettledInv
<1> QED  BY <1>3, <1>4, <1>5, InitInv DEF OrderlyInv

LEMMA OrderlyStays ==
  ASSUME Orderly, OrderlyInv, [Next]_vars PROVE OrderlyInv'
<1>1. Quiet /\ IInv /\ CoverInv /\ QuietInv /\ SettledInv
  BY DEF Orderly, OrderlyInv, Quiet
<1>2. IInv'
  BY <1>1, NextStep
<1>3. CoverInv'
  BY <1>1, ListingStep, TasksStep, DoneStep DEF CoverInv
<1>4. QuietInv'
  BY <1>1, LateStep, ListingCurrentStep, TasksStayCurrent DEF QuietInv
<1>5. SettledInv'
  BY <1>1, NothingLate, ListingHoldsStep, SettledStep, StaysDeadStep DEF CoverInv, SettledInv
<1> QED  BY <1>2, <1>3, <1>4, <1>5 DEF OrderlyInv

\* If no call fails once an item is being saved and nobody edits during a sync, both
\* stores are as they were listed until the sync has saved to them, and an item
\* without a pair of synced revisions is in one store only or removed from both.
THEOREM OrderlySyncsSettle == ASSUME Orderly PROVE Spec => []SettledInv
<1>1. OrderlyInv => SettledInv
  BY DEF OrderlyInv
<1> QED  BY <1>1, OrderlyStarts, OrderlyStays, PTL DEF Spec

\* A sync that records an item records what the local store has of it.
LEMMA RecordedIsCurrent ==
  ASSUME OrderlyInv, NEW i \in Items, SetLastSyncedRevision(i), IsLive("local", i)
  PROVE  lastSynced'[i]["local"] = Latest("local", i)
<1>1. /\ TypeOK /\ TaskChange(i) /\ TaskItems(i) /\ TaskSaves(i) /\ TaskCovers(i) /\ TaskSettled(i)
      /\ TaskCurrent(i) /\ ListingHolds /\ task[i].pending = {} /\ task[i].stage = "recording"
      /\ "local" \in Stores /\ IInv /\ CoverInv /\ SettledInv
  BY DEF OrderlyInv, SetLastSyncedRevision, IInv, TaskInv, TaskOK, TaskSaves, CoverInv, SettledInv,
         QuietInv, ActiveStages, Stores
<1>2. lastSynced'[i] = SyncedPair(i) /\ SyncedPair(i) # NoPair
  BY <1>1, RecordedUnpaired DEF SetLastSyncedRevision, TypeOK
<1>3. ~Outgoing(i).deleted
  BY <1>2 DEF SyncedPair
<1>4. CASE Direction(i) = "up"
  <2>1. SyncedPair(i)["local"] = task[i].item["local"]
    BY <1>3, <1>4 DEF SyncedPair
  <2>2. task[i].state["local"] = "Updated"
    <3>1. ~Removes(i)
      BY <1>1, <1>3, OutgoingRemoved
    <3>2. task[i].state["local"] \in {"Unchanged", "Updated", "Deleted"}
      BY <1>1 DEF TypeOK, Tasks
    <3>3. task[i].state["local"] # "Unchanged"
      BY <1>4, DirectionCases
    <3>4. task[i].state["local"] # "Deleted"
      BY <1>4, <3>1 DEF Removes
    <3> QED  BY <3>2, <3>3, <3>4
  <2>3. ~HasSaved(i, "local") /\ HasLoaded(i, "local")
    BY <1>1, <1>4, DirectionCases DEF HasSaved, HasLoaded
  <2> QED  BY <1>1, <1>2, <2>1, <2>2, <2>3 DEF TaskCurrent, ActiveStages
<1>5. CASE Direction(i) # "up"
  <2>1. SyncedPair(i)["local"] = task[i].saved["local"]
    BY <1>3, <1>5 DEF SyncedPair
  <2>2. HasSaved(i, "local")
    BY <1>1, <1>5, DirectionCases DEF HasSaved
  <2> QED  BY <1>1, <1>2, <2>1, <2>2 DEF TaskSettled
<1> QED  BY <1>4, <1>5

-----------------------------------------------------------------------------
(* Syncs are atomic *)

\* How a store goes on from what it had before the sync of an item.
LEMMA BeforeLatest ==
  ASSUME OrderlyInv, NEW i \in Items, NEW s \in Stores, TaskAsListed(i)
  PROVE  /\ Latest(s, i) \in Nat /\ Before(s, i) \in Nat
         /\ ~HasSaved(i, s) => Before(s, i) = Latest(s, i)
         /\ HasSaved(i, s) => Latest(s, i) = Before(s, i) + 1 /\ Current(s, i) = Outgoing(i)
<1>1. /\ TypeOK /\ TaskSettled(i) /\ Latest(s, i) \in Nat /\ listing[s][i].rev \in Nat
      /\ HasSaved(i, s) => task[i].stage # "idle"
  <2>1. TypeOK /\ TaskSettled(i)
    BY DEF OrderlyInv, IInv, SettledInv
  <2> QED  BY <2>1 DEF TypeOK, Latest, ItemStates, HasSaved
<1>2. ~HasSaved(i, s) /\ task[i].stage # "idle" => Latest(s, i) = listing[s][i].rev
  BY <1>1 DEF TaskSettled
<1> QED  BY <1>1, <1>2 DEF Before, TaskAsListed

\* A step that leaves an item's revisions, pair and task alone.
LEMMA AsListedStable ==
  ASSUME NEW i \in Items, TaskAsListed(i), task'[i] = task[i], lastSynced'[i] = lastSynced[i],
         \A s \in Stores : revisions'[s][i] = revisions[s][i],
         task[i].stage # "idle" => \A s \in Stores : listing'[s][i] = listing[s][i]
  PROVE  TaskAsListed(i)'
<1>1. "local" \in Stores /\ "cloud" \in Stores
  BY DEF Stores
<1>2. \A s \in Stores : /\ Latest(s, i)' = Latest(s, i) /\ Current(s, i)' = Current(s, i)
                        /\ Loaded(s, i)' = Loaded(s, i)
                        /\ HasSaved(i, s)' = HasSaved(i, s) /\ HasLoaded(i, s)' = HasLoaded(i, s)
  BY <1>1 DEF Latest, Current, Loaded, ItemContent, HasSaved, HasLoaded, Target, Direction
<1>3. Direction(i)' = Direction(i) /\ Base(i)' = Base(i)
  BY <1>1 DEF Direction, Base
<1>4. Outgoing(i)' = Outgoing(i)
  BY <1>1, <1>2, <1>3 DEF Outgoing
<1>5. task[i].stage # "idle" => \A s \in Stores : ItemSyncState(s, i)' = ItemSyncState(s, i)
  BY DEF ItemSyncState, Listed
<1> QED  BY <1>2, <1>4, <1>5 DEF TaskAsListed

\* A task that is created or started.
LEMMA FreshAsListed ==
  ASSUME TypeOK, NEW i \in Items, NEW STATE t, t \in Tasks, UNCHANGED listing, lastSynced'[i] = lastSynced[i],
         \A s \in Stores : t.state[s] = "Updated" => Listed(s, i) /\ ~listing[s][i].deleted,
         \A s \in Stores : t.state[s] = ItemSyncState(s, i),
         t.stage = "queued", task'[i] \in {t, StartedTask(i, t)}
  PROVE  TaskAsListed(i)'
<1>1. \A s \in Stores : ItemSyncState(s, i)' = ItemSyncState(s, i)
  BY DEF ItemSyncState, Listed
<1>2. CASE task'[i] = t
  BY <1>1, <1>2 DEF TaskAsListed, ActiveStages, HasSaved
<1>3. CASE task'[i] = StartedTask(i, t)
  <2>1. /\ task'[i].stage = "loading" /\ task'[i].state = t.state
        /\ \A s \in Stores : Listed(s, i) /\ ~listing[s][i].deleted => s \in task'[i].pending
    BY <1>3, StartedTaskType DEF TypeOK
  <2> QED  BY <1>1, <2>1 DEF TaskAsListed, HasLoaded, HasSaved
<1> QED  BY <1>2, <1>3

LEMMA LoadItemAsListed ==
  ASSUME OrderlyInv, NEW i \in Items, NEW s \in Stores, TaskAsListed(i), LoadItem(i, s)
  PROVE  TaskAsListed(i)'
<1>1. TypeOK /\ task[i] \in Tasks /\ task[i].stage = "loading" /\ s \in task[i].pending /\ TaskSettled(i)
  BY DEF OrderlyInv, SettledInv, IInv, TypeOK, LoadItem
<1>2. /\ task'[i].stage = "loading" /\ task'[i].state = task[i].state
      /\ task'[i].pending = task[i].pending \ {s}
      /\ task'[i].item = [task[i].item EXCEPT ![s] = Latest(s, i)]
  BY <1>1 DEF LoadItem, TypeOK, Tasks
<1>3. UNCHANGED <<listing, revisions, lastSynced>>
  BY DEF LoadItem
<1>4. task[i].item \in [Stores -> Nat \cup {Tombstone}]
  BY <1>1 DEF Tasks
<1>5. \A r \in Stores : ItemSyncState(r, i)' = ItemSyncState(r, i) /\ ~HasSaved(i, r)'
  BY <1>2, <1>3 DEF ItemSyncState, Listed, HasSaved
<1>6. Latest(s, i) = listing[s][i].rev
  BY <1>1 DEF TaskSettled, HasSaved
<1>7. ASSUME NEW r \in Stores, task[i].state[r] = "Updated", HasLoaded(i, r)'
      PROVE  task'[i].item[r] = listing[r][i].rev
  <2>1. CASE r = s
    BY <1>2, <1>4, <1>6, <2>1
  <2>2. CASE r # s
    <3>1. task'[i].item[r] = task[i].item[r] /\ HasLoaded(i, r)
      BY <1>1, <1>2, <1>4, <1>7, <2>2 DEF HasLoaded
    <3> QED  BY <1>1, <1>7, <3>1 DEF TaskAsListed, ActiveStages
  <2> QED  BY <2>1, <2>2
<1> QED  BY <1>1, <1>2, <1>3, <1>5, <1>7 DEF TaskAsListed

LEMMA MergeAndSyncItemAsListed ==
  ASSUME OrderlyInv, NEW i \in Items, TaskAsListed(i), MergeAndSyncItem(i)
  PROVE  TaskAsListed(i)'
<1>1. TypeOK /\ task[i] \in Tasks /\ task[i].stage = "loading" /\ task[i].pending = {}
  BY DEF OrderlyInv, IInv, TypeOK, MergeAndSyncItem, ReadyToSave
<1>2. /\ task'[i].stage = "saving" /\ task'[i].state = task[i].state /\ task'[i].item = task[i].item
      /\ task'[i].pending = Target(i)
  BY <1>1 DEF MergeAndSyncItem, ReadyToSave, TypeOK, Tasks
<1>3. UNCHANGED <<listing, revisions, lastSynced>>
  BY DEF MergeAndSyncItem, ReadyToSave
<1>4. Target(i)' = Target(i)
  BY <1>2, Zenon DEF Direction, Target
<1>5. \A s \in Stores : /\ ItemSyncState(s, i)' = ItemSyncState(s, i)
                        /\ HasLoaded(i, s) /\ ~HasSaved(i, s)'
  BY <1>1, <1>2, <1>3, <1>4 DEF ItemSyncState, Listed, HasLoaded, HasSaved
<1> QED  BY <1>1, <1>2, <1>3, <1>5 DEF TaskAsListed, ActiveStages

\* What a task saves does not depend on what it has saved.
LEMMA OutgoingStays ==
  ASSUME IInv, NEW i \in Items, NEW s \in Stores, SaveItem(i, s)
  PROVE  Outgoing(i)' = Outgoing(i)
<1>1. /\ TypeOK /\ task[i] \in Tasks /\ task[i].stage = "saving" /\ task[i].stage \in ActiveStages
      /\ TaskChange(i) /\ TaskItems(i) /\ TaskSaves(i)
      /\ "local" \in Stores /\ "cloud" \in Stores /\ \A r \in Stores : r = "local" \/ r = "cloud"
  BY DEF IInv, TypeOK, SaveItem, TaskInv, TaskOK, ActiveStages, Stores
<1>2. /\ task'[i].state = task[i].state /\ task'[i].item = task[i].item
      /\ lastSynced' = lastSynced
  BY <1>1 DEF SaveItem, TypeOK, Tasks
<1>3. \A r \in Stores : \A n \in 1..Latest(r, i) : revisions'[r][i][n] = revisions[r][i][n]
  <2>1. revisions' = Saved(s, i, Outgoing(i))
    BY DEF SaveItem
  <2> SUFFICES ASSUME NEW r \in Stores, NEW n \in 1..Latest(r, i)
               PROVE  revisions'[r][i][n] = revisions[r][i][n]
    OBVIOUS
  <2> QED  BY <1>1, <2>1, Appended
<1>4. Direction(i)' = Direction(i)
  BY <1>2, Zenon DEF Direction
<1>5. ASSUME NEW r \in Stores, task[i].state[r] # "Unchanged" PROVE Loaded(r, i)' = Loaded(r, i)
  <2>1. task[i].item[r] = Tombstone \/ HasRevision(r, i, task[i].item[r])
    <3>1. task[i].state[r] \in {"Unchanged", "Updated", "Deleted"}
      BY <1>1 DEF Tasks
    <3> QED  BY <1>1, <1>5, <3>1 DEF TaskItems
  <2> QED  BY <1>2, <1>3, <2>1 DEF Loaded, ItemContent, HasRevision
<1>6. Direction(i) = "merge" => Base(i)' = Base(i)
  <2>1. Direction(i) = "merge" => HasRevision("local", i, lastSynced[i]["local"])
    BY <1>1 DEF IInv, LastSyncedRevisionsExist, TaskSaves
  <2> QED  BY <1>1, <1>2, <1>3, <2>1 DEF Base, HasRevision
<1>7. CASE Direction(i) = "merge"
  <2>1. \A r \in Stores : task[i].state[r] = "Updated"
    BY <1>7, DirectionCases
  <2> QED  BY <1>1, <1>4, <1>5, <1>6, <1>7, <2>1 DEF Outgoing
<1>8. CASE Direction(i) = "up"
  <2>1. task[i].state["local"] # "Unchanged"
    BY <1>8, DirectionCases
  <2> QED  BY <1>1, <1>4, <1>5, <1>8, <2>1 DEF Outgoing
<1>9. CASE Direction(i) = "down"
  <2>1. task[i].state["cloud"] # "Unchanged"
    BY <1>1, <1>9, DirectionCases DEF TaskChange
  <2> QED  BY <1>1, <1>4, <1>5, <1>9, <2>1 DEF Outgoing
<1> QED  BY <1>7, <1>8, <1>9, DirectionCases

LEMMA SaveItemAsListed ==
  ASSUME OrderlyInv, NEW i \in Items, NEW s \in Stores, TaskAsListed(i), SaveItem(i, s)
  PROVE  TaskAsListed(i)'
<1>1. TypeOK /\ task[i] \in Tasks /\ task[i].stage = "saving" /\ s \in task[i].pending
      /\ task[i].pending \subseteq Target(i) /\ TaskSettled(i) /\ IInv
  BY DEF OrderlyInv, SettledInv, IInv, TypeOK, SaveItem, TaskInv, TaskOK, TaskSaves
<1>2. /\ task'[i].stage \in {"saving", "recording"} /\ task'[i].state = task[i].state
      /\ task'[i].pending = task[i].pending \ {s} /\ task'[i].item = task[i].item
  BY <1>1 DEF SaveItem, TypeOK, Tasks
<1>3. UNCHANGED <<listing, lastSynced>> /\ revisions' = Saved(s, i, Outgoing(i))
  BY DEF SaveItem
<1>4. Target(i)' = Target(i)
  BY <1>2, Zenon DEF Direction, Target
<1>5. Outgoing(i)' = Outgoing(i)
  BY <1>1, OutgoingStays
<1>6. \A r \in Stores : HasLoaded(i, r) /\ ItemSyncState(r, i)' = ItemSyncState(r, i)
  BY <1>1, <1>3 DEF HasLoaded, ItemSyncState, Listed
<1>7. Latest(s, i)' = listing[s][i].rev + 1 /\ Current(s, i)' = Outgoing(i)
  <2>1. Latest(s, i) = listing[s][i].rev
    BY <1>1 DEF TaskSettled, HasSaved
  <2> QED  BY <1>1, <1>3, <2>1, Appended
<1>8. ASSUME NEW r \in Stores, r # s, HasSaved(i, r)'
      PROVE  Latest(r, i)' = listing[r][i].rev + 1 /\ Current(r, i)' = Outgoing(i)
  <2>1. revisions'[r][i] = revisions[r][i]
    BY <1>1, <1>3, <1>8, Appended
  <2>2. HasSaved(i, r)
    BY <1>1, <1>2, <1>4, <1>8 DEF HasSaved
  <2> QED  BY <1>1, <2>1, <2>2 DEF TaskAsListed, Latest, Current
<1>9. \A r \in Stores : task'[i].state[r] = "Updated" => task'[i].item[r] = listing[r][i].rev
  BY <1>1, <1>2, <1>6 DEF TaskAsListed, ActiveStages
<1>10. \A r \in Stores : HasSaved(i, r)' =>
          Latest(r, i)' = listing'[r][i].rev + 1 /\ Current(r, i)' = Outgoing(i)'
  BY <1>3, <1>5, <1>7, <1>8
<1>11. \A r \in Stores : task'[i].state[r] = ItemSyncState(r, i)'
  BY <1>1, <1>2, <1>6 DEF TaskAsListed
<1> QED  BY <1>3, <1>9, <1>10, <1>11 DEF TaskAsListed

\* When an item is done the items that are started are as they were listed.
LEMMA ItemDoneAsListed ==
  ASSUME OrderlyInv, \A j \in Items : TaskAsListed(j),
         NEW i \in Items, NEW outcome \in {"updated", "failed"}, task[i].stage \in ActiveStages,
         ItemDone(i, outcome), revisions' = revisions,
         \A j \in Items \ {i} : lastSynced'[j] = lastSynced[j]
  PROVE  \A j \in Items : TaskAsListed(j)'
<1>1. /\ task'[i] = IdleTask /\ listing' = listing
      /\ \A j \in Items \ {i} :
           \/ task'[j] = task[j]
           \/ task[j].stage = "queued" /\ task'[j] = StartedTask(j, task[j])
  BY ItemDoneStep DEF OrderlyInv
<1>2. TaskAsListed(i)'
  BY <1>1, IdleTaskType DEF TaskAsListed
<1>3. ASSUME NEW j \in Items \ {i}, task'[j] = task[j] PROVE TaskAsListed(j)'
  BY <1>1, <1>3, AsListedStable
<1>4. ASSUME NEW j \in Items \ {i}, task[j].stage = "queued", task'[j] = StartedTask(j, task[j])
      PROVE  TaskAsListed(j)'
  <2>1. TypeOK /\ task[j] \in Tasks /\ TaskChange(j)
    BY <1>4 DEF OrderlyInv, IInv, TypeOK, TaskInv, TaskOK
  <2>2. \A s \in Stores : task[j].state[s] = ItemSyncState(s, j)
    BY <1>4 DEF TaskAsListed
  <2> QED  BY <1>1, <1>4, <2>1, <2>2, FreshAsListed DEF TaskChange
<1> QED  BY <1>1, <1>2, <1>3, <1>4

LEMMA AsListedStep ==
  ASSUME Orderly, OrderlyInv, \A j \in Items : TaskAsListed(j), [Next]_vars
  PROVE  \A j \in Items : TaskAsListed(j)'
<1>1. IInv /\ TypeOK /\ PhaseInv /\ ListingHolds /\ SettledInv
  BY DEF OrderlyInv, SettledInv, IInv
<1>2. CASE SyncItems \/ UNCHANGED vars
  BY <1>1, <1>2, AsListedStable DEF SyncItems, vars, syncVars
<1>3. CASE (\E s \in Stores : ListItemStates(s)) \/ ForgetSync \/ ListingFails
  <2>1. /\ \A j \in Items : task[j].stage = "idle"
        /\ UNCHANGED task
    BY <1>1, <1>3 DEF ListItemStates, ForgetSync, ListingFails, PhaseInv
  <2> QED  BY <2>1 DEF TaskAsListed
<1>4. CASE ListingDone
  <2> SUFFICES ASSUME NEW j \in Items PROVE TaskAsListed(j)'
    OBVIOUS
  <2>1. UNCHANGED <<listing, lastSynced>>
    BY <1>4 DEF ListingDone
  <2>2. CASE j \notin Changed
    BY <1>1, <1>4, <2>2, ListingDoneTasks, IdleTaskType DEF TaskAsListed
  <2>3. CASE j \in Changed
    <3>1. /\ QueuedTask(j) \in Tasks /\ QueuedTask(j).stage = "queued"
          /\ \A s \in Stores : QueuedTask(j).state[s] = ItemSyncState(s, j)
      BY <1>1, QueuedTaskType
    <3>2. task'[j] \in {QueuedTask(j), StartedTask(j, QueuedTask(j))}
      BY <1>1, <1>4, <2>3, ListingDoneTasks
    <3>3. \A s \in Stores : QueuedTask(j).state[s] = "Updated" => Listed(s, j) /\ ~listing[s][j].deleted
      BY <1>1, <2>3, <3>1, ChangeListed
    <3> QED  BY <1>1, <2>1, <3>1, <3>2, <3>3, FreshAsListed
  <2> QED  BY <2>2, <2>3
<1>5. ASSUME NEW i \in Items, NEW s \in Stores, LoadItem(i, s) \/ SaveItem(i, s) \/ MergeAndSyncItem(i),
             NEW j \in Items
      PROVE  TaskAsListed(j)'
  <2>1. CASE j = i
    BY <1>5, <2>1, LoadItemAsListed, SaveItemAsListed, MergeAndSyncItemAsListed
  <2>2. CASE j # i
    <3>1. task'[j] = task[j] /\ UNCHANGED <<listing, lastSynced>>
      BY <1>1, <1>5, <2>2 DEF LoadItem, SaveItem, MergeAndSyncItem, ReadyToSave, TypeOK
    <3>2. \A r \in Stores : revisions'[r][j] = revisions[r][j]
      <4>1. CASE SaveItem(i, s)
        BY <1>1, <2>2, <4>1, Appended DEF SaveItem
      <4>2. CASE LoadItem(i, s) \/ MergeAndSyncItem(i)
        BY <4>2 DEF LoadItem, MergeAndSyncItem, ReadyToSave
      <4> QED  BY <1>5, <4>1, <4>2
    <3> QED  BY <3>1, <3>2, AsListedStable
  <2> QED  BY <2>1, <2>2
<1>6. ASSUME NEW i \in Items, SetLastSyncedRevision(i) \/ FailsUnsaved(i)
      PROVE  \A j \in Items : TaskAsListed(j)'
  <2>1. /\ task[i].stage \in ActiveStages /\ \E outcome \in {"updated", "failed"} : ItemDone(i, outcome)
        /\ revisions' = revisions
    BY <1>6 DEF SetLastSyncedRevision, FailsUnsaved, LoadFails, MergeFails, ReadyToSave, ActiveStages
  <2>2. \A j \in Items \ {i} : lastSynced'[j] = lastSynced[j]
    BY <1>1, <1>6 DEF SetLastSyncedRevision, FailsUnsaved, LoadFails, MergeFails, ReadyToSave, TypeOK
  <2> QED  BY <2>1, <2>2, ItemDoneAsListed
<1>7. CASE CrashBetweenItems
  BY <1>7, IdleTaskType DEF CrashBetweenItems, Crash, TaskAsListed
<1>8. CASE Users /\ currentSync = "none"
  <2>1. UNCHANGED task /\ \A j \in Items : task[j].stage = "idle"
    BY <1>1, <1>8 DEF Users, UserChange, EditItem, RemoveEntry, RemoveItem, syncVars, PhaseInv
  <2> QED  BY <2>1 DEF TaskAsListed
<1> QED  BY <1>1, <1>2, <1>3, <1>4, <1>5, <1>6, <1>7, <1>8, OrderlySteps DEF EarlyFailure, Stores

\* What users and syncs have made of an item shows only when the user makes it, and
\* when the item is done.
Steady(i) ==
  /\ lastSynced'[i] = lastSynced[i]
  /\ \A s \in Stores : Before(s, i)' = Before(s, i)

LEMMA ItemDoneSteady ==
  ASSUME OrderlyInv, \A j \in Items : TaskAsListed(j), NEW i \in Items,
         NEW outcome \in {"updated", "failed"}, task[i].stage \in ActiveStages, ItemDone(i, outcome),
         revisions' = revisions, NEW j \in Items, lastSynced'[j] = lastSynced[j],
         j = i => \A s \in Stores : ~HasSaved(i, s)
  PROVE  Steady(j)
<1>1. /\ task'[i].stage = "idle" /\ listing' = listing
      /\ j # i => \/ task'[j] = task[j]
                  \/ task[j].stage = "queued" /\ task'[j] = StartedTask(j, task[j])
  BY ItemDoneStep, IdleTaskType DEF OrderlyInv
<1>2. \A s \in Stores : Latest(s, j)' = Latest(s, j)
  BY DEF Latest
<1>3. CASE j = i
  <2>1. \A s \in Stores : Before(s, i) = Latest(s, i)
    BY <1>3, BeforeLatest
  <2> QED  BY <1>1, <1>2, <1>3, <2>1 DEF Steady, Before
<1>4. CASE j # i /\ task'[j] = task[j]
  BY <1>1, <1>2, <1>4 DEF Steady, Before
<1>5. CASE task[j].stage = "queued" /\ task'[j] = StartedTask(j, task[j])
  <2>1. task'[j].stage = "loading"
    <3>1. task[j] \in Tasks
      BY DEF OrderlyInv, IInv, TypeOK
    <3> QED  BY <1>5, <3>1 DEF StartedTask, Tasks
  <2> QED  BY <1>1, <1>5, <2>1 DEF Steady, Before
<1> QED  BY <1>1, <1>3, <1>4, <1>5

LEMMA ItemsAreSteady ==
  ASSUME Orderly, OrderlyInv, \A j \in Items : TaskAsListed(j), [Next]_vars, NEW j \in Items
  PROVE  Steady(j) \/ SetLastSyncedRevision(j) \/ (Users /\ currentSync = "none")
<1>1. IInv /\ TypeOK /\ PhaseInv /\ ListingHolds /\ SettledInv
  BY DEF OrderlyInv, SettledInv, IInv
<1>2. CASE SyncItems \/ UNCHANGED vars
  BY <1>1, <1>2 DEF SyncItems, vars, syncVars, Steady, Before, Latest
<1>3. CASE (\E s \in Stores : ListItemStates(s)) \/ ForgetSync \/ ListingFails
  <2>1. task[j].stage = "idle" /\ UNCHANGED <<task, revisions, lastSynced>>
    BY <1>1, <1>3 DEF ListItemStates, ForgetSync, ListingFails, PhaseInv
  <2> QED  BY <2>1 DEF Steady, Before, Latest
<1>4. CASE ListingDone
  <2>1. /\ UNCHANGED <<listing, revisions, lastSynced>> /\ task[j].stage = "idle"
        /\ \A s \in Stores : listing[s][j].rev = Latest(s, j)
    BY <1>1, <1>4 DEF ListingDone, ListingHolds, PhaseInv
  <2> QED  BY <2>1 DEF Steady, Before, Latest
<1>5. ASSUME NEW i \in Items, NEW s \in Stores, LoadItem(i, s) \/ SaveItem(i, s) \/ MergeAndSyncItem(i)
      PROVE  Steady(j)
  <2>1. CASE j = i
    <3>1. UNCHANGED <<listing, lastSynced>> /\ task[i].stage # "idle" /\ task'[i].stage # "idle"
      BY <1>1, <1>5 DEF LoadItem, SaveItem, MergeAndSyncItem, ReadyToSave, TypeOK, Tasks
    <3> QED  BY <2>1, <3>1 DEF Steady, Before
  <2>2. CASE j # i
    <3>1. task'[j] = task[j] /\ UNCHANGED <<listing, lastSynced>>
      BY <1>1, <1>5, <2>2 DEF LoadItem, SaveItem, MergeAndSyncItem, ReadyToSave, TypeOK
    <3>2. \A r \in Stores : revisions'[r][j] = revisions[r][j]
      <4>1. CASE SaveItem(i, s)
        BY <1>1, <2>2, <4>1, Appended DEF SaveItem
      <4>2. CASE LoadItem(i, s) \/ MergeAndSyncItem(i)
        BY <4>2 DEF LoadItem, MergeAndSyncItem, ReadyToSave
      <4> QED  BY <1>5, <4>1, <4>2
    <3> QED  BY <3>1, <3>2 DEF Steady, Before, Latest
  <2> QED  BY <2>1, <2>2
<1>6. ASSUME NEW i \in Items, SetLastSyncedRevision(i), j # i PROVE Steady(j)
  <2>1. /\ task[i].stage \in ActiveStages /\ ItemDone(i, "updated") /\ revisions' = revisions
        /\ lastSynced'[j] = lastSynced[j] /\ "updated" \in {"updated", "failed"}
    BY <1>1, <1>6 DEF SetLastSyncedRevision, ActiveStages, TypeOK
  <2> QED  BY <1>6, <2>1, ItemDoneSteady
<1>7. ASSUME NEW i \in Items, FailsUnsaved(i) PROVE Steady(j)
  <2>1. /\ task[i].stage \in ActiveStages /\ ItemDone(i, "failed") /\ revisions' = revisions
        /\ lastSynced'[j] = lastSynced[j] /\ "failed" \in {"updated", "failed"}
        /\ \A s \in Stores : ~HasSaved(i, s)
    BY <1>7 DEF FailsUnsaved, LoadFails, MergeFails, ReadyToSave, ActiveStages, HasSaved
  <2> QED  BY <2>1, ItemDoneSteady
<1>8. CASE CrashBetweenItems
  <2>1. task'[j].stage = "idle" /\ UNCHANGED <<revisions, lastSynced>> /\ \A s \in Stores : ~HasSaved(j, s)
    BY <1>8, IdleTaskType DEF CrashBetweenItems, Crash, HasSaved
  <2> QED  BY <2>1, BeforeLatest DEF Steady, Before, Latest
<1> QED  BY <1>1, <1>2, <1>3, <1>4, <1>5, <1>6, <1>7, <1>8, OrderlySteps DEF EarlyFailure, Stores

\* Only the users make edits.
LEMMA EditsCount ==
  ASSUME Orderly, IInv, SettledInv, [Next]_vars
  PROVE  edits' = edits \/ (Users /\ currentSync = "none" /\ edits' = edits + 1)
<1>1. CASE Users /\ currentSync = "none"
  BY <1>1 DEF Users, UserChange, EditItem, RemoveEntry, RemoveItem
<1>2. CASE EarlyFailure
  BY <1>2 DEF EarlyFailure, ListingFails, FailsUnsaved, LoadFails, MergeFails, ReadyToSave, CrashBetweenItems, Crash
<1>3. CASE \/ SyncItems \/ (\E s \in Stores : ListItemStates(s)) \/ ListingDone \/ ForgetSync
           \/ \E i \in Items : \/ \E s \in Stores : LoadItem(i, s) \/ SaveItem(i, s)
                               \/ MergeAndSyncItem(i) \/ SetLastSyncedRevision(i)
           \/ UNCHANGED vars
  BY <1>3 DEF SyncItems, ListItemStates, ListingDone, ForgetSync, LoadItem, SaveItem, MergeAndSyncItem, ReadyToSave,
              SetLastSyncedRevision, vars
<1> QED  BY <1>1, <1>2, <1>3, OrderlySteps

\* A value that a task saves is that of an edit.
LEMMA OutgoingValues ==
  ASSUME IInv, ValuesInv, NEW i \in Items, task[i].stage = "saving", NEW f \in Fields
  PROVE  Outgoing(i).fields[f] \in (-edits)..edits
<1>1. /\ TypeOK /\ task[i] \in Tasks /\ task[i].stage \in ActiveStages
      /\ TaskChange(i) /\ TaskItems(i) /\ TaskSaves(i) /\ edits \in Nat
      /\ "local" \in Stores /\ "cloud" \in Stores /\ \A r \in Stores : r = "local" \/ r = "cloud"
  BY DEF IInv, TypeOK, TaskInv, TaskOK, ActiveStages, Stores
<1>2. ASSUME NEW r \in Stores, task[i].state[r] # "Unchanged" 
      PROVE  Loaded(r, i).fields[f] \in (-edits)..edits
  <2>1. CASE task[i].item[r] = Tombstone
    BY <1>1, <2>1 DEF Loaded, ItemContent, TombstoneContent
  <2>2. CASE task[i].item[r] # Tombstone
    <3>1. task[i].state[r] \in {"Unchanged", "Updated", "Deleted"}
      BY <1>1 DEF Tasks
    <3>2. HasRevision(r, i, task[i].item[r])
      BY <1>1, <1>2, <2>2, <3>1 DEF TaskItems
    <3> QED  BY <2>2, <3>2 DEF Loaded, ItemContent, HasRevision, ValuesInv
  <2> QED  BY <2>1, <2>2
<1>3. CASE Direction(i) = "merge"
  <2>1. \A r \in Stores : task[i].state[r] = "Updated"
    BY <1>3, DirectionCases
  <2>2. Outgoing(i).fields[f] \in {Loaded("local", i).fields[f], Loaded("cloud", i).fields[f]}
    BY <1>3, Zenon DEF Outgoing, Merge, MergeField, MergeEntry
  <2> QED  BY <1>1, <1>2, <2>1, <2>2
<1>4. CASE Direction(i) = "up"
  <2>1. task[i].state["local"] # "Unchanged"
    BY <1>4, DirectionCases
  <2> QED  BY <1>1, <1>2, <1>4, <2>1 DEF Outgoing
<1>5. CASE Direction(i) = "down"
  <2>1. task[i].state["cloud"] # "Unchanged"
    BY <1>1, <1>5, DirectionCases DEF TaskChange
  <2> QED  BY <1>1, <1>2, <1>5, <2>1 DEF Outgoing
<1> QED  BY <1>3, <1>4, <1>5, DirectionCases

LEMMA SavedValues ==
  ASSUME TypeOK, ValuesInv, NEW s \in Stores, NEW i \in Items, NEW STATE c, revisions' = Saved(s, i, c),
         edits' \in Nat, edits <= edits', \A f \in Fields : c.fields[f] \in (-edits')..edits'
  PROVE  ValuesInv'
<1> SUFFICES ASSUME NEW r \in Stores, NEW j \in Items, NEW n \in 1..Latest(r, j)', NEW f \in Fields
             PROVE  revisions'[r][j][n].fields[f] \in (-edits')..edits'
  BY DEF ValuesInv
<1>1. ASSUME NEW m \in 1..Latest(r, j) PROVE revisions[r][j][m].fields[f] \in (-edits')..edits'
  <2>1. revisions[r][j][m].fields[f] \in (-edits)..edits
    BY <1>1 DEF ValuesInv
  <2>2. edits \in Nat
    BY DEF TypeOK
  <2> QED  BY <2>1, <2>2
<1>2. CASE r # s \/ j # i
  <2>1. revisions'[r][j] = revisions[r][j]
    BY <1>2, Appended
  <2> QED  BY <1>1, <2>1 DEF Latest
<1>3. CASE r = s /\ j = i
  <2>1. /\ Latest(s, i) \in Nat /\ Latest(s, i)' = Latest(s, i) + 1
        /\ \A m \in 1..Latest(s, i) : revisions'[s][i][m] = revisions[s][i][m]
        /\ revisions'[s][i][Latest(s, i) + 1] = c
    BY Appended DEF Current
  <2>2. CASE n \in 1..Latest(s, i)
    BY <1>1, <1>3, <2>1, <2>2
  <2>3. CASE n = Latest(s, i) + 1
    BY <1>3, <2>1, <2>3
  <2> QED  BY <1>3, <2>1, <2>2, <2>3
<1> QED  BY <1>2, <1>3

\* What a user makes of an item: its item j of store s is c, a change of what it was.
Change(s, j, c) ==
  /\ revisions' = Saved(s, j, c)
  /\ \/ c = TombstoneContent /\ IsLive(s, j)
     \/ /\ New(j) \/ IsLive(s, j)
        /\ \E f \in Fields, v \in {edits + 1, -(edits + 1)} :
             c = [(IF New(j) THEN BlankContent ELSE Current(s, j)) EXCEPT !.fields[f] = v]

LEMMA UsersChange ==
  ASSUME Users
  PROVE  /\ UNCHANGED <<lastSynced, syncVars>> /\ edits' = edits + 1
         /\ \E j \in Items, s \in Stores : \E c : Change(s, j, c)
<1>1. UNCHANGED <<lastSynced, syncVars>> /\ edits' = edits + 1
  BY DEF Users, UserChange, EditItem, RemoveEntry, RemoveItem
<1>2. ASSUME NEW i \in Items, NEW s \in Stores, RemoveItem(i, s) PROVE \E c : Change(s, i, c)
  BY <1>2 DEF RemoveItem, Change
<1>3. ASSUME NEW i \in Items, NEW s \in Stores, NEW f \in Fields, EditItem(i, s, f) PROVE \E c : Change(s, i, c)
  BY <1>3 DEF EditItem, Change
<1>4. ASSUME NEW i \in Items, NEW s \in Stores, NEW f \in Fields, RemoveEntry(i, s, f) PROVE \E c : Change(s, i, c)
  <2>1. IsLive(s, i) /\ ~New(i)
    BY <1>4 DEF RemoveEntry, IsLive, New
  <2> DEFINE c == [Current(s, i) EXCEPT !.fields[f] = -(edits + 1)]
  <2>2. revisions' = Saved(s, i, c)
    BY <1>4 DEF RemoveEntry
  <2>3. c = [(IF New(i) THEN BlankContent ELSE Current(s, i)) EXCEPT !.fields[f] = -(edits + 1)]
    BY <2>1
  <2>4. -(edits + 1) \in {edits + 1, -(edits + 1)}
    OBVIOUS
  <2> HIDE DEF c
  <2>5. Change(s, i, c)
    BY <2>1, <2>2, <2>3, <2>4 DEF Change
  <2> QED  BY <2>5
<1> QED  BY <1>1, <1>2, <1>3, <1>4 DEF Users, UserChange

\* A change gives one field a new value, and keeps the others, or removes the item.
LEMMA ChangeValues ==
  ASSUME TypeOK, ValuesInv, NEW s \in Stores, NEW j \in Items, NEW STATE c, Change(s, j, c)
  PROVE  /\ c \in Contents /\ edits \in Nat
         /\ \/ /\ c = TombstoneContent /\ IsLive(s, j)
            \/ /\ ~c.deleted
               /\ \E f \in Fields :
                    /\ c.fields[f] \in {edits + 1, -(edits + 1)}
                    /\ \A g \in Fields : g # f => c.fields[g] = IF New(j) THEN 0 ELSE Current(s, j).fields[g]
         /\ \A f \in Fields : c.fields[f] \in (-(edits + 1))..(edits + 1)
<1>1. edits \in Nat
  BY DEF TypeOK
<1>2. CASE c = TombstoneContent /\ IsLive(s, j)
  BY <1>1, <1>2 DEF TombstoneContent, Contents
<1>3. ASSUME New(j) \/ IsLive(s, j), NEW f \in Fields, NEW v \in {edits + 1, -(edits + 1)},
             c = [(IF New(j) THEN BlankContent ELSE Current(s, j)) EXCEPT !.fields[f] = v]
      PROVE  /\ c \in Contents /\ ~c.deleted /\ c.fields[f] = v
             /\ \A g \in Fields : g # f => c.fields[g] = IF New(j) THEN 0 ELSE Current(s, j).fields[g]
             /\ \A g \in Fields : c.fields[g] \in (-(edits + 1))..(edits + 1)
  <2> DEFINE old == IF New(j) THEN BlankContent ELSE Current(s, j)
  <2>1. /\ old \in Contents /\ ~old.deleted
        /\ \A g \in Fields : /\ old.fields[g] \in (-edits)..edits
                              /\ old.fields[g] = IF New(j) THEN 0 ELSE Current(s, j).fields[g]
    <3>1. CASE New(j)
      BY <1>1, <3>1 DEF BlankContent, Contents
    <3>2. CASE ~New(j)
      <4>1. IsLive(s, j) /\ Latest(s, j) \in Nat
        BY <1>3, <3>2 DEF TypeOK, Latest
      <4>2. HasRevision(s, j, Latest(s, j))
        BY <4>1 DEF IsLive, Exists, HasRevision
      <4>3. Current(s, j) \in Contents /\ \A g \in Fields : Current(s, j).fields[g] \in (-edits)..edits
        BY <4>2, RevisionType DEF Current, HasRevision, ValuesInv
      <4> QED  BY <3>2, <4>1, <4>3 DEF IsLive
    <3> QED  BY <3>1, <3>2
  <2> HIDE DEF old
  <2>2. c = [old EXCEPT !.fields = [old.fields EXCEPT ![f] = v]]
    BY <1>3, <2>1 DEF Contents, old
  <2>3. old.fields \in [Fields -> Int] /\ [old.fields EXCEPT ![f] = v] \in [Fields -> Int]
    BY <1>1, <2>1 DEF Contents
  <2>4. c \in Contents /\ c.deleted = old.deleted /\ c.fields = [old.fields EXCEPT ![f] = v]
    BY <2>1, <2>2, <2>3 DEF Contents
  <2>5. \A g \in Fields : c.fields[g] = IF g = f THEN v ELSE old.fields[g]
    BY <2>3, <2>4
  <2>6. ASSUME NEW g \in Fields PROVE c.fields[g] \in (-(edits + 1))..(edits + 1)
    <3>1. old.fields[g] \in (-edits)..edits
      BY <2>1
    <3> QED  BY <1>1, <2>5, <3>1
  <2> QED  BY <2>1, <2>4, <2>5, <2>6
<1> QED  BY <1>1, <1>2, <1>3 DEF Change

LEMMA ValuesStep ==
  ASSUME Orderly, OrderlyInv, ValuesInv, [Next]_vars PROVE ValuesInv'
<1>1. IInv /\ SettledInv /\ TypeOK /\ edits \in Nat
  BY DEF OrderlyInv, IInv, TypeOK
<1>2. edits' \in Nat /\ edits <= edits'
  BY <1>1, EditsCount
<1>3. CASE revisions' = revisions
  <2>1. ASSUME NEW s \in Stores, NEW i \in Items, NEW r \in 1..Latest(s, i), NEW f \in Fields
        PROVE  revisions[s][i][r].fields[f] \in (-edits')..edits'
    <3>1. revisions[s][i][r].fields[f] \in (-edits)..edits
      BY DEF ValuesInv
    <3> QED  BY <1>1, <1>2, <3>1
  <2> QED  BY <1>3, <2>1 DEF ValuesInv, Latest
<1>4. ASSUME NEW i \in Items, NEW s \in Stores, SaveItem(i, s) PROVE ValuesInv'
  <2>1. revisions' = Saved(s, i, Outgoing(i)) /\ edits' = edits /\ task[i].stage = "saving"
    BY <1>4 DEF SaveItem
  <2>2. \A f \in Fields : Outgoing(i).fields[f] \in (-edits')..edits'
    BY <1>1, <2>1, OutgoingValues
  <2> QED  BY <1>1, <1>2, <2>1, <2>2, SavedValues
<1>5. CASE Users
  <2>1. /\ edits' = edits + 1
        /\ \E j \in Items, s \in Stores : \E c : Change(s, j, c)
    BY <1>5, UsersChange
  <2>a. PICK j \in Items, s \in Stores : \E c : Change(s, j, c)
    BY <2>1
  <2>2. PICK c : Change(s, j, c)
    BY <2>a
  <2>3. \A f \in Fields : c.fields[f] \in (-edits')..edits'
    BY <1>1, <2>1, <2>2, ChangeValues
  <2>4. revisions' = Saved(s, j, c)
    BY <2>2 DEF Change
  <2> QED  BY <1>1, <1>2, <2>3, <2>4, SavedValues
<1>6. CASE \/ SyncItems \/ (\E s \in Stores : ListItemStates(s)) \/ ListingDone \/ ForgetSync
           \/ \E i \in Items : \/ \E s \in Stores : LoadItem(i, s)
                               \/ MergeAndSyncItem(i) \/ SetLastSyncedRevision(i)
           \/ EarlyFailure \/ UNCHANGED vars
  <2>1. revisions' = revisions
    BY <1>6 DEF SyncItems, ListItemStates, ListingDone, ForgetSync, LoadItem, MergeAndSyncItem, ReadyToSave,
                SetLastSyncedRevision, vars, EarlyFailure, ListingFails, FailsUnsaved, LoadFails, MergeFails, ReadyToSave, CrashBetweenItems, Crash
  <2> QED  BY <1>3, <2>1
<1> QED  BY <1>1, <1>4, <1>5, <1>6, OrderlySteps

\* Where the copies of a synced item are.
LEMMA PairedRevisions ==
  ASSUME OrderlyInv, \A j \in Items : TaskAsListed(j), NEW i \in Items, lastSynced[i] # NoPair, ChangesShow(i)
  PROVE  /\ HasRevision("local", i, lastSynced[i]["local"]) /\ Base(i) \in Contents
         /\ \A s \in Stores : /\ lastSynced[i][s] \in Nat /\ lastSynced[i][s] > 0
                              /\ Before(s, i) \in Nat /\ Latest(s, i) \in Nat
                              /\ Before(s, i) <= Latest(s, i) /\ Before(s, i) > 0
                              /\ BeforeContent(s, i) \in Contents
<1>1. TypeOK /\ LastSyncedRevisionsExist /\ "local" \in Stores
  BY DEF OrderlyInv, IInv, Stores
<1>2. \A s \in Stores : HasRevision(s, i, lastSynced[i][s])
  BY <1>1 DEF LastSyncedRevisionsExist
<1>3. HasRevision("local", i, lastSynced[i]["local"]) /\ Base(i) \in Contents
  BY <1>1, <1>2, RevisionType DEF Base
<1>4. ASSUME NEW s \in Stores
      PROVE  /\ lastSynced[i][s] \in Nat /\ lastSynced[i][s] > 0
             /\ Before(s, i) \in Nat /\ Latest(s, i) \in Nat
             /\ Before(s, i) <= Latest(s, i) /\ Before(s, i) > 0
             /\ BeforeContent(s, i) \in Contents
  <2>1. lastSynced[i][s] \in Nat /\ lastSynced[i][s] > 0 /\ lastSynced[i][s] <= Before(s, i)
    BY <1>1, <1>2 DEF HasRevision, Latest, ChangesShow, TypeOK
  <2>2. Before(s, i) \in Nat /\ Latest(s, i) \in Nat /\ Before(s, i) <= Latest(s, i)
    BY BeforeLatest
  <2>3. HasRevision(s, i, Before(s, i))
    BY <2>1, <2>2 DEF HasRevision
  <2> QED  BY <1>1, <2>1, <2>2, <2>3, RevisionType DEF BeforeContent
<1> QED  BY <1>3, <1>4

LEMMA SteadyShows ==
  ASSUME OrderlyInv, \A j \in Items : TaskAsListed(j), Kept, NEW i \in Items, lastSynced[i] # NoPair,
         ChangesShow(i), Steady(i)
  PROVE  /\ ChangesShow(i)' /\ Base(i)' = Base(i)
         /\ \A s \in Stores : BeforeContent(s, i)' = BeforeContent(s, i)
<1>1. /\ HasRevision("local", i, lastSynced[i]["local"])
      /\ \A s \in Stores : /\ Before(s, i) \in Nat /\ Latest(s, i) \in Nat
                           /\ Before(s, i) <= Latest(s, i) /\ Before(s, i) > 0
      /\ "local" \in Stores /\ "cloud" \in Stores
  BY PairedRevisions DEF Stores
<1>2. Base(i)' = Base(i) /\ lastSynced'[i] = lastSynced[i]
  BY <1>1 DEF Base, Steady, Kept, HasRevision
<1>3. \A s \in Stores : /\ Before(s, i)' = Before(s, i)
                        /\ \A r \in 1..Before(s, i) : revisions'[s][i][r] = revisions[s][i][r]
  BY <1>1 DEF Steady, Kept
<1>4. \A s \in Stores : BeforeContent(s, i)' = BeforeContent(s, i)
  BY <1>1, <1>3 DEF BeforeContent
<1>5. ASSUME NEW s \in Stores, NEW t \in Stores, NewTo(s, t, i) PROVE NewTo(s, t, i)'
  BY <1>2, <1>3, <1>4, <1>5 DEF NewTo
<1> QED  BY <1>1, <1>2, <1>3, <1>4, <1>5 DEF ChangesShow

LEMMA SteadyOneSided ==
  ASSUME OrderlyInv, \A j \in Items : TaskAsListed(j), Kept, NEW i \in Items, OneSided(i), Steady(i)
  PROVE  OneSided(i)'
<1>1. \A s \in Stores : Before(s, i) \in Nat /\ Latest(s, i) \in Nat /\ Before(s, i) <= Latest(s, i)
  BY BeforeLatest
<1>2. CASE \E s \in Stores : Before(s, i) = NoItem
  BY <1>2 DEF OneSided, Steady
<1>3. CASE \A s \in Stores : Before(s, i) # NoItem
  <2>1. \A s \in Stores : BeforeContent(s, i)' = BeforeContent(s, i)
    BY <1>1, <1>3 DEF BeforeContent, Steady, Kept, NoItem
  <2> QED  BY <1>3, <2>1 DEF OneSided
<1> QED  BY <1>2, <1>3

\* What no task is about is in one store only, as a task leaves it.
LEMMA IdleOneSided ==
  ASSUME TypeOK', SettledInv', NEW i \in Items, lastSynced'[i] = NoPair, task'[i].stage = "idle"
  PROVE  OneSided(i)'
<1>1. Unpaired(i)'
  BY DEF SettledInv, TaskSettled, HasSaved
<1>2. \A s \in Stores : Before(s, i)' = Latest(s, i)' /\ BeforeContent(s, i)' = Current(s, i)'
                        /\ Latest(s, i)' \in Nat
  BY DEF Before, BeforeContent, Current, TypeOK, Latest
<1> QED  BY <1>1, <1>2 DEF Unpaired, OneSided, IsLive, Exists, NoItem

\* What a task loads is what was listed.
LEMMA LoadedBefore ==
  ASSUME OrderlyInv, NEW i \in Items, TaskAsListed(i), task[i].stage \in {"saving", "recording"},
         NEW s \in Stores
  PROVE  /\ Before(s, i) = listing[s][i].rev
         /\ task[i].state[s] = ItemSyncState(s, i)
         /\ task[i].state[s] = "Updated" =>
              /\ Before(s, i) > 0 /\ Before(s, i) # lastSynced[i][s]
              /\ ~BeforeContent(s, i).deleted /\ Loaded(s, i) = BeforeContent(s, i)
         /\ task[i].state[s] = "Deleted" =>
              Before(s, i) > 0 /\ BeforeContent(s, i).deleted /\ Loaded(s, i) = TombstoneContent
         /\ task[i].state[s] = "Unchanged" /\ lastSynced[i] # NoPair /\ Before(s, i) > 0 =>
              Before(s, i) = lastSynced[i][s] /\ ~BeforeContent(s, i).deleted
         /\ task[i].state[s] = "Deleted" => lastSynced[i] # NoPair
<1>1. /\ TypeOK /\ task[i].stage # "idle" /\ task[i].stage \in ActiveStages /\ HasLoaded(i, s)
      /\ TaskChange(i) /\ TaskItems(i) /\ ListingHolds /\ listing[s][i].rev \in Nat
  BY DEF OrderlyInv, IInv, SettledInv, TaskInv, TaskOK, ActiveStages, HasLoaded, TypeOK, ItemStates
<1>2. Before(s, i) = listing[s][i].rev /\ task[i].state[s] = ItemSyncState(s, i)
  BY <1>1 DEF Before, TaskAsListed
<1>3. Listed(s, i) <=> Before(s, i) > 0
  BY <1>1, <1>2 DEF Listed, NoItem
<1>4. CASE task[i].state[s] = "Updated"
  <2>1. task[i].item[s] = listing[s][i].rev /\ Listed(s, i) /\ ~listing[s][i].deleted
    BY <1>1, <1>4 DEF TaskAsListed, TaskChange
  <2>2. Loaded(s, i) = BeforeContent(s, i)
    BY <1>1, <1>2, <2>1 DEF Loaded, ItemContent, BeforeContent, Tombstone
  <2>3. listing[s][i].rev # lastSynced[i][s]
    BY <1>2, <1>4, <2>1 DEF ItemSyncState
  <2> QED  BY <1>1, <1>2, <1>3, <1>4, <2>1, <2>2, <2>3 DEF ListingHolds, BeforeContent
<1>5. CASE task[i].state[s] = "Deleted"
  <2>1. task[i].item[s] = Tombstone /\ Listed(s, i) /\ listing[s][i].deleted
    BY <1>1, <1>5 DEF TaskItems, TaskChange
  <2>2. lastSynced[i] # NoPair
    BY <1>2, <1>5, <2>1 DEF ItemSyncState
  <2> QED  BY <1>1, <1>2, <1>3, <1>5, <2>1, <2>2 DEF ListingHolds, BeforeContent, Loaded, ItemContent
<1>6. CASE task[i].state[s] = "Unchanged"
  <2>1. lastSynced[i] # NoPair /\ Listed(s, i) =>
          listing[s][i].rev = lastSynced[i][s] /\ ~listing[s][i].deleted
    BY <1>2, <1>6 DEF ItemSyncState
  <2> QED  BY <1>1, <1>2, <1>3, <1>6, <2>1 DEF ListingHolds, BeforeContent
<1> QED  BY <1>1, <1>2, <1>4, <1>5, <1>6 DEF TypeOK, Tasks

\* Of two versions of which the second is the base, the first is what they merge to.
LEMMA MergeOfOneChange ==
  ASSUME NEW mine \in Contents, NEW theirs \in Contents, NEW base, ~mine.deleted,
         theirs.fields = base.fields
  PROVE  Merge(mine, theirs, base) = mine
<1>1. mine = [deleted |-> FALSE, fields |-> [f \in Fields |-> mine.fields[f]]]
  BY DEF Contents
<1>2. \A f \in Fields : /\ MergeEntry(base.fields[f], mine.fields[f], theirs.fields[f]) = mine.fields[f]
                       /\ MergeField(base.fields[f], mine.fields[f], theirs.fields[f]) = mine.fields[f]
  BY DEF MergeField, MergeEntry
<1>3. Merge(mine, theirs, base) = [deleted |-> FALSE, fields |-> [f \in Fields |-> mine.fields[f]]]
  BY <1>2 DEF Merge
<1> QED  BY <1>1, <1>3

\* What a sync makes of an item that was synced before.
LEMMA OutgoingPaired ==
  ASSUME OrderlyInv, \A j \in Items : TaskAsListed(j), NEW i \in Items, lastSynced[i] # NoPair, ChangesShow(i),
         task[i].stage \in {"saving", "recording"}
  PROVE  LET mine == BeforeContent("local", i)
             theirs == BeforeContent("cloud", i)
         IN  /\ ~mine.deleted /\ ~theirs.deleted =>
                  Outgoing(i) = IF mine.fields = Base(i).fields THEN theirs ELSE Merge(mine, theirs, Base(i))
             /\ mine.deleted => Outgoing(i) = TombstoneContent
             /\ ~mine.deleted /\ theirs.deleted =>
                  Outgoing(i) = IF mine.fields = Base(i).fields THEN TombstoneContent ELSE mine
<1> DEFINE mine == BeforeContent("local", i)
           theirs == BeforeContent("cloud", i)
<1>1. /\ "local" \in Stores /\ "cloud" \in Stores /\ \A s \in Stores : s = "local" \/ s = "cloud"
      /\ TaskChange(i)
      /\ \A s \in Stores : task[i].state[s] \in {"Unchanged", "Updated", "Deleted"}
      /\ \A s \in Stores : Before(s, i) > 0
      /\ mine \in Contents /\ theirs \in Contents
  <2>1. "local" \in Stores /\ "cloud" \in Stores /\ \A s \in Stores : s = "local" \/ s = "cloud"
    BY DEF Stores
  <2>2. TaskChange(i) /\ task[i] \in Tasks
    BY DEF OrderlyInv, IInv, TypeOK, TaskInv, TaskOK
  <2> QED  BY <2>1, <2>2, PairedRevisions DEF Tasks
<1>2. /\ task[i].state["local"] = "Updated" =>
           /\ Before("local", i) # lastSynced[i]["local"] /\ ~mine.deleted /\ Loaded("local", i) = mine
      /\ task[i].state["local"] = "Deleted" => mine.deleted /\ Loaded("local", i) = TombstoneContent
      /\ task[i].state["local"] = "Unchanged" => Before("local", i) = lastSynced[i]["local"] /\ ~mine.deleted
  BY <1>1, LoadedBefore
<1>3. /\ task[i].state["cloud"] = "Updated" => ~theirs.deleted /\ Loaded("cloud", i) = theirs
      /\ task[i].state["cloud"] = "Deleted" => theirs.deleted /\ Loaded("cloud", i) = TombstoneContent
      /\ task[i].state["cloud"] = "Unchanged" => Before("cloud", i) = lastSynced[i]["cloud"] /\ ~theirs.deleted
  BY <1>1, LoadedBefore
<1>4. task[i].state["local"] = "Unchanged" => mine.fields = Base(i).fields
  BY <1>2 DEF BeforeContent, Base
<1>5. task[i].state["cloud"] = "Unchanged" => theirs.fields = Base(i).fields
  BY <1>3 DEF ChangesShow
<1>6. task[i].state["local"] = "Updated" => mine.fields # Base(i).fields
  BY <1>2 DEF ChangesShow
<1>7. ~mine.deleted /\ theirs.fields = Base(i).fields => Merge(mine, theirs, Base(i)) = mine
  BY <1>1, MergeOfOneChange
<1> HIDE DEF mine, theirs
<1>8. CASE Direction(i) = "merge"
  <2>1. task[i].state["local"] = "Updated" /\ task[i].state["cloud"] = "Updated"
    BY <1>1, <1>8, DirectionCases
  <2>2. Outgoing(i) = Merge(mine, theirs, Base(i))
    BY <1>2, <1>3, <1>8, <2>1 DEF Outgoing
  <2> QED  BY <1>2, <1>3, <1>6, <2>1, <2>2 DEF mine, theirs
<1>9. CASE Direction(i) = "up"
  <2>1. /\ task[i].state["local"] # "Unchanged" /\ Outgoing(i) = Loaded("local", i)
        /\ ~(task[i].state["local"] = "Updated" /\ task[i].state["cloud"] = "Updated")
    BY <1>1, <1>9 DEF Direction, Outgoing
  <2> QED  BY <1>1, <1>2, <1>3, <1>5, <1>6, <1>7, <2>1 DEF mine, theirs
<1>10. CASE Direction(i) = "down"
  <2>1. task[i].state["local"] = "Unchanged" /\ Outgoing(i) = Loaded("cloud", i) /\ task[i].state["cloud"] # "Unchanged"
    BY <1>1, <1>10, DirectionCases DEF Outgoing, TaskChange
  <2> QED  BY <1>1, <1>2, <1>3, <1>4, <1>7, <2>1 DEF mine, theirs
<1> QED  BY <1>8, <1>9, <1>10, DirectionCases

\* What it makes of another: one store has it and the other gets it.
LEMMA OutgoingUnpaired ==
  ASSUME OrderlyInv, \A j \in Items : TaskAsListed(j), NEW i \in Items, lastSynced[i] = NoPair, OneSided(i),
         task[i].stage \in {"saving", "recording"}
  PROVE  \E s \in Stores : /\ Before(s, i) > 0 /\ ~BeforeContent(s, i).deleted
                           /\ Outgoing(i) = BeforeContent(s, i)
                           /\ \A t \in Stores \ {s} : Before(t, i) = NoItem
<1>1. /\ "local" \in Stores /\ "cloud" \in Stores /\ \A s \in Stores : s = "local" \/ s = "cloud"
      /\ TaskChange(i)
      /\ \A s \in Stores : task[i].state[s] \in {"Unchanged", "Updated", "Deleted"}
  <2>1. "local" \in Stores /\ "cloud" \in Stores /\ \A s \in Stores : s = "local" \/ s = "cloud"
    BY DEF Stores
  <2>2. TaskChange(i) /\ task[i] \in Tasks
    BY DEF OrderlyInv, IInv, TypeOK, TaskInv, TaskOK
  <2> QED  BY <2>1, <2>2 DEF Tasks
<1>2. \A s \in Stores : /\ task[i].state[s] # "Unchanged" => task[i].state[s] = "Updated"
                        /\ task[i].state[s] = "Updated" =>
                             /\ Before(s, i) > 0 /\ ~BeforeContent(s, i).deleted
                             /\ Loaded(s, i) = BeforeContent(s, i)
  BY <1>1, LoadedBefore
<1>3. PICK s \in Stores : task[i].state[s] # "Unchanged" /\ Outgoing(i) = Loaded(s, i)
  <2>1. CASE Direction(i) = "merge"
    BY <1>1, <2>1 DEF OrderlyInv, IInv, TaskInv, TaskOK, TaskSaves
  <2>2. CASE Direction(i) = "up"
    BY <1>1, <2>2, DirectionCases DEF Outgoing
  <2>3. CASE Direction(i) = "down"
    BY <1>1, <2>3, DirectionCases DEF Outgoing, TaskChange
  <2> QED  BY <2>1, <2>2, <2>3, DirectionCases
<1>4. Before(s, i) > 0 /\ ~BeforeContent(s, i).deleted /\ Outgoing(i) = BeforeContent(s, i)
  BY <1>2, <1>3
<1>5. \A t \in Stores \ {s} : Before(t, i) = NoItem
  BY <1>1, <1>4 DEF OneSided, NoItem
<1> QED  BY <1>4, <1>5

\* When an item is recorded both stores have what the sync has made of it.
LEMMA RecordedContents ==
  ASSUME OrderlyInv, \A j \in Items : TaskAsListed(j), NEW i \in Items, task[i].stage = "recording",
         NEW s \in Stores
  PROVE  /\ Latest(s, i) > 0
         /\ Current(s, i).deleted <=> Outgoing(i).deleted
         /\ ~Outgoing(i).deleted => Current(s, i) = Outgoing(i)
<1>1. /\ TaskChange(i) /\ task[i].pending = {} /\ task[i].stage \in {"saving", "recording"}
      /\ task[i].state[s] \in {"Unchanged", "Updated", "Deleted"}
      /\ "local" \in Stores /\ "cloud" \in Stores /\ \A r \in Stores : r = "local" \/ r = "cloud"
  <2>1. "local" \in Stores /\ "cloud" \in Stores /\ \A r \in Stores : r = "local" \/ r = "cloud"
    BY DEF Stores
  <2>2. TaskChange(i) /\ task[i] \in Tasks /\ TaskSaves(i)
    BY DEF OrderlyInv, IInv, TypeOK, TaskInv, TaskOK
  <2> QED  BY <2>1, <2>2 DEF Tasks, TaskSaves
<1>2. CASE HasSaved(i, s)
  <2>1. Latest(s, i) = Before(s, i) + 1 /\ Current(s, i) = Outgoing(i) /\ Before(s, i) \in Nat
    BY <1>2, BeforeLatest
  <2> QED  BY <2>1
<1>3. CASE ~HasSaved(i, s)
  <2>1. task[i].state[s] # "Unchanged" /\ Outgoing(i) = Loaded(s, i)
    <3>1. s \notin Target(i)
      BY <1>1, <1>3 DEF HasSaved
    <3>2. CASE Direction(i) = "merge"
      BY <3>1, <3>2, DirectionCases
    <3>3. CASE Direction(i) = "up"
      BY <1>1, <3>1, <3>3, DirectionCases DEF Outgoing
    <3>4. CASE Direction(i) = "down"
      BY <1>1, <3>1, <3>4, DirectionCases DEF Outgoing, TaskChange
    <3> QED  BY <3>2, <3>3, <3>4, DirectionCases
  <2>2. Latest(s, i) = Before(s, i) /\ BeforeContent(s, i) = Current(s, i)
    BY <1>3, BeforeLatest DEF BeforeContent, Current
  <2>3. /\ task[i].state[s] = "Updated" =>
             Before(s, i) > 0 /\ ~BeforeContent(s, i).deleted /\ Loaded(s, i) = BeforeContent(s, i)
        /\ task[i].state[s] = "Deleted" =>
             Before(s, i) > 0 /\ BeforeContent(s, i).deleted /\ Loaded(s, i) = TombstoneContent
    BY <1>1, LoadedBefore
  <2> QED  BY <1>1, <2>1, <2>2, <2>3 DEF TombstoneContent
<1> QED  BY <1>2, <1>3

\* What is recorded.
LEMMA RecordedPair ==
  ASSUME OrderlyInv, \A j \in Items : TaskAsListed(j), NEW i \in Items, SetLastSyncedRevision(i)
  PROVE  /\ lastSynced'[i] = NoPair <=> Outgoing(i).deleted
         /\ ~Outgoing(i).deleted => Base(i)' = Outgoing(i)
         /\ task'[i].stage = "idle" /\ revisions' = revisions
         /\ \A s \in Stores : /\ Before(s, i)' = Latest(s, i)
                              /\ BeforeContent(s, i)' = Current(s, i)
<1>1. /\ TypeOK /\ IInv /\ CoverInv /\ SettledInv /\ task[i].stage = "recording" /\ task[i].stage \in ActiveStages
      /\ lastSynced' = [lastSynced EXCEPT ![i] = SyncedPair(i)] /\ ItemDone(i, "updated")
      /\ revisions' = revisions /\ "updated" \in {"updated", "failed"} /\ "local" \in Stores
  BY DEF OrderlyInv, IInv, SetLastSyncedRevision, ActiveStages, Stores
<1>2. lastSynced'[i] = SyncedPair(i)
  BY <1>1 DEF TypeOK
<1>3. /\ Latest("local", i) > 0 /\ (Current("local", i).deleted <=> Outgoing(i).deleted)
      /\ (~Outgoing(i).deleted => Current("local", i) = Outgoing(i))
  BY <1>1, RecordedContents
<1>4. SyncedPair(i) = NoPair => Outgoing(i).deleted
  BY <1>1, <1>3, RecordedUnpaired DEF IsLive, Exists
<1>5. Outgoing(i).deleted => SyncedPair(i) = NoPair
  BY DEF SyncedPair
<1>6. ~Outgoing(i).deleted => Base(i)' = Outgoing(i)
  <2>1. ~Outgoing(i).deleted => lastSynced'[i]["local"] = Latest("local", i)
    BY <1>3, RecordedIsCurrent DEF IsLive, Exists
  <2> QED  BY <1>1, <1>3, <2>1 DEF Base, Current
<1>7. task'[i].stage = "idle"
  BY <1>1, ItemDoneStep, IdleTaskType
<1>8. \A s \in Stores : Before(s, i)' = Latest(s, i) /\ BeforeContent(s, i)' = Current(s, i)
  BY <1>1, <1>7 DEF Before, BeforeContent, Latest, Current
<1> QED  BY <1>1, <1>2, <1>4, <1>5, <1>6, <1>7, <1>8

LEMMA RecordedShows ==
  ASSUME OrderlyInv, OrderlyInv', \A j \in Items : TaskAsListed(j), NEW i \in Items,
         SetLastSyncedRevision(i), lastSynced'[i] # NoPair
  PROVE  ChangesShow(i)'
<1>1. /\ ~Outgoing(i).deleted /\ Base(i)' = Outgoing(i) /\ Outgoing(i) \in Contents
      /\ \A s \in Stores : /\ Before(s, i)' = Latest(s, i)' /\ Latest(s, i)' = Latest(s, i)
                           /\ BeforeContent(s, i)' = Outgoing(i)
      /\ "local" \in Stores /\ "cloud" \in Stores
  <2>1. task[i].stage = "recording" /\ IInv
    BY DEF SetLastSyncedRevision, OrderlyInv
  <2>2. revisions' = revisions
    BY RecordedPair
  <2> QED  BY <2>1, <2>2, RecordedPair, RecordedContents, OutgoingType DEF Latest, Stores
<1>2. \A s \in Stores : lastSynced'[i][s] <= Before(s, i)'
  BY <1>1 DEF OrderlyInv, IInv, LastSyncedRevisionsExist, HasRevision
<1>3. lastSynced'[i]["local"] = Before("local", i)'
  <2>1. task[i].stage = "recording"
    BY DEF SetLastSyncedRevision
  <2> QED  BY <1>1, <2>1, RecordedContents, RecordedIsCurrent DEF IsLive, Exists
<1>4. Outgoing(i) = [deleted |-> FALSE, fields |-> Outgoing(i).fields]
  BY <1>1 DEF Contents
<1>5. \A s, t \in Stores : NewTo(s, t, i)'
  BY <1>1 DEF NewTo
<1> QED  BY <1>1, <1>2, <1>3, <1>4, <1>5 DEF ChangesShow

\* A change shows in the store whose user makes it, and is new to the other.
LEMMA ChangedShows ==
  ASSUME OrderlyInv, \A j \in Items : TaskAsListed(j), ValuesInv, UNCHANGED <<lastSynced, syncVars>>,
         NEW i \in Items, lastSynced[i] # NoPair, ChangesShow(i), task[i].stage = "idle",
         NEW s \in Stores, NEW c, Change(s, i, c)
  PROVE  ChangesShow(i)'
<1>1. /\ TypeOK /\ task' = task /\ revisions' = Saved(s, i, c) /\ edits \in Nat
      /\ HasRevision("local", i, lastSynced[i]["local"]) /\ Base(i) \in Contents
      /\ \A r \in Stores : /\ lastSynced[i][r] \in Nat /\ lastSynced[i][r] > 0 /\ lastSynced[i][r] <= Before(r, i)
                           /\ Before(r, i) = Latest(r, i) /\ Latest(r, i) \in Nat /\ Latest(r, i) > 0
                           /\ BeforeContent(r, i) = Current(r, i) /\ BeforeContent(r, i) \in Contents
                           /\ Before(r, i)' = Latest(r, i)' /\ BeforeContent(r, i)' = Current(r, i)'
      /\ "local" \in Stores /\ "cloud" \in Stores
  <2>1. TypeOK /\ edits \in Nat /\ "local" \in Stores /\ "cloud" \in Stores
    BY DEF OrderlyInv, IInv, TypeOK, Stores
  <2>2. revisions' = Saved(s, i, c) /\ task' = task
    BY DEF Change, syncVars
  <2>3. \A r \in Stores : lastSynced[i][r] <= Before(r, i)
    BY DEF ChangesShow
  <2> QED  BY <2>1, <2>2, <2>3, PairedRevisions DEF Before, BeforeContent, Current
<1>2. /\ \A r \in Stores : r # s => revisions'[r][i] = revisions[r][i]
      /\ Latest(s, i)' = Latest(s, i) + 1 /\ Current(s, i)' = c
      /\ \A n \in 1..Latest(s, i) : revisions'[s][i][n] = revisions[s][i][n]
      /\ revisions'[s][i][Latest(s, i) + 1] = c
  BY <1>1, Appended DEF Current
<1>3. \A r \in Stores : r # s => Latest(r, i)' = Latest(r, i) /\ Current(r, i)' = Current(r, i)
  BY <1>2 DEF Latest, Current
<1>4. Base(i)' = Base(i)
  <2>1. revisions'["local"][i][lastSynced[i]["local"]] = revisions["local"][i][lastSynced[i]["local"]]
    BY <1>1, <1>2 DEF HasRevision
  <2> QED  BY <2>1 DEF Base
<1>5. c \in Contents /\ ~Current(s, i).deleted
      /\ \/ c = TombstoneContent
         \/ /\ ~c.deleted
            /\ \E f \in Fields : /\ c.fields[f] \in {edits + 1, -(edits + 1)}
                                 /\ \A g \in Fields : g # f => c.fields[g] = Current(s, i).fields[g]
  <2>1. ~New(i)
    BY <1>1 DEF New, Exists
  <2>2. IsLive(s, i)
    BY <2>1 DEF Change
  <2> QED  BY <1>1, <2>1, <2>2, ChangeValues DEF IsLive
<1>6. \A f \in Fields : /\ Base(i).fields[f] \in (-edits)..edits
                        /\ \A r \in Stores : Current(r, i).fields[f] \in (-edits)..edits
                        /\ \A r \in Stores : \A n \in 1..Latest(r, i) :
                             revisions[r][i][n].fields[f] \in (-edits)..edits
  <2>1. \A f \in Fields, r \in Stores : \A n \in 1..Latest(r, i) :
          revisions[r][i][n].fields[f] \in (-edits)..edits
    BY DEF ValuesInv
  <2>2. \A r \in Stores : Latest(r, i) \in 1..Latest(r, i)
    BY <1>1
  <2> QED  BY <1>1, <2>1, <2>2 DEF Base, Current, HasRevision
<1>7. \A r \in Stores : lastSynced'[i][r] <= Before(r, i)'
  BY <1>1, <1>2, <1>3
<1>8. Before("cloud", i)' = lastSynced'[i]["cloud"] =>
        BeforeContent("cloud", i)' = [deleted |-> FALSE, fields |-> Base(i)'.fields]
  <2>1. CASE s = "cloud"
    BY <1>1, <1>2, <2>1
  <2>2. CASE s # "cloud"
    BY <1>1, <1>3, <1>4, <2>2 DEF ChangesShow
  <2> QED  BY <2>1, <2>2
<1>9. Before("local", i)' # lastSynced'[i]["local"] =>
        BeforeContent("local", i)'.deleted \/ BeforeContent("local", i)'.fields # Base(i)'.fields
  <2>1. CASE s = "local"
    <3>1. BeforeContent("local", i)' = c
      BY <1>1, <1>2, <2>1
    <3>2. CASE c = TombstoneContent
      BY <3>1, <3>2 DEF TombstoneContent
    <3>3. ASSUME NEW f \in Fields, c.fields[f] \in {edits + 1, -(edits + 1)} PROVE c.fields # Base(i).fields
      <4>1. Base(i).fields[f] # edits + 1 /\ Base(i).fields[f] # -(edits + 1)
        BY <1>1, <1>6
      <4> QED  BY <3>3, <4>1
    <3> QED  BY <1>4, <1>5, <3>1, <3>2, <3>3
  <2>2. CASE s # "local"
    BY <1>1, <1>3, <1>4, <2>2 DEF ChangesShow
  <2> QED  BY <2>1, <2>2
<1>10. ASSUME NEW r \in Stores, NEW t \in Stores, r # t, ~BeforeContent(r, i)'.deleted
       PROVE  NewTo(r, t, i)'
  <2> SUFFICES ASSUME NEW g \in Fields, BeforeContent(r, i)'.fields[g] # Base(i).fields[g]
               PROVE  /\ BeforeContent(r, i)'.fields[g] # 0
                      /\ \A n \in 1..Before(t, i)' : revisions'[t][i][n].fields[g] # BeforeContent(r, i)'.fields[g]
    BY <1>4 DEF NewTo
  <2>1. CASE r = s
    <3>1. BeforeContent(r, i)' = c /\ revisions'[t][i] = revisions[t][i] /\ Before(t, i)' = Latest(t, i)
      BY <1>1, <1>2, <1>3, <1>10, <2>1
    <3>2. CASE c.fields[g] \in {edits + 1, -(edits + 1)}
      BY <1>1, <1>6, <3>1, <3>2
    <3>3. CASE c.fields[g] = Current(s, i).fields[g]
      <4>1. NewTo(r, t, i)
        BY <1>1, <1>5, <1>10, <2>1 DEF ChangesShow
      <4> QED  BY <1>1, <2>1, <3>1, <3>3, <4>1 DEF NewTo
    <3> QED  BY <1>5, <1>10, <3>1, <3>2, <3>3 DEF TombstoneContent
  <2>2. CASE r # s /\ t = s
    <3>1. BeforeContent(r, i)' = Current(r, i) /\ Before(s, i)' = Latest(s, i) + 1
      BY <1>1, <1>2, <1>3, <2>2
    <3>2. /\ Current(r, i).fields[g] # 0
          /\ \A n \in 1..Latest(s, i) : revisions[s][i][n].fields[g] # Current(r, i).fields[g]
      <4>1. NewTo(r, s, i)
        BY <1>1, <1>10, <2>2, <3>1 DEF ChangesShow
      <4> QED  BY <1>1, <3>1, <4>1 DEF NewTo
    <3>3. c.fields[g] # Current(r, i).fields[g]
      <4>1. CASE c.fields[g] \in {edits + 1, -(edits + 1)}
        BY <1>1, <1>6, <4>1
      <4>2. CASE c.fields[g] = Current(s, i).fields[g]
        <5>1. Latest(s, i) \in 1..Latest(s, i)
          BY <1>1
        <5> QED  BY <3>2, <4>2, <5>1 DEF Current
      <4>3. CASE c = TombstoneContent
        BY <3>2, <4>3 DEF TombstoneContent
      <4> QED  BY <1>5, <4>1, <4>2, <4>3
    <3>4. ASSUME NEW n \in 1..Before(s, i)' PROVE revisions'[s][i][n].fields[g] # Current(r, i).fields[g]
      <4>1. CASE n = Latest(s, i) + 1
        BY <1>2, <3>3, <4>1
      <4>2. CASE n # Latest(s, i) + 1
        <5>1. n \in 1..Latest(s, i)
          BY <1>1, <3>1, <4>2
        <5> QED  BY <1>2, <3>2, <5>1
      <4> QED  BY <4>1, <4>2
    <3> QED  BY <2>2, <3>1, <3>2, <3>4
  <2>3. r = s \/ t = s
    BY <1>10 DEF Stores
  <2> QED  BY <1>10, <2>1, <2>2, <2>3
<1> QED  BY <1>7, <1>8, <1>9, <1>10 DEF ChangesShow

\* A change of another item is not seen here.
LEMMA OthersSteady ==
  ASSUME TypeOK, UNCHANGED <<lastSynced, syncVars>>, NEW i \in Items, NEW s \in Stores, NEW c,
         Change(s, i, c), NEW j \in Items \ {i}
  PROVE  Steady(j)
<1>1. \A r \in Stores : revisions'[r][j] = revisions[r][j]
  BY Appended DEF Change
<1> QED  BY <1>1 DEF Steady, Before, Latest, syncVars

LEMMA ShowsStep ==
  ASSUME Orderly, OrderlyInv, AtomicInv, [Next]_vars, NEW i \in Items
  PROVE  IF lastSynced'[i] = NoPair THEN OneSided(i)' ELSE ChangesShow(i)'
<1>1. /\ OrderlyInv' /\ TypeOK /\ TypeOK' /\ SettledInv' /\ IInv /\ PhaseInv /\ SettledInv
      /\ (\A j \in Items : TaskAsListed(j)) /\ ValuesInv
      /\ IF lastSynced[i] = NoPair THEN OneSided(i) ELSE ChangesShow(i)
  BY OrderlyStays DEF OrderlyInv, IInv, AtomicInv
<1>2. Kept
  BY <1>1, NextKeeps
<1>3. CASE Steady(i)
  BY <1>1, <1>2, <1>3, SteadyShows, SteadyOneSided DEF Steady
<1>4. CASE SetLastSyncedRevision(i)
  <2>1. task'[i].stage = "idle"
    BY <1>1, <1>4, RecordedPair
  <2> QED  BY <1>1, <1>4, <2>1, RecordedShows, IdleOneSided
<1>5. CASE Users /\ currentSync = "none"
  <2>1. /\ UNCHANGED <<lastSynced, syncVars>>
        /\ \E j \in Items, s \in Stores : \E c : Change(s, j, c)
    BY <1>5, UsersChange
  <2>a. PICK j \in Items, s \in Stores : \E c : Change(s, j, c)
    BY <2>1
  <2>2. PICK c : Change(s, j, c)
    BY <2>a
  <2>3. task[i].stage = "idle" /\ task' = task
    BY <1>1, <1>5, <2>1 DEF PhaseInv, syncVars
  <2>4. CASE j # i
    BY <1>1, <1>3, <2>1, <2>2, <2>4, OthersSteady
  <2>5. CASE j = i
    <3>1. CASE lastSynced[i] = NoPair
      BY <1>1, <2>1, <2>3, <3>1, IdleOneSided
    <3>2. CASE lastSynced[i] # NoPair
      BY <1>1, <2>1, <2>2, <2>3, <2>5, <3>2, ChangedShows
    <3> QED  BY <3>1, <3>2
  <2> QED  BY <2>4, <2>5
<1> QED  BY <1>1, <1>3, <1>4, <1>5, ItemsAreSteady

LEMMA AtomicStarts == Init => AtomicInv
<1> SUFFICES ASSUME Init PROVE AtomicInv
  OBVIOUS
<1>1. \A i \in Items : task[i].stage = "idle" /\ lastSynced[i] = NoPair
  BY IdleTaskType DEF Init
<1>2. \A s \in Stores, i \in Items : Latest(s, i) = 0
  BY DEF Init, Latest
<1>3. \A i \in Items : TaskAsListed(i)
  BY <1>1 DEF TaskAsListed
<1>4. ValuesInv
  BY <1>2 DEF ValuesInv
<1>5. \A i \in Items : OneSided(i)
  BY <1>1, <1>2 DEF OneSided, Before, NoItem, Stores
<1> QED  BY <1>1, <1>3, <1>4, <1>5 DEF AtomicInv

LEMMA AtomicStays ==
  ASSUME Orderly, OrderlyInv, AtomicInv, [Next]_vars PROVE OrderlyInv' /\ AtomicInv'
<1>1. OrderlyInv' /\ (\A i \in Items : TaskAsListed(i)) /\ ValuesInv
  BY OrderlyStays DEF AtomicInv
<1>2. (\A i \in Items : TaskAsListed(i)') /\ ValuesInv'
  BY <1>1, AsListedStep, ValuesStep
<1>3. \A i \in Items : IF lastSynced'[i] = NoPair THEN OneSided(i)' ELSE ChangesShow(i)'
  BY ShowsStep
<1> QED  BY <1>1, <1>2, <1>3 DEF AtomicInv

\* Each task is about what was listed, and what is done, whatever the order of the
\* calls, is either agreed on or a change that a user has made since.
THEOREM TasksAreAtomic == ASSUME Orderly PROVE Spec => []AtomicInv
<1>1. OrderlyInv /\ AtomicInv /\ [Next]_vars => (OrderlyInv /\ AtomicInv)'
  BY AtomicStays
<1> QED  BY <1>1, OrderlyStarts, AtomicStarts, PTL DEF Spec

-----------------------------------------------------------------------------
(* What can fail when nothing goes wrong *)

\* A merge that throws, or a tombstone that is refused, is of an item that no sync
\* can bring into agreement as it is.
LEMMA RefusedIsUnsyncable ==
  ASSUME OrderlyInv, \A j \in Items : TaskAsListed(j), NEW i \in Items, MergeFails(i)
  PROVE  Unsyncable(i)
<1>1. /\ IInv /\ TypeOK /\ SettledInv /\ ListingHolds /\ task[i].stage = "loading" /\ task[i].pending = {}
      /\ ReadyToSave(i) /\ ~Succeeds(i)
      /\ task[i] \in Tasks /\ TaskChange(i) /\ TaskItems(i) /\ TaskCovers(i)
      /\ "local" \in Stores /\ "cloud" \in Stores /\ \A s \in Stores : s = "local" \/ s = "cloud"
  BY DEF OrderlyInv, IInv, TypeOK, SettledInv, MergeFails, ReadyToSave, TaskInv, TaskOK, CoverInv, ActiveStages, Stores
<1>2. \A s \in Stores : /\ Latest(s, i) = listing[s][i].rev /\ Latest(s, i) \in Nat
                        /\ task[i].state[s] = ItemSyncState(s, i)
                        /\ task[i].state[s] = "Updated" => task[i].item[s] = listing[s][i].rev
  <2>1. \A s \in Stores : ~HasSaved(i, s) /\ HasLoaded(i, s) /\ Latest(s, i) \in Nat
    BY <1>1 DEF HasSaved, HasLoaded, TypeOK, Latest
  <2> QED  BY <1>1, <2>1 DEF SettledInv, TaskSettled, TaskAsListed, ActiveStages
<1>3. ASSUME Direction(i) = "merge" PROVE MergeIsRefused(i)
  <2>1. HasBase(i) /\ \A s \in Stores : IsLive(s, i) /\ task[i].state[s] = "Updated"
    BY <1>1, <1>3, MergesHaveBase, DirectionCases
  <2>2. ASSUME NEW s \in Stores PROVE Loaded(s, i) = Current(s, i) /\ lastSynced[i][s] # Latest(s, i)
    <3>1. task[i].item[s] = Latest(s, i) /\ Latest(s, i) # Tombstone
      BY <1>2, <2>1 DEF Tombstone
    <3>2. listing[s][i].rev # lastSynced[i][s]
      BY <1>2, <2>1 DEF ItemSyncState
    <3> QED  BY <1>2, <3>1, <3>2 DEF Loaded, ItemContent, Current
  <2>3. MergeThrows(Base(i).fields, Loaded("local", i).fields, Loaded("cloud", i).fields)
    BY <1>1, <1>3, <2>1 DEF Succeeds
  <2> QED  BY <1>1, <2>1, <2>2, <2>3 DEF MergeIsRefused, HasBase
<1>4. ASSUME Direction(i) = "down" PROVE RemovalIsRefused(i)
  <2>1. ~LocalTakesTombstones /\ Loaded("cloud", i).deleted
    BY <1>1, <1>4 DEF Succeeds, Outgoing
  <2>2. task[i].state["local"] = "Unchanged" /\ task[i].state["cloud"] # "Unchanged"
    BY <1>1, <1>4, DirectionCases DEF TaskChange
  <2>3. task[i].state["cloud"] = "Deleted"
    <3>1. ASSUME task[i].state["cloud"] = "Updated" PROVE FALSE
      <4>1. ~revisions["cloud"][i][task[i].item["cloud"]].deleted
        BY <1>1, <3>1 DEF TaskCovers, ActiveStages, HasLoaded
      <4>2. task[i].item["cloud"] # Tombstone
        BY <1>1, <1>2, <3>1 DEF Tombstone
      <4> QED  BY <2>1, <4>1, <4>2 DEF Loaded, ItemContent
    <3> QED  BY <1>1, <2>2, <3>1 DEF Tasks
  <2>4. lastSynced[i] # NoPair /\ Listed("cloud", i) /\ listing["cloud"][i].deleted
    <3>1. TaskChange(i) /\ ItemSyncState("cloud", i) = "Deleted"
      BY <1>1, <1>2, <2>3
    <3>2. Listed("cloud", i) /\ listing["cloud"][i].deleted
      BY <1>1, <2>3, <3>1 DEF TaskChange
    <3> QED  BY <3>1, <3>2 DEF ItemSyncState
  <2>5. Exists("cloud", i) /\ Current("cloud", i).deleted
    BY <1>1, <1>2, <2>4, ListedIsThere
  <2>6. Listed("local", i)
    <3>1. HasRevision("local", i, lastSynced[i]["local"])
      BY <1>1, <2>4 DEF IInv, LastSyncedRevisionsExist
    <3>2. Latest("local", i) > 0
      BY <1>1, <1>2, <3>1 DEF HasRevision
    <3> QED  BY <1>1, <1>2, <3>2 DEF Listed, NoItem
  <2>7. lastSynced[i]["local"] = Latest("local", i)
    <3>1. ItemSyncState("local", i) = "Unchanged"
      BY <1>1, <1>2, <2>2
    <3>2. listing["local"][i].rev = lastSynced[i]["local"]
      BY <2>4, <2>6, <3>1 DEF ItemSyncState
    <3> QED  BY <1>1, <1>2, <3>2
  <2> QED  BY <2>1, <2>4, <2>5, <2>7 DEF RemovalIsRefused
<1> QED  BY <1>1, <1>3, <1>4 DEF Unsyncable, Succeeds

\* It stays so while nothing is saved or recorded of it.
LEMMA UnsyncableStays ==
  ASSUME NEW i \in Items, lastSynced'[i] = lastSynced[i], \A s \in Stores : revisions'[s][i] = revisions[s][i],
         Unsyncable(i)
  PROVE  Unsyncable(i)'
<1>1. "local" \in Stores /\ "cloud" \in Stores
  BY DEF Stores
<1>2. /\ Base(i)' = Base(i)
      /\ \A s \in Stores : /\ Latest(s, i)' = Latest(s, i) /\ Current(s, i)' = Current(s, i)
                           /\ (Exists(s, i)' <=> Exists(s, i)) /\ (IsLive(s, i)' <=> IsLive(s, i))
  BY <1>1 DEF Base, Latest, Current, Exists, IsLive
<1>3. RemovalIsRefused(i) => RemovalIsRefused(i)'
  BY <1>1, <1>2 DEF RemovalIsRefused
<1>4. MergeIsRefused(i) => MergeIsRefused(i)'
  BY <1>1, <1>2 DEF MergeIsRefused
<1> QED  BY <1>3, <1>4 DEF Unsyncable

LEMMA CalmStep ==
  ASSUME Undisturbed, OrderlyInv, \A j \in Items : TaskAsListed(j), Calm, [Next]_vars PROVE Calm'
<1>1. /\ Orderly /\ IInv /\ TypeOK /\ SettledInv /\ progress \in Progress /\ PhaseInv
      /\ currentSync \in {"none", "pending", "resolved", "rejected"}
  BY DEF Undisturbed, Orderly, OrderlyInv, IInv, TypeOK
<1>2. CASE SyncItems
  BY <1>1, <1>2 DEF SyncItems, NoProgress, Calm
<1>3. CASE (\E s \in Stores : ListItemStates(s)) \/ ListingDone
  <2>1. progress.failed = 0 /\ currentSync = "pending" /\ progress.state = "ListingItems"
    BY <1>1, <1>3 DEF ListItemStates, ListingDone, PhaseInv
  <2>2. progress'.failed = 0 /\ currentSync' # "rejected"
    BY <1>1, <1>3, <2>1, ListingOver DEF ListItemStates
  <2> QED  BY <2>2 DEF Calm
<1>4. CASE ForgetSync \/ CrashBetweenItems
  BY <1>4 DEF ForgetSync, CrashBetweenItems, Crash, Calm
<1>5. CASE Users /\ currentSync = "none"
  <2>1. currentSync' = "none"
    BY <1>5, UsersChange DEF syncVars
  <2> QED  BY <2>1 DEF Calm
<1>6. CASE ListingFails
  BY <1>6 DEF ListingFails, Fault, Calm
<1>7. CASE UNCHANGED vars
  <2>1. UNCHANGED <<progress, currentSync, task, revisions, lastSynced>>
    BY <1>7 DEF vars, syncVars
  <2> QED  BY <2>1, UnsyncableStays DEF Calm
<1>8. ASSUME NEW i \in Items,
             \/ MergeAndSyncItem(i) \/ SetLastSyncedRevision(i)
             \/ \E s \in Stores : LoadItem(i, s) \/ SaveItem(i, s)
      PROVE  Calm'
  <2>1. /\ progress'.failed = progress.failed /\ currentSync' # "rejected" /\ currentSync = "pending"
        /\ task[i].stage # "idle"
    <3>1. task[i].stage # "idle"
      BY <1>8 DEF MergeAndSyncItem, ReadyToSave, SetLastSyncedRevision, LoadItem, SaveItem
    <3>2. currentSync = "pending"
      BY <1>1, <3>1 DEF PhaseInv, Progress
    <3> QED  BY <1>1, <1>8, <3>1, <3>2, ListingOver
  <2>2. ASSUME NEW j \in Items, task[j].stage = "idle", Unsyncable(j)
        PROVE  task'[j].stage = "idle" /\ Unsyncable(j)'
    <3>1. j # i
      BY <2>1, <2>2
    <3>2. CASE SetLastSyncedRevision(i)
      <4>1. /\ task[i].stage \in ActiveStages /\ ItemDone(i, "updated") /\ revisions' = revisions
            /\ lastSynced'[j] = lastSynced[j] /\ "updated" \in {"updated", "failed"}
        BY <1>1, <3>1, <3>2 DEF SetLastSyncedRevision, ActiveStages, TypeOK
      <4>2. task'[j] = task[j]
        BY <1>1, <2>2, <3>1, <4>1, ItemDoneStep
      <4> QED  BY <2>2, <4>1, <4>2, UnsyncableStays
    <3>3. CASE MergeAndSyncItem(i) \/ \E s \in Stores : LoadItem(i, s)
      <4>1. task'[j] = task[j] /\ UNCHANGED <<revisions, lastSynced>>
        BY <1>1, <3>1, <3>3 DEF MergeAndSyncItem, LoadItem, TypeOK
      <4> QED  BY <2>2, <4>1, UnsyncableStays
    <3>4. ASSUME NEW s \in Stores, SaveItem(i, s) PROVE task'[j].stage = "idle" /\ Unsyncable(j)'
      <4>1. /\ task'[j] = task[j] /\ lastSynced' = lastSynced
            /\ \A r \in Stores : revisions'[r][j] = revisions[r][j]
        BY <1>1, <3>1, <3>4, Appended DEF SaveItem, TypeOK
      <4> QED  BY <2>2, <4>1, UnsyncableStays
    <3> QED  BY <1>8, <3>2, <3>3, <3>4
  <2> QED  BY <2>1, <2>2 DEF Calm
<1>9. ASSUME NEW i \in Items, FailsUnsaved(i) PROVE Calm'
  <2>1. MergeFails(i)
    BY <1>9 DEF FailsUnsaved, LoadFails, Fault, Undisturbed
  <2>2. /\ task[i].stage \in ActiveStages /\ ItemDone(i, "failed") /\ "failed" \in {"updated", "failed"}
        /\ UNCHANGED <<revisions, lastSynced>>
    BY <2>1 DEF MergeFails, ReadyToSave, ActiveStages
  <2>3. task'[i].stage = "idle" /\ currentSync' # "rejected"
    BY <1>1, <2>2, ItemDoneStep, IdleTaskType
  <2>4. Unsyncable(i)'
    BY <2>1, <2>2, RefusedIsUnsyncable, UnsyncableStays
  <2> QED  BY <2>3, <2>4 DEF Calm
<1> QED  BY <1>1, <1>2, <1>3, <1>4, <1>5, <1>6, <1>7, <1>8, <1>9, OrderlySteps DEF EarlyFailure

\* If only listings fail and only between items the program stops, and nobody edits
\* during a sync, an item of a sync fails only if it cannot be synced: the merge
\* throws, or the local store refuses its removal.  No sync is rejected if no listing
\* can fail.
THEOREM UndisturbedSyncsSucceed == ASSUME Undisturbed PROVE Spec => []Calm
<1>1. Orderly
  BY DEF Undisturbed, Orderly
<1>2. Init => Calm
  BY DEF Init, Calm
<1>3. OrderlyInv /\ AtomicInv /\ Calm /\ [Next]_vars => (OrderlyInv /\ AtomicInv /\ Calm)'
  <2>1. AtomicInv => \A j \in Items : TaskAsListed(j)
    BY DEF AtomicInv
  <2> QED  BY <1>1, <2>1, AtomicStays, CalmStep
<1> QED  BY <1>2, <1>3, OrderlyStarts, AtomicStarts, PTL DEF Spec

-----------------------------------------------------------------------------
(* No value returns *)

\* What is saved to a store has each field as it was there, or with a value new to it.
LEMMA SaveBringsNoValueBack ==
  ASSUME OrderlyInv, AtomicInv, NEW i \in Items, NEW s \in Stores, SaveItem(i, s), NEW r \in Stores,
         SyncWrites(i, r), NEW f \in Fields
  PROVE  \/ Current(r, i)'.fields[f] = Current(r, i).fields[f]
         \/ \A n \in 1..Latest(r, i) : Current(r, i)'.fields[f] # revisions[r][i][n].fields[f]
         \/ FallsBack(i, r, f)
<1>1. /\ TypeOK /\ SettledInv /\ task[i].stage = "saving" /\ s \in task[i].pending
      /\ revisions' = Saved(s, i, Outgoing(i))
      /\ (\A j \in Items : TaskAsListed(j))
      /\ "local" \in Stores /\ "cloud" \in Stores /\ \A t \in Stores : t = "local" \/ t = "cloud"
  BY DEF OrderlyInv, IInv, AtomicInv, SaveItem, Stores
<1>2. r = s
  BY <1>1, Appended DEF SyncWrites
<1>3. Current(s, i)' = Outgoing(i)
  BY <1>1, Appended
<1>4. Before(s, i) = Latest(s, i) /\ BeforeContent(s, i) = Current(s, i)
  BY <1>1, BeforeLatest DEF HasSaved, BeforeContent, Current
<1>5. ~BeforeContent(s, i).deleted /\ Before(s, i) > 0 /\ ~Outgoing(i).deleted
  BY <1>2, <1>3, <1>4 DEF SyncWrites, IsLive, Exists
<1>6. lastSynced[i] # NoPair
  <2>1. CASE lastSynced[i] = NoPair
    <3>1. OneSided(i)
      BY <2>1 DEF AtomicInv
    <3>2. PICK t \in Stores : \A q \in Stores \ {t} : Before(q, i) = NoItem
      BY <1>1, <2>1, <3>1, OutgoingUnpaired
    <3>3. s = t
      BY <1>5, <3>2 DEF NoItem
    <3>4. s \in Target(i)
      BY <1>1 DEF OrderlyInv, IInv, TaskInv, TaskOK, TaskSaves
    <3>5. Direction(i) # "merge"
      BY <1>1, <2>1 DEF OrderlyInv, IInv, TaskInv, TaskOK, TaskSaves
    <3>6. \A q \in Stores \ {t} : task[i].state[q] = "Unchanged"
      <4>1. ASSUME NEW q \in Stores \ {t} PROVE task[i].state[q] = "Unchanged"
        <5>1. Before(q, i) = listing[q][i].rev /\ task[i].state[q] = ItemSyncState(q, i)
          BY <1>1, LoadedBefore
        <5> QED  BY <3>2, <5>1 DEF ItemSyncState, Listed
      <4> QED  BY <4>1
    <3>7. TaskChange(i)
      BY <1>1 DEF OrderlyInv, IInv, TaskInv, TaskOK
    <3> QED  BY <1>1, <3>3, <3>4, <3>5, <3>6, <3>7, DirectionCases DEF TaskChange
  <2> QED  BY <2>1
<1>7. ChangesShow(i)
  BY <1>6 DEF AtomicInv
<1> DEFINE mine == BeforeContent("local", i)
           theirs == BeforeContent("cloud", i)
<1>8. ~mine.deleted
  BY <1>1, <1>5, <1>6, <1>7, OutgoingPaired DEF TombstoneContent
<1>9. PICK t \in Stores : t # s
  BY <1>1
<1>10. CASE theirs.deleted
  <2>1. Outgoing(i) = IF mine.fields = Base(i).fields THEN TombstoneContent ELSE mine
    BY <1>1, <1>6, <1>7, <1>8, <1>10, OutgoingPaired
  <2>2. s = "local" /\ Outgoing(i) = mine
    BY <1>1, <1>5, <1>10, <2>1 DEF TombstoneContent
  <2> QED  BY <1>2, <1>3, <1>4, <2>2
<1>11. CASE ~theirs.deleted
  <2>1. Outgoing(i) = IF mine.fields = Base(i).fields THEN theirs ELSE Merge(mine, theirs, Base(i))
    BY <1>1, <1>6, <1>7, <1>8, <1>11, OutgoingPaired
  <2>2. \/ Outgoing(i).fields[f] = mine.fields[f] /\ (f \notin Entries => mine.fields[f] # Base(i).fields[f])
        \/ Outgoing(i).fields[f] = theirs.fields[f] /\ theirs.fields[f] # Base(i).fields[f]
        \/ mine.fields[f] = Base(i).fields[f] /\ Outgoing(i).fields[f] = theirs.fields[f]
    <3>1. CASE mine.fields = Base(i).fields
      BY <2>1, <3>1
    <3>2. CASE mine.fields # Base(i).fields /\ f \notin Entries
      <4>1. Outgoing(i).fields[f] = MergeField(Base(i).fields[f], mine.fields[f], theirs.fields[f])
        BY <2>1, <3>2 DEF Merge
      <4> QED  BY <3>2, <4>1 DEF MergeField
    <3>3. CASE mine.fields # Base(i).fields /\ f \in Entries
      <4>1. Outgoing(i).fields[f] = MergeEntry(Base(i).fields[f], mine.fields[f], theirs.fields[f])
        BY <2>1, <3>3 DEF Merge
      <4> QED  BY <3>3, <4>1 DEF MergeEntry
    <3> QED  BY <3>1, <3>2, <3>3
  <2>3. \/ Outgoing(i).fields[f] = BeforeContent(s, i).fields[f]
        \/ /\ Outgoing(i).fields[f] = BeforeContent(t, i).fields[f]
           /\ BeforeContent(t, i).fields[f] # Base(i).fields[f]
        \/ FallsBack(i, r, f)
    <3>1. CASE s = "local"
      BY <1>1, <1>9, <2>2, <3>1
    <3>2. CASE s = "cloud"
      BY <1>1, <1>2, <1>3, <1>9, <2>2, <3>2 DEF FallsBack
    <3> QED  BY <1>1, <3>1, <3>2
  <2>4. ~BeforeContent(t, i).deleted
    BY <1>1, <1>8, <1>11
  <2>5. NewTo(t, s, i)
    BY <1>7, <1>9, <2>4 DEF ChangesShow
  <2> QED  BY <1>2, <1>3, <1>4, <2>3, <2>5 DEF NewTo
<1> QED  BY <1>10, <1>11

\* The syncer never brings back a value that a field had in that store before and
\* that was replaced there: a save gives the field the value the store has, or one
\* that is new to it, or for an entry in the cloud that of the last synced version.
THEOREM NoValueReturns == ASSUME Orderly PROVE Spec => NoStaleValueReturns
<1>1. ASSUME OrderlyInv, AtomicInv, [Next]_vars PROVE \A i \in Items, s \in Stores : BringsNothingBack(i, s)
  <2> SUFFICES ASSUME NEW i \in Items, NEW s \in Stores, SyncWrites(i, s) PROVE BringsNothingBack(i, s)
    BY DEF BringsNothingBack
  <2>1. IInv /\ SettledInv /\ TypeOK /\ edits \in Nat
    BY <1>1 DEF OrderlyInv, IInv, TypeOK
  <2>2. edits' = edits /\ revisions' # revisions
    BY DEF SyncWrites
  <2>3. CASE \E j \in Items, r \in Stores : SaveItem(j, r)
    <3>1. PICK j \in Items, r \in Stores : SaveItem(j, r)
      BY <2>3
    <3>2. j = i
      <4>1. revisions' = Saved(r, j, Outgoing(j))
        BY <3>1 DEF SaveItem
      <4> QED  BY <2>1, <4>1, Appended DEF SyncWrites
    <3> QED  BY <1>1, <3>1, <3>2, SaveBringsNoValueBack DEF BringsNothingBack
  <2>4. CASE Users
    BY <2>1, <2>2, <2>4, UsersChange
  <2>5. CASE \/ SyncItems \/ (\E r \in Stores : ListItemStates(r)) \/ ListingDone \/ ForgetSync
             \/ \E j \in Items : \/ \E r \in Stores : LoadItem(j, r)
                                 \/ MergeAndSyncItem(j) \/ SetLastSyncedRevision(j)
             \/ EarlyFailure \/ UNCHANGED vars
    BY <2>2, <2>5 DEF SyncItems, ListItemStates, ListingDone, ForgetSync, LoadItem, MergeAndSyncItem, ReadyToSave,
                      SetLastSyncedRevision, vars, EarlyFailure, ListingFails, FailsUnsaved, LoadFails, MergeFails, ReadyToSave, CrashBetweenItems, Crash
  <2> QED  BY <1>1, <2>1, <2>3, <2>4, <2>5, OrderlySteps
<1>2. OrderlyInv /\ AtomicInv /\ [Next]_vars => (OrderlyInv /\ AtomicInv)'
  BY AtomicStays
<1>3. OrderlyInv /\ AtomicInv /\ [Next]_vars => [\A i \in Items, s \in Stores : BringsNothingBack(i, s)]_vars
  BY <1>1
<1> QED  BY <1>2, <1>3, OrderlyStarts, AtomicStarts, PTL DEF Spec, NoStaleValueReturns

\* The two above together, under the condition of the second.
THEOREM EditsAreRespected == ASSUME Orderly PROVE Spec => SyncsRespectEdits
<1>1. Spec => UnsyncedLocalEditsSurvive
  BY LocalEditsSurvive DEF Orderly, Quiet
<1>2. Spec => NoStaleValueReturns
  BY NoValueReturns
<1>3. [\A i \in Items : KeepsLocalEdits(i)]_vars /\ [\A i \in Items, s \in Stores : BringsNothingBack(i, s)]_vars
        => [\A i \in Items : KeepsLocalEdits(i) /\ \A s \in Stores : BringsNothingBack(i, s)]_vars
  OBVIOUS
<1> QED  BY <1>1, <1>2, <1>3, PTL DEF UnsyncedLocalEditsSurvive, NoStaleValueReturns, SyncsRespectEdits

-----------------------------------------------------------------------------
(* The syncer implements Replication *)

\* Steps that do not show leave the copies and what was synced as they are.
LEMMA SteadyCopies ==
  ASSUME OrderlyInv, AtomicInv, Kept, NEW i \in Items, Steady(i)
  PROVE  /\ SyncedCopies[i]' = SyncedCopies[i]
         /\ \A s \in Stores : Copies[s][i]' = Copies[s][i]
<1>1. \A s \in Stores : Before(s, i) \in Nat /\ Latest(s, i) \in Nat /\ Before(s, i) <= Latest(s, i)
  BY BeforeLatest DEF AtomicInv
<1>2. \A s \in Stores : Before(s, i) # NoItem => BeforeContent(s, i)' = BeforeContent(s, i)
  BY <1>1 DEF BeforeContent, Steady, Kept, NoItem
<1>3. \A s \in Stores : Copies[s][i]' = Copies[s][i]
  BY <1>2 DEF Copies, Steady
<1>4. SyncedCopies[i]' = SyncedCopies[i]
  <2>1. CASE lastSynced[i] = NoPair
    BY <2>1 DEF SyncedCopies, Steady
  <2>2. CASE lastSynced[i] # NoPair
    <3>1. Base(i)' = Base(i)
      BY <2>2, SteadyShows DEF AtomicInv
    <3> QED  BY <2>2, <3>1 DEF SyncedCopies, Steady
  <2> QED  BY <2>1, <2>2
<1> QED  BY <1>3, <1>4

\* The copies of an item.
LEMMA CopyCases ==
  ASSUME OrderlyInv, AtomicInv, NEW i \in Items, NEW s \in Stores
  PROVE  /\ Before(s, i) = NoItem => Copies[s][i] = Replica!Missing
         /\ Before(s, i) > 0 => BeforeContent(s, i) \in Contents
         /\ Before(s, i) > 0 /\ BeforeContent(s, i).deleted => Copies[s][i] = Replica!Removed
         /\ Before(s, i) > 0 /\ ~BeforeContent(s, i).deleted =>
              Copies[s][i] = Replica!Live(BeforeContent(s, i).fields)
         /\ Before(s, i) \in Nat
<1>1. TypeOK /\ Before(s, i) \in Nat /\ Latest(s, i) \in Nat /\ Before(s, i) <= Latest(s, i)
  BY BeforeLatest DEF AtomicInv, OrderlyInv, IInv
<1>2. Before(s, i) > 0 => HasRevision(s, i, Before(s, i))
  BY <1>1 DEF HasRevision
<1>3. Before(s, i) > 0 => BeforeContent(s, i) \in Contents
  BY <1>1, <1>2, RevisionType DEF BeforeContent
<1>4. Copies[s][i] = IF Before(s, i) = NoItem THEN NoCopy ELSE CopyOf(BeforeContent(s, i))
  BY DEF Copies
<1>5. NoCopy = Replica!Missing /\ \A c : CopyOf(c) = IF c.deleted THEN Replica!Removed ELSE Replica!Live(c.fields)
  BY DEF NoCopy, CopyOf, BlankContent, Replica!Missing, Replica!Removed, Replica!Live, Replica!Blank
<1> QED  BY <1>1, <1>3, <1>4, <1>5 DEF NoItem

LEMMA CopyDomains ==
  /\ Copies = [s \in Stores |-> [i \in Items |-> Copies[s][i]]]
  /\ Copies' = [s \in Stores |-> [i \in Items |-> Copies'[s][i]]]
  /\ SyncedCopies = [i \in Items |-> SyncedCopies[i]]
  /\ SyncedCopies' = [i \in Items |-> SyncedCopies'[i]]
  BY DEF Copies, SyncedCopies

\* Recording an item is the step at which it is synced.
LEMMA RecordingSettles ==
  ASSUME OrderlyInv, AtomicInv, Kept, NEW i \in Items, SetLastSyncedRevision(i),
         \A j \in Items \ {i} : Steady(j), OrderlyInv', AtomicInv'
  PROVE  Replica!Settle(i, CopyOf(Outgoing(i)))
<1>1. /\ \A j \in Items : TaskAsListed(j)
      /\ task[i].stage = "recording" /\ edits' = edits
  BY DEF AtomicInv, SetLastSyncedRevision
<1>2. ASSUME NEW s \in Stores PROVE Copies'[s][i] = CopyOf(Outgoing(i))
  <2>1. /\ Before(s, i)' > 0 /\ BeforeContent(s, i)' = Current(s, i)
        /\ (Current(s, i).deleted <=> Outgoing(i).deleted)
        /\ (~Outgoing(i).deleted => Current(s, i) = Outgoing(i))
    BY <1>1, RecordedPair, RecordedContents
  <2>2. Copies'[s][i] = CopyOf(Current(s, i))
    BY <2>1 DEF Copies, NoItem
  <2> QED  BY <2>1, <2>2 DEF CopyOf
<1>3. \A j \in Items \ {i}, s \in Stores : Copies'[s][j] = Copies[s][j]
  BY SteadyCopies
<1>4. Copies' = [s \in Stores |-> [Copies[s] EXCEPT ![i] = CopyOf(Outgoing(i))]]
  <2>1. \A s \in Stores : Copies[s] = [j \in Items |-> Copies[s][j]]
    BY DEF Copies
  <2>2. \A s \in Stores : [j \in Items |-> Copies'[s][j]] = [Copies[s] EXCEPT ![i] = CopyOf(Outgoing(i))]
    BY <1>2, <1>3, <2>1
  <2> QED  BY <2>2, CopyDomains
<1>5. SyncedCopies'[i] = IF CopyOf(Outgoing(i)) = Replica!Removed THEN Replica!Missing ELSE CopyOf(Outgoing(i))
  <2>1. /\ lastSynced'[i] = NoPair <=> Outgoing(i).deleted
        /\ ~Outgoing(i).deleted => Base(i)' = Outgoing(i)
    BY <1>1, RecordedPair
  <2>2. SyncedCopies'[i] = IF lastSynced'[i] = NoPair THEN NoCopy ELSE [state |-> "live", fields |-> Base(i)'.fields]
    BY DEF SyncedCopies
  <2>3. (CopyOf(Outgoing(i)) = Replica!Removed) <=> Outgoing(i).deleted
    <3>1. Outgoing(i).deleted => CopyOf(Outgoing(i)) = Replica!Removed
      BY DEF CopyOf, BlankContent, Replica!Removed, Replica!Blank
    <3>2. ~Outgoing(i).deleted => CopyOf(Outgoing(i)).state = "live"
      BY DEF CopyOf
    <3>3. Replica!Removed.state = "removed"
      BY DEF Replica!Removed
    <3> QED  BY <3>1, <3>2, <3>3
  <2>4. NoCopy = Replica!Missing
    BY DEF NoCopy, BlankContent, Replica!Missing, Replica!Blank
  <2> QED  BY <2>1, <2>2, <2>3, <2>4 DEF CopyOf
<1>6. \A j \in Items \ {i} : SyncedCopies'[j] = SyncedCopies[j]
  BY SteadyCopies
<1>7. SyncedCopies' = [SyncedCopies EXCEPT ![i] = IF CopyOf(Outgoing(i)) = Replica!Removed THEN Replica!Missing
                                                 ELSE CopyOf(Outgoing(i))]
  BY <1>5, <1>6, CopyDomains
<1> QED  BY <1>1, <1>4, <1>7 DEF Replica!Settle, Replica!Stores, Stores

\* It is the step of Replication that the two copies call for.
LEMMA RecordingIsSync ==
  ASSUME OrderlyInv, AtomicInv, Kept, NEW i \in Items, SetLastSyncedRevision(i),
         \A j \in Items \ {i} : Steady(j), OrderlyInv', AtomicInv'
  PROVE  Replica!Sync(i)
<1> DEFINE mine == BeforeContent("local", i)
           theirs == BeforeContent("cloud", i)
<1>1. /\ task[i].stage \in {"saving", "recording"} /\ (\A j \in Items : TaskAsListed(j))
      /\ "local" \in Stores /\ "cloud" \in Stores /\ "local" # "cloud"
      /\ \A s \in Stores : s = "local" \/ s = "cloud"
      /\ Replica!Stores = Stores
  BY DEF SetLastSyncedRevision, AtomicInv, Stores, Replica!Stores
<1>2. Replica!Settle(i, CopyOf(Outgoing(i)))
  BY RecordingSettles
<1>3. \A c : CopyOf(c) = IF c.deleted THEN Replica!Removed ELSE Replica!Live(c.fields)
  BY DEF CopyOf, BlankContent, Replica!Removed, Replica!Live, Replica!Blank
<1>4. \A x, y : /\ Replica!Live(x).state = "live" /\ Replica!Live(x).fields = x
                /\ (x = y <=> Replica!Live(x) = Replica!Live(y))
  <2>1. \A x : Replica!Live(x).state = "live" /\ Replica!Live(x).fields = x
    BY DEF Replica!Live
  <2>2. ASSUME NEW x, NEW y, Replica!Live(x) = Replica!Live(y) PROVE x = y
    <3>1. Replica!Live(x).fields = Replica!Live(y).fields
      BY <2>2
    <3> QED  BY <2>1, <3>1
  <2> QED  BY <2>1, <2>2
<1>5. Replica!Missing.state = "missing" /\ Replica!Removed.state = "removed"
  BY DEF Replica!Missing, Replica!Removed
<1>6. CASE lastSynced[i] = NoPair
  <2>1. OneSided(i)
    BY <1>6 DEF AtomicInv
  <2>2. PICK s \in Stores : /\ Before(s, i) > 0 /\ ~BeforeContent(s, i).deleted
                            /\ Outgoing(i) = BeforeContent(s, i)
                            /\ \A t \in Stores \ {s} : Before(t, i) = NoItem
    BY <1>1, <1>6, <2>1, OutgoingUnpaired
  <2>3. Copies[s][i] = CopyOf(Outgoing(i)) /\ Copies[s][i].state = "live"
    BY <1>3, <1>4, <2>2, CopyCases
  <2>4. \A t \in Stores \ {s} : Copies[t][i] = Replica!Missing
    BY <2>2, CopyCases
  <2>5. SyncedCopies[i] = Replica!Missing
    BY <1>6 DEF SyncedCopies, NoCopy, BlankContent, Replica!Missing, Replica!Blank
  <2>6. Replica!Spread(i, s)
    BY <1>1, <1>2, <2>3, <2>4, <2>5 DEF Replica!Spread, Replica!Synced, Replica!IsLive
  <2> QED  BY <1>1, <2>6 DEF Replica!Sync
<1>7. CASE lastSynced[i] # NoPair
  <2>1. ChangesShow(i)
    BY <1>7 DEF AtomicInv
  <2>2. SyncedCopies[i] = Replica!Live(Base(i).fields) /\ Replica!Synced(i)
    <3>1. SyncedCopies[i] = Replica!Live(Base(i).fields)
      BY <1>7 DEF SyncedCopies, Replica!Live
    <3> QED  BY <1>4, <1>5, <3>1 DEF Replica!Synced
  <2>3. /\ ~mine.deleted /\ ~theirs.deleted =>
             Outgoing(i) = IF mine.fields = Base(i).fields THEN theirs ELSE Merge(mine, theirs, Base(i))
        /\ mine.deleted => Outgoing(i) = TombstoneContent
        /\ ~mine.deleted /\ theirs.deleted =>
             Outgoing(i) = IF mine.fields = Base(i).fields THEN TombstoneContent ELSE mine
    BY <1>1, <1>7, <2>1, OutgoingPaired
  <2>4. /\ mine.deleted => Copies["local"][i] = Replica!Removed
        /\ ~mine.deleted => Copies["local"][i] = Replica!Live(mine.fields)
        /\ theirs.deleted => Copies["cloud"][i] = Replica!Removed
        /\ ~theirs.deleted => Copies["cloud"][i] = Replica!Live(theirs.fields)
        /\ mine \in Contents /\ theirs \in Contents
    <3>1. \A s \in Stores : Before(s, i) > 0
      BY <1>1, <1>7, <2>1, PairedRevisions
    <3> QED  BY <1>1, <3>1, CopyCases
  <2> HIDE DEF mine, theirs
  <2>5. CopyOf(TombstoneContent) = Replica!Removed
    BY <1>3 DEF TombstoneContent
  <2>6. CASE ~mine.deleted /\ ~theirs.deleted
    <3> DEFINE old == Base(i).fields
    <3>1. /\ Copies["local"][i].fields = mine.fields /\ Copies["cloud"][i].fields = theirs.fields
          /\ SyncedCopies[i].fields = old
          /\ Copies["local"][i] = SyncedCopies[i] <=> mine.fields = old
      BY <1>4, <2>2, <2>4, <2>6
    <3>2. ASSUME NEW f \in Fields
          PROVE  Replica!Merged(i)[f] = IF Replica!CloudWins(i, f) THEN theirs.fields[f] ELSE mine.fields[f]
      BY <3>1 DEF Replica!Merged
    <3>3. ~Outgoing(i).deleted /\ Outgoing(i).fields = Replica!Merged(i)
      <4>1. CASE mine.fields = old
        <5>1. \A f \in Fields : f \notin Entries \/ Copies["local"][i] = SyncedCopies[i]
          BY <3>1, <4>1
        <5>2. \A f \in Fields : Replica!CloudWins(i, f)
          BY <3>1, <4>1, <5>1 DEF Replica!CloudWins
        <5>3. Replica!Merged(i) = [f \in Fields |-> theirs.fields[f]]
          BY <3>2, <5>2 DEF Replica!Merged
        <5>4. theirs.fields = [f \in Fields |-> theirs.fields[f]]
          BY <2>4 DEF Contents
        <5> QED  BY <2>3, <2>6, <4>1, <5>3, <5>4
      <4>2. CASE mine.fields # old
        <5>1. Outgoing(i) = Merge(mine, theirs, Base(i))
          BY <2>3, <2>6, <4>2
        <5>2. \A x : Replica!Present(x) <=> Present(x)
          BY DEF Present, Replica!Present
        <5>3. ASSUME NEW f \in Fields, f \in Entries
              PROVE  Replica!Merged(i)[f] = MergeEntry(old[f], mine.fields[f], theirs.fields[f])
          BY <3>1, <3>2, <4>2, <5>2, <5>3 DEF Replica!CloudWins, MergeEntry
        <5>4. ASSUME NEW f \in Fields, f \notin Entries
              PROVE  Replica!Merged(i)[f] = MergeField(old[f], mine.fields[f], theirs.fields[f])
          BY <3>1, <3>2, <5>4 DEF Replica!CloudWins, MergeField
        <5>5. Replica!Merged(i) = [f \in Fields |-> Replica!Merged(i)[f]]
          BY DEF Replica!Merged
        <5> QED  BY <5>1, <5>3, <5>4, <5>5 DEF Merge
      <4> QED  BY <4>1, <4>2
    <3>4. CopyOf(Outgoing(i)) = Replica!Live(Replica!Merged(i))
      BY <1>3, <3>3
    <3>5. \A s \in Replica!Stores : Replica!IsLive(s, i)
      BY <1>1, <1>4, <2>4, <2>6 DEF Replica!IsLive
    <3> QED  BY <1>2, <2>2, <3>4, <3>5 DEF Replica!Sync, Replica!MergeCopies
  <2>7. CASE mine.deleted
    BY <1>2, <2>2, <2>3, <2>4, <2>5, <2>7 DEF Replica!Sync, Replica!RemoveCopies
  <2>8. CASE ~mine.deleted /\ theirs.deleted /\ mine.fields = Base(i).fields
    BY <1>2, <2>2, <2>3, <2>4, <2>5, <2>8 DEF Replica!Sync, Replica!RemoveCopies
  <2>9. CASE ~mine.deleted /\ theirs.deleted /\ mine.fields # Base(i).fields
    <3>1. CopyOf(Outgoing(i)) = Copies["local"][i]
      BY <1>3, <2>3, <2>4, <2>9
    <3>2. Replica!IsLive("local", i) /\ Copies["local"][i] # SyncedCopies[i]
      BY <1>4, <2>2, <2>4, <2>9 DEF Replica!IsLive
    <3> QED  BY <1>2, <2>2, <2>4, <2>9, <3>1, <3>2 DEF Replica!Sync, Replica!Restore
  <2> QED  BY <2>6, <2>7, <2>8, <2>9
<1> QED  BY <1>6, <1>7

\* A change by a user is one of Replication's.
LEMMA UsersReplicate ==
  ASSUME OrderlyInv, AtomicInv, Kept, Users, currentSync = "none"
  PROVE  Replica!Next
<1>1. /\ TypeOK /\ PhaseInv /\ ValuesInv /\ UNCHANGED <<lastSynced, syncVars>> /\ edits' = edits + 1
      /\ (\A j \in Items : TaskAsListed(j)) /\ edits \in Nat
      /\ Replica!Stores = Stores
  BY UsersChange DEF OrderlyInv, IInv, TypeOK, AtomicInv, Stores, Replica!Stores
<1>a. PICK i \in Items, s \in Stores : UserChange(i, s)
  BY DEF Users
<1>2. PICK c : /\ Change(s, i, c)
               /\ \/ c = TombstoneContent /\ IsLive(s, i)
                  \/ \E f \in Fields :
                       /\ New(i) \/ IsLive(s, i)
                       /\ c = [(IF New(i) THEN BlankContent ELSE Current(s, i)) EXCEPT !.fields[f] = edits + 1]
                  \/ \E f \in Fields :
                       /\ IsLive(s, i) /\ f \in Entries /\ Present(Current(s, i).fields[f])
                       /\ c = [Current(s, i) EXCEPT !.fields[f] = -(edits + 1)]
  <2>1. CASE RemoveItem(i, s)
    BY <2>1 DEF RemoveItem, Change
  <2>2. CASE \E f \in Fields : EditItem(i, s, f)
    BY <2>2 DEF EditItem, Change
  <2>3. CASE \E f \in Fields : RemoveEntry(i, s, f)
    <3>1. PICK f \in Fields : RemoveEntry(i, s, f)
      BY <2>3
    <3>2. IsLive(s, i) /\ ~New(i)
      BY <3>1 DEF RemoveEntry, IsLive, New
    <3> DEFINE d == [Current(s, i) EXCEPT !.fields[f] = -(edits + 1)]
    <3>3. /\ d = [(IF New(i) THEN BlankContent ELSE Current(s, i)) EXCEPT !.fields[f] = -(edits + 1)]
          /\ -(edits + 1) \in {edits + 1, -(edits + 1)}
      BY <3>2
    <3>4. Change(s, i, d)
      BY <3>1, <3>2, <3>3 DEF RemoveEntry, Change
    <3> QED  BY <3>1, <3>2, <3>4 DEF RemoveEntry
  <2> QED  BY <1>a, <2>1, <2>2, <2>3 DEF UserChange
<1>3. \A r \in Stores : /\ Before(r, i) = Latest(r, i) /\ Latest(r, i) \in Nat
                        /\ Before(r, i)' = Latest(r, i)' /\ BeforeContent(r, i) = Current(r, i)
                        /\ BeforeContent(r, i)' = Current(r, i)'
  <2>1. task[i].stage = "idle" /\ task' = task
    BY <1>1 DEF PhaseInv, syncVars
  <2> QED  BY <1>1, <2>1 DEF Before, BeforeContent, Current, Latest, TypeOK
<1>4. /\ \A r \in Stores : r # s => revisions'[r][i] = revisions[r][i]
      /\ Latest(s, i)' = Latest(s, i) + 1 /\ Current(s, i)' = c
  BY <1>1, <1>2, Appended DEF Change
<1>5. \A j \in Items \ {i} : Steady(j)
  BY <1>1, <1>2, OthersSteady
<1>6. SyncedCopies' = SyncedCopies
  <2>1. \A j \in Items \ {i} : SyncedCopies'[j] = SyncedCopies[j]
    BY <1>5, SteadyCopies
  <2>2. SyncedCopies'[i] = SyncedCopies[i]
    <3>1. CASE lastSynced[i] = NoPair
      BY <1>1, <3>1 DEF SyncedCopies
    <3>2. CASE lastSynced[i] # NoPair
      <4>1. HasRevision("local", i, lastSynced[i]["local"]) /\ "local" \in Stores
        BY <1>1, <3>2, PairedRevisions DEF AtomicInv, Stores
      <4>2. Base(i)' = Base(i)
        BY <1>1, <4>1 DEF Base, Kept, HasRevision
      <4> QED  BY <1>1, <3>2, <4>2 DEF SyncedCopies
    <3> QED  BY <3>1, <3>2
  <2> QED  BY <2>1, <2>2, CopyDomains
<1>7. Copies' = [Copies EXCEPT ![s][i] = CopyOf(c)]
  <2>1. \A j \in Items \ {i}, r \in Stores : Copies'[r][j] = Copies[r][j]
    BY <1>5, SteadyCopies
  <2>2. Copies'[s][i] = CopyOf(c)
    BY <1>3, <1>4 DEF Copies, NoItem
  <2>3. ASSUME NEW r \in Stores, r # s PROVE Copies'[r][i] = Copies[r][i]
    <3>1. Latest(r, i)' = Latest(r, i) /\ Current(r, i)' = Current(r, i)
      BY <1>4, <2>3 DEF Latest, Current
    <3> QED  BY <1>3, <3>1 DEF Copies
  <2>4. \A r \in Stores : Copies[r] = [j \in Items |-> Copies[r][j]]
    BY DEF Copies
  <2>5. \A r \in Stores : [j \in Items |-> Copies'[r][j]]
                            = IF r = s THEN [Copies[r] EXCEPT ![i] = CopyOf(c)] ELSE Copies[r]
    BY <2>1, <2>2, <2>3, <2>4
  <2>6. Copies = [r \in Stores |-> Copies[r]]
    BY DEF Copies
  <2> QED  BY <2>5, <2>6, CopyDomains
<1>8. /\ IsLive(s, i) => Copies[s][i] = Replica!Live(Current(s, i).fields) /\ Current(s, i) \in Contents
      /\ New(i) => \A r \in Stores : Copies[r][i] = Replica!Missing
  BY <1>3, CopyCases DEF IsLive, Exists, New, NoItem
<1>9. /\ Replica!Missing.fields = [f \in Fields |-> 0]
      /\ \A x : Replica!Live(x).state = "live" /\ Replica!Live(x).fields = x
  BY DEF Replica!Missing, Replica!Live, Replica!Blank
<1>10. CASE c = TombstoneContent /\ IsLive(s, i)
  <2>1. CopyOf(c) = Replica!Removed
    BY <1>10 DEF CopyOf, TombstoneContent, BlankContent, Replica!Removed, Replica!Blank
  <2>2. Replica!IsLive(s, i)
    BY <1>8, <1>9, <1>10 DEF Replica!IsLive
  <2>3. Replica!Remove(i, s)
    BY <1>1, <1>6, <1>7, <2>1, <2>2 DEF Replica!Remove
  <2> QED  BY <1>1, <2>3 DEF Replica!Next
<1>11. ASSUME NEW f \in Fields, NEW v \in Int, New(i) \/ IsLive(s, i),
              c = [(IF New(i) THEN BlankContent ELSE Current(s, i)) EXCEPT !.fields[f] = v]
       PROVE  /\ Replica!IsLive(s, i) \/ Replica!IsNew(i)
              /\ Copies' = [Copies EXCEPT ![s][i] = Replica!Live([@.fields EXCEPT ![f] = v])]
  <2> DEFINE old == IF New(i) THEN BlankContent ELSE Current(s, i)
  <2>1. old \in Contents /\ ~old.deleted /\ Copies[s][i].fields = old.fields
    <3>1. CASE New(i)
      BY <1>8, <1>9, <3>1 DEF BlankContent, Contents
    <3>2. CASE ~New(i)
      BY <1>8, <1>9, <1>11, <3>2 DEF IsLive
    <3> QED  BY <3>1, <3>2
  <2> HIDE DEF old
  <2>2. c = [old EXCEPT !.fields = [old.fields EXCEPT ![f] = v]]
    BY <1>11, <2>1 DEF old, Contents
  <2>3. ~c.deleted /\ c.fields = [Copies[s][i].fields EXCEPT ![f] = v]
    BY <2>1, <2>2 DEF Contents
  <2>4. CopyOf(c) = Replica!Live([Copies[s][i].fields EXCEPT ![f] = v])
    BY <2>3 DEF CopyOf, Replica!Live
  <2>5. Replica!IsLive(s, i) \/ Replica!IsNew(i)
    BY <1>1, <1>8, <1>9, <1>11 DEF Replica!IsLive, Replica!IsNew
  <2> QED  BY <1>7, <2>4, <2>5
<1>12. CASE \E f \in Fields : /\ New(i) \/ IsLive(s, i)
                              /\ c = [(IF New(i) THEN BlankContent ELSE Current(s, i)) EXCEPT !.fields[f] = edits + 1]
  <2>1. PICK f \in Fields : /\ New(i) \/ IsLive(s, i)
                            /\ c = [(IF New(i) THEN BlankContent ELSE Current(s, i)) EXCEPT !.fields[f] = edits + 1]
    BY <1>12
  <2>2. edits + 1 \in Int
    BY <1>1
  <2>3. Replica!Edit(i, s, f)
    BY <1>1, <1>6, <1>11, <2>1, <2>2 DEF Replica!Edit
  <2> QED  BY <1>1, <2>3 DEF Replica!Next
<1>13. CASE \E f \in Fields : /\ IsLive(s, i) /\ f \in Entries /\ Present(Current(s, i).fields[f])
                               /\ c = [Current(s, i) EXCEPT !.fields[f] = -(edits + 1)]
  <2>1. PICK f \in Fields : /\ IsLive(s, i) /\ f \in Entries /\ Present(Current(s, i).fields[f])
                            /\ c = [Current(s, i) EXCEPT !.fields[f] = -(edits + 1)]
    BY <1>13
  <2>2. ~New(i) /\ -(edits + 1) \in Int
    BY <1>1, <2>1 DEF New, IsLive
  <2>3. c = [(IF New(i) THEN BlankContent ELSE Current(s, i)) EXCEPT !.fields[f] = -(edits + 1)]
    BY <2>1, <2>2
  <2>4. Copies' = [Copies EXCEPT ![s][i] = Replica!Live([@.fields EXCEPT ![f] = -(edits + 1)])]
    BY <1>11, <2>1, <2>2, <2>3
  <2>5. Replica!IsLive(s, i) /\ Replica!Present(Copies[s][i].fields[f])
    BY <1>8, <1>9, <2>1 DEF Replica!IsLive, Present, Replica!Present
  <2>6. Replica!RemoveEntry(i, s, f)
    BY <1>1, <1>6, <2>1, <2>4, <2>5 DEF Replica!RemoveEntry
  <2> QED  BY <1>1, <2>6 DEF Replica!Next
<1> QED  BY <1>2, <1>10, <1>12, <1>13

\* Each step of the syncer is a step of Replication or changes nothing of it.
LEMMA StepsReplicate ==
  ASSUME Orderly, OrderlyInv, AtomicInv, [Next]_vars
  PROVE  Replica!Next \/ UNCHANGED <<Copies, SyncedCopies, edits>>
<1>1. /\ OrderlyInv' /\ AtomicInv' /\ IInv /\ TypeOK /\ SettledInv /\ \A j \in Items : TaskAsListed(j)
  BY AtomicStays DEF OrderlyInv, IInv, AtomicInv
<1>2. Kept
  BY <1>1, NextKeeps
<1>3. CASE Users /\ currentSync = "none"
  BY <1>2, <1>3, UsersReplicate
<1>4. CASE ~(Users /\ currentSync = "none")
  <2>1. edits' = edits
    BY <1>1, <1>4, EditsCount
  <2>2. CASE \A j \in Items : Steady(j)
    <3>1. \A j \in Items : SyncedCopies'[j] = SyncedCopies[j] /\ \A s \in Stores : Copies'[s][j] = Copies[s][j]
      BY <1>2, <2>2, SteadyCopies
    <3>2. Copies' = Copies
      <4>1. \A s \in Stores : [j \in Items |-> Copies'[s][j]] = [j \in Items |-> Copies[s][j]]
        BY <3>1
      <4> QED  BY <4>1, CopyDomains
    <3>3. SyncedCopies' = SyncedCopies
      BY <3>1, CopyDomains
    <3> QED  BY <2>1, <3>2, <3>3
  <2>3. ASSUME NEW i \in Items, ~Steady(i) PROVE Replica!Next
    <3>1. SetLastSyncedRevision(i)
      BY <1>1, <1>4, <2>3, ItemsAreSteady
    <3>2. ASSUME NEW j \in Items \ {i} PROVE Steady(j)
      <4>1. /\ task[i].stage \in ActiveStages /\ ItemDone(i, "updated") /\ revisions' = revisions
            /\ lastSynced'[j] = lastSynced[j] /\ "updated" \in {"updated", "failed"}
        BY <1>1, <3>1 DEF SetLastSyncedRevision, ActiveStages, TypeOK
      <4> QED  BY <1>1, <3>2, <4>1, ItemDoneSteady
    <3> QED  BY <1>1, <1>2, <3>1, <3>2, RecordingIsSync DEF Replica!Next
  <2> QED  BY <2>2, <2>3
<1> QED  BY <1>3, <1>4

LEMMA ReplicationStarts == Init => Replica!Init
<1> SUFFICES ASSUME Init PROVE Replica!Init
  OBVIOUS
<1>1. \A s \in Stores, i \in Items : Before(s, i) = NoItem
  BY IdleTaskType DEF Init, Before, Latest, NoItem
<1>2. \A i \in Items : lastSynced[i] = NoPair
  BY DEF Init
<1>3. NoCopy = Replica!Missing
  BY DEF NoCopy, BlankContent, Replica!Missing, Replica!Blank
<1>4. Copies = [s \in Stores |-> [i \in Items |-> Replica!Missing]]
  BY <1>1, <1>3 DEF Copies
<1>5. SyncedCopies = [i \in Items |-> Replica!Missing]
  BY <1>2, <1>3 DEF SyncedCopies
<1> QED  BY <1>4, <1>5 DEF Init, Replica!Init, Replica!Stores, Stores

\* Each item is synced as if it was done at once: however the calls of a sync are
\* ordered, and wherever it is cut short before it saves, the stores have what
\* Replication gives them.
THEOREM SyncerReplicates == ASSUME Orderly PROVE Spec => SyncsAreAtomic
<1>1. OrderlyInv /\ AtomicInv /\ [Next]_vars => (OrderlyInv /\ AtomicInv)'
  BY AtomicStays
<1>2. OrderlyInv /\ AtomicInv /\ [Next]_vars => [Replica!Next]_<<Copies, SyncedCopies, edits>>
  BY StepsReplicate
<1>3. SyncsAreAtomic <=> Replica!Init /\ [][Replica!Next]_<<Copies, SyncedCopies, edits>>
  BY DEF SyncsAreAtomic, Replica!Spec, Replica!replicaVars
<1> QED  BY <1>1, <1>2, <1>3, OrderlyStarts, AtomicStarts, ReplicationStarts, PTL DEF Spec
-----------------------------------------------------------------------------
(* What the app reports as synced is: AppView, with every failure *)

\* The app's store: it removes nothing, and its user does not edit during a sync.
InApp == ~EditsDuringSync /\ ~LocalTakesTombstones

\* The app's steps are steps of the syncer and of its environment.
LEMMA AppSteps == ASSUME [AppNext]_appVars PROVE [Next]_vars
<1>1. CASE OnUnlock
  BY <1>1 DEF OnUnlock, Next
<1>2. CASE \E i \in Items, f \in Fields : OnSave(i, f)
  <2>1. "local" \in Stores
    BY DEF Stores
  <2>2. Users
    BY <1>2, <2>1 DEF OnSave, Users, UserChange
  <2> QED  BY <2>2 DEF Next
<1>3. CASE \E m \in saving : SyncAfterSave(m)
  BY <1>3 DEF SyncAfterSave, Next
<1>4. CASE SyncSettled \/ AppCrash
  BY <1>4 DEF SyncSettled, AppCrash, Next, Failure
<1>5. CASE Background
  <2>1. "cloud" \in Stores
    BY DEF Stores
  <2>2. \A i \in Items : OtherDevice(i) => Users
    BY <2>1 DEF OtherDevice, Users
  <2> QED  BY <1>5, <2>2 DEF Background, Next, Failure
<1>6. CASE UNCHANGED appVars
  BY <1>6 DEF appVars
<1> QED  BY <1>1, <1>2, <1>3, <1>4, <1>5, <1>6 DEF AppNext

\* Nothing is removed from the local store or by it.
NothingRemoved ==
  /\ \A i \in Items : /\ \A r \in 1..Latest("local", i) : ~revisions["local"][i][r].deleted
                      /\ ~listing["local"][i].deleted
  /\ \A m \in late : m.store = "local" => ~m.content.deleted

\* What was listed of the local store is not older than what was synced before.
PairsListed ==
  /\ unlisted # {} => progress.state = "ListingItems"
  /\ \A i \in Items :
       (progress.state = "ListingItems" /\ "local" \notin unlisted) \/ task[i].stage # "idle" =>
         lastSynced[i]["local"] <= listing["local"][i].rev

LocalInv == IInv /\ CoverInv /\ NothingRemoved /\ PairsListed

\* So no item is saved as a removal.
LEMMA SavesNoRemoval ==
  ASSUME InApp, LocalInv, NEW i \in Items, task[i].stage \in {"saving", "recording"}
  PROVE  ~Outgoing(i).deleted
<1>1. /\ IInv /\ TaskCovers(i) /\ TaskChange(i) /\ "local" \in Stores
  BY DEF LocalInv, IInv, TaskInv, TaskOK, CoverInv, Stores
<1>2. ~listing["local"][i].deleted /\ ~LocalTakesTombstones
  BY DEF LocalInv, NothingRemoved, InApp
<1>3. ~Removes(i)
  BY <1>1, <1>2 DEF Removes, TaskCovers, TaskChange
<1> QED  BY <1>1, <1>3, OutgoingRemoved

\* What is written to the local store is not a removal.
LEMMA LocalWrites ==
  ASSUME InApp, LocalInv, [Next]_vars
  PROVE  \/ \A i \in Items : revisions'["local"][i] = revisions["local"][i]
         \/ \E i \in Items : \E c \in Contents : ~c.deleted /\ revisions' = Saved("local", i, c)
<1>1. IInv /\ TypeOK /\ "local" \in Stores
  BY DEF LocalInv, IInv, Stores
<1>2. ASSUME NEW i \in Items, NEW s \in Stores, NEW c, revisions' = Saved(s, i, c), s # "local"
      PROVE  \A j \in Items : revisions'["local"][j] = revisions["local"][j]
  BY <1>1, <1>2, Appended
<1>3. ASSUME NEW i \in Items, NEW s \in Stores, SaveItem(i, s)
      PROVE  \E c \in Contents : ~c.deleted /\ revisions' = Saved(s, i, c)
  BY <1>1, <1>3, SavesNoRemoval, OutgoingType DEF SaveItem
<1>4. ASSUME NEW m \in late, LateSaveLands(m)
      PROVE  /\ m.store \in Stores /\ m.item \in Items /\ m.content \in Contents
             /\ m.store = "local" => ~m.content.deleted
             /\ revisions' = Saved(m.store, m.item, m.content)
  BY <1>1, <1>4 DEF TypeOK, LateSaves, LocalInv, NothingRemoved, LateSaveLands
<1>5. ASSUME NEW i \in Items, NEW s \in Stores, UserChange(i, s)
      PROVE  \E c \in Contents : revisions' = Saved(s, i, c) /\ (s = "local" => ~c.deleted)
  <2>1. PICK c \in Contents : revisions' = Saved(s, i, c)
    BY <1>1, <1>5, UserSaves
  <2>2. Current(s, i)' = c
    BY <1>1, <2>1, Appended
  <2>3. ASSUME s = "local" PROVE ~c.deleted
    <3>1. ~RemoveItem(i, s)
      BY <2>3 DEF RemoveItem, InApp
    <3>2. ASSUME NEW f \in Fields, EditItem(i, s, f) PROVE ~c.deleted
      <4> DEFINE old == IF New(i) THEN BlankContent ELSE Current(s, i)
                 new == [old EXCEPT !.fields[f] = edits + 1]
      <4>1. old \in Contents /\ ~old.deleted
        <5>1. CASE New(i)
          BY <5>1 DEF BlankContent, Contents
        <5>2. CASE ~New(i)
          <6>1. IsLive(s, i) /\ HasRevision(s, i, Latest(s, i))
            BY <1>1, <3>2, <5>2 DEF EditItem, TypeOK, Latest, IsLive, Exists, HasRevision
          <6> QED  BY <1>1, <5>2, <6>1, RevisionType DEF Current, IsLive
        <5> QED  BY <5>1, <5>2
      <4>2. revisions' = Saved(s, i, new)
        BY <3>2 DEF EditItem
      <4> HIDE DEF old
      <4>3. ~new.deleted
        BY <4>1 DEF Contents
      <4>4. Current(s, i)' = new
        BY <1>1, <4>2, Appended
      <4> QED  BY <2>2, <4>3, <4>4
    <3>3. ASSUME NEW f \in Fields, RemoveEntry(i, s, f) PROVE ~c.deleted
      <4> DEFINE new == [Current(s, i) EXCEPT !.fields[f] = -(edits + 1)]
      <4>1. IsLive(s, i) /\ HasRevision(s, i, Latest(s, i))
        BY <1>1, <3>3 DEF RemoveEntry, TypeOK, Latest, IsLive, Exists, HasRevision
      <4>2. Current(s, i) \in Contents /\ ~Current(s, i).deleted
        BY <1>1, <4>1, RevisionType DEF Current, IsLive
      <4>3. revisions' = Saved(s, i, new) /\ ~new.deleted
        BY <3>3, <4>2 DEF RemoveEntry, Contents
      <4>4. Current(s, i)' = new
        BY <1>1, <4>3, Appended
      <4> QED  BY <2>2, <4>3, <4>4
    <3> QED  BY <1>5, <3>1, <3>2, <3>3 DEF UserChange
  <2> QED  BY <2>1, <2>3
<1>6. CASE revisions' = revisions
  BY <1>6
<1>7. CASE Users
  BY <1>2, <1>5, <1>7 DEF Users
<1>8. CASE LateSave
  BY <1>2, <1>4, <1>6, <1>8 DEF LateSave, LateSaveLost
<1>9. CASE \E i \in Items : StoreCall(i)
  BY <1>2, <1>3, <1>6, <1>9 DEF StoreCall, LoadItem, LoadRejected, MergeAndSyncItem, ReadyToSave, MergeFails,
                               SetLastSyncedRevision
<1>10. CASE SyncItems \/ Listing \/ ForgetSync \/ Failure \/ UNCHANGED vars
  BY <1>6, <1>10 DEF SyncItems, Listing, ListItemStates, ListingDone, ForgetSync, Failure,
                     ListingFails, CallFails, LoadFails, SaveFails, RecordFails, Crash, vars
<1> QED  BY <1>7, <1>8, <1>9, <1>10 DEF Next

\* Saves that nobody waits for are of what tasks were saving.
LEMMA LateSavesOf ==
  ASSUME [Next]_vars, NEW m \in late', m \notin late
  PROVE  \E i \in Items : task[i].stage = "saving" /\ m.content = Outgoing(i)
<1>1. ASSUME NEW i \in Items, NEW stores, m \in InFlight(i, stores) PROVE m.content = Outgoing(i)
  BY <1>1 DEF InFlight
<1>2. CASE \E i \in Items, s \in Stores : SaveFails(i, s)
  BY <1>1, <1>2 DEF SaveFails
<1>3. CASE Crash
  BY <1>1, <1>3 DEF Crash
<1>4. late' \subseteq late \/ (\E i \in Items, s \in Stores : SaveFails(i, s)) \/ Crash
  BY DEF Next, SyncItems, Listing, ListItemStates, ListingDone, ForgetSync, StoreCall, LoadItem, LoadRejected,
         SaveItem, MergeAndSyncItem, MergeFails, ReadyToSave, SetLastSyncedRevision, LateSave, LateSaveLands,
         LateSaveLost, Failure, ListingFails, CallFails, LoadFails, RecordFails, Users, UserChange, EditItem,
         RemoveEntry, RemoveItem, vars
<1> QED  BY <1>2, <1>3, <1>4

LEMMA NothingRemovedStep ==
  ASSUME InApp, LocalInv, [Next]_vars PROVE NothingRemoved'
<1>1. IInv /\ TypeOK /\ "local" \in Stores /\ NothingRemoved /\ \A i \in Items : Latest("local", i) \in Nat
  BY DEF LocalInv, IInv, TypeOK, Latest, Stores
<1>2. ASSUME NEW i \in Items, NEW r \in 1..Latest("local", i)' PROVE ~revisions'["local"][i][r].deleted
  <2>1. CASE revisions'["local"][i] = revisions["local"][i]
    BY <1>1, <1>2, <2>1 DEF NothingRemoved, Latest
  <2>2. ASSUME NEW j \in Items, NEW c \in Contents, ~c.deleted, revisions' = Saved("local", j, c)
        PROVE  ~revisions'["local"][i][r].deleted
    <3>1. CASE j = i
      <4>1. /\ Latest("local", i)' = Latest("local", i) + 1 /\ Current("local", i)' = c
            /\ \A n \in 1..Latest("local", i) : revisions'["local"][i][n] = revisions["local"][i][n]
        BY <1>1, <2>2, <3>1, Appended
      <4> QED  BY <1>1, <1>2, <2>2, <4>1 DEF NothingRemoved, Current
    <3>2. CASE j # i
      BY <1>1, <2>1, <2>2, <3>2, Appended
    <3> QED  BY <3>1, <3>2
  <2> QED  BY <2>1, <2>2, LocalWrites
<1>3. ASSUME NEW i \in Items PROVE ~listing'["local"][i].deleted
  <2>1. CASE listing' = listing
    BY <1>1, <2>1 DEF NothingRemoved
  <2>2. CASE listing' = Unlisted
    BY <1>1, <2>2 DEF Unlisted
  <2>3. ASSUME NEW s \in Stores, ListItemStates(s) PROVE ~listing'["local"][i].deleted
    <3>1. CASE s = "local"
      <4>1. listing'["local"][i].deleted = (Exists("local", i) /\ Current("local", i).deleted)
        BY <1>1, <2>3, <3>1 DEF ListItemStates, TypeOK
      <4>2. Exists("local", i) => ~Current("local", i).deleted
        BY <1>1 DEF NothingRemoved, Exists, Current
      <4> QED  BY <4>1, <4>2
    <3>2. CASE s # "local"
      BY <1>1, <2>3, <3>2 DEF ListItemStates, TypeOK, NothingRemoved
    <3> QED  BY <3>1, <3>2
  <2>4. listing' = listing \/ listing' = Unlisted \/ \E s \in Stores : ListItemStates(s)
    BY DEF Next, SyncItems, Listing, ListingDone, ForgetSync, StoreCall, LoadItem, LoadRejected,
           SaveItem, MergeAndSyncItem, MergeFails, ReadyToSave, SetLastSyncedRevision, LateSave, LateSaveLands,
           LateSaveLost, Failure, ListingFails, CallFails, LoadFails, SaveFails, RecordFails, Crash, Users,
           UserChange, EditItem, RemoveEntry, RemoveItem, syncVars, vars, ItemDone
  <2> QED  BY <2>1, <2>2, <2>3, <2>4
<1>4. ASSUME NEW m \in late', m.store = "local" PROVE ~m.content.deleted
  <2>1. CASE m \in late
    BY <1>1, <1>4, <2>1 DEF NothingRemoved
  <2>2. CASE m \notin late
    BY <1>4, <2>2, LateSavesOf, SavesNoRemoval
  <2> QED  BY <2>1, <2>2
<1> QED  BY <1>2, <1>3, <1>4 DEF NothingRemoved

\* An item's pair is replaced by one that is not older.
LEMMA PairsGrow ==
  ASSUME InApp, LocalInv, [Next]_vars, NEW i \in Items
  PROVE  lastSynced[i]["local"] <= lastSynced'[i]["local"]
<1>1. /\ IInv /\ TypeOK /\ "local" \in Stores /\ lastSynced[i]["local"] \in Nat /\ listing["local"][i].rev \in Nat
  BY DEF LocalInv, IInv, TypeOK, ItemStates, Stores
<1>2. CASE lastSynced'[i] = lastSynced[i]
  BY <1>1, <1>2
<1>3. ASSUME task[i].stage = "recording", lastSynced'[i] = SyncedPair(i)
      PROVE  lastSynced[i]["local"] <= lastSynced'[i]["local"]
  <2>1. /\ TaskCovers(i) /\ TaskChange(i) /\ TaskItems(i) /\ TaskSaves(i) /\ task[i] \in Tasks
        /\ task[i].pending = {} /\ ~listing["local"][i].deleted
        /\ lastSynced[i]["local"] <= listing["local"][i].rev
    BY <1>1, <1>3 DEF LocalInv, IInv, TypeOK, TaskInv, TaskOK, TaskSaves, CoverInv, ActiveStages, PairsListed,
                      NothingRemoved
  <2>2. ~Outgoing(i).deleted
    BY <1>3, SavesNoRemoval
  <2>3. CASE Direction(i) = "up"
    <3>1. SyncedPair(i)["local"] = task[i].item["local"]
      BY <2>2, <2>3 DEF SyncedPair
    <3>2. task[i].state["local"] = "Updated"
      <4>1. task[i].state["local"] # "Unchanged" /\ task[i].state["local"] # "Deleted"
        BY <1>1, <2>1, <2>3, DirectionCases DEF TaskChange
      <4> QED  BY <1>1, <2>1, <4>1 DEF Tasks
    <3>3. /\ listing["local"][i].rev <= task[i].item["local"]
          /\ HasRevision("local", i, task[i].item["local"]) /\ Latest("local", i) \in Nat
      BY <1>1, <1>3, <2>1, <3>2, LoadedRevision DEF TaskCovers, ActiveStages, HasLoaded, TypeOK, Latest
    <3>4. task[i].item["local"] \in Nat
      BY <3>3 DEF HasRevision
    <3> QED  BY <1>1, <1>3, <2>1, <3>1, <3>3, <3>4
  <2>4. CASE Direction(i) # "up"
    <3>1. SyncedPair(i)["local"] = task[i].saved["local"]
      BY <2>2, <2>4 DEF SyncedPair
    <3>2. "local" \in Target(i)
      BY <1>1, <2>4, DirectionCases
    <3>3. listing["local"][i].rev <= task[i].saved["local"] /\ task[i].saved["local"] \in Nat
      BY <1>1, <1>3, <2>1, <3>2 DEF TaskCovers, Tasks
    <3> QED  BY <1>1, <1>3, <2>1, <3>1, <3>3
  <2> QED  BY <2>3, <2>4
<1>4. ASSUME NEW j \in Items, SetLastSyncedRevision(j) \/ RecordFails(j)
      PROVE  lastSynced[i]["local"] <= lastSynced'[i]["local"]
  <2>1. task[j].stage = "recording"
    BY <1>4 DEF SetLastSyncedRevision, RecordFails
  <2>2. lastSynced'[i] = lastSynced[i] \/ (j = i /\ lastSynced'[i] = SyncedPair(i))
    BY <1>1, <1>4 DEF SetLastSyncedRevision, RecordFails, TypeOK
  <2> QED  BY <1>2, <1>3, <2>1, <2>2
<1>5. lastSynced' = lastSynced \/ \E j \in Items : SetLastSyncedRevision(j) \/ RecordFails(j)
  BY DEF Next, SyncItems, Listing, ListItemStates, ListingDone, ForgetSync, StoreCall, LoadItem, LoadRejected,
         SaveItem, MergeAndSyncItem, MergeFails, ReadyToSave, LateSave, LateSaveLands,
         LateSaveLost, Failure, ListingFails, CallFails, LoadFails, SaveFails, Crash, Users, UserChange,
         EditItem, RemoveEntry, RemoveItem, vars
<1> QED  BY <1>2, <1>4, <1>5
\* The item that is done was being synced, and not listed.
LEMMA ItemDoneSyncing ==
  ASSUME IInv, NEW i \in Items, NEW outcome \in {"updated", "failed"},
         task[i].stage \in ActiveStages, ItemDone(i, outcome)
  PROVE  /\ progress.state = "SyncingItems" /\ progress'.state # "ListingItems"
         /\ listing' = listing /\ unlisted' = unlisted
         /\ \A j \in Items : task'[j].stage # "idle" => task[j].stage # "idle"
<1>1. progress \in Progress /\ progress.state = "SyncingItems"
  BY DEF IInv, TypeOK, PhaseInv, ActiveStages
<1>2. progress'.state # "ListingItems"
  <2>1. [progress EXCEPT !.active = @ - 1, !["updated"] = @ + 1].state = "SyncingItems"
    BY <1>1 DEF Progress
  <2>2. [progress EXCEPT !.active = @ - 1, !["failed"] = @ + 1].state = "SyncingItems"
    BY <1>1 DEF Progress
  <2>3. CASE outcome = "updated"
    BY <1>1, <2>1, <2>3 DEF ItemDone, Advance, Progress
  <2>4. CASE outcome = "failed"
    BY <1>1, <2>2, <2>4 DEF ItemDone, Advance, Progress
  <2> QED  BY <2>3, <2>4
<1>3. /\ listing' = listing /\ unlisted' = unlisted /\ task'[i].stage = "idle"
      /\ \A j \in Items \ {i} : task'[j] = task[j] \/ task[j].stage = "queued"
  BY ItemDoneStep, IdleTaskType
<1> QED  BY <1>1, <1>2, <1>3

\* The syncs' own steps.
Finishes(i) ==
  \/ LoadFails(i) \/ RecordFails(i) \/ MergeFails(i) \/ SetLastSyncedRevision(i)
  \/ \E s \in Stores : SaveFails(i, s) \/ LoadRejected(i, s)
Goes(i) == MergeAndSyncItem(i) \/ \E s \in Stores : LoadItem(i, s) \/ SaveItem(i, s)
Outside == LateSave \/ Users \/ UNCHANGED vars

LEMMA AllSteps ==
  ASSUME [Next]_vars
  PROVE  \/ SyncItems \/ (\E s \in Stores : ListItemStates(s)) \/ ListingDone \/ ListingFails
         \/ ForgetSync \/ Crash \/ Outside
         \/ \E i \in Items : Finishes(i) \/ Goes(i)
  BY DEF Next, Listing, StoreCall, Failure, CallFails, Finishes, Goes, Outside

LEMMA FinishesStep ==
  ASSUME IInv, NEW i \in Items, Finishes(i)
  PROVE  /\ progress.state = "SyncingItems" /\ progress'.state # "ListingItems"
         /\ currentSync = "pending"
         /\ UNCHANGED <<listing, unlisted, revisions>>
         /\ \A j \in Items : task'[j].stage # "idle" => task[j].stage # "idle"
         /\ \A j \in Items \ {i} : lastSynced'[j] = lastSynced[j]
         /\ task'[i].stage = "idle"
<1>1. PICK outcome \in {"updated", "failed"} : task[i].stage \in ActiveStages /\ ItemDone(i, outcome)
  BY DEF Finishes, LoadFails, RecordFails, MergeFails, ReadyToSave, SetLastSyncedRevision, SaveFails, LoadRejected,
         ActiveStages
<1>2. revisions' = revisions /\ \A j \in Items \ {i} : lastSynced'[j] = lastSynced[j]
  BY DEF Finishes, LoadFails, RecordFails, MergeFails, ReadyToSave, SetLastSyncedRevision, SaveFails, LoadRejected,
         IInv, TypeOK
<1>3. task'[i].stage = "idle"
  BY <1>1, ItemDoneStep, IdleTaskType
<1>4. currentSync = "pending"
  BY <1>1, ItemDoneSyncing DEF IInv, PhaseInv
<1> QED  BY <1>1, <1>2, <1>3, <1>4, ItemDoneSyncing

LEMMA PairsListedStep ==
  ASSUME InApp, LocalInv, [Next]_vars PROVE PairsListed'
<1>1. /\ IInv /\ TypeOK /\ "local" \in Stores /\ PairsListed /\ PhaseInv
      /\ (currentSync = "pending" <=> progress.state # "Idle")
      /\ \A i \in Items : /\ lastSynced[i]["local"] \in Nat /\ Latest("local", i) \in Nat
                          /\ lastSynced[i]["local"] <= Latest("local", i)
  <2>1. IInv /\ TypeOK /\ "local" \in Stores /\ PairsListed /\ PhaseInv
    BY DEF LocalInv, IInv, Stores
  <2>2. ASSUME NEW i \in Items
        PROVE  /\ lastSynced[i]["local"] \in Nat /\ Latest("local", i) \in Nat
               /\ lastSynced[i]["local"] <= Latest("local", i)
    <3>1. lastSynced[i]["local"] \in Nat /\ Latest("local", i) \in Nat
      BY <2>1 DEF TypeOK, Latest
    <3>2. lastSynced[i] = NoPair \/ HasRevision("local", i, lastSynced[i]["local"])
      BY <2>1 DEF IInv, LastSyncedRevisionsExist
    <3> QED  BY <2>1, <3>1, <3>2 DEF NoPair, NoItem, HasRevision
  <2> QED  BY <2>1, <2>2 DEF PhaseInv
<1>2. CASE SyncItems
  <2>1. progress'.state = "ListingItems" /\ unlisted' = Stores /\ task' = task
    BY <1>2 DEF SyncItems, NoProgress
  <2>2. \A i \in Items : task[i].stage = "idle"
    BY <1>1, <1>2 DEF SyncItems, PhaseInv
  <2> QED  BY <1>1, <2>1, <2>2 DEF PairsListed
<1>3. ASSUME NEW s \in Stores, ListItemStates(s) PROVE PairsListed'
  <2>1. /\ progress' = progress /\ progress.state = "ListingItems" /\ UNCHANGED <<task, lastSynced>>
        /\ unlisted' = unlisted \ {s}
        /\ \A i \in Items : IF s = "local" THEN listing'["local"][i].rev = Latest("local", i)
                            ELSE listing'["local"][i] = listing["local"][i]
    BY <1>1, <1>3 DEF ListItemStates, TypeOK
  <2>2. \A i \in Items : task[i].stage = "idle"
    BY <1>1, <2>1 DEF PhaseInv
  <2> QED  BY <1>1, <2>1, <2>2 DEF PairsListed
<1>4. CASE ListingDone
  <2>1. /\ UNCHANGED <<listing, unlisted, lastSynced>> /\ progress.state = "ListingItems" /\ unlisted = {}
        /\ progress'.state # "ListingItems"
    BY <1>1, <1>4, ListingOver DEF ListingDone
  <2> QED  BY <1>1, <2>1 DEF PairsListed
<1>5. CASE ListingFails \/ Crash
  <2>1. progress'.state = "Idle" /\ unlisted' = {} /\ \A i \in Items : task'[i].stage = "idle"
    BY <1>1, <1>5, IdleTaskType DEF ListingFails, Crash, NoProgress, PhaseInv, Progress, TypeOK
  <2> QED  BY <2>1 DEF PairsListed
<1>6. CASE ForgetSync
  <2>1. progress' = progress /\ unlisted' = unlisted /\ task' = task /\ progress.state = "Idle"
    BY <1>1, <1>6 DEF ForgetSync
  <2>2. \A i \in Items : task[i].stage = "idle"
    BY <1>1, <2>1 DEF PhaseInv
  <2> QED  BY <1>1, <2>1, <2>2 DEF PairsListed
<1>7. CASE Outside
  <2>1. UNCHANGED <<listing, unlisted, lastSynced, progress, task>>
    BY <1>7 DEF Outside, LateSave, LateSaveLands, LateSaveLost, Users, UserChange, EditItem, RemoveEntry, RemoveItem,
                syncVars, vars
  <2> QED  BY <1>1, <2>1 DEF PairsListed
<1>8. ASSUME NEW i \in Items, Finishes(i) PROVE PairsListed'
  <2>1. /\ progress.state = "SyncingItems" /\ progress'.state # "ListingItems" /\ UNCHANGED <<listing, unlisted>>
        /\ \A j \in Items : task'[j].stage # "idle" => task[j].stage # "idle" /\ lastSynced'[j] = lastSynced[j]
    BY <1>1, <1>8, FinishesStep
  <2> QED  BY <1>1, <2>1 DEF PairsListed
<1>9. ASSUME NEW i \in Items, Goes(i) PROVE PairsListed'
  <2>1. UNCHANGED <<progress, listing, unlisted, lastSynced>> /\ task[i].stage # "idle"
    BY <1>9 DEF Goes, MergeAndSyncItem, ReadyToSave, LoadItem, SaveItem
  <2>2. \A j \in Items \ {i} : task'[j] = task[j]
    BY <1>1, <1>9 DEF Goes, MergeAndSyncItem, LoadItem, SaveItem, TypeOK
  <2> QED  BY <1>1, <2>1, <2>2 DEF PairsListed
<1> QED  BY <1>2, <1>3, <1>4, <1>5, <1>6, <1>7, <1>8, <1>9, AllSteps

LEMMA LocalStarts == Init => LocalInv
<1> SUFFICES ASSUME Init PROVE LocalInv
  OBVIOUS
<1>1. IInv /\ CoverInv
  <2>1. \A i \in Items : task[i].stage = "idle" /\ \A s \in Stores : Latest(s, i) = 0 /\ listing[s][i].rev = 0
    BY IdleTaskType DEF Init, Latest, Unlisted, NoItem
  <2> QED  BY <2>1, InitInv DEF CoverInv, ListingInv, DoneCovered, TaskCovers, ActiveStages, Init, NoProgress
<1>2. NothingRemoved
  BY DEF Init, NothingRemoved, Latest, Unlisted, Stores
<1>3. PairsListed
  BY IdleTaskType DEF Init, PairsListed, NoProgress
<1> QED  BY <1>1, <1>2, <1>3 DEF LocalInv

LEMMA LocalStays == ASSUME InApp, LocalInv, [Next]_vars PROVE LocalInv'
<1>1. IInv'
  BY NextStep DEF LocalInv
<1>2. CoverInv'
  BY ListingStep, TasksStep, DoneStep DEF LocalInv, CoverInv
<1> QED  BY <1>1, <1>2, NothingRemovedStep, PairsListedStep DEF LocalInv

\* The current sync has listed a revision, or is to list it.
ListedSince(i, r) ==
  currentSync \in {"pending", "resolved"} /\ "local" \notin unlisted => r <= listing["local"][i].rev

LEMMA ListedSinceStays ==
  ASSUME InApp, LocalInv, [Next]_vars, NEW i \in Items, NEW r \in 1..Latest("local", i), ListedSince(i, r)
  PROVE  ListedSince(i, r)'
<1>1. /\ IInv /\ TypeOK /\ PhaseInv /\ "local" \in Stores /\ Latest("local", i) \in Nat /\ r \in Nat
  BY DEF LocalInv, IInv, TypeOK, Latest, Stores
<1>2. CASE SyncItems
  BY <1>1, <1>2 DEF SyncItems, ListedSince
<1>3. ASSUME NEW s \in Stores, ListItemStates(s) PROVE ListedSince(i, r)'
  <2>1. /\ currentSync' = currentSync /\ unlisted' = unlisted \ {s} /\ currentSync = "pending"
        /\ IF s = "local" THEN listing'["local"][i].rev = Latest("local", i)
           ELSE listing'["local"][i] = listing["local"][i]
    BY <1>1, <1>3 DEF ListItemStates, TypeOK, PhaseInv
  <2> QED  BY <1>1, <2>1 DEF ListedSince
<1>4. CASE ListingDone
  <2>1. UNCHANGED <<listing, unlisted>> /\ currentSync = "pending"
    BY <1>1, <1>4 DEF ListingDone, PhaseInv
  <2> QED  BY <2>1 DEF ListedSince
<1>5. CASE ListingFails \/ Crash \/ ForgetSync
  BY <1>5 DEF ListingFails, Crash, ForgetSync, ListedSince
<1>6. CASE Outside
  <2>1. UNCHANGED <<listing, unlisted, currentSync>>
    BY <1>6 DEF Outside, LateSave, LateSaveLands, LateSaveLost, Users, UserChange, EditItem, RemoveEntry, RemoveItem,
                syncVars, vars
  <2> QED  BY <2>1 DEF ListedSince
<1>7. ASSUME NEW j \in Items, Finishes(j) PROVE ListedSince(i, r)'
  BY <1>1, <1>7, FinishesStep DEF ListedSince
<1>8. ASSUME NEW j \in Items, Goes(j) PROVE ListedSince(i, r)'
  BY <1>8 DEF Goes, MergeAndSyncItem, LoadItem, SaveItem, ListedSince
<1> QED  BY <1>2, <1>3, <1>4, <1>5, <1>6, <1>7, <1>8, AllSteps

\* What a sync without failed items had listed of the local store is synced.
LEMMA ResolvedIsSynced ==
  ASSUME InApp, LocalInv, currentSync = "resolved", progress.failed = 0,
         NEW i \in Items, NEW r \in 1..Latest("local", i), ListedSince(i, r)
  PROVE  r <= lastSynced[i]["local"]
<1>1. /\ IInv /\ TypeOK /\ PhaseInv /\ PairsListed /\ NothingRemoved /\ "local" \in Stores
      /\ Latest("local", i) \in Nat /\ r \in Nat /\ r > 0
      /\ listing["local"][i].rev \in Nat /\ lastSynced[i]["local"] \in Nat
  BY DEF LocalInv, IInv, TypeOK, Latest, ItemStates, Stores
<1>2. progress.state = "Idle" /\ task[i].stage = "idle" /\ unlisted = {}
  BY <1>1 DEF PhaseInv, PairsListed
<1>3. r <= listing["local"][i].rev
  BY <1>2 DEF ListedSince
<1>4. Covered(i) /\ Listed("local", i)
  BY <1>1, <1>2, <1>3 DEF LocalInv, CoverInv, DoneCovered, Listed, NoItem
<1>5. listing["local"][i].rev <= lastSynced[i]["local"]
  BY <1>1, <1>4 DEF Covered, NothingRemoved, InApp
<1> QED  BY <1>1, <1>3, <1>5

\* AppInv, one edit at a time.
LEMMA AppStep ==
  ASSUME InApp, LocalInv, AppInv, [AppNext]_appVars PROVE AppInv'
<1>1. /\ [Next]_vars /\ IInv /\ TypeOK /\ LocalInv' /\ Kept /\ "local" \in Stores
      /\ \A i \in Items : /\ Latest("local", i) \in Nat /\ Latest("local", i)' \in Nat
                          /\ lastSynced[i]["local"] \in Nat /\ lastSynced'[i]["local"] \in Nat
                          /\ lastSynced[i]["local"] <= lastSynced'[i]["local"]
  <2>1. [Next]_vars /\ IInv /\ TypeOK /\ "local" \in Stores
    BY AppSteps DEF LocalInv, IInv, Stores
  <2>2. LocalInv' /\ TypeOK'
    BY <2>1, LocalStays DEF LocalInv, IInv
  <2> QED  BY <2>1, <2>2, NextKeeps, PairsGrow DEF TypeOK, Latest
<1>2. ASSUME NEW m \in saving \cup waiting
      PROVE  /\ m \in Items \X Nat /\ m[1] \in Items /\ m[2] \in 1..Latest("local", m[1])
             /\ m[2] \in 1..Latest("local", m[1])' /\ m[2] \in Nat
             /\ ListedSince(m[1], m[2]) /\ ListedSince(m[1], m[2])'
  <2>1. /\ m \in Items \X Nat /\ m[2] \in 1..Latest("local", m[1]) /\ m[1] \in Items /\ m[2] \in Nat
        /\ ListedSince(m[1], m[2])
    BY DEF AppInv, ListedSince
  <2>2. Latest("local", m[1]) <= Latest("local", m[1])'
    BY <1>1, <2>1 DEF Kept
  <2>3. ListedSince(m[1], m[2])'
    BY <1>1, <2>1, ListedSinceStays
  <2> QED  BY <1>1, <2>1, <2>2, <2>3
<1>3. ASSUME NEW report \in shown
      PROVE  /\ report.edit[1] \in Items /\ report.edit[2] \in Nat
             /\ report.allSynced => report.edit[2] <= lastSynced'[report.edit[1]]["local"]
  <2>1. /\ report.edit[1] \in Items /\ report.edit[2] \in Nat
        /\ report.allSynced => report.edit[2] <= lastSynced[report.edit[1]]["local"]
    BY DEF AppInv, ShownMeansSynced
  <2> QED  BY <1>1, <2>1
<1>4. CASE saving' \cup waiting' \subseteq saving \cup waiting /\ shown' = shown
  BY <1>2, <1>3, <1>4 DEF AppInv, ListedSince, ShownMeansSynced
<1>5. ASSUME NEW i \in Items, NEW f \in Fields, OnSave(i, f) PROVE AppInv'
  <2>1. UserChange(i, "local") /\ currentSync = "none"
    BY <1>1, <1>5 DEF OnSave, UserChange, EditItem, RemoveEntry, CanEdit, InApp
  <2>2. PICK c \in Contents : revisions' = Saved("local", i, c)
    BY <1>1, <2>1, UserSaves
  <2>3. currentSync' = "none"
    BY <1>1, <2>1, UserSaves DEF syncVars
  <2>4. Latest("local", i)' = Latest("local", i) + 1
    BY <1>1, <2>2, Appended
  <2>5. saving' = saving \cup {<<i, Latest("local", i) + 1>>} /\ waiting' = waiting /\ shown' = shown
    BY <1>5 DEF OnSave
  <2> DEFINE e == <<i, Latest("local", i) + 1>>
  <2>6. e \in Items \X Nat /\ e[1] = i /\ e[2] \in 1..Latest("local", i)'
    BY <1>1, <2>4
  <2> HIDE DEF e
  <2>7. saving' = saving \cup {e}
    BY <2>5 DEF e
  <2> QED  BY <1>2, <1>3, <2>3, <2>5, <2>6, <2>7 DEF AppInv, ShownMeansSynced
<1>6. CASE SyncSettled /\ currentSync = "resolved"
  <2>1. ASSUME NEW m \in waiting
        PROVE  /\ Report(m).edit[1] \in Items /\ Report(m).edit[2] \in Nat
               /\ Report(m).allSynced => Report(m).edit[2] <= lastSynced'[Report(m).edit[1]]["local"]
    <3>1. Report(m).edit = m /\ (Report(m).allSynced <=> progress.failed = 0)
      BY DEF Report
    <3>2. progress.failed = 0 => m[2] <= lastSynced[m[1]]["local"]
      BY <1>2, <1>6, ResolvedIsSynced
    <3> QED  BY <1>1, <1>2, <3>1, <3>2
  <2>2. saving' = saving /\ waiting' = {} /\ shown' = shown \cup {Report(m) : m \in waiting}
    BY <1>6 DEF SyncSettled
  <2> HIDE DEF Report
  <2>3. \A report \in shown' : report \in shown \/ \E m \in waiting : report = Report(m)
    BY <2>2
  <2> QED  BY <1>2, <1>3, <2>1, <2>2, <2>3 DEF AppInv, ListedSince, ShownMeansSynced
<1>7. CASE OnUnlock \/ (\E m \in saving : SyncAfterSave(m)) \/ Background \/ UNCHANGED appVars
  BY <1>4, <1>7 DEF OnUnlock, SyncAfterSave, Background, appVars
<1>8. CASE SyncSettled /\ currentSync # "resolved"
  BY <1>4, <1>8 DEF SyncSettled
<1>9. CASE AppCrash
  BY <1>9 DEF AppCrash, AppInv, ShownMeansSynced
<1> QED  BY <1>5, <1>6, <1>7, <1>8, <1>9 DEF AppNext

\* ShownMeansSynced (AppView.tla) whatever fails, stops or lands late, if the user does
\* not edit during a sync: what is reported as synced when no item of the sync had
\* failed has been synced.
THEOREM ShownIsSynced == ASSUME InApp PROVE AppSpec => []ShownMeansSynced
<1>1. AppInit => LocalInv /\ AppInv
  BY LocalStarts DEF AppInit, AppInv, ShownMeansSynced
<1>2. LocalInv /\ AppInv /\ [AppNext]_appVars => (LocalInv /\ AppInv)'
  BY AppSteps, LocalStays, AppStep
<1>3. AppInv => ShownMeansSynced
  BY DEF AppInv
<1> QED  BY <1>1, <1>2, <1>3, PTL DEF AppSpec
=============================================================================
