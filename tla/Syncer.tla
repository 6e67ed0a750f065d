------------------------------- MODULE Syncer -------------------------------
(***************************************************************************)
(* CloudStoreSyncer (src/lib/sync.ts): it brings a local and a cloud store *)
(* of items into agreement.  In both stores every save appends a revision, *)
(* and loading a deleted item is an error.  The local store is either that *)
(* of src/lib/temp_store.ts or the database of the app,                    *)
(* src/lib/local_store.ts, which refuses the tombstones that a sync makes. *)
(*                                                                         *)
(* The program is single threaded; what interleaves is the moment at which *)
(* each store call takes effect.  One action is one store call taking      *)
(* effect together with the callbacks that run when it returns.  Users of  *)
(* either store edit at any time, calls fail, and the program may crash.   *)
(***************************************************************************)
EXTENDS Integers, Sequences, FiniteSets, Functions

CONSTANTS
  Items,            \* item UUIDs
  Fields,           \* what is merged by itself: title, notes, trashed, each list entry
  Entries,          \* those that are entries of lists: sections, URLs, form fields
  MergeThrows(_, _, _),  \* whether the merge of two items with their base throws
  LocalTakesTombstones,  \* whether the local store saves tombstones
  MaxActive,        \* SYNC_MAX_ACTIVE_ITEMS
  EditSites,        \* the stores whose users make changes
  EditsDuringSync,  \* whether they make them while a sync is running
  FaultKinds,       \* the calls that may fail: a subset of Faults
  MaxEdits,         \* bound: user edits and removals
  MaxFaults         \* bound: failed calls and crashes

Stores == {"local", "cloud"}
Faults == {"list", "load", "save", "record", "quit", "crash"}

ASSUME ItemsAssumption == IsFiniteSet(Items)
ASSUME EntriesAssumption == Entries \subseteq Fields
ASSUME MaxActiveAssumption == MaxActive \in Nat \ {0}
ASSUME BoundsAssumption ==
  /\ EditSites \subseteq Stores
  /\ EditsDuringSync \in BOOLEAN
  /\ LocalTakesTombstones \in BOOLEAN
  /\ FaultKinds \subseteq Faults
  /\ MaxEdits \in Nat
  /\ MaxFaults \in Nat

VARIABLES
  revisions,    \* revisions[s][i]: the contents item i has had in store s, oldest first
  lastSynced,   \* lastSynced[i][s]: revision of i in s that was last synced
  currentSync,  \* the promise of the current sync
  progress,     \* syncProgress
  listing,      \* listing[s]: the item states listItemStates() returned
  unlisted,     \* the stores that are still listing their items
  syncQueue,    \* uuids of the items left to sync
  task,         \* task[i]: what the current sync is doing to item i
  late,         \* saves in flight that nobody waits for any more
  edits,        \* number of user edits so far
  faults        \* number of failures so far

syncVars == <<currentSync, progress, listing, unlisted, syncQueue, task>>
vars == <<revisions, lastSynced, syncVars, late, edits, faults>>

-----------------------------------------------------------------------------
(* Items and revisions *)

\* The n-th edit gives a field the value n or, if it removes an entry, -n; an
\* entry that was never there is 0.  The folder of an item is not among the
\* fields: the database does not keep it, and each copy of an item has its own
\* UUID for it (cloneItem).
Present(value) == value > 0

Contents == [deleted : BOOLEAN, fields : [Fields -> Int]]
TombstoneContent == [deleted |-> TRUE, fields |-> [f \in Fields |-> 0]]
BlankContent == [deleted |-> FALSE, fields |-> [f \in Fields |-> 0]]

\* Revisions are numbered from 1; these stand for an item that is not there
\* and for the tombstone that createTombstone makes, which has no revision.
NoItem == 0
Tombstone == -1

NoPair == [s \in Stores |-> NoItem]

Latest(s, i) == Len(revisions[s][i])
Exists(s, i) == Latest(s, i) > 0
Current(s, i) == revisions[s][i][Latest(s, i)]
IsLive(s, i) == Exists(s, i) /\ ~Current(s, i).deleted

ItemContent(s, i, r) ==
  IF r = Tombstone THEN TombstoneContent ELSE revisions[s][i][r]

\* Saving assigns a new revision to the item: Store.saveItem.
Saved(s, i, content) ==
  [revisions EXCEPT ![s][i] = Append(@, content)]

-----------------------------------------------------------------------------
(* Merging, one field at a time: item_merge.mergeField for values.  Entries *)
(* of lists are matched by their keys and then compared as objects, which   *)
(* are never the same in two versions: an entry that both versions have is  *)
(* the first one, whichever of them has changed, and only additions and     *)
(* removals are merged.                                                     *)

\* Faulty variant: the cloud's value wins a conflict.
MergeFieldSecondWins(base, first, second) == IF base = second THEN first ELSE second

MergeField(base, first, second) == IF base = first THEN second ELSE first

MergeEntry(base, first, second) ==
  IF Present(base) = Present(first) /\ Present(base) # Present(second)
  THEN second ELSE first

Merge(a, b, base) ==
  [deleted |-> FALSE,
   fields |-> [f \in Fields |->
                 IF f \in Entries
                 THEN MergeEntry(base.fields[f], a.fields[f], b.fields[f])
                 ELSE MergeField(base.fields[f], a.fields[f], b.fields[f])]]

-----------------------------------------------------------------------------
(* The sync of one item *)

IdleTask ==
  [stage    |-> "idle",
   state    |-> [s \in Stores |-> "Unchanged"],
   item     |-> NoPair,
   saved    |-> NoPair,
   pending  |-> {}]

Listed(s, i) == listing[s][i].rev # NoItem

\* Faulty variant: removed items are not synced.
ItemSyncStateNoTombstones(s, i) ==
  IF Listed(s, i) /\ ~listing[s][i].deleted /\ listing[s][i].rev # lastSynced[i][s]
  THEN "Updated" ELSE "Unchanged"

\* How item i of store s differs from its last-synced revision:
\* enqueueItemForSyncIfChanged.
ItemSyncState(s, i) ==
  CASE ~Listed(s, i) -> "Unchanged"
    [] Listed(s, i) /\ listing[s][i].deleted ->
         IF lastSynced[i] = NoPair THEN "Unchanged" ELSE "Deleted"
    [] OTHER ->
         IF listing[s][i].rev = lastSynced[i][s] THEN "Unchanged" ELSE "Updated"

Changed == {i \in Items : \E s \in Stores : ItemSyncState(s, i) # "Unchanged"}

QueuedTask(i) ==
  [IdleTask EXCEPT !.stage = "queued",
                   !.state = [s \in Stores |-> ItemSyncState(s, i)]]

\* syncItem: a deleted item gets a new tombstone, any other item is loaded.
StartedTask(i, queued) ==
  [queued EXCEPT
     !.stage = "loading",
     !.item = [s \in Stores |-> IF Listed(s, i) /\ listing[s][i].deleted
                                THEN Tombstone ELSE NoItem],
     !.pending = {s \in Stores : Listed(s, i) /\ ~listing[s][i].deleted}]

\* Both changed: merge.  Otherwise a local change wins over a cloud one.
Direction(i) ==
  IF \A s \in Stores : task[i].state[s] = "Updated" THEN "merge"
  ELSE IF task[i].state["local"] # "Unchanged" THEN "up"
  ELSE "down"

\* Faulty variant: a merged item is saved to the local store only.
TargetOneStore(i) == IF Direction(i) = "up" THEN {"cloud"} ELSE {"local"}

Target(i) ==
  CASE Direction(i) = "merge" -> Stores
    [] Direction(i) = "up" -> {"cloud"}
    [] Direction(i) = "down" -> {"local"}

Loaded(s, i) == ItemContent(s, i, task[i].item[s])
Base(i) == revisions["local"][i][lastSynced[i]["local"]]

\* The content mergeAndSyncItem saves.
Outgoing(i) ==
  CASE Direction(i) = "merge" -> Merge(Loaded("local", i), Loaded("cloud", i), Base(i))
    [] Direction(i) = "up" -> Loaded("local", i)
    [] Direction(i) = "down" -> Loaded("cloud", i)

\* Faulty variant: nothing is recorded for an item copied to the local store.
SyncedPairUploadsOnly(i) ==
  IF Direction(i) = "up"
  THEN [local |-> task[i].item["local"], cloud |-> task[i].saved["cloud"]]
  ELSE NoPair

\* Faulty variant: the revisions read are recorded, not those saved.
SyncedPairAsRead(i) == IF Outgoing(i).deleted THEN NoPair ELSE task[i].item

\* The revisions recorded when the save is done.  A merge records the cloud
\* revision it read, not the one it saved.
SyncedPair(i) ==
  IF Outgoing(i).deleted THEN NoPair
  ELSE IF Direction(i) = "up"
  THEN [local |-> task[i].item["local"], cloud |-> task[i].saved["cloud"]]
  ELSE [local |-> task[i].saved["local"], cloud |-> task[i].item["cloud"]]

ActiveStages == {"loading", "saving", "recording"}
Active == {i \in Items : task[i].stage \in ActiveStages}

-----------------------------------------------------------------------------
(* Progress *)

NoProgress == [state |-> "Idle", active |-> 0, updated |-> 0, failed |-> 0, total |-> 0]
\* Faulty variant: no limit on the active items.
RoomUnlimited(active, queue) == Len(queue)

Room(active, queue) ==
  IF MaxActive - active < Len(queue) THEN MaxActive - active ELSE Len(queue)

\* The 'sync-progress' listener, run after every change of the progress: the
\* sync ends when every item is done, otherwise the next batch starts.
Advance(p, queue, tasks) ==
  IF p.updated + p.failed = p.total
  THEN /\ progress' = [p EXCEPT !.state = "Idle"]
       /\ currentSync' = "resolved"
       /\ syncQueue' = queue
       /\ task' = tasks
  ELSE LET n == Room(p.active, queue)
           started == {queue[k] : k \in 1..n}
       IN  /\ progress' = [p EXCEPT !.active = @ + n]
           /\ currentSync' = currentSync
           /\ syncQueue' = SubSeq(queue, n + 1, Len(queue))
           /\ task' = [i \in Items |-> IF i \in started
                                       THEN StartedTask(i, tasks[i]) ELSE tasks[i]]

ItemDone(i, outcome) ==
  /\ Advance([progress EXCEPT !.active = @ - 1, ![outcome] = @ + 1],
             syncQueue, [task EXCEPT ![i] = IdleTask])
  /\ UNCHANGED <<listing, unlisted>>

Fault(kind) ==
  /\ kind \in FaultKinds
  /\ faults < MaxFaults
  /\ faults' = faults + 1

-----------------------------------------------------------------------------
Unlisted == [s \in Stores |-> [i \in Items |-> [rev |-> NoItem, deleted |-> FALSE]]]

Init ==
  /\ revisions = [s \in Stores |-> [i \in Items |-> <<>>]]
  /\ lastSynced = [i \in Items |-> NoPair]
  /\ currentSync = "none"
  /\ progress = NoProgress
  /\ listing = Unlisted
  /\ unlisted = {}
  /\ syncQueue = <<>>
  /\ task = [i \in Items |-> IdleTask]
  /\ late = {}
  /\ edits = 0
  /\ faults = 0

(* Listing *)

\* A call during a sync returns the promise of that sync and does nothing else.
SyncItems ==
  /\ currentSync = "none"
  /\ currentSync' = "pending"
  /\ progress' = [NoProgress EXCEPT !.state = "ListingItems"]
  /\ unlisted' = Stores
  /\ UNCHANGED <<revisions, lastSynced, listing, syncQueue, task, late, edits, faults>>

ListItemStates(s) ==
  /\ progress.state = "ListingItems"
  /\ s \in unlisted
  /\ listing' = [listing EXCEPT ![s] =
                   [i \in Items |-> [rev |-> Latest(s, i),
                                     deleted |-> Exists(s, i) /\ Current(s, i).deleted]]]
  /\ unlisted' = unlisted \ {s}
  /\ UNCHANGED <<revisions, lastSynced, currentSync, progress, syncQueue, task, late, edits, faults>>

\* The queue holds the changed items once each, in the order of the listings.
Orders(S) == Bijection(1..Cardinality(S), S)

ListingDone ==
  /\ progress.state = "ListingItems"
  /\ unlisted = {}
  /\ \E queue \in Orders(Changed) :
       Advance([progress EXCEPT !.state = "SyncingItems", !.total = Len(queue)], queue,
               [i \in Items |-> IF i \in Changed THEN QueuedTask(i) ELSE IdleTask])
  /\ UNCHANGED <<revisions, lastSynced, listing, unlisted, late, edits, faults>>

ListingFails ==
  /\ progress.state = "ListingItems"
  /\ unlisted # {}
  /\ Fault("list")
  /\ currentSync' = "rejected"
  /\ progress' = [progress EXCEPT !.state = "Idle"]
  /\ unlisted' = {}
  /\ UNCHANGED <<revisions, lastSynced, listing, syncQueue, task, late, edits>>

\* Faulty variant: a sync that was rejected is not forgotten.
ForgetSyncResolved ==
  /\ currentSync = "resolved"
  /\ currentSync' = "none"
  /\ listing' = Unlisted
  /\ UNCHANGED <<revisions, lastSynced, progress, unlisted, syncQueue, task, late, edits, faults>>

\* The handlers of the sync's own promise forget it, one turn after it settled.
ForgetSync ==
  /\ currentSync \in {"resolved", "rejected"}
  /\ currentSync' = "none"
  /\ listing' = Unlisted
  /\ UNCHANGED <<revisions, lastSynced, progress, unlisted, syncQueue, task, late, edits, faults>>

-----------------------------------------------------------------------------
(* Loading *)

LoadItem(i, s) ==
  /\ task[i].stage = "loading"
  /\ s \in task[i].pending
  /\ IsLive(s, i)
  /\ task' = [task EXCEPT ![i].item[s] = Latest(s, i), ![i].pending = @ \ {s}]
  /\ UNCHANGED <<revisions, lastSynced, currentSync, progress, listing, unlisted,
                 syncQueue, late, edits, faults>>

\* The item was removed after it was listed.
LoadRejected(i, s) ==
  /\ task[i].stage = "loading"
  /\ s \in task[i].pending
  /\ ~IsLive(s, i)
  /\ ItemDone(i, "failed")
  /\ UNCHANGED <<revisions, lastSynced, late, edits, faults>>

LoadFails(i) ==
  /\ task[i].stage = "loading"
  /\ task[i].pending # {}
  /\ Fault("load")
  /\ ItemDone(i, "failed")
  /\ UNCHANGED <<revisions, lastSynced, late, edits>>

-----------------------------------------------------------------------------
(* Saving *)

\* A merge first loads the last-synced revision of the local item: it needs
\* one, and the local item must not have been removed meanwhile.
HasBase(i) == lastSynced[i] # NoPair /\ IsLive("local", i)

\* A merge may throw, and so does saving a tombstone in the app's database,
\* which asserts that an item has a creation time.
Succeeds(i) ==
  /\ Direction(i) = "merge" =>
       /\ HasBase(i)
       /\ ~MergeThrows(Base(i).fields, Loaded("local", i).fields, Loaded("cloud", i).fields)
  /\ Direction(i) = "down" => LocalTakesTombstones \/ ~Outgoing(i).deleted

ReadyToSave(i) == task[i].stage = "loading" /\ task[i].pending = {}

MergeAndSyncItem(i) ==
  /\ ReadyToSave(i)
  /\ Succeeds(i)
  /\ task' = [task EXCEPT ![i].stage = "saving", ![i].pending = Target(i)]
  /\ UNCHANGED <<revisions, lastSynced, currentSync, progress, listing, unlisted,
                 syncQueue, late, edits, faults>>

\* Faulty variant: a failed merge is counted as an update.
MergeFailsSilently(i) ==
  /\ ReadyToSave(i)
  /\ ~Succeeds(i)
  /\ ItemDone(i, "updated")
  /\ UNCHANGED <<revisions, lastSynced, late, edits, faults>>

MergeFails(i) ==
  /\ ReadyToSave(i)
  /\ ~Succeeds(i)
  /\ ItemDone(i, "failed")
  /\ UNCHANGED <<revisions, lastSynced, late, edits, faults>>

SaveItem(i, s) ==
  /\ task[i].stage = "saving"
  /\ s \in task[i].pending
  /\ revisions' = Saved(s, i, Outgoing(i))
  /\ task' = [task EXCEPT ![i].saved[s] = Latest(s, i) + 1,
                          ![i].pending = @ \ {s},
                          ![i].stage = IF task[i].pending = {s} THEN "recording" ELSE @]
  /\ UNCHANGED <<lastSynced, currentSync, progress, listing, unlisted, syncQueue,
                 late, edits, faults>>

InFlight(i, stores) ==
  {[store |-> s, item |-> i, content |-> Outgoing(i), since |-> faults] :
     s \in task[i].pending \cap stores}

\* The item has failed as soon as one of its saves has; the other save, and a
\* cloud save whose answer was lost, may still land.
SaveFails(i, s) ==
  /\ task[i].stage = "saving"
  /\ s \in task[i].pending
  /\ Fault("save")
  /\ late' = late \cup InFlight(i, Stores \ ({s} \cap {"local"}))
  /\ ItemDone(i, "failed")
  /\ UNCHANGED <<revisions, lastSynced, edits>>

LateSaveLands(m) ==
  /\ m \in late
  /\ revisions' = Saved(m.store, m.item, m.content)
  /\ late' = late \ {m}
  /\ UNCHANGED <<lastSynced, syncVars, edits, faults>>

LateSaveLost(m) ==
  /\ m \in late
  /\ late' = late \ {m}
  /\ UNCHANGED <<revisions, lastSynced, syncVars, edits, faults>>

SetLastSyncedRevision(i) ==
  /\ task[i].stage = "recording"
  /\ lastSynced' = [lastSynced EXCEPT ![i] = SyncedPair(i)]
  /\ ItemDone(i, "updated")
  /\ UNCHANGED <<revisions, late, edits, faults>>

RecordFails(i) ==
  /\ task[i].stage = "recording"
  /\ Fault("record")
  /\ \/ lastSynced' = [lastSynced EXCEPT ![i] = SyncedPair(i)]
     \/ UNCHANGED lastSynced
  /\ ItemDone(i, "failed")
  /\ UNCHANGED <<revisions, late, edits>>

-----------------------------------------------------------------------------
(* The environment *)

\* A user of store s changes a field of an item or creates the item; UUIDs
\* are random, so an item is created in one store only.
CanEdit(s) ==
  /\ s \in EditSites
  /\ edits < MaxEdits
  /\ EditsDuringSync \/ currentSync = "none"

New(i) == \A s \in Stores : ~Exists(s, i)

EditItem(i, s, f) ==
  /\ CanEdit(s)
  /\ IsLive(s, i) \/ New(i)
  /\ edits' = edits + 1
  /\ LET content == IF New(i) THEN BlankContent ELSE Current(s, i)
     IN revisions' = Saved(s, i, [content EXCEPT !.fields[f] = edits + 1])
  /\ UNCHANGED <<lastSynced, syncVars, late, faults>>

\* A user of store s removes an entry.
RemoveEntry(i, s, f) ==
  /\ CanEdit(s)
  /\ IsLive(s, i)
  /\ f \in Entries /\ Present(Current(s, i).fields[f])
  /\ edits' = edits + 1
  /\ revisions' = Saved(s, i, [Current(s, i) EXCEPT !.fields[f] = -(edits + 1)])
  /\ UNCHANGED <<lastSynced, syncVars, late, faults>>

\* The app does not remove items from its database.
RemoveItem(i, s) ==
  /\ CanEdit(s)
  /\ IsLive(s, i)
  /\ s = "local" => LocalTakesTombstones
  /\ edits' = edits + 1
  /\ revisions' = Saved(s, i, TombstoneContent)
  /\ UNCHANGED <<lastSynced, syncVars, late, faults>>

\* The program dies: its memory is gone, the stores stay.  A request to the
\* cloud that was on its way may still be carried out.  `quit' is the kind of
\* crash that comes before a sync has begun to save an item, or after it has
\* recorded it.
Crash ==
  /\ currentSync # "none"
  /\ \/ Fault("crash")
     \/ Fault("quit") /\ \A i \in Items : task[i].stage \notin {"saving", "recording"}
  /\ currentSync' = "none"
  /\ progress' = NoProgress
  /\ listing' = Unlisted
  /\ unlisted' = {}
  /\ syncQueue' = <<>>
  /\ task' = [i \in Items |-> IdleTask]
  /\ late' = {m \in late : m.store = "cloud"} \cup
             UNION {InFlight(i, {"cloud"}) : i \in {j \in Items : task[j].stage = "saving"}}
  /\ UNCHANGED <<revisions, lastSynced, edits>>

-----------------------------------------------------------------------------
StoreCall(i) ==
  \/ \E s \in Stores : LoadItem(i, s) \/ LoadRejected(i, s) \/ SaveItem(i, s)
  \/ MergeAndSyncItem(i) \/ MergeFails(i)
  \/ SetLastSyncedRevision(i)

Listing == (\E s \in Stores : ListItemStates(s)) \/ ListingDone

CallFails(i) == LoadFails(i) \/ RecordFails(i) \/ \E s \in Stores : SaveFails(i, s)

Failure ==
  \/ ListingFails
  \/ \E i \in Items : CallFails(i)
  \/ Crash

LateSave == \E m \in late : LateSaveLands(m) \/ LateSaveLost(m)

UserChange(i, s) ==
  \/ RemoveItem(i, s)
  \/ \E f \in Fields : EditItem(i, s, f) \/ RemoveEntry(i, s, f)

Users == \E i \in Items, s \in Stores : UserChange(i, s)

Next ==
  \/ SyncItems
  \/ Listing
  \/ ForgetSync
  \/ \E i \in Items : StoreCall(i)
  \/ LateSave
  \/ Failure
  \/ Users

Spec == Init /\ [][Next]_vars

-----------------------------------------------------------------------------
(* Properties *)

ItemStates == [rev : Nat, deleted : BOOLEAN]
Progress ==
  [state : {"Idle", "ListingItems", "SyncingItems"},
   active : Nat, updated : Nat, failed : Nat, total : Nat]
LateSaves == [store : Stores, item : Items, content : Contents, since : Nat]
Tasks ==
  [stage   : {"idle", "queued", "loading", "saving", "recording"},
   state   : [Stores -> {"Unchanged", "Updated", "Deleted"}],
   item    : [Stores -> Nat \cup {Tombstone}],
   saved   : [Stores -> Nat],
   pending : SUBSET Stores]

\* The type invariant.
TypeOK ==
  /\ revisions \in [Stores -> [Items -> Seq(Contents)]]
  /\ lastSynced \in [Items -> [Stores -> Nat]]
  /\ currentSync \in {"none", "pending", "resolved", "rejected"}
  /\ progress \in Progress
  /\ listing \in [Stores -> [Items -> ItemStates]]
  /\ unlisted \in SUBSET Stores
  /\ syncQueue \in Seq(Items)
  /\ task \in [Items -> Tasks]
  /\ late \in SUBSET LateSaves
  /\ edits \in Nat
  /\ faults \in Nat

\* The progress the UI shows adds up: while items are synced, every changed
\* item is counted once as updated, failed, active or queued, the active ones
\* are those a store call is made for, at most MaxActive and at least one, so
\* that the sync cannot stall; before and after, nothing is left over.
ProgressAddsUp ==
  /\ progress.active = Cardinality(Active)
  /\ IF progress.state = "SyncingItems"
     THEN /\ progress.updated + progress.failed + progress.active + Len(syncQueue)
               = progress.total
          /\ progress.active \in 1..MaxActive
     ELSE progress.active = 0 /\ syncQueue = <<>>

\* A sync that reports no failed item has synced what it listed: each item's
\* listed revision, in either store, is the last-synced one or older, unless
\* the item was deleted and the local store takes that.
Covered(i) ==
  \/ \A s \in Stores : listing[s][i].rev <= lastSynced[i][s]
  \/ /\ lastSynced[i] = NoPair
     /\ \/ listing["local"][i].deleted
        \/ listing["cloud"][i].deleted /\ (LocalTakesTombstones \/ ~Listed("local", i))
CompletedSyncCoversListing ==
  currentSync = "resolved" /\ progress.failed = 0 => \A i \in Items : Covered(i)

\* The last-synced revisions exist in their stores, so that the base of a merge
\* can be loaded: no failure or crash leaves a pair with half of it missing.
HasRevision(s, i, r) == r \in 1..Latest(s, i)
LastSyncedRevisionsExist ==
  \A i \in Items :
    lastSynced[i] = NoPair \/ \A s \in Stores : HasRevision(s, i, lastSynced[i][s])

\* "The same revision of an item in the local and cloud stores" (RevisionPair,
\* item_store.ts): the two recorded revisions hold the same content.
PairNamesSameContent ==
  \A i \in Items :
    lastSynced[i] # NoPair =>
      revisions["local"][i][lastSynced[i]["local"]]
        = revisions["cloud"][i][lastSynced[i]["cloud"]]

\* A step of the syncer changes item i of store s, live before and after.
SyncWrites(i, s) ==
  /\ edits' = edits
  /\ revisions'[s][i] # revisions[s][i]
  /\ IsLive(s, i) /\ IsLive(s, i)'

\* The syncer never replaces a field the local user has changed since the
\* item was last synced, unless it is an entry that the sync adds or removes
\* because the cloud's version has or lacks it and the last-synced one did not.
CloudAddsOrRemoves(i, f) ==
  /\ f \in Entries
  /\ Present(Base(i).fields[f]) # Present(Loaded("cloud", i).fields[f])
KeepsLocalEdits(i) ==
  SyncWrites(i, "local") /\ lastSynced[i] # NoPair =>
    \A f \in Fields :
      \/ Current("local", i).fields[f] \in {Base(i).fields[f], Current("local", i)'.fields[f]}
      \/ CloudAddsOrRemoves(i, f)
UnsyncedLocalEditsSurvive == [][\A i \in Items : KeepsLocalEdits(i)]_vars

\* The syncer never brings back a value that a field had in that store before
\* and that was replaced there, with one exception: an entry in the cloud may
\* fall back to what it was when the item was last synced.
FallsBack(i, s, f) ==
  s = "cloud" /\ f \in Entries /\ Current(s, i)'.fields[f] = Base(i).fields[f]
BringsNothingBack(i, s) ==
  SyncWrites(i, s) =>
    \A f \in Fields :
      \/ Current(s, i)'.fields[f] = Current(s, i).fields[f]
      \/ \A r \in 1..Latest(s, i) :
           Current(s, i)'.fields[f] # revisions[s][i][r].fields[f]
      \/ FallsBack(i, s, f)
NoStaleValueReturns == [][\A i \in Items, s \in Stores : BringsNothingBack(i, s)]_vars

\* "Unchanged, or only changed in item 'b'": such a field gets the value of b, the
\* cloud's item, and the entries of lists "are then merged using mergeField()"
\* (item_merge.ts).  So what was changed in the cloud only is not replaced there.
KeepsCloudEdits(i) ==
  SyncWrites(i, "cloud") /\ lastSynced[i] # NoPair =>
    \A f \in Fields :
      Loaded("local", i).fields[f] = Base(i).fields[f] =>
        Current("cloud", i)'.fields[f] = Current("cloud", i).fields[f]
CloudEditsSurvive == [][\A i \in Items : KeepsCloudEdits(i)]_vars

\* What users have replaced or entered is so after a sync: both of the above.
SyncsRespectEdits ==
  [][\A i \in Items : KeepsLocalEdits(i) /\ \A s \in Stores : BringsNothingBack(i, s)]_vars

\* Items that no sync can bring into agreement: those whose removal in the cloud
\* the local store refuses, and those that are merged by a merge that throws.
RemovalIsRefused(i) ==
  /\ ~LocalTakesTombstones
  /\ lastSynced[i] # NoPair /\ lastSynced[i]["local"] = Latest("local", i)
  /\ Exists("cloud", i) /\ Current("cloud", i).deleted
MergeIsRefused(i) ==
  /\ lastSynced[i] # NoPair
  /\ \A s \in Stores : IsLive(s, i) /\ lastSynced[i][s] # Latest(s, i)
  /\ MergeThrows(Base(i).fields, Current("local", i).fields, Current("cloud", i).fields)
Unsyncable(i) == RemovalIsRefused(i) \/ MergeIsRefused(i)

\* Once the users stop making changes and syncs are repeated, both stores hold
\* the same items for good, but for those that cannot be synced.
Agree(i) ==
  IF \E s \in Stores : IsLive(s, i)
  THEN \A s \in Stores : Exists(s, i) /\ Current(s, i) = Current("local", i)
  ELSE TRUE
StoresConverge == <>[](\A i \in Items : Agree(i) \/ Unsyncable(i))

\* Once calls stop failing and the users stop making changes, every sync that
\* completes syncs all items that can be: a failed item is retried with success.
SyncsSucceedAgain ==
  <>[](currentSync = "resolved" => progress.failed = Cardinality({i \in Items : Unsyncable(i)}))

-----------------------------------------------------------------------------
(* The inductive invariant behind the safety properties *)

\* The queue holds the queued items, once each; as long as it holds any, the
\* sync is as busy as it may be.
QueueInv ==
  /\ \A m, n \in 1..Len(syncQueue) : m # n => syncQueue[m] # syncQueue[n]
  /\ \A i \in Items : task[i].stage = "queued" <=> \E n \in 1..Len(syncQueue) : syncQueue[n] = i
  /\ syncQueue # <<>> => progress.active = MaxActive

\* Only a sync that is pending has tasks, and counts from zero.
PhaseInv ==
  /\ currentSync = "pending" <=> progress.state # "Idle"
  /\ progress.state = "ListingItems" => progress.updated = 0 /\ progress.failed = 0
  /\ progress.state # "SyncingItems" => \A i \in Items : task[i].stage = "idle"

\* A task is about a change that was listed.
TaskChange(i) ==
  /\ \E s \in Stores : task[i].state[s] # "Unchanged"
  /\ \A s \in Stores :
       /\ task[i].state[s] = "Updated" => Listed(s, i) /\ ~listing[s][i].deleted
       /\ task[i].state[s] = "Deleted" => Listed(s, i) /\ listing[s][i].deleted

\* What a task needs to have loaded, it has loaded or is loading.
TaskItems(i) ==
  \A s \in Stores :
    /\ task[i].state[s] = "Deleted" =>
         /\ task[i].item[s] = Tombstone
         /\ task[i].stage = "loading" => s \notin task[i].pending
    /\ task[i].state[s] = "Updated" =>
         \/ task[i].stage = "loading" /\ s \in task[i].pending
         \/ HasRevision(s, i, task[i].item[s])

\* The revisions a task has saved exist; a merge has a base.
TaskSaves(i) ==
  /\ Direction(i) = "merge" => lastSynced[i] # NoPair
  /\ task[i].pending \subseteq Target(i)
  /\ task[i].stage = "recording" => task[i].pending = {}
  /\ \A s \in Target(i) \ task[i].pending : HasRevision(s, i, task[i].saved[s])

TaskOK(i) ==
  /\ task[i].stage # "idle" => TaskChange(i)
  /\ task[i].stage \in ActiveStages => TaskItems(i)
  /\ task[i].stage \in {"saving", "recording"} => TaskSaves(i)
TaskInv == \A i \in Items : TaskOK(i)

\* The inductive invariant of Spec.
IInv ==
  /\ TypeOK
  /\ ProgressAddsUp
  /\ LastSyncedRevisionsExist
  /\ QueueInv
  /\ PhaseInv
  /\ TaskInv

\* No store lists a revision that it does not have.
ListingInv == \A s \in Stores, i \in Items : listing[s][i].rev <= Latest(s, i)

\* A task has loaded the item that was listed or a newer one, which is not a
\* tombstone, and what it has saved is newer than what was listed; it removes no
\* item that the local store would have to remove and cannot.
HasLoaded(i, s) == ~(task[i].stage = "loading" /\ s \in task[i].pending)
TaskCovers(i) ==
  /\ task[i].stage \in ActiveStages =>
       \A s \in Stores : task[i].state[s] = "Updated" /\ HasLoaded(i, s) =>
         /\ listing[s][i].rev <= task[i].item[s]
         /\ ~revisions[s][i][task[i].item[s]].deleted
  /\ task[i].stage \in {"saving", "recording"} =>
       /\ \A s \in Target(i) \ task[i].pending : listing[s][i].rev <= task[i].saved[s]
       /\ Direction(i) = "down" /\ task[i].state["cloud"] = "Deleted" => LocalTakesTombstones

\* While no item has failed, the ones that are done are covered.
DoneCovered ==
  progress.failed = 0 /\ (progress.state = "SyncingItems" \/ currentSync = "resolved") =>
    \A i \in Items : task[i].stage = "idle" => Covered(i)

\* What makes CompletedSyncCoversListing inductive, together with IInv.
CoverInv == ListingInv /\ (\A i \in Items : TaskCovers(i)) /\ DoneCovered

\* Without edits during a sync, and without saves that land late, the local
\* store stays as it was listed until the sync itself saves to it: what a task
\* has loaded is current, and an item it takes for unchanged is.
HasSaved(i, s) == task[i].stage \in {"saving", "recording"} /\ s \in Target(i) \ task[i].pending
TaskCurrent(i) ==
  task[i].stage # "idle" =>
    /\ task[i].state["local"] = ItemSyncState("local", i)
    /\ ~HasSaved(i, "local") => Latest("local", i) = listing["local"][i].rev
    /\ task[i].stage \in ActiveStages /\ task[i].state["local"] = "Updated" /\ HasLoaded(i, "local")
         => task[i].item["local"] = listing["local"][i].rev
ListingCurrent ==
  progress.state = "ListingItems" /\ "local" \notin unlisted =>
    \A i \in Items : listing["local"][i].rev = Latest("local", i)
QuietInv ==
  /\ \A m \in late : m.store = "cloud"
  /\ ListingCurrent
  /\ \A i \in Items : TaskCurrent(i)

\* Without edits during a sync, and without failures once an item is being saved,
\* both stores stay as they were listed until the sync saves to them.
ListingHolds ==
  /\ unlisted # {} => progress.state = "ListingItems"
  /\ \A s \in Stores, i \in Items :
       /\ listing[s][i].deleted =>
            Listed(s, i) /\ revisions[s][i][listing[s][i].rev].deleted
       /\ Listed(s, i) /\ ~listing[s][i].deleted =>
            ~revisions[s][i][listing[s][i].rev].deleted
       /\ progress.state = "ListingItems" /\ s \notin unlisted =>
            listing[s][i].rev = Latest(s, i)

\* An item without a pair of synced revisions is in one store only, or removed
\* from both.
Unpaired(i) ==
  lastSynced[i] = NoPair =>
    (\E s \in Stores : ~Exists(s, i)) \/ (\A s \in Stores : ~IsLive(s, i))

\* A task removes an item if the change that it carries over is a removal.
Removes(i) ==
  \/ Direction(i) = "up" /\ task[i].state["local"] = "Deleted"
  \/ Direction(i) = "down" /\ task[i].state["cloud"] = "Deleted"

\* What a task has saved is what its store has; the rest of the item is as it
\* was listed.
TaskSettled(i) ==
  /\ (\A s \in Stores : ~HasSaved(i, s)) => Unpaired(i)
  /\ task[i].stage # "idle" =>
       \A s \in Stores :
         IF HasSaved(i, s)
         THEN /\ task[i].saved[s] = Latest(s, i)
              /\ Current(s, i).deleted <=> Removes(i)
         ELSE Latest(s, i) = listing[s][i].rev
  /\ task[i].stage = "loading" =>
       \A s \in task[i].pending : Listed(s, i) /\ ~listing[s][i].deleted

\* What was removed from the local store stays removed.
LocalStaysDead ==
  \A i \in Items : \A q, r \in 1..Latest("local", i) :
    q < r /\ revisions["local"][i][q].deleted => revisions["local"][i][r].deleted

SettledInv ==
  /\ late = {}
  /\ ListingHolds
  /\ \A i \in Items : TaskSettled(i)
  /\ LocalStaysDead

\* An item of a sync only fails if it cannot be synced, and a sync is only
\* rejected if a listing can fail.
Calm ==
  /\ currentSync \in {"pending", "resolved"} /\ progress.failed > 0 =>
       \E i \in Items : task[i].stage = "idle" /\ Unsyncable(i)
  /\ currentSync = "rejected" => "list" \in FaultKinds

-----------------------------------------------------------------------------
(* The abstract specification that the syncer implements *)

\* The revision that item i of store s had when the current sync, if it is about
\* the item, listed it: what the sync does to the item shows once it is done.
Before(s, i) == IF task[i].stage = "idle" THEN Latest(s, i) ELSE listing[s][i].rev
BeforeContent(s, i) == revisions[s][i][Before(s, i)]

NoCopy == [state |-> "missing", fields |-> BlankContent.fields]
CopyOf(content) ==
  IF content.deleted THEN [state |-> "removed", fields |-> BlankContent.fields]
  ELSE [state |-> "live", fields |-> content.fields]

Copies ==
  [s \in Stores |-> [i \in Items |->
     IF Before(s, i) = NoItem THEN NoCopy ELSE CopyOf(BeforeContent(s, i))]]
SyncedCopies ==
  [i \in Items |->
     IF lastSynced[i] = NoPair THEN NoCopy ELSE [state |-> "live", fields |-> Base(i).fields]]

Replica == INSTANCE Replication WITH copies <- Copies, base <- SyncedCopies

\* Without edits during a sync, and without failures once an item is being saved,
\* each item is synced as if it was done at once: however the calls of a sync
\* interleave, both stores end up with the item merged as Replication merges it.
SyncsAreAtomic == Replica!Spec

\* A task is about the change that was listed, has loaded what was listed, and
\* saves it once.
TaskAsListed(i) ==
  task[i].stage # "idle" =>
    \A s \in Stores :
      /\ task[i].state[s] = ItemSyncState(s, i)
      /\ task[i].stage \in ActiveStages /\ task[i].state[s] = "Updated" /\ HasLoaded(i, s)
           => task[i].item[s] = listing[s][i].rev
      /\ HasSaved(i, s) =>
           Latest(s, i) = listing[s][i].rev + 1 /\ Current(s, i) = Outgoing(i)

\* Each value is that of an edit that has been made.
ValuesInv ==
  \A s \in Stores, i \in Items : \A r \in 1..Latest(s, i), f \in Fields :
    revisions[s][i][r].fields[f] \in (-edits)..edits

\* What store s has of an item and was not synced, store t never had.
NewTo(s, t, i) ==
  \A f \in Fields :
    LET value == BeforeContent(s, i).fields[f]
    IN value # Base(i).fields[f] =>
         value # 0 /\ \A r \in 1..Before(t, i) : revisions[t][i][r].fields[f] # value

\* An item that was synced has changed in the local store if it has another
\* revision there, and only if it has another revision in the cloud.
ChangesShow(i) ==
  /\ \A s \in Stores : lastSynced[i][s] <= Before(s, i)
  /\ Before("cloud", i) = lastSynced[i]["cloud"] =>
       BeforeContent("cloud", i) = [deleted |-> FALSE, fields |-> Base(i).fields]
  /\ Before("local", i) # lastSynced[i]["local"] =>
       BeforeContent("local", i).deleted \/ BeforeContent("local", i).fields # Base(i).fields
  /\ \A s, t \in Stores : s # t /\ ~BeforeContent(s, i).deleted => NewTo(s, t, i)

\* One that was not synced is in one store only, or removed from both.
OneSided(i) ==
  (\E s \in Stores : Before(s, i) = NoItem) \/ (\A s \in Stores : BeforeContent(s, i).deleted)

AtomicInv ==
  /\ \A i \in Items : TaskAsListed(i)
  /\ ValuesInv
  /\ \A i \in Items : IF lastSynced[i] = NoPair THEN OneSided(i) ELSE ChangesShow(i)
=============================================================================
