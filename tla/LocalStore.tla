----------------------------- MODULE LocalStore -----------------------------
(***************************************************************************)
(* The local store (lib/local_store.ts): every save writes a revision and, *)
(* through the queue of index updates, the index that names the current    *)
(* revision of every item.  The index is cached while the vault is         *)
(* unlocked.                                                               *)
(*                                                                         *)
(* Each call of saveItem() or setLastSyncedRevision() is an operation, and *)
(* the revision that a save creates is named after its operation.  Only    *)
(* which revision is current and which exist matters here, so the contents *)
(* of items, keys and last-synced entries are left out.                    *)
(***************************************************************************)
EXTENDS Naturals, Sequences, FiniteSets

CONSTANTS Items,
          MaxOps,         \* bound: how many calls are made
          MaxInterrupts,  \* bound: how often the vault is locked or the
                          \* program dies
          RecordsOverlap  \* whether an item is edited between the moment a
                          \* sync loads it and the moment the sync records it

ASSUME BoundsAssumption ==
  /\ MaxOps \in Nat /\ MaxInterrupts \in Nat
  /\ RecordsOverlap \in BOOLEAN

Ops == 1..MaxOps
NoRevision == 0
Revisions == Ops \union {NoRevision}
Indexes == [Items -> Revisions]
NoIndex == [i \in {} |-> NoRevision]  \* no index is known
EmptyIndex == [i \in Items |-> NoRevision]

VARIABLES index,      \* the index in the database
          revisions,  \* the revisions in the database
          cached, reading,                                              \* itemIndex
          pendingUpdates, nextFlush, currentFlush, batch, processed,    \* indexUpdateQueue
          flush,      \* the run of updateIndex() on the current batch
          op,         \* the calls
          object,     \* the revision the user's object of each item carries
          locked,     \* whether the key agent holds no key
          locks, crashes

Cache == INSTANCE Cached WITH Values <- Indexes, NoValue <- NoIndex
Queue == INSTANCE UpdateQueue WITH Updates <- Ops, MaxFailures <- 0, failures <- 0

database == <<index, revisions>>
cacheVars == <<cached, reading>>
queueVars == <<pendingUpdates, nextFlush, currentFlush, batch, processed>>
opVars == <<op, object>>
lockVars == <<locked, locks>>
vars == <<database, cacheVars, queueVars, flush, opVars, lockVars, crashes>>

Flush(stage, map) == [stage |-> stage, map |-> map]
NoFlush == Flush("none", NoIndex)

Op(kind, item, rev, parent, stage) ==
  [kind |-> kind, item |-> item, rev |-> rev, parent |-> parent, stage |-> stage]
OpTypes ==
  [kind : {"edit", "record"}, item : Items, rev : Ops, parent : Revisions,
   stage : {"preparing", "writing", "written", "done", "abandoned", "failed", "lost"}]

TypeOK ==
  /\ index \in Indexes
  /\ revisions \subseteq Ops
  /\ Cache!TypeOK
  /\ Queue!TypeOK
  /\ flush \in [stage : {"none", "loading", "writing"}, map : Indexes \union {NoIndex}]
  /\ op \in Seq(OpTypes) /\ Len(op) <= MaxOps
  /\ object \in Indexes
  /\ locked \in BOOLEAN
  /\ locks \in 0..MaxInterrupts
  /\ crashes \in 0..MaxInterrupts

Init ==
  /\ index = EmptyIndex
  /\ revisions = {}
  /\ Cache!Init
  /\ Queue!Init
  /\ flush = NoFlush
  /\ op = <<>>
  /\ object = EmptyIndex
  /\ locked = FALSE
  /\ locks = 0
  /\ crashes = 0

\* A call with work under way.
Active(o) == op[o].stage \in {"preparing", "writing", "written", "abandoned"}

Started(kind, i, rev, parent) == op' = Append(op, Op(kind, i, rev, parent, "preparing"))
Moved(o, stage) == op' = [op EXCEPT ![o].stage = stage]

-----------------------------------------------------------------------------
(* saveItem() *)

\* The item object gets its new revision before anything is written.
SaveItem(i) ==
  /\ Len(op) < MaxOps
  /\ ~locked
  /\ RecordsOverlap \/ \A o \in DOMAIN op : op[o].item = i => ~Active(o) \/ op[o].kind = "edit"
  /\ Started("edit", i, Len(op) + 1, object[i])
  /\ object' = [object EXCEPT ![i] = Len(op) + 1]
  /\ UNCHANGED <<database, cacheVars, queueVars, flush, lockVars, crashes>>

\* The vault was locked before the content could be encrypted.
EncryptFails(o) ==
  /\ op[o].kind = "edit" /\ op[o].stage = "preparing"
  /\ locked
  /\ Moved(o, "failed")
  /\ UNCHANGED <<database, cacheVars, queueVars, flush, object, lockVars, crashes>>

\* The revision is written under the name that the object carries by now: if it
\* was saved again, both saves write the later one.
Encrypted(o) ==
  /\ op[o].kind = "edit" /\ op[o].stage = "preparing"
  /\ Queue!Push(o)
  /\ op' = [op EXCEPT ![o].stage = "writing", ![o].rev = object[op[o].item]]
  /\ UNCHANGED <<database, cacheVars, flush, object, lockVars, crashes>>

\* The write goes on when the index has failed the call.
RevisionSaved(o) ==
  /\ op[o].stage \in {"writing", "abandoned"}
  /\ revisions' = revisions \union {op[o].rev}
  /\ Moved(o, IF op[o].stage = "writing" THEN "written" ELSE "failed")
  /\ UNCHANGED <<index, cacheVars, queueVars, flush, object, lockVars, crashes>>

-----------------------------------------------------------------------------
(* setLastSyncedRevision() *)

\* A sync has an object of its own, made from the index it loaded.
LoadForSync(i) ==
  /\ Len(op) < MaxOps
  /\ cached # NoIndex
  /\ cached[i] # NoRevision
  /\ RecordsOverlap \/ \A o \in DOMAIN op : op[o].item = i => ~Active(o)
  /\ Started("record", i, cached[i], NoRevision)
  /\ UNCHANGED <<database, cacheVars, queueVars, flush, object, lockVars, crashes>>

\* Once the entry is saved the item's index entry is updated as well.
LastSyncedSaved(o) ==
  /\ op[o].kind = "record" /\ op[o].stage = "preparing"
  /\ Queue!Push(o)
  /\ Moved(o, "written")
  /\ UNCHANGED <<database, cacheVars, flush, object, lockVars, crashes>>

-----------------------------------------------------------------------------
(* Both calls end when the queue has processed their update. *)

\* Faulty variant: a call does not wait for the queue.
CallDoneEarly(o) ==
  /\ op[o].stage = "written"
  /\ Moved(o, "done")
  /\ UNCHANGED <<database, cacheVars, queueVars, flush, object, lockVars, crashes>>

CallDone(o) ==
  /\ op[o].stage = "written"
  /\ Queue!Answer(o) = "resolved"
  /\ Moved(o, "done")
  /\ UNCHANGED <<database, cacheVars, queueVars, flush, object, lockVars, crashes>>

CallFails(o) ==
  /\ op[o].stage \in {"writing", "written"}
  /\ Queue!Answer(o) = "rejected"
  /\ Moved(o, IF op[o].stage = "writing" THEN "abandoned" ELSE "failed")
  /\ UNCHANGED <<database, cacheVars, queueVars, flush, object, lockVars, crashes>>

-----------------------------------------------------------------------------
(* updateIndex() *)

\* Faulty variant: only listing the items reads the index.
StartFlushUnread ==
  /\ Queue!StartFlush
  /\ flush' = Flush("loading", cached)
  /\ UNCHANGED <<database, cacheVars, opVars, lockVars, crashes>>

\* The index comes from the cache or from the read that is, or gets, under way.
StartFlush ==
  /\ Queue!StartFlush
  /\ flush' = Flush("loading", cached)
  /\ reading' = IF Cache!MustRead THEN Cache!Reading("asked", NoIndex) ELSE reading
  /\ UNCHANGED <<database, cached, opVars, lockVars, crashes>>

\* The revision that an item object carries when the index is updated: the
\* user's object may have been saved again since.
EntryOf(o) == IF op[o].kind = "edit" THEN object[op[o].item] ELSE op[o].rev

\* Faulty variant: the new index consists of the updates.
UpdatedOnly(map) ==
  [i \in Items |->
    LET of == {n \in DOMAIN batch : op[batch[n]].item = i}
    IN IF of = {} THEN NoRevision
       ELSE EntryOf(batch[CHOOSE n \in of : \A m \in of : m <= n])]

\* The last update of an item in the batch decides.
Updated(map) ==
  [i \in Items |->
    LET of == {n \in DOMAIN batch : op[batch[n]].item = i}
    IN IF of = {} THEN map[i]
       ELSE EntryOf(batch[CHOOSE n \in of : \A m \in of : m <= n])]

\* itemIndex.set() changes the cache at once; writing needs the key.
UpdateIndex ==
  /\ flush.stage = "loading"
  /\ flush.map # NoIndex
  /\ Cache!Set(Updated(flush.map))
  /\ IF locked
     THEN Queue!FlushFails /\ flush' = NoFlush
     ELSE flush' = Flush("writing", Updated(flush.map)) /\ UNCHANGED queueVars
  /\ UNCHANGED <<database, opVars, lockVars, crashes>>

IndexNotRead ==
  /\ flush.stage = "loading"
  /\ flush.map = NoIndex
  /\ reading.state = "rejected"
  /\ Queue!FlushFails
  /\ flush' = NoFlush
  /\ UNCHANGED <<database, cacheVars, opVars, lockVars, crashes>>

\* The vault was locked before the new index could be encrypted.
IndexNotWritten ==
  /\ flush.stage = "writing"
  /\ locked
  /\ Queue!FlushFails
  /\ flush' = NoFlush
  /\ UNCHANGED <<database, cacheVars, opVars, lockVars, crashes>>

IndexWritten ==
  /\ flush.stage = "writing"
  /\ index' = flush.map
  /\ Queue!FlushDone
  /\ flush' = NoFlush
  /\ UNCHANGED <<revisions, cacheVars, opVars, lockVars, crashes>>

-----------------------------------------------------------------------------
(* readItemIndex(), and its callers listItems() and loadItem() *)

ListItems ==
  /\ Cache!Get
  /\ UNCHANGED <<database, queueVars, flush, opVars, lockVars, crashes>>

ReadIndex ==
  /\ ~locked
  /\ Cache!Retrieve(index)
  /\ UNCHANGED <<database, queueVars, flush, opVars, lockVars, crashes>>

IndexRead ==
  /\ Cache!Retrieved
  /\ flush' = IF flush.stage = "loading" /\ flush.map = NoIndex
              THEN Flush("loading", reading.value) ELSE flush
  /\ UNCHANGED <<database, queueVars, opVars, lockVars, crashes>>

\* There is no key to decrypt the index with.
ReadIndexFails ==
  /\ locked
  /\ Cache!GetterFails
  /\ UNCHANGED <<database, queueVars, flush, opVars, lockVars, crashes>>

-----------------------------------------------------------------------------
(* Environment *)

\* The listener of onLock clears the cache.
Lock ==
  /\ ~locked
  /\ locks + crashes < MaxInterrupts
  /\ locks' = locks + 1
  /\ locked' = TRUE
  /\ Cache!Clear
  /\ UNCHANGED <<database, queueVars, flush, opVars, crashes>>

Unlock ==
  /\ locked
  /\ locked' = FALSE
  /\ UNCHANGED <<database, cacheVars, queueVars, flush, opVars, locks, crashes>>

\* The program dies and is started again; only the database is left.
Crash ==
  /\ locks + crashes < MaxInterrupts
  /\ crashes' = crashes + 1
  /\ cached' = NoIndex /\ reading' = Cache!NotReading
  /\ pendingUpdates' = <<>> /\ nextFlush' = FALSE
  /\ currentFlush' = "resolved" /\ batch' = <<>> /\ processed' = <<>>
  /\ flush' = NoFlush
  /\ op' = [o \in DOMAIN op |-> IF Active(o) THEN [op[o] EXCEPT !.stage = "lost"] ELSE op[o]]
  /\ object' = index
  /\ locked' = FALSE
  /\ UNCHANGED <<database, locks>>

-----------------------------------------------------------------------------
\* The step of one call.
CallStep(o) ==
  \/ EncryptFails(o) \/ Encrypted(o) \/ RevisionSaved(o)
  \/ LastSyncedSaved(o)
  \/ CallDone(o) \/ CallFails(o)

\* A step of the store itself.
StoreStep ==
  \/ StartFlush \/ UpdateIndex \/ IndexNotRead \/ IndexNotWritten \/ IndexWritten
  \/ ReadIndex \/ IndexRead \/ ReadIndexFails

\* All calls have been made and have ended, and there is nothing to do.
Idle ==
  /\ Len(op) = MaxOps
  /\ \A o \in DOMAIN op : ~Active(o)
  /\ UNCHANGED vars

Next ==
  \/ \E i \in Items : SaveItem(i) \/ LoadForSync(i)
  \/ \E o \in DOMAIN op : CallStep(o)
  \/ StoreStep
  \/ ListItems \/ Lock \/ Unlock \/ Crash
  \/ Idle

Spec == Init /\ [][Next]_vars

\* The event loop runs the callbacks, and the database answers every request.
AnswerFairness ==
  /\ WF_vars(StoreStep)
  /\ WF_vars(\E o \in DOMAIN op : CallStep(o))

FairSpec == Spec /\ AnswerFairness /\ WF_vars(Unlock)

-----------------------------------------------------------------------------
(* Properties *)

\* A revision and the revisions it was made from: what is in every set that has
\* the revision and the parents of its members.
HasParents(calls, set) == \A r \in set : calls[r].parent \in set \union {NoRevision}
History(calls, r) ==
  {q \in DOMAIN calls :
     /\ r \in DOMAIN calls
     /\ \A set \in SUBSET DOMAIN calls : r \in set /\ HasParents(calls, set) => q \in set}

\* A lock clears the cache under whatever reads and writes are under way.
NeverLocked == locks = 0

\* A save that has been acknowledged stays in the history of its item: the index
\* names it or a revision made from it, also after a crash.
AcknowledgedSavesAreIndexed ==
  NeverLocked =>
    \A o \in DOMAIN op :
      op[o].kind = "edit" /\ op[o].stage = "done" => o \in History(op, index[op[o].item])

\* "index: OverviewMap // current overview and revision data for all items":
\* the index moves from a revision only to one that was made from it.
IndexMovesForward ==
  [][NeverLocked => \A i \in Items :
       index[i] \notin {NoRevision, index'[i]} => index[i] \in History(op, index'[i])]_vars

\* When nothing is under way the revisions that the index names exist.
IndexedRevisionsExist ==
  NeverLocked /\ crashes = 0 /\ (\A o \in DOMAIN op : ~Active(o)) =>
    \A i \in Items : index[i] \in revisions \union {NoRevision}

\* Between two flushes the cache is what the database holds.
CacheIsCurrent ==
  NeverLocked /\ cached # NoIndex /\ currentFlush = "resolved" => cached = index

\* The index is true to the calls that were answered, to the revisions and to
\* what is read of it, in whatever order the writes of overlapping calls end.
IndexIsTrue == AcknowledgedSavesAreIndexed /\ IndexedRevisionsExist /\ CacheIsCurrent

\* Every call ends, also one whose update waits for the flush before it.
CallsEnd == []<>(\A o \in DOMAIN op : ~Active(o))

\* Locking the vault under a call does no harm unless the index cannot be
\* written for it.
CallsEndUnlessIndexFails == [](currentFlush # "rejected") => CallsEnd

\* clear(): "Forget the cached value. It will be retrieved from the original
\* source on the next call to get()": once the vault stays unlocked a read of the
\* index gets one.
ReadsSucceed == <>[](~locked) => []<>(reading.state # "rejected")
=============================================================================
