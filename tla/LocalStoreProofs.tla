-------------------------- MODULE LocalStoreProofs --------------------------
(***************************************************************************)
(* Theorems about LocalStore: the index is true to the saves that were     *)
(* answered, and moves forward only, for any items, calls and crashes, as  *)
(* long as the vault is not locked under them (NeverLocked, as in the      *)
(* properties) and no edit falls into the record of a sync                 *)
(* (RecordsOverlap).                                                       *)
(***************************************************************************)
EXTENDS LocalStore, Functions, SequenceTheorems, WellFoundedInduction, TLAPS

-----------------------------------------------------------------------------
(* The inductive invariant *)

Pending == Range(pendingUpdates)
Batched == Range(batch)
Processed == Range(processed)

\* The types, and what they rest on, whether the vault is locked or not.
TypeInv ==
  /\ TypeOK
  /\ Pending \subseteq DOMAIN op /\ Batched \subseteq DOMAIN op
  /\ flush.stage = "writing" => flush.map \in Indexes
  /\ \A o \in DOMAIN op :
       op[o].kind = "edit" /\ op[o].stage = "preparing" => object[op[o].item] # NoRevision

\* What the database is going to hold.
NewIndex == IF flush.stage = "writing" THEN flush.map ELSE index

\* The cache, the read and the flush agree about the index.
CacheInv ==
  /\ ~locked
  /\ reading.state # "rejected" /\ currentFlush # "rejected"
  /\ cached # NoIndex => reading.state = "none" /\ cached = NewIndex
  /\ reading.state = "retrieved" => reading.value = index
  /\ flush.stage # "none" => flush.map = cached
  /\ flush.stage = "writing" => cached # NoIndex
  /\ flush.stage = "none" <=> currentFlush = "resolved"
  /\ flush.stage = "none" <=> batch = <<>>
  /\ nextFlush => pendingUpdates # <<>>

\* Calls wait for their updates, and the record of a sync is alone with its item.
CallsInv ==
  /\ \A o \in DOMAIN op :
       /\ op[o].stage \in {"preparing", "writing", "written", "done", "lost"}
       /\ o \in Pending \union Batched => op[o].stage \in {"writing", "written"}
       /\ op[o].kind = "record" /\ Active(o) =>
            /\ op[o].rev = object[op[o].item]
            /\ \A p \in DOMAIN op : op[p].item = op[o].item /\ Active(p) => p = o
  /\ Pending \intersect Batched = {}
  /\ Processed \intersect (Pending \union Batched) = {}
  /\ Processed \subseteq DOMAIN op

\* Revisions are made from revisions that there are.
ParentsInv ==
  /\ \A o \in DOMAIN op : op[o].parent \in DOMAIN op \union {NoRevision}
  /\ \A i \in Items : object[i] \in DOMAIN op \union {NoRevision}

\* An edit whose revision is still to be put into the index.
Waits(o) ==
  /\ op[o].kind = "edit"
  /\ op[o].stage = "preparing" \/ o \in Pending \/ (o \in Batched /\ flush.stage = "loading")

\* The index is behind the object of the user only while an edit waits.
IndexInv ==
  \A i \in Items :
    /\ NewIndex[i] = object[i] \/ \E o \in DOMAIN op : op[o].item = i /\ Waits(o)
    /\ index[i] \in History(op, object[i]) \union {NoRevision}
    /\ index[i] \in History(op, NewIndex[i]) \union {NoRevision}
    /\ NewIndex[i] \in History(op, object[i]) \union {NoRevision}

\* Edits that are under way are in the history of the object, and those that
\* have been processed in that of the index.
EditsInv ==
  \A o \in DOMAIN op :
    op[o].kind = "edit" =>
      /\ Active(o) => o \in History(op, object[op[o].item])
      /\ op[o].stage = "done" \/ o \in Processed =>
           /\ o \in History(op, object[op[o].item])
           /\ o \in History(op, index[op[o].item])
           /\ o \in History(op, NewIndex[op[o].item])
      /\ o \in Batched /\ flush.stage = "writing" => o \in History(op, NewIndex[op[o].item])

\* The revision of the object exists or is going to be written.
RevisionsInv ==
  crashes = 0 =>
    \A i \in Items :
      object[i] # NoRevision =>
        /\ op[object[i]].kind = "edit"
        /\ op[object[i]].item = i
        /\ \/ op[object[i]].stage = "preparing"
           \/ op[object[i]].stage = "writing" /\ op[object[i]].rev = object[i]
           \/ object[i] \in revisions

StoreInv == CacheInv /\ CallsInv /\ ParentsInv /\ IndexInv /\ EditsInv /\ RevisionsInv
IInv == TypeInv /\ (NeverLocked => StoreInv)

-----------------------------------------------------------------------------
(* Histories *)

\* A revision is in its own history, which holds revisions that there are.
LEMMA HistoryHas ==
  ASSUME NEW calls, NEW r
  PROVE  /\ r \in DOMAIN calls => r \in History(calls, r)
         /\ History(calls, r) \subseteq DOMAIN calls
BY DEF History

\* The history of a revision has that of the one it was made from.
LEMMA HistoryOfParent ==
  ASSUME NEW calls, NEW r \in DOMAIN calls, calls[r].parent # NoRevision
  PROVE  History(calls, calls[r].parent) \subseteq History(calls, r)
<1> SUFFICES ASSUME NEW q \in History(calls, calls[r].parent),
                    NEW set \in SUBSET DOMAIN calls, r \in set, HasParents(calls, set)
             PROVE  q \in DOMAIN calls /\ q \in set
  BY DEF History
<1>1. calls[r].parent \in set
  BY DEF HasParents
<1> QED  BY <1>1 DEF History

\* Further calls, and further steps of calls, take nothing out of a history.
LEMMA HistoryKept ==
  ASSUME NEW calls, NEW next, NEW r,
         DOMAIN calls \subseteq DOMAIN next,
         \A o \in DOMAIN calls : next[o].parent = calls[o].parent,
         \A o \in DOMAIN calls : calls[o].parent \in DOMAIN calls \union {NoRevision}
  PROVE  History(calls, r) \subseteq History(next, r)
<1> SUFFICES ASSUME NEW q \in History(calls, r),
                    NEW set \in SUBSET DOMAIN next, r \in set, HasParents(next, set)
             PROVE  q \in set
  BY DEF History
<1> DEFINE old == set \intersect DOMAIN calls
<1>1. HasParents(calls, old)
  BY DEF HasParents
<1>2. r \in old
  BY DEF History
<1> QED  BY <1>1, <1>2 DEF History

-----------------------------------------------------------------------------
(* The queue *)

LEMMA PushSets ==
  ASSUME TypeInv, NEW u \in DOMAIN op, Queue!Push(u)
  PROVE  /\ u \notin Pending \union Batched \union Processed
         /\ Pending' = Pending \union {u} /\ Batched' = Batched /\ Processed' = Processed
         /\ pendingUpdates' # <<>> /\ pendingUpdates' \in Seq(Ops)
<1>1. u \in Ops
  BY BoundsAssumption DEF TypeInv, TypeOK, Ops
<1>2. pendingUpdates \in Seq(Ops) /\ pendingUpdates' = Append(pendingUpdates, u)
      /\ UNCHANGED <<batch, processed>> /\ u \notin Pending \union Batched \union Processed
  BY DEF TypeInv, TypeOK, Queue!TypeOK, Queue!Push, Queue!Pushed, Pending, Batched, Processed, Queue!Range, Range
<1>3. /\ pendingUpdates' \in Seq(Ops) /\ Len(pendingUpdates') = Len(pendingUpdates) + 1
      /\ \A n \in 1 .. Len(pendingUpdates) : pendingUpdates'[n] = pendingUpdates[n]
      /\ pendingUpdates'[Len(pendingUpdates) + 1] = u
  BY <1>1, <1>2, AppendProperties
<1>4. /\ Len(pendingUpdates) \in Nat /\ DOMAIN pendingUpdates = 1 .. Len(pendingUpdates)
      /\ DOMAIN pendingUpdates' = 1 .. Len(pendingUpdates) + 1
  BY <1>2, <1>3, LenProperties
<1>5. Pending' = Pending \union {u}
  BY <1>3, <1>4 DEF Pending, Range
<1>6. pendingUpdates' # <<>>
  BY <1>3, <1>4
<1> QED  BY <1>2, <1>3, <1>5, <1>6 DEF Batched, Processed

LEMMA StartSets ==
  ASSUME TypeInv, Queue!StartFlush
  PROVE  /\ Pending' = {} /\ Batched' = Pending /\ Processed' = Processed
         /\ batch' \in Seq(Ops) /\ pendingUpdates' \in Seq(Ops)
<1>1. batch' = pendingUpdates /\ pendingUpdates' = <<>> /\ processed' = processed
  BY DEF Queue!StartFlush
<1>2. Range(<<>>) = {}
  BY DEF Range
<1> QED  BY <1>1, <1>2 DEF TypeInv, TypeOK, Queue!TypeOK, Pending, Batched, Processed

LEMMA DoneSets ==
  ASSUME TypeInv, Queue!FlushDone
  PROVE  /\ Pending' = Pending /\ Batched' = {} /\ Processed' = Processed \union Batched
         /\ batch' = <<>> /\ batch' \in Seq(Ops) /\ processed' \in Seq(Ops)
<1>1. /\ batch \in Seq(Ops) /\ processed \in Seq(Ops)
      /\ batch' = <<>> /\ processed' = processed \o batch /\ pendingUpdates' = pendingUpdates
  BY DEF TypeInv, TypeOK, Queue!TypeOK, Queue!FlushDone
<1>2. Range(<<>>) = {}
  BY DEF Range
<1>3. /\ processed' \in Seq(Ops) /\ Len(processed') = Len(processed) + Len(batch)
      /\ \A n \in 1 .. Len(processed) + Len(batch) :
           processed'[n] = IF n <= Len(processed) THEN processed[n] ELSE batch[n - Len(processed)]
  BY <1>1, ConcatProperties
<1>4. /\ DOMAIN processed = 1 .. Len(processed) /\ DOMAIN batch = 1 .. Len(batch)
      /\ DOMAIN processed' = 1 .. Len(processed) + Len(batch)
      /\ Len(processed) \in Nat /\ Len(batch) \in Nat
  BY <1>1, <1>3, LenProperties
<1>5. Processed' = Processed \union Batched
  <2>1. ASSUME NEW n \in 1 .. Len(batch) PROVE batch[n] \in Processed'
    <3>1. n + Len(processed) \in 1 .. Len(processed) + Len(batch)
          /\ processed'[n + Len(processed)] = batch[n]
      BY <1>3, <1>4, <2>1
    <3> QED  BY <1>4, <3>1 DEF Processed, Range
  <2>2. ASSUME NEW n \in 1 .. Len(processed) PROVE processed[n] \in Processed'
    <3>1. n \in 1 .. Len(processed) + Len(batch) /\ processed'[n] = processed[n]
      BY <1>3, <1>4, <2>2
    <3> QED  BY <1>4, <3>1 DEF Processed, Range
  <2>3. ASSUME NEW n \in 1 .. Len(processed) + Len(batch) PROVE processed'[n] \in Processed \union Batched
    BY <1>3, <1>4 DEF Processed, Batched, Range
  <2> QED  BY <1>4, <2>1, <2>2, <2>3 DEF Processed, Batched, Range
<1> QED  BY <1>1, <1>2, <1>3, <1>5 DEF Pending, Batched

LEMMA Smallest ==
  ASSUME NEW T \in SUBSET Nat, T # {} PROVE \E m \in T : \A k \in T : m <= k
<1>1. PICK m \in T : \A k \in T : ~(<<k, m>> \in OpToRel(<, Nat))
  BY NatLessThanWellFounded, WFMin
<1>2. \A k \in T : ~(k < m)
  BY <1>1 DEF OpToRel
<1> QED  BY <1>2

LEMMA Largest ==
  ASSUME NEW n \in Nat, NEW T \in SUBSET (1 .. n), T # {} PROVE \E m \in T : \A k \in T : k <= m
<1> DEFINE U == {n - k : k \in T}
<1>1. U \in SUBSET Nat /\ U # {}
  <2>1. \A k \in T : n - k \in Nat
    OBVIOUS
  <2> QED  BY <2>1
<1>2. PICK u \in U : \A v \in U : u <= v
  BY <1>1, Smallest
<1>3. PICK m \in T : u = n - m
  BY <1>2
<1>4. ASSUME NEW k \in T PROVE k <= m
  <2>1. u <= n - k
    BY <1>2
  <2> QED  BY <1>3, <2>1
<1> QED  BY <1>4

\* An item of the batch gets the entry of one of its updates, and the others stay
\* as they are.
LEMMA UpdatedEntries ==
  ASSUME TypeInv, NEW map \in Indexes
  PROVE  /\ Updated(map) \in Indexes
         /\ \A i \in Items :
              \/ /\ \A b \in Batched : op[b].item # i
                 /\ Updated(map)[i] = map[i]
              \/ \E b \in Batched : op[b].item = i /\ Updated(map)[i] = EntryOf(b)
<1>1. /\ batch \in Seq(Ops) /\ DOMAIN batch = 1 .. Len(batch) /\ Len(batch) \in Nat
      /\ op \in Seq(OpTypes) /\ object \in Indexes
  BY LenProperties DEF TypeInv, TypeOK, Queue!TypeOK
<1>2. ASSUME NEW b \in Batched PROVE EntryOf(b) \in Revisions
  <2>1. b \in DOMAIN op /\ op[b] \in OpTypes
    BY <1>1, <1>2, ElementOfSeq, LenProperties DEF TypeInv
  <2> QED  BY <1>1, <2>1 DEF EntryOf, OpTypes, Indexes, Revisions
<1>3. ASSUME NEW i \in Items
      PROVE  \/ /\ \A b \in Batched : op[b].item # i
                /\ Updated(map)[i] = map[i]
             \/ \E b \in Batched : op[b].item = i /\ Updated(map)[i] = EntryOf(b)
  <2> DEFINE of == {n \in DOMAIN batch : op[batch[n]].item = i}
  <2>1. CASE of = {}
    BY <2>1 DEF Updated, Batched, Range
  <2>2. CASE of # {}
    <3>1. \E n \in of : \A m \in of : m <= n
      BY <1>1, <2>2, Largest
    <3> DEFINE n == CHOOSE n \in of : \A m \in of : m <= n
    <3>2. n \in of
      BY <3>1
    <3>3. Updated(map)[i] = EntryOf(batch[n])
      BY <2>2 DEF Updated
    <3> HIDE DEF n
    <3> QED  BY <3>2, <3>3 DEF Batched, Range
  <2> QED  BY <2>1, <2>2
<1>4. Updated(map) \in Indexes
  <2>1. ASSUME NEW i \in Items PROVE Updated(map)[i] \in Revisions
    BY <1>2, <1>3 DEF Indexes
  <2>2. Updated(map) = [i \in Items |-> Updated(map)[i]]
    BY DEF Updated
  <2> QED  BY <2>1, <2>2 DEF Indexes
<1> QED  BY <1>3, <1>4

-----------------------------------------------------------------------------
(* Types *)

\* Another call, or a call that goes on.
LEMMA StartedCall ==
  ASSUME TypeOK, Len(op) < MaxOps, NEW kind \in {"edit", "record"}, NEW i \in Items, NEW rev \in Ops,
         NEW parent \in Revisions, Started(kind, i, rev, parent)
  PROVE  /\ op' \in Seq(OpTypes) /\ Len(op') = Len(op) + 1 /\ Len(op) \in Nat
         /\ DOMAIN op = 1 .. Len(op) /\ DOMAIN op' = 1 .. Len(op) + 1
         /\ \A o \in DOMAIN op : op'[o] = op[o]
         /\ op'[Len(op) + 1] = Op(kind, i, rev, parent, "preparing")
<1>1. op \in Seq(OpTypes) /\ Op(kind, i, rev, parent, "preparing") \in OpTypes
  BY DEF TypeOK, Op, OpTypes
<1>2. op' = Append(op, Op(kind, i, rev, parent, "preparing"))
  BY DEF Started
<1>3. /\ op' \in Seq(OpTypes) /\ Len(op') = Len(op) + 1
      /\ \A n \in 1 .. Len(op) : op'[n] = op[n]
      /\ op'[Len(op) + 1] = Op(kind, i, rev, parent, "preparing")
  BY <1>1, <1>2, AppendProperties
<1> QED  BY <1>1, <1>3, LenProperties

LEMMA MovedCall ==
  ASSUME TypeOK, NEW o \in DOMAIN op,
         NEW stage \in {"preparing", "writing", "written", "done", "abandoned", "failed", "lost"},
         NEW rev \in Ops, op' = [op EXCEPT ![o] = [op[o] EXCEPT !.stage = stage, !.rev = rev]]
  PROVE  /\ op' \in Seq(OpTypes) /\ Len(op') = Len(op) /\ DOMAIN op' = DOMAIN op
         /\ \A p \in DOMAIN op : p # o => op'[p] = op[p]
         /\ op'[o].stage = stage /\ op'[o].rev = rev
         /\ \A p \in DOMAIN op : /\ op'[p].kind = op[p].kind /\ op'[p].item = op[p].item
                                 /\ op'[p].parent = op[p].parent
<1>1. op \in Seq(OpTypes) /\ DOMAIN op = 1 .. Len(op) /\ Len(op) \in Nat /\ op[o] \in OpTypes
  BY LenProperties, ElementOfSeq DEF TypeOK
<1> DEFINE r == [op[o] EXCEPT !.stage = stage, !.rev = rev]
<1>2. r \in OpTypes /\ r.stage = stage /\ r.rev = rev /\ r.kind = op[o].kind /\ r.item = op[o].item
      /\ r.parent = op[o].parent
  BY <1>1 DEF OpTypes
<1>3. op' = [op EXCEPT ![o] = r]
  OBVIOUS
<1> HIDE DEF r
<1>4. /\ op' \in Seq(OpTypes) /\ Len(op') = Len(op)
      /\ \A p \in 1 .. Len(op) : op'[p] = IF p = o THEN r ELSE op[p]
  BY <1>1, <1>2, <1>3, ExceptSeq
<1> QED  BY <1>1, <1>2, <1>4, LenProperties

\* Moved leaves the revision as it is.
LEMMA MovedStage ==
  ASSUME TypeOK, NEW o \in DOMAIN op, NEW stage, Moved(o, stage)
  PROVE  op' = [op EXCEPT ![o] = [op[o] EXCEPT !.stage = stage, !.rev = op[o].rev]] /\ op[o].rev \in Ops
<1>1. op \in Seq(OpTypes) /\ op[o] \in OpTypes
  BY LenProperties, ElementOfSeq DEF TypeOK
<1>2. [op[o] EXCEPT !.stage = stage] = [op[o] EXCEPT !.stage = stage, !.rev = op[o].rev]
  BY <1>1 DEF OpTypes
<1> QED  BY <1>1, <1>2 DEF Moved, OpTypes

LEMMA CallTypes ==
  ASSUME TypeInv, NEW o \in DOMAIN op,
         NEW stage \in {"writing", "written", "done", "abandoned", "failed", "lost"}, NEW rev \in Ops,
         op' = [op EXCEPT ![o] = [op[o] EXCEPT !.stage = stage, !.rev = rev]],
         revisions' \subseteq Ops, Queue!TypeOK',
         Pending' \subseteq DOMAIN op, Batched' \subseteq DOMAIN op,
         UNCHANGED <<index, cacheVars, flush, object, lockVars, crashes>>
  PROVE  TypeInv'
<1>1. /\ op' \in Seq(OpTypes) /\ Len(op') = Len(op) /\ DOMAIN op' = DOMAIN op
      /\ \A p \in DOMAIN op : p # o => op'[p] = op[p]
      /\ op'[o].stage = stage
  BY MovedCall DEF TypeInv
<1>2. TypeOK'
  BY <1>1 DEF TypeInv, TypeOK, Cache!TypeOK, cacheVars, lockVars
<1>3. \A p \in DOMAIN op' : op'[p].kind = "edit" /\ op'[p].stage = "preparing" => object'[op'[p].item] # NoRevision
  BY <1>1 DEF TypeInv
<1> QED  BY <1>1, <1>2, <1>3 DEF TypeInv

\* What the steps of a call do to the call and to the queue.
LEMMA CallSteps ==
  ASSUME TypeInv, NEW o \in DOMAIN op, CallStep(o)
  PROVE  /\ UNCHANGED <<index, cacheVars, flush, object, lockVars, crashes>>
         /\ revisions' \subseteq Ops /\ Queue!TypeOK'
         /\ Batched' = Batched /\ Processed' = Processed /\ Pending' \in {Pending, Pending \union {o}}
         /\ UNCHANGED <<batch, currentFlush>>
         /\ \E stage \in {"writing", "written", "done", "abandoned", "failed"}, rev \in Ops :
              op' = [op EXCEPT ![o] = [op[o] EXCEPT !.stage = stage, !.rev = rev]]
<1>2. ASSUME NEW stage \in {"writing", "written", "done", "abandoned", "failed"}, Moved(o, stage)
      PROVE  \E st \in {"writing", "written", "done", "abandoned", "failed"}, rev \in Ops :
               op' = [op EXCEPT ![o] = [op[o] EXCEPT !.stage = st, !.rev = rev]]
  <2>1. TypeOK
    BY DEF TypeInv
  <2>2. op' = [op EXCEPT ![o] = [op[o] EXCEPT !.stage = stage, !.rev = op[o].rev]] /\ op[o].rev \in Ops
    BY <1>2, <2>1, MovedStage
  <2> QED  BY <2>2
<1> USE DEF TypeInv, TypeOK
<1>1. op[o] \in OpTypes /\ op \in Seq(OpTypes)
  BY LenProperties, ElementOfSeq
<1>3. ASSUME UNCHANGED queueVars
      PROVE  /\ Pending' = Pending /\ Batched' = Batched /\ Processed' = Processed /\ Queue!TypeOK'
             /\ UNCHANGED <<batch, currentFlush>>
  BY <1>3 DEF queueVars, Pending, Batched, Processed, Queue!TypeOK
<1>4. ASSUME Queue!Push(o)
      PROVE  /\ Pending' = Pending \union {o} /\ Batched' = Batched /\ Processed' = Processed /\ Queue!TypeOK'
             /\ UNCHANGED <<batch, currentFlush>>
  BY <1>4, PushSets DEF Queue!TypeOK, Queue!Push
<1>5. CASE EncryptFails(o) \/ CallDone(o)
  BY <1>2, <1>3, <1>5 DEF EncryptFails, CallDone, database, opVars
<1>6. CASE CallFails(o)
  BY <1>2, <1>3, <1>6 DEF CallFails, database
<1>7. CASE RevisionSaved(o)
  <2>1. revisions' \subseteq Ops
    BY <1>1, <1>7 DEF RevisionSaved, OpTypes
  <2> QED  BY <1>2, <1>3, <1>7, <2>1 DEF RevisionSaved
<1>8. CASE LastSyncedSaved(o)
  BY <1>2, <1>4, <1>8 DEF LastSyncedSaved, database
<1>9. CASE Encrypted(o)
  <2>1. object[op[o].item] \in Ops
    BY <1>1, <1>9 DEF Encrypted, Indexes, Revisions, OpTypes, Ops
  <2>2. op' = [op EXCEPT ![o] = [op[o] EXCEPT !.stage = "writing", !.rev = object[op[o].item]]]
    BY <1>1, <1>9 DEF Encrypted, OpTypes
  <2> QED  BY <1>4, <1>9, <2>1, <2>2 DEF Encrypted, database
<1> QED  BY <1>5, <1>6, <1>7, <1>8, <1>9 DEF CallStep

LEMMA CallStepTypes ==
  ASSUME TypeInv, NEW o \in DOMAIN op, CallStep(o) PROVE TypeInv'
<1>1. PICK stage \in {"writing", "written", "done", "abandoned", "failed"}, rev \in Ops :
        op' = [op EXCEPT ![o] = [op[o] EXCEPT !.stage = stage, !.rev = rev]]
  BY CallSteps
<1>2. Pending' \subseteq DOMAIN op /\ Batched' \subseteq DOMAIN op
  BY CallSteps DEF TypeInv
<1> QED  BY <1>1, <1>2, CallSteps, CallTypes

LEMMA StartTypes ==
  ASSUME TypeInv, NEW i \in Items, SaveItem(i) \/ LoadForSync(i) PROVE TypeInv'
<1>1. /\ Len(op) \in Nat /\ Len(op) < MaxOps /\ Len(op) + 1 \in Ops /\ Len(op) + 1 # NoRevision
      /\ TypeOK /\ Len(op) + 1 <= MaxOps
  BY BoundsAssumption, LenProperties DEF SaveItem, LoadForSync, Ops, NoRevision, TypeInv, TypeOK
<1>2. object[i] \in Revisions /\ NoRevision \in Revisions /\ object \in Indexes
      /\ \A o \in DOMAIN op : op[o].item \in Items
  <2>1. ASSUME NEW o \in DOMAIN op PROVE op[o].item \in Items
    <3>1. op \in Seq(OpTypes)
      BY DEF TypeInv, TypeOK
    <3>2. op[o] \in OpTypes
      BY <2>1, <3>1, LenProperties, ElementOfSeq
    <3> QED  BY <3>2 DEF OpTypes
  <2> QED  BY <2>1 DEF Indexes, Revisions, TypeInv, TypeOK
<1>3. UNCHANGED <<database, cacheVars, queueVars, flush, lockVars, crashes>>
  BY DEF SaveItem, LoadForSync
<1>4. Pending' = Pending /\ Batched' = Batched /\ Queue!TypeOK' /\ Cache!TypeOK'
  BY <1>3 DEF TypeInv, TypeOK, queueVars, cacheVars, Pending, Batched, Queue!TypeOK, Cache!TypeOK
<1>5. ASSUME op' \in Seq(OpTypes), Len(op') = Len(op) + 1, object' \in Indexes PROVE TypeOK'
  BY <1>1, <1>3, <1>4, <1>5 DEF TypeInv, TypeOK, database, lockVars
<1>6. CASE SaveItem(i)
  <2>0. Started("edit", i, Len(op) + 1, object[i])
    BY <1>6 DEF SaveItem
  <2>1. /\ op' \in Seq(OpTypes) /\ Len(op') = Len(op) + 1
        /\ DOMAIN op = 1 .. Len(op) /\ DOMAIN op' = 1 .. Len(op) + 1
        /\ \A o \in DOMAIN op : op'[o] = op[o]
        /\ op'[Len(op) + 1] = Op("edit", i, Len(op) + 1, object[i], "preparing")
    BY <1>1, <1>2, <2>0, StartedCall
  <2>2. object' = [object EXCEPT ![i] = Len(op) + 1] /\ object' \in Indexes
    BY <1>1, <1>2, <1>6 DEF SaveItem, Indexes, Revisions
  <2>3. \A o \in DOMAIN op' :
          op'[o].kind = "edit" /\ op'[o].stage = "preparing" => object'[op'[o].item] # NoRevision
    <3> SUFFICES ASSUME NEW o \in DOMAIN op', op'[o].kind = "edit", op'[o].stage = "preparing"
                 PROVE  object'[op'[o].item] # NoRevision
      OBVIOUS
    <3>1. CASE o = Len(op) + 1
      BY <1>1, <1>2, <2>1, <2>2, <3>1 DEF Indexes, Op
    <3>2. CASE o \in DOMAIN op
      BY <1>1, <1>2, <2>1, <2>2, <3>2 DEF Indexes, TypeInv
    <3> QED  BY <1>1, <2>1, <3>1, <3>2
  <2> QED  BY <1>1, <1>3, <1>4, <1>5, <2>1, <2>2, <2>3 DEF TypeInv
<1>7. CASE LoadForSync(i)
  <2>0. cached[i] \in Ops /\ Started("record", i, cached[i], NoRevision) /\ object' = object
    <3>1. cached \in Indexes /\ cached[i] # NoRevision
      BY <1>7 DEF LoadForSync, TypeInv, TypeOK, Cache!TypeOK
    <3> QED  BY <1>7, <3>1 DEF LoadForSync, Indexes, Revisions
  <2>1. /\ op' \in Seq(OpTypes) /\ Len(op') = Len(op) + 1
        /\ DOMAIN op = 1 .. Len(op) /\ DOMAIN op' = 1 .. Len(op) + 1
        /\ \A o \in DOMAIN op : op'[o] = op[o]
        /\ op'[Len(op) + 1] = Op("record", i, cached[i], NoRevision, "preparing")
    BY <1>1, <1>2, <2>0, StartedCall
  <2>2. \A o \in DOMAIN op' :
          op'[o].kind = "edit" /\ op'[o].stage = "preparing" => object'[op'[o].item] # NoRevision
    BY <1>1, <2>0, <2>1 DEF TypeInv, Op
  <2> QED  BY <1>1, <1>2, <1>3, <1>4, <1>5, <2>0, <2>1, <2>2 DEF TypeInv
<1> QED  BY <1>6, <1>7

LEMMA StoreTypes == ASSUME TypeInv, StoreStep PROVE TypeInv'
<1>1. ASSUME UNCHANGED <<opVars, crashes, lockVars, revisions>>, index' \in Indexes,
             Queue!TypeOK', Cache!TypeOK', flush' \in [stage : {"none", "loading", "writing"}, map : Indexes \union {NoIndex}],
             Pending' \subseteq DOMAIN op, Batched' \subseteq DOMAIN op,
             flush'.stage = "writing" => flush'.map \in Indexes
      PROVE  TypeInv'
  BY <1>1 DEF TypeInv, TypeOK, opVars, lockVars
<1>2. /\ NoFlush \in [stage : {"none", "loading", "writing"}, map : Indexes \union {NoIndex}]
      /\ NoFlush.stage = "none"
  BY DEF NoFlush, Flush
<1>3. /\ TypeOK /\ index \in Indexes /\ Queue!TypeOK /\ Cache!TypeOK
      /\ cached \in Indexes \union {NoIndex} /\ reading.value \in Indexes \union {NoIndex}
      /\ flush \in [stage : {"none", "loading", "writing"}, map : Indexes \union {NoIndex}]
      /\ Pending \subseteq DOMAIN op /\ Batched \subseteq DOMAIN op
      /\ flush.stage = "writing" => flush.map \in Indexes
  BY DEF TypeInv, TypeOK, Cache!TypeOK
<1>4. ASSUME UNCHANGED queueVars
      PROVE  Pending' = Pending /\ Batched' = Batched /\ Queue!TypeOK'
  BY <1>3, <1>4 DEF queueVars, Pending, Batched, Queue!TypeOK
<1>5. ASSUME UNCHANGED cacheVars PROVE Cache!TypeOK'
  BY <1>3, <1>5 DEF cacheVars, Cache!TypeOK
<1>6. CASE StartFlush
  <2>1. Queue!StartFlush /\ UNCHANGED <<database, cached, opVars, lockVars, crashes>>
        /\ flush' = Flush("loading", cached)
        /\ reading' = IF Cache!MustRead THEN Cache!Reading("asked", NoIndex) ELSE reading
    BY <1>6 DEF StartFlush
  <2>2. Queue!TypeOK'
    BY <1>3, <2>1, StartSets DEF Queue!TypeOK, Queue!StartFlush
  <2>3. Cache!TypeOK'
    BY <1>3, <2>1 DEF Cache!TypeOK, Cache!Reading
  <2>4. /\ flush' \in [stage : {"none", "loading", "writing"}, map : Indexes \union {NoIndex}]
        /\ flush'.stage = "loading"
    BY <1>3, <2>1 DEF Flush
  <2>5. Pending' \subseteq DOMAIN op /\ Batched' \subseteq DOMAIN op
    BY <1>3, <2>1, StartSets
  <2> QED  BY <1>1, <1>3, <2>1, <2>2, <2>3, <2>4, <2>5 DEF database
<1>7. ASSUME Queue!FlushFails PROVE Pending' = Pending /\ Batched' = Batched /\ Queue!TypeOK'
  BY <1>3, <1>7 DEF Queue!FlushFails, Pending, Batched, Queue!TypeOK
<1>8. CASE UpdateIndex
  <2>1. flush.map \in Indexes
    BY <1>3, <1>8 DEF UpdateIndex
  <2>2. Updated(flush.map) \in Indexes
    BY <2>1, UpdatedEntries
  <2>3. Cache!TypeOK'
    BY <1>3, <1>8, <2>2 DEF UpdateIndex, Cache!Set, Cache!TypeOK
  <2>4. /\ flush' \in [stage : {"none", "loading", "writing"}, map : Indexes \union {NoIndex}]
        /\ flush'.stage = "writing" => flush'.map \in Indexes
    BY <1>2, <1>8, <2>2 DEF UpdateIndex, Flush
  <2>5. Pending' = Pending /\ Batched' = Batched /\ Queue!TypeOK'
    BY <1>4, <1>7, <1>8 DEF UpdateIndex
  <2> QED  BY <1>1, <1>3, <1>8, <2>3, <2>4, <2>5 DEF UpdateIndex, database
<1>9. CASE IndexNotRead \/ IndexNotWritten
  BY <1>1, <1>2, <1>3, <1>5, <1>7, <1>9 DEF IndexNotRead, IndexNotWritten, database
<1>10. CASE IndexWritten
  <2>1. Queue!FlushDone /\ index' = flush.map /\ flush.map \in Indexes /\ flush' = NoFlush
        /\ UNCHANGED <<revisions, cacheVars, opVars, lockVars, crashes>>
    BY <1>3, <1>10 DEF IndexWritten
  <2>2. Queue!TypeOK'
    BY <1>3, <2>1, DoneSets DEF Queue!TypeOK, Queue!FlushDone
  <2>3. Pending' \subseteq DOMAIN op /\ Batched' \subseteq DOMAIN op
    BY <1>3, <2>1, DoneSets
  <2> QED  BY <1>1, <1>2, <1>5, <2>1, <2>2, <2>3
<1>11. CASE ReadIndex \/ ReadIndexFails
  <2>1. Cache!TypeOK'
    BY <1>3, <1>11 DEF ReadIndex, ReadIndexFails, Cache!Retrieve, Cache!GetterFails, Cache!TypeOK, Cache!Reading
  <2> QED  BY <1>1, <1>3, <1>4, <1>11, <2>1 DEF ReadIndex, ReadIndexFails, database
<1>12. CASE IndexRead
  <2>1. Cache!TypeOK'
    BY <1>3, <1>12 DEF IndexRead, Cache!Retrieved, Cache!TypeOK, Cache!Reading, Cache!NotReading
  <2>2. /\ flush' \in [stage : {"none", "loading", "writing"}, map : Indexes \union {NoIndex}]
        /\ flush'.stage = "writing" => flush'.map \in Indexes
    BY <1>3, <1>12 DEF IndexRead, Flush
  <2> QED  BY <1>1, <1>3, <1>4, <1>12, <2>1, <2>2 DEF IndexRead, database
<1> QED  BY <1>6, <1>8, <1>9, <1>10, <1>11, <1>12 DEF StoreStep

LEMMA EnvironmentTypes ==
  ASSUME TypeInv, ListItems \/ Lock \/ Unlock \/ UNCHANGED vars PROVE TypeInv'
<1>1. UNCHANGED <<queueVars, opVars>>
  BY DEF ListItems, Lock, Unlock, vars
<1>2. Pending' = Pending /\ Batched' = Batched /\ Queue!TypeOK' /\ op' = op /\ object' = object
  BY <1>1 DEF TypeInv, TypeOK, queueVars, opVars, Pending, Batched, Queue!TypeOK
<1>3. CASE ListItems
  BY <1>2, <1>3 DEF ListItems, Cache!Get, Cache!Reading, Cache!TypeOK, TypeInv, TypeOK, database, lockVars
<1>4. CASE Lock
  BY <1>2, <1>4, BoundsAssumption DEF Lock, Cache!Clear, Cache!TypeOK, TypeInv, TypeOK, database
<1>5. CASE Unlock
  BY <1>2, <1>5 DEF Unlock, Cache!TypeOK, TypeInv, TypeOK, database, cacheVars
<1>6. CASE UNCHANGED vars
  BY <1>2, <1>6 DEF vars, Cache!TypeOK, TypeInv, TypeOK, database, cacheVars, lockVars
<1> QED  BY <1>3, <1>4, <1>5, <1>6

\* A crash leaves an empty queue, and ends every call.
LEMMA CrashTypes == ASSUME TypeInv, Crash PROVE TypeInv'
<1>1. Pending' = {} /\ Batched' = {} /\ Queue!TypeOK'
  <2>1. Range(<<>>) = {} /\ <<>> \in Seq(Ops)
    BY DEF Range
  <2>2. /\ pendingUpdates' = <<>> /\ nextFlush' = FALSE /\ currentFlush' = "resolved"
        /\ batch' = <<>> /\ processed' = <<>>
    BY DEF Crash
  <2>3. Pending' = {} /\ Batched' = {}
    BY <2>1, <2>2 DEF Pending, Batched
  <2>4. Queue!TypeOK'
    <3>1. pendingUpdates' \in Seq(Ops) /\ batch' \in Seq(Ops) /\ processed' \in Seq(Ops)
      BY <2>1, <2>2, Zenon
    <3>2. nextFlush' \in BOOLEAN /\ currentFlush' \in {"pending", "resolved", "rejected"}
      BY <2>2, Zenon
    <3>3. 0 \in 0 .. 0
      OBVIOUS
    <3> QED  BY <3>1, <3>2, <3>3, Zenon DEF Queue!TypeOK
  <2> QED  BY <2>3, <2>4
<1>2. op \in Seq(OpTypes) /\ Len(op) \in Nat /\ DOMAIN op = 1 .. Len(op) /\ Len(op) <= MaxOps
  BY LenProperties DEF TypeInv, TypeOK
<1>3. ASSUME NEW o \in DOMAIN op
      PROVE  op'[o] \in OpTypes /\ op'[o].stage # "preparing"
  <2>1. op[o] \in OpTypes
    BY <1>2, <1>3, ElementOfSeq
  <2> QED  BY <1>3, <2>1 DEF Crash, Active, OpTypes
<1>4. op' \in Seq(OpTypes) /\ Len(op') = Len(op) /\ DOMAIN op' = DOMAIN op
  BY <1>2, <1>3 DEF Crash
<1>5. Cache!TypeOK' /\ flush' = NoFlush
      /\ NoFlush \in [stage : {"none", "loading", "writing"}, map : Indexes \union {NoIndex}]
      /\ NoFlush.stage = "none"
  BY DEF Crash, Cache!TypeOK, Cache!NotReading, Cache!Reading, NoFlush, Flush
<1>6. crashes' \in 0 .. MaxInterrupts
  BY BoundsAssumption DEF Crash, TypeInv, TypeOK
<1>7. object' = index /\ index' = index /\ revisions' = revisions /\ locks' = locks /\ locked' = FALSE
  BY DEF Crash, database
<1>8. TypeOK'
  BY <1>1, <1>2, <1>4, <1>5, <1>6, <1>7 DEF TypeInv, TypeOK
<1> QED  BY <1>1, <1>3, <1>4, <1>5, <1>8 DEF TypeInv

LEMMA InitTypes == Init => TypeInv
<1> SUFFICES ASSUME Init PROVE TypeInv
  OBVIOUS
<1>1. Pending = {} /\ Batched = {}
  BY DEF Init, Queue!Init, Pending, Batched, Range
<1>2. <<>> \in Seq(Ops) /\ <<>> \in Seq(OpTypes) /\ Len(<<>>) = 0
  OBVIOUS
<1>3. Queue!TypeOK
  <2>1. /\ pendingUpdates \in Seq(Ops) /\ batch \in Seq(Ops) /\ processed \in Seq(Ops)
        /\ nextFlush \in BOOLEAN /\ currentFlush \in {"pending", "resolved", "rejected"}
    BY <1>2, Zenon DEF Init, Queue!Init
  <2>2. 0 \in 0 .. 0
    OBVIOUS
  <2> QED  BY <2>1, <2>2, Zenon DEF Queue!TypeOK
<1>6. Cache!TypeOK
  BY DEF Init, Cache!Init, Cache!TypeOK, Cache!NotReading, Cache!Reading
<1>4. EmptyIndex \in Indexes /\ NoFlush \in [stage : {"none", "loading", "writing"}, map : Indexes \union {NoIndex}]
  BY DEF EmptyIndex, Indexes, Revisions, NoFlush, Flush
<1>7. /\ index = EmptyIndex /\ revisions = {} /\ flush = NoFlush /\ op = <<>>
      /\ object = EmptyIndex /\ locked = FALSE /\ locks = 0 /\ crashes = 0
  BY DEF Init
<1>8. op \in Seq(OpTypes) /\ locked \in BOOLEAN /\ Len(op) = 0
  BY <1>2, <1>7, Zenon
<1>9. Len(op) <= MaxOps /\ locks \in 0 .. MaxInterrupts /\ crashes \in 0 .. MaxInterrupts
      /\ revisions \subseteq Ops
  BY <1>7, <1>8, BoundsAssumption
<1>5. TypeOK
  BY <1>3, <1>4, <1>6, <1>7, <1>8, <1>9, Zenon DEF TypeOK
<1> QED  BY <1>1, <1>5 DEF TypeInv, Init, NoFlush, Flush

LEMMA StepTypes == ASSUME TypeInv, [Next]_vars PROVE TypeInv'
<1>1. CASE \E i \in Items : SaveItem(i) \/ LoadForSync(i)
  BY <1>1, StartTypes
<1>2. CASE \E o \in DOMAIN op : CallStep(o)
  BY <1>2, CallStepTypes
<1> QED  BY <1>1, <1>2, StoreTypes, EnvironmentTypes, CrashTypes DEF Next, Idle

\* Every variable keeps its type; a call whose revision is to be written always
\* finds one in the object of the user, locked or not.
THEOREM StoreTypeCorrect == Spec => []TypeInv
<1> QED  BY InitTypes, StepTypes, PTL DEF Spec

-----------------------------------------------------------------------------
(* Steps that leave the calls alone *)

LEMMA Calls ==
  ASSUME TypeInv
  PROVE  /\ Len(op) \in Nat /\ DOMAIN op = 1 .. Len(op) /\ NoRevision \notin DOMAIN op
         /\ DOMAIN op \subseteq Ops
         /\ \A o \in DOMAIN op : op[o] \in OpTypes /\ op[o].item \in Items /\ op[o].kind \in {"edit", "record"}
         /\ index \in Indexes /\ object \in Indexes
         /\ NewIndex \in Indexes
<1>1. op \in Seq(OpTypes) /\ Len(op) <= MaxOps /\ index \in Indexes /\ object \in Indexes
  BY DEF TypeInv, TypeOK
<1>2. Len(op) \in Nat /\ DOMAIN op = 1 .. Len(op) /\ MaxOps \in Nat
  BY <1>1, LenProperties, BoundsAssumption
<1>3. NoRevision \notin DOMAIN op /\ DOMAIN op \subseteq Ops
  BY <1>1, <1>2 DEF NoRevision, Ops
<1>4. ASSUME NEW o \in DOMAIN op
      PROVE  op[o] \in OpTypes /\ op[o].item \in Items /\ op[o].kind \in {"edit", "record"}
  <2>1. op[o] \in OpTypes
    BY <1>1, <1>2, <1>4, ElementOfSeq
  <2> QED  BY <2>1 DEF OpTypes
<1>5. NewIndex \in Indexes
  BY <1>1 DEF NewIndex, TypeInv
<1> QED  BY <1>1, <1>2, <1>3, <1>4, <1>5

\* Whatever else happens to the cache.
LEMMA PartsKept ==
  ASSUME StoreInv, UNCHANGED <<opVars, database, crashes, queueVars>>,
         flush'.stage = flush.stage, NewIndex' = NewIndex
  PROVE  CallsInv' /\ ParentsInv' /\ IndexInv' /\ EditsInv' /\ RevisionsInv'
<1>1. /\ op' = op /\ object' = object /\ index' = index /\ revisions' = revisions /\ crashes' = crashes
      /\ Pending' = Pending /\ Batched' = Batched /\ Processed' = Processed
  BY DEF opVars, database, queueVars, Pending, Batched, Processed
<1>2. CallsInv'
  BY <1>1 DEF StoreInv, CallsInv, Active
<1>3. ParentsInv' /\ RevisionsInv'
  BY <1>1 DEF StoreInv, ParentsInv, RevisionsInv
<1>4. IndexInv'
  BY <1>1 DEF StoreInv, IndexInv, Waits
<1>5. EditsInv'
  BY <1>1 DEF StoreInv, EditsInv, Active
<1> QED  BY <1>2, <1>3, <1>4, <1>5

LEMMA ReadsKeepStore ==
  ASSUME TypeInv, StoreInv, ListItems \/ ReadIndex \/ IndexRead \/ UNCHANGED vars
  PROVE  StoreInv'
<1>1. /\ UNCHANGED <<opVars, database, crashes, queueVars, locked>>
      /\ flush'.stage = flush.stage /\ (flush.stage # "loading" => flush' = flush)
  BY DEF ListItems, ReadIndex, IndexRead, Flush, lockVars, vars
<1>2. NewIndex' = NewIndex
  BY <1>1 DEF NewIndex, database
<1>3. CacheInv'
  <2>1. index' = index /\ locked' = locked /\ batch' = batch /\ nextFlush' = nextFlush
        /\ currentFlush' = currentFlush /\ pendingUpdates' = pendingUpdates
    BY <1>1 DEF database, queueVars
  <2>2. CacheInv
    BY DEF StoreInv
  <2>3. CASE ListItems
    BY <1>1, <1>2, <2>1, <2>2, <2>3 DEF ListItems, CacheInv, Cache!Get, Cache!MustRead, Cache!Reading
  <2>4. CASE ReadIndex
    BY <1>1, <1>2, <2>1, <2>2, <2>4 DEF ReadIndex, CacheInv, Cache!Retrieve, Cache!Reading
  <2>5. CASE IndexRead
    <3>1. /\ reading.state = "retrieved" /\ reading.value = index /\ cached = NoIndex
          /\ cached' = index /\ reading'.state = "none" /\ flush.stage # "writing"
      BY <2>2, <2>5 DEF IndexRead, CacheInv, Cache!Retrieved, Cache!NotReading, Cache!Reading
    <3>2. NewIndex = index
      BY <3>1 DEF NewIndex
    <3>3. flush.stage # "none" => flush'.map = cached'
      BY <2>2, <2>5, <3>1 DEF IndexRead, CacheInv, Flush, TypeInv, TypeOK
    <3> QED  BY <1>1, <1>2, <2>1, <2>2, <3>1, <3>2, <3>3 DEF CacheInv
  <2>6. CASE UNCHANGED vars
    BY <1>2, <2>1, <2>2, <2>6 DEF vars, cacheVars, CacheInv
  <2> QED  BY <2>3, <2>4, <2>5, <2>6
<1> QED  BY <1>1, <1>2, <1>3, PartsKept DEF StoreInv

-----------------------------------------------------------------------------
(* Steps of calls *)

\* The steps of a call with a true store: it is not failed.
LEMMA CallCases ==
  ASSUME TypeInv, StoreInv, NEW o \in DOMAIN op, CallStep(o)
  PROVE  Encrypted(o) \/ RevisionSaved(o) \/ LastSyncedSaved(o) \/ CallDone(o)
<1>1. ~locked /\ currentFlush # "rejected"
  BY DEF StoreInv, CacheInv
<1>2. ~EncryptFails(o)
  BY <1>1 DEF EncryptFails
<1>3. ~CallFails(o)
  BY <1>1 DEF CallFails, Queue!Answer
<1> QED  BY <1>2, <1>3 DEF CallStep

\* What every step of a call is to the parts of the invariant.
LEMMA CallMoves ==
  ASSUME TypeInv, StoreInv, NEW o \in DOMAIN op, CallStep(o)
  PROVE  /\ DOMAIN op' = DOMAIN op
         /\ \A p \in DOMAIN op : p # o => op'[p] = op[p]
         /\ \A p \in DOMAIN op : /\ op'[p].kind = op[p].kind /\ op'[p].item = op[p].item
                                 /\ op'[p].parent = op[p].parent
         /\ op[o].stage \in {"preparing", "writing", "written"}
         /\ op'[o].stage \in {"writing", "written", "done"}
         /\ op'[o].stage = "done" => o \in Processed
         /\ op'[o].stage = "writing" => op[o].kind = "edit" /\ op'[o].rev = object[op[o].item]
         /\ op[o].kind = "record" => op'[o].rev = op[o].rev
         /\ op'[o].stage # "writing" /\ op[o].kind = "edit" =>
              op[o].stage = "written" \/ (op[o].stage = "writing" /\ op[o].rev \in revisions')
         /\ revisions \subseteq revisions'
         /\ op[o].stage = "preparing" =>
              Pending' = Pending \union {o} /\ pendingUpdates' # <<>> /\ o \notin Batched \union Processed
         /\ op[o].stage # "preparing" => UNCHANGED queueVars
         /\ \A r : History(op, r) \subseteq History(op', r)
<1>0. TypeOK /\ op[o] \in OpTypes
  BY Calls DEF TypeInv
<1>1. PICK stage \in {"writing", "written", "done", "abandoned", "failed"}, rev \in Ops :
        op' = [op EXCEPT ![o] = [op[o] EXCEPT !.stage = stage, !.rev = rev]]
  BY CallSteps
<1>2. /\ DOMAIN op' = DOMAIN op
      /\ \A p \in DOMAIN op : p # o => op'[p] = op[p]
      /\ \A p \in DOMAIN op : /\ op'[p].kind = op[p].kind /\ op'[p].item = op[p].item
                              /\ op'[p].parent = op[p].parent
  BY <1>0, <1>1, MovedCall
<1>3. ASSUME NEW r PROVE History(op, r) \subseteq History(op', r)
  <2>1. \A p \in DOMAIN op : op[p].parent \in DOMAIN op \union {NoRevision}
    BY DEF StoreInv, ParentsInv
  <2> QED  BY <1>2, <2>1, HistoryKept
<1>4. op[o].stage \in {"preparing", "writing", "written", "done", "lost"}
  BY DEF StoreInv, CallsInv
<1>5. ASSUME NEW st, Moved(o, st) PROVE op'[o].stage = st /\ op'[o].rev = op[o].rev
  BY <1>0, <1>5 DEF Moved, OpTypes
<1>6. CASE Encrypted(o)
  <2>1. op'[o].stage = "writing" /\ op'[o].rev = object[op[o].item]
    BY <1>0, <1>6 DEF Encrypted, OpTypes
  <2>2. op[o].kind = "edit" /\ op[o].stage = "preparing" /\ revisions' = revisions
    BY <1>6 DEF Encrypted, database
  <2>3. Pending' = Pending \union {o} /\ pendingUpdates' # <<>> /\ o \notin Batched \union Processed
    BY <1>6, PushSets DEF Encrypted
  <2> QED  BY <1>2, <1>3, <2>1, <2>2, <2>3
<1>7. CASE RevisionSaved(o)
  <2>1. op[o].stage = "writing" /\ Moved(o, "written") /\ revisions' = revisions \union {op[o].rev}
        /\ UNCHANGED queueVars
    BY <1>4, <1>7 DEF RevisionSaved
  <2>2. op'[o].stage = "written" /\ op'[o].rev = op[o].rev
    BY <1>5, <2>1
  <2> QED  BY <1>2, <1>3, <2>1, <2>2
<1>8. CASE LastSyncedSaved(o)
  <2>1. op[o].kind = "record" /\ op[o].stage = "preparing" /\ Moved(o, "written") /\ revisions' = revisions
    BY <1>8 DEF LastSyncedSaved, database
  <2>2. op'[o].stage = "written" /\ op'[o].rev = op[o].rev
    BY <1>5, <2>1
  <2>3. Pending' = Pending \union {o} /\ pendingUpdates' # <<>> /\ o \notin Batched \union Processed
    BY <1>8, PushSets DEF LastSyncedSaved
  <2> QED  BY <1>2, <1>3, <2>1, <2>2, <2>3
<1>9. CASE CallDone(o)
  <2>1. op[o].stage = "written" /\ Moved(o, "done") /\ revisions' = revisions /\ UNCHANGED queueVars
    BY <1>9 DEF CallDone, database
  <2>2. op'[o].stage = "done" /\ op'[o].rev = op[o].rev
    BY <1>5, <2>1
  <2>3. o \in Processed
    BY <1>9 DEF CallDone, Queue!Answer, Processed, Queue!Range, Range
  <2> QED  BY <1>2, <1>3, <2>1, <2>2, <2>3
<1> QED  BY <1>6, <1>7, <1>8, <1>9, CallCases

LEMMA CallsKeepStore ==
  ASSUME TypeInv, StoreInv, NEW o \in DOMAIN op, CallStep(o)
  PROVE  StoreInv'
<1>1. /\ index' = index /\ object' = object /\ flush' = flush /\ locked' = locked /\ crashes' = crashes
      /\ cached' = cached /\ reading' = reading /\ batch' = batch /\ currentFlush' = currentFlush
      /\ Batched' = Batched /\ Processed' = Processed /\ Pending' \in {Pending, Pending \union {o}}
  BY CallSteps DEF cacheVars, lockVars
<1>2. NewIndex' = NewIndex
  BY <1>1 DEF NewIndex
<1>3. /\ CacheInv /\ CallsInv /\ ParentsInv /\ IndexInv /\ EditsInv /\ RevisionsInv
      /\ DOMAIN op' = DOMAIN op
  BY CallMoves DEF StoreInv
<1>4. CacheInv'
  <2>1. nextFlush' => pendingUpdates' # <<>>
    BY <1>3, CallMoves DEF CacheInv, queueVars
  <2> QED  BY <1>1, <1>2, <1>3, <2>1 DEF CacheInv
<1>5. CallsInv'
  <2>1. ASSUME NEW p \in DOMAIN op
        PROVE  /\ op'[p].stage \in {"preparing", "writing", "written", "done", "lost"}
               /\ p \in Pending' \union Batched' => op'[p].stage \in {"writing", "written"}
    <3>1. CASE p # o
      BY <1>1, <1>3, <3>1, CallMoves DEF CallsInv
    <3>2. CASE p = o
      <4>1. o \in Pending' \union Batched' => o \notin Processed
        BY <1>1, <1>3, CallMoves, PushSets DEF CallsInv, queueVars, Pending
      <4> QED  BY <1>1, <3>2, <4>1, CallMoves
    <3> QED  BY <3>1, <3>2
  <2>2. ASSUME NEW p \in DOMAIN op, Active(p)' PROVE Active(p)
    BY <2>2, CallMoves DEF Active
  <2>3. ASSUME NEW p \in DOMAIN op, op'[p].kind = "record", Active(p)'
        PROVE  /\ op'[p].rev = object'[op'[p].item]
               /\ \A q \in DOMAIN op' : op'[q].item = op'[p].item /\ Active(q)' => q = p
    <3>1. op[p].kind = "record" /\ Active(p) /\ op'[p].item = op[p].item
      BY <2>2, <2>3, CallMoves
    <3>2. op'[p].rev = op[p].rev
      BY <3>1, CallMoves
    <3>3. op[p].rev = object[op[p].item]
      BY <1>3, <3>1 DEF CallsInv
    <3>4. ASSUME NEW q \in DOMAIN op, op'[q].item = op'[p].item, Active(q)' PROVE q = p
      <4>1. op[q].item = op[p].item /\ Active(q)
        BY <2>2, <3>1, <3>4, CallMoves
      <4> QED  BY <1>3, <3>1, <4>1 DEF CallsInv
    <3> QED  BY <1>1, <1>3, <3>1, <3>2, <3>3, <3>4
  <2>4. Pending' \intersect Batched' = {} /\ Processed' \intersect (Pending' \union Batched') = {}
        /\ Processed' \subseteq DOMAIN op'
    <3>1. Pending' = Pending \/ o \notin Batched \union Processed
      BY CallMoves DEF queueVars, Pending
    <3> QED  BY <1>1, <1>3, <3>1 DEF CallsInv
  <2> QED  BY <1>3, <2>1, <2>3, <2>4 DEF CallsInv
<1>6. ParentsInv'
  BY <1>1, <1>3, CallMoves DEF ParentsInv
<1>7. IndexInv'
  <2>1. ASSUME NEW p \in DOMAIN op, Waits(p) PROVE Waits(p)'
    <3>1. CASE p # o
      BY <1>1, <2>1, <3>1, CallMoves DEF Waits
    <3>2. CASE p = o
      BY <1>1, <2>1, <3>2, CallMoves DEF Waits
    <3> QED  BY <3>1, <3>2
  <2>2. ASSUME NEW i \in Items
        PROVE  /\ NewIndex'[i] = object'[i] \/ \E p \in DOMAIN op' : op'[p].item = i /\ Waits(p)'
               /\ index'[i] \in History(op', object'[i]) \union {NoRevision}
               /\ index'[i] \in History(op', NewIndex'[i]) \union {NoRevision}
               /\ NewIndex'[i] \in History(op', object'[i]) \union {NoRevision}
    <3>1. /\ NewIndex[i] = object[i] \/ \E p \in DOMAIN op : op[p].item = i /\ Waits(p)
          /\ index[i] \in History(op, object[i]) \union {NoRevision}
          /\ index[i] \in History(op, NewIndex[i]) \union {NoRevision}
          /\ NewIndex[i] \in History(op, object[i]) \union {NoRevision}
      BY <1>3 DEF IndexInv
    <3>2. (\E p \in DOMAIN op : op[p].item = i /\ Waits(p)) =>
             \E p \in DOMAIN op' : op'[p].item = i /\ Waits(p)'
      BY <2>1, CallMoves
    <3> QED  BY <1>1, <1>2, <3>1, <3>2, CallMoves
  <2> QED  BY <2>2 DEF IndexInv
<1>8. EditsInv'
  <2>1. ASSUME NEW p \in DOMAIN op, op'[p].kind = "edit"
        PROVE  /\ Active(p)' => p \in History(op', object'[op'[p].item])
               /\ op'[p].stage = "done" \/ p \in Processed' =>
                    /\ p \in History(op', object'[op'[p].item])
                    /\ p \in History(op', index'[op'[p].item])
                    /\ p \in History(op', NewIndex'[op'[p].item])
               /\ p \in Batched' /\ flush'.stage = "writing" => p \in History(op', NewIndex'[op'[p].item])
    <3>1. op[p].kind = "edit" /\ op'[p].item = op[p].item
          /\ \A r : History(op, r) \subseteq History(op', r)
      BY <2>1, CallMoves
    <3>2. Active(p)' => Active(p)
      BY CallMoves DEF Active
    <3>3. op'[p].stage = "done" => op[p].stage = "done" \/ p \in Processed
      BY CallMoves
    <3> QED  BY <1>1, <1>2, <1>3, <3>1, <3>2, <3>3 DEF EditsInv
  <2> QED  BY <1>3, <2>1 DEF EditsInv
<1>9. RevisionsInv'
  <2> SUFFICES ASSUME crashes = 0, NEW i \in Items, object[i] # NoRevision
               PROVE  /\ op'[object[i]].kind = "edit"
                      /\ op'[object[i]].item = i
                      /\ \/ op'[object[i]].stage = "preparing"
                         \/ op'[object[i]].stage = "writing" /\ op'[object[i]].rev = object[i]
                         \/ object[i] \in revisions'
    BY <1>1 DEF RevisionsInv
  <2>1. /\ op[object[i]].kind = "edit" /\ op[object[i]].item = i /\ object[i] \in DOMAIN op
        /\ \/ op[object[i]].stage = "preparing"
           \/ op[object[i]].stage = "writing" /\ op[object[i]].rev = object[i]
           \/ object[i] \in revisions
    BY <1>3 DEF RevisionsInv, ParentsInv
  <2>2. CASE object[i] # o
    BY <2>1, <2>2, CallMoves
  <2>3. CASE object[i] = o
    BY <2>1, <2>3, CallMoves
  <2> QED  BY <2>2, <2>3
<1> QED  BY <1>4, <1>5, <1>6, <1>7, <1>8, <1>9 DEF StoreInv

-----------------------------------------------------------------------------
(* Steps that start a call *)

LEMMA SavesKeepStore ==
  ASSUME TypeInv, StoreInv, ~RecordsOverlap, NEW i \in Items, SaveItem(i)
  PROVE  StoreInv'
<1>0. PICK n \in Nat : n = Len(op) + 1
  BY Calls
<1>1. /\ CacheInv /\ CallsInv /\ ParentsInv /\ IndexInv /\ EditsInv /\ RevisionsInv
      /\ Len(op) \in Nat /\ n \in Ops /\ NoRevision = 0 /\ object \in Indexes
      /\ DOMAIN op \subseteq Ops /\ NoRevision \notin DOMAIN op
      /\ \A o \in DOMAIN op : op[o].item \in Items
      /\ Pending \subseteq DOMAIN op /\ Batched \subseteq DOMAIN op
  BY <1>0, Calls, BoundsAssumption DEF StoreInv, SaveItem, Ops, NoRevision, TypeInv
<1>2. /\ op' \in Seq(OpTypes) /\ DOMAIN op = 1 .. Len(op) /\ DOMAIN op' = 1 .. n
      /\ \A o \in DOMAIN op : op'[o] = op[o]
      /\ op'[n] = Op("edit", i, n, object[i], "preparing")
  <2>1. object[i] \in Revisions /\ TypeOK /\ Len(op) < MaxOps /\ Started("edit", i, n, object[i])
    BY <1>0, <1>1 DEF SaveItem, TypeInv, Indexes
  <2> QED  BY <1>0, <1>1, <2>1, StartedCall
<1>3. /\ index' = index /\ revisions' = revisions /\ flush' = flush /\ locked' = locked /\ crashes' = crashes
      /\ cached' = cached /\ reading' = reading /\ batch' = batch /\ currentFlush' = currentFlush
      /\ nextFlush' = nextFlush /\ pendingUpdates' = pendingUpdates
      /\ Batched' = Batched /\ Processed' = Processed /\ Pending' = Pending
  BY DEF SaveItem, database, cacheVars, queueVars, lockVars, Pending, Batched, Processed
<1>4. NewIndex' = NewIndex
  BY <1>3 DEF NewIndex
<1>5. /\ object' = [object EXCEPT ![i] = n]
      /\ object'[i] = n /\ \A j \in Items : j # i => object'[j] = object[j]
  BY <1>0, <1>1 DEF SaveItem, Indexes
<1>6. /\ op'[n].kind = "edit" /\ op'[n].item = i /\ op'[n].stage = "preparing" /\ op'[n].parent = object[i]
      /\ n \notin DOMAIN op /\ n \in DOMAIN op' /\ DOMAIN op \subseteq DOMAIN op'
      /\ DOMAIN op' = DOMAIN op \union {n}
  BY <1>0, <1>1, <1>2 DEF Op
<1>7. ASSUME NEW r PROVE History(op, r) \subseteq History(op', r)
  BY <1>1, <1>2, <1>6, HistoryKept DEF ParentsInv
<1>8. ASSUME NEW j \in Items
      PROVE  History(op, object[j]) \subseteq History(op', object'[j])
  <2>1. CASE j # i
    BY <1>5, <1>7, <2>1
  <2>2. CASE j = i
    <3>1. CASE object[i] = NoRevision
      <4>1. History(op, NoRevision) = {}
        BY <1>1 DEF History
      <4> QED  BY <2>2, <3>1, <4>1
    <3>2. CASE object[i] # NoRevision
      <4>1. History(op', object[i]) \subseteq History(op', n)
        BY <1>6, <3>2, HistoryOfParent
      <4> QED  BY <1>5, <1>7, <2>2, <4>1
    <3> QED  BY <3>1, <3>2
  <2> QED  BY <2>1, <2>2
<1>9. CacheInv'
  BY <1>1, <1>3, <1>4 DEF CacheInv
<1>10. CallsInv'
  <2>1. ASSUME NEW o \in DOMAIN op, op[o].kind = "record", Active(o) PROVE op[o].item # i
    BY <2>1 DEF SaveItem
  <2>2. \A o \in DOMAIN op : Active(o)' <=> Active(o)
    BY <1>2 DEF Active
  <2>3. ASSUME NEW o \in DOMAIN op'
        PROVE  /\ op'[o].stage \in {"preparing", "writing", "written", "done", "lost"}
               /\ o \in Pending' \union Batched' => op'[o].stage \in {"writing", "written"}
    BY <1>1, <1>2, <1>3, <1>6 DEF CallsInv
  <2>4. ASSUME NEW o \in DOMAIN op', op'[o].kind = "record", Active(o)'
        PROVE  /\ op'[o].rev = object'[op'[o].item]
               /\ \A p \in DOMAIN op' : op'[p].item = op'[o].item /\ Active(p)' => p = o
    <3>1. o \in DOMAIN op
      BY <1>6, <2>4
    <3>2. op'[o] = op[o] /\ Active(o)
      BY <1>2, <2>2, <2>4, <3>1
    <3>3. op[o].item # i /\ op[o].item \in Items
      BY <1>1, <2>1, <2>4, <3>1, <3>2
    <3>4. op'[o].rev = object'[op'[o].item]
      BY <1>1, <1>5, <2>4, <3>1, <3>2, <3>3 DEF CallsInv
    <3>5. ASSUME NEW p \in DOMAIN op', op'[p].item = op'[o].item, Active(p)' PROVE p = o
      <4>1. p # n
        BY <1>6, <3>2, <3>3, <3>5
      <4>2. p \in DOMAIN op /\ op'[p] = op[p] /\ Active(p)
        BY <1>2, <1>6, <2>2, <3>5, <4>1
      <4> QED  BY <1>1, <2>4, <3>1, <3>2, <3>5, <4>2 DEF CallsInv
    <3> QED  BY <3>4, <3>5
  <2>5. /\ Pending' \intersect Batched' = {} /\ Processed' \intersect (Pending' \union Batched') = {}
        /\ Processed' \subseteq DOMAIN op'
    BY <1>1, <1>3, <1>6 DEF CallsInv
  <2> QED  BY <2>3, <2>4, <2>5 DEF CallsInv
<1>11. ParentsInv'
  <2>1. ASSUME NEW o \in DOMAIN op' PROVE op'[o].parent \in DOMAIN op' \union {NoRevision}
    BY <1>1, <1>2, <1>6 DEF ParentsInv
  <2>2. ASSUME NEW j \in Items PROVE object'[j] \in DOMAIN op' \union {NoRevision}
    BY <1>1, <1>5, <1>6 DEF ParentsInv
  <2> QED  BY <2>1, <2>2 DEF ParentsInv
<1>12. IndexInv'
  <2>1. ASSUME NEW o \in DOMAIN op, Waits(o) PROVE Waits(o)'
    BY <1>2, <1>3, <2>1 DEF Waits
  <2>2. Waits(n)'
    BY <1>6 DEF Waits
  <2>3. ASSUME NEW j \in Items
        PROVE  /\ NewIndex'[j] = object'[j] \/ \E o \in DOMAIN op' : op'[o].item = j /\ Waits(o)'
               /\ index'[j] \in History(op', object'[j]) \union {NoRevision}
               /\ index'[j] \in History(op', NewIndex'[j]) \union {NoRevision}
               /\ NewIndex'[j] \in History(op', object'[j]) \union {NoRevision}
    <3>1. /\ NewIndex[j] = object[j] \/ \E o \in DOMAIN op : op[o].item = j /\ Waits(o)
          /\ index[j] \in History(op, object[j]) \union {NoRevision}
          /\ index[j] \in History(op, NewIndex[j]) \union {NoRevision}
          /\ NewIndex[j] \in History(op, object[j]) \union {NoRevision}
      BY <1>1 DEF IndexInv
    <3>2. NewIndex'[j] = object'[j] \/ \E o \in DOMAIN op' : op'[o].item = j /\ Waits(o)'
      <4>1. CASE j = i
        BY <1>6, <2>2, <4>1
      <4>2. CASE j # i
        BY <1>2, <1>4, <1>5, <1>6, <2>1, <3>1, <4>2
      <4> QED  BY <4>1, <4>2
    <3> QED  BY <1>3, <1>4, <1>7, <1>8, <3>1, <3>2
  <2> QED  BY <2>3 DEF IndexInv
<1>13. EditsInv'
  <2>1. ASSUME NEW o \in DOMAIN op', op'[o].kind = "edit"
        PROVE  /\ Active(o)' => o \in History(op', object'[op'[o].item])
               /\ op'[o].stage = "done" \/ o \in Processed' =>
                    /\ o \in History(op', object'[op'[o].item])
                    /\ o \in History(op', index'[op'[o].item])
                    /\ o \in History(op', NewIndex'[op'[o].item])
               /\ o \in Batched' /\ flush'.stage = "writing" => o \in History(op', NewIndex'[op'[o].item])
    <3>1. CASE o = n
      <4>1. n \in History(op', n)
        BY <1>6, HistoryHas
      <4>2. n \notin Processed' /\ n \notin Batched'
        BY <1>1, <1>3, <1>6 DEF CallsInv
      <4> QED  BY <1>5, <1>6, <3>1, <4>1, <4>2
    <3>2. CASE o \in DOMAIN op
      <4>1. op'[o] = op[o] /\ op[o].item \in Items /\ op[o].kind = "edit" /\ (Active(o)' <=> Active(o))
        BY <1>1, <1>2, <2>1, <3>2 DEF Active
      <4> QED  BY <1>1, <1>3, <1>4, <1>7, <1>8, <3>2, <4>1 DEF EditsInv
    <3> QED  BY <1>6, <3>1, <3>2
  <2> QED  BY <2>1 DEF EditsInv
<1>14. RevisionsInv'
  <2> SUFFICES ASSUME crashes = 0, NEW j \in Items, object'[j] # NoRevision
               PROVE  /\ op'[object'[j]].kind = "edit"
                      /\ op'[object'[j]].item = j
                      /\ \/ op'[object'[j]].stage = "preparing"
                         \/ op'[object'[j]].stage = "writing" /\ op'[object'[j]].rev = object'[j]
                         \/ object'[j] \in revisions'
    BY <1>3 DEF RevisionsInv
  <2>1. CASE j = i
    BY <1>5, <1>6, <2>1
  <2>2. CASE j # i
    <3>1. object'[j] = object[j] /\ object[j] \in DOMAIN op
      BY <1>1, <1>5, <2>2 DEF ParentsInv
    <3> QED  BY <1>1, <1>2, <1>3, <3>1 DEF RevisionsInv
  <2> QED  BY <2>1, <2>2
<1> QED  BY <1>9, <1>10, <1>11, <1>12, <1>13, <1>14 DEF StoreInv

\* The record of a sync starts with the revision of the object: no save of the
\* item is under way, and so the index it was loaded from has caught up.
LEMMA LoadsKeepStore ==
  ASSUME TypeInv, StoreInv, ~RecordsOverlap, NEW i \in Items, LoadForSync(i)
  PROVE  StoreInv'
<1>0. PICK n \in Nat : n = Len(op) + 1
  BY Calls
<1>1. /\ CacheInv /\ CallsInv /\ ParentsInv /\ IndexInv /\ EditsInv /\ RevisionsInv
      /\ Len(op) \in Nat /\ n \in Ops /\ NoRevision = 0 /\ object \in Indexes
      /\ DOMAIN op \subseteq Ops /\ NoRevision \notin DOMAIN op
      /\ \A o \in DOMAIN op : op[o].item \in Items
      /\ Pending \subseteq DOMAIN op /\ Batched \subseteq DOMAIN op
  BY <1>0, Calls, BoundsAssumption DEF StoreInv, LoadForSync, Ops, NoRevision, TypeInv
<1>2. cached = NewIndex /\ cached[i] \in Ops /\ \A o \in DOMAIN op : op[o].item = i => ~Active(o)
  <2>1. cached # NoIndex /\ cached[i] # NoRevision /\ \A o \in DOMAIN op : op[o].item = i => ~Active(o)
    BY DEF LoadForSync
  <2>2. cached = NewIndex /\ NewIndex \in Indexes
    BY <1>1, <2>1, Calls DEF CacheInv
  <2> QED  BY <2>1, <2>2 DEF Indexes, Revisions
<1>3. cached[i] = object[i]
  <2>1. ASSUME NEW o \in DOMAIN op, op[o].item = i PROVE ~Waits(o)
    BY <1>1, <1>2, <2>1 DEF Waits, Active, CallsInv
  <2> QED  BY <1>1, <1>2, <2>1 DEF IndexInv
<1>4. /\ op' \in Seq(OpTypes) /\ DOMAIN op = 1 .. Len(op) /\ DOMAIN op' = 1 .. n
      /\ \A o \in DOMAIN op : op'[o] = op[o]
      /\ op'[n] = Op("record", i, cached[i], NoRevision, "preparing")
  <2>1. NoRevision \in Revisions /\ TypeOK /\ Len(op) < MaxOps /\ Started("record", i, cached[i], NoRevision)
    BY DEF LoadForSync, TypeInv, Revisions
  <2> QED  BY <1>0, <1>2, <2>1, StartedCall
<1>5. /\ index' = index /\ revisions' = revisions /\ flush' = flush /\ locked' = locked /\ crashes' = crashes
      /\ cached' = cached /\ reading' = reading /\ batch' = batch /\ currentFlush' = currentFlush
      /\ nextFlush' = nextFlush /\ pendingUpdates' = pendingUpdates /\ object' = object
      /\ Batched' = Batched /\ Processed' = Processed /\ Pending' = Pending
  BY DEF LoadForSync, database, cacheVars, queueVars, lockVars, Pending, Batched, Processed
<1>6. NewIndex' = NewIndex
  BY <1>5 DEF NewIndex
<1>7. /\ op'[n].kind = "record" /\ op'[n].item = i /\ op'[n].stage = "preparing"
      /\ op'[n].parent = NoRevision /\ op'[n].rev = cached[i]
      /\ n \notin DOMAIN op /\ n \in DOMAIN op' /\ DOMAIN op \subseteq DOMAIN op'
      /\ DOMAIN op' = DOMAIN op \union {n}
  BY <1>0, <1>1, <1>4 DEF Op
<1>8. ASSUME NEW r PROVE History(op, r) \subseteq History(op', r)
  BY <1>1, <1>4, <1>7, HistoryKept DEF ParentsInv
<1>9. CacheInv'
  BY <1>1, <1>5, <1>6 DEF CacheInv
<1>10. CallsInv'
  <2>1. \A o \in DOMAIN op : Active(o)' <=> Active(o)
    BY <1>4 DEF Active
  <2>2. ASSUME NEW o \in DOMAIN op'
        PROVE  /\ op'[o].stage \in {"preparing", "writing", "written", "done", "lost"}
               /\ o \in Pending' \union Batched' => op'[o].stage \in {"writing", "written"}
    BY <1>1, <1>4, <1>5, <1>7 DEF CallsInv
  <2>3. ASSUME NEW o \in DOMAIN op', op'[o].kind = "record", Active(o)'
        PROVE  /\ op'[o].rev = object'[op'[o].item]
               /\ \A p \in DOMAIN op' : op'[p].item = op'[o].item /\ Active(p)' => p = o
    <3>1. CASE o = n
      <4>1. ASSUME NEW p \in DOMAIN op', op'[p].item = i, Active(p)' PROVE p = n
        BY <1>2, <1>4, <1>7, <2>1, <4>1
      <4> QED  BY <1>3, <1>5, <1>7, <3>1, <4>1
    <3>2. CASE o \in DOMAIN op
      <4>1. op'[o] = op[o] /\ Active(o) /\ op[o].item # i
        BY <1>2, <1>4, <2>1, <2>3, <3>2
      <4>2. op'[o].rev = object'[op'[o].item]
        BY <1>1, <1>5, <2>3, <3>2, <4>1 DEF CallsInv
      <4>3. ASSUME NEW p \in DOMAIN op', op'[p].item = op'[o].item, Active(p)' PROVE p = o
        <5>1. p \in DOMAIN op /\ op'[p] = op[p] /\ Active(p)
          BY <1>4, <1>7, <2>1, <4>1, <4>3
        <5> QED  BY <1>1, <2>3, <3>2, <4>1, <4>3, <5>1 DEF CallsInv
      <4> QED  BY <4>2, <4>3
    <3> QED  BY <1>7, <3>1, <3>2
  <2>4. /\ Pending' \intersect Batched' = {} /\ Processed' \intersect (Pending' \union Batched') = {}
        /\ Processed' \subseteq DOMAIN op'
    BY <1>1, <1>5, <1>7 DEF CallsInv
  <2> QED  BY <2>2, <2>3, <2>4 DEF CallsInv
<1>11. ParentsInv'
  BY <1>1, <1>4, <1>5, <1>7 DEF ParentsInv
<1>12. IndexInv'
  <2>1. ASSUME NEW o \in DOMAIN op, Waits(o) PROVE Waits(o)'
    BY <1>4, <1>5, <2>1 DEF Waits
  <2>2. ASSUME NEW j \in Items
        PROVE  /\ NewIndex'[j] = object'[j] \/ \E o \in DOMAIN op' : op'[o].item = j /\ Waits(o)'
               /\ index'[j] \in History(op', object'[j]) \union {NoRevision}
               /\ index'[j] \in History(op', NewIndex'[j]) \union {NoRevision}
               /\ NewIndex'[j] \in History(op', object'[j]) \union {NoRevision}
    <3>1. /\ NewIndex[j] = object[j] \/ \E o \in DOMAIN op : op[o].item = j /\ Waits(o)
          /\ index[j] \in History(op, object[j]) \union {NoRevision}
          /\ index[j] \in History(op, NewIndex[j]) \union {NoRevision}
          /\ NewIndex[j] \in History(op, object[j]) \union {NoRevision}
      BY <1>1 DEF IndexInv
    <3> QED  BY <1>4, <1>5, <1>6, <1>7, <1>8, <2>1, <3>1
  <2> QED  BY <2>2 DEF IndexInv
<1>13. EditsInv'
  <2>1. ASSUME NEW o \in DOMAIN op', op'[o].kind = "edit"
        PROVE  /\ Active(o)' => o \in History(op', object'[op'[o].item])
               /\ op'[o].stage = "done" \/ o \in Processed' =>
                    /\ o \in History(op', object'[op'[o].item])
                    /\ o \in History(op', index'[op'[o].item])
                    /\ o \in History(op', NewIndex'[op'[o].item])
               /\ o \in Batched' /\ flush'.stage = "writing" => o \in History(op', NewIndex'[op'[o].item])
    <3>1. o \in DOMAIN op
      BY <1>7, <2>1
    <3>2. op'[o] = op[o] /\ op[o].kind = "edit" /\ (Active(o)' <=> Active(o))
      BY <1>4, <2>1, <3>1 DEF Active
    <3> QED  BY <1>1, <1>5, <1>6, <1>8, <3>1, <3>2 DEF EditsInv
  <2> QED  BY <2>1 DEF EditsInv
<1>14. RevisionsInv'
  <2> SUFFICES ASSUME crashes = 0, NEW j \in Items, object[j] # NoRevision
               PROVE  /\ op'[object[j]].kind = "edit"
                      /\ op'[object[j]].item = j
                      /\ \/ op'[object[j]].stage = "preparing"
                         \/ op'[object[j]].stage = "writing" /\ op'[object[j]].rev = object[j]
                         \/ object[j] \in revisions'
    BY <1>5 DEF RevisionsInv
  <2>1. object[j] \in DOMAIN op
    BY <1>1 DEF ParentsInv
  <2> QED  BY <1>1, <1>4, <1>5, <2>1 DEF RevisionsInv
<1> QED  BY <1>9, <1>10, <1>11, <1>12, <1>13, <1>14 DEF StoreInv

-----------------------------------------------------------------------------
(* Steps of a flush *)

LEMMA StartKeepsStore ==
  ASSUME TypeInv, StoreInv, StartFlush PROVE StoreInv'
<1>1. /\ CacheInv /\ CallsInv /\ ParentsInv /\ IndexInv /\ EditsInv /\ RevisionsInv
      /\ cached \in Indexes \union {NoIndex}
  BY DEF StoreInv, TypeInv, TypeOK, Cache!TypeOK
<1>2. /\ op' = op /\ object' = object /\ index' = index /\ revisions' = revisions /\ crashes' = crashes
      /\ locked' = locked /\ cached' = cached
      /\ flush'.stage = "loading" /\ flush'.map = cached
      /\ reading' = IF Cache!MustRead THEN Cache!Reading("asked", NoIndex) ELSE reading
  BY DEF StartFlush, opVars, database, lockVars, Flush
<1>3. /\ nextFlush /\ currentFlush = "resolved" /\ currentFlush' = "pending" /\ ~nextFlush'
      /\ batch' = pendingUpdates
      /\ Pending' = {} /\ Batched' = Pending /\ Processed' = Processed
  BY StartSets DEF StartFlush, Queue!StartFlush, Queue!CanStart
<1>4. flush.stage = "none" /\ batch' # <<>> /\ NewIndex = index /\ NewIndex' = index
  BY <1>1, <1>2, <1>3 DEF CacheInv, NewIndex
<1>5. Batched = {}
  <2>1. batch = <<>>
    BY <1>1, <1>4 DEF CacheInv
  <2>2. Range(<<>>) = {}
    BY DEF Range
  <2> QED  BY <2>1, <2>2 DEF Batched
<1>6. CacheInv'
  <2>1. cached' # NoIndex => reading'.state = "none" /\ cached' = index
    BY <1>1, <1>2, <1>4 DEF CacheInv, Cache!MustRead
  <2>2. reading'.state # "rejected" /\ (reading'.state = "retrieved" => reading'.value = index)
    BY <1>1, <1>2 DEF CacheInv, Cache!Reading
  <2> QED  BY <1>1, <1>2, <1>3, <1>4, <2>1, <2>2 DEF CacheInv
<1>7. CallsInv'
  BY <1>1, <1>2, <1>3 DEF CallsInv, Active
<1>8. ParentsInv' /\ RevisionsInv'
  BY <1>1, <1>2 DEF ParentsInv, RevisionsInv
<1>9. IndexInv'
  <2>1. ASSUME NEW o \in DOMAIN op, Waits(o) PROVE Waits(o)'
    BY <1>2, <1>3, <1>5, <2>1 DEF Waits
  <2> QED  BY <1>1, <1>2, <1>4, <2>1 DEF IndexInv
<1>10. EditsInv'
  BY <1>1, <1>2, <1>3, <1>4 DEF EditsInv, Active
<1> QED  BY <1>6, <1>7, <1>8, <1>9, <1>10 DEF StoreInv

\* The new index has the object of the user for every item of the batch.
LEMMA UpdateKeepsStore ==
  ASSUME TypeInv, StoreInv, UpdateIndex PROVE StoreInv'
<1>1. /\ CacheInv /\ CallsInv /\ ParentsInv /\ IndexInv /\ EditsInv /\ RevisionsInv
      /\ Batched \subseteq DOMAIN op /\ Pending \subseteq DOMAIN op
  BY DEF StoreInv, TypeInv
<1> DEFINE U == Updated(flush.map)
<1>2. /\ flush.stage = "loading" /\ flush.map # NoIndex /\ flush.map = index /\ cached # NoIndex
      /\ ~locked /\ NewIndex = index /\ reading.state = "none" /\ index \in Indexes
  BY <1>1, Calls DEF UpdateIndex, CacheInv, NewIndex
<1>3. /\ op' = op /\ object' = object /\ index' = index /\ revisions' = revisions /\ crashes' = crashes
      /\ locked' = locked /\ cached' = U /\ reading' = reading
      /\ flush'.stage = "writing" /\ flush'.map = U
      /\ UNCHANGED queueVars
  BY <1>2 DEF UpdateIndex, Cache!Set, opVars, database, lockVars, Flush
<1>4. /\ nextFlush' = nextFlush /\ currentFlush' = currentFlush /\ batch' = batch
      /\ pendingUpdates' = pendingUpdates
      /\ Pending' = Pending /\ Batched' = Batched /\ Processed' = Processed
  BY <1>3 DEF queueVars, Pending, Batched, Processed
<1>5. /\ U \in Indexes
      /\ \A i \in Items : \/ (\A b \in Batched : op[b].item # i) /\ U[i] = index[i]
                          \/ \E b \in Batched : op[b].item = i /\ U[i] = EntryOf(b)
  <2>1. flush.map \in Indexes
    BY <1>2
  <2> QED  BY <1>2, <2>1, UpdatedEntries
<1>6. NewIndex' = U
  BY <1>3 DEF NewIndex
<1> HIDE DEF U
<1>7. ASSUME NEW b \in Batched PROVE Active(b) /\ EntryOf(b) = object[op[b].item]
  BY <1>1, <1>7, Calls DEF CallsInv, EntryOf, Active
<1>8. ASSUME NEW i \in Items
      PROVE  \/ (\A b \in Batched : op[b].item # i) /\ U[i] = index[i]
             \/ U[i] = object[i]
  BY <1>5, <1>7
<1>9. ASSUME NEW i \in Items
      PROVE  /\ NewIndex[i] = object[i] \/ \E o \in DOMAIN op : op[o].item = i /\ Waits(o)
             /\ index[i] \in History(op, object[i]) \union {NoRevision}
             /\ index[i] \in History(op, index[i]) \union {NoRevision}
             /\ object[i] \in History(op, object[i]) \union {NoRevision}
  <2>1. object[i] \in DOMAIN op \union {NoRevision}
    BY <1>1 DEF ParentsInv
  <2> QED  BY <1>1, <1>2, <2>1, HistoryHas DEF IndexInv
<1>11. CacheInv'
  <2>1. U # NoIndex
    BY <1>2, <1>5 DEF Indexes, NoIndex
  <2> QED  BY <1>1, <1>2, <1>3, <1>4, <1>6, <2>1 DEF CacheInv
<1>12. CallsInv'
  BY <1>1, <1>3, <1>4 DEF CallsInv, Active
<1>13. ParentsInv' /\ RevisionsInv'
  BY <1>1, <1>3 DEF ParentsInv, RevisionsInv
<1>14. IndexInv'
  <2>1. ASSUME NEW o \in DOMAIN op, Waits(o), o \notin Batched PROVE Waits(o)'
    BY <1>3, <1>4, <2>1 DEF Waits
  <2>2. ASSUME NEW i \in Items
        PROVE  /\ U[i] = object[i] \/ \E o \in DOMAIN op : op[o].item = i /\ Waits(o)'
               /\ index[i] \in History(op, object[i]) \union {NoRevision}
               /\ index[i] \in History(op, U[i]) \union {NoRevision}
               /\ U[i] \in History(op, object[i]) \union {NoRevision}
    <3>1. CASE U[i] = object[i]
      BY <1>9, <3>1
    <3>2. CASE (\A b \in Batched : op[b].item # i) /\ U[i] = index[i]
      BY <1>2, <1>9, <2>1, <3>2
    <3> QED  BY <1>8, <3>1, <3>2
  <2> QED  BY <1>3, <1>6, <2>2 DEF IndexInv
<1>15. EditsInv'
  <2>1. ASSUME NEW o \in DOMAIN op, op[o].kind = "edit"
        PROVE  /\ Active(o) => o \in History(op, object[op[o].item])
               /\ op[o].stage = "done" \/ o \in Processed =>
                    /\ o \in History(op, object[op[o].item])
                    /\ o \in History(op, index[op[o].item])
                    /\ o \in History(op, U[op[o].item])
               /\ o \in Batched => o \in History(op, U[op[o].item])
    <3>1. op[o].item \in Items
      BY Calls
    <3>2. o \in Batched => U[op[o].item] = object[op[o].item] /\ Active(o)
      BY <1>5, <1>7, <3>1
    <3>3. U[op[o].item] \in {index[op[o].item], object[op[o].item]}
      BY <1>8, <3>1
    <3> QED  BY <1>1, <2>1, <3>2, <3>3 DEF EditsInv
  <2>2. \A o : Active(o)' <=> Active(o)
    BY <1>3 DEF Active
  <2> QED  BY <1>3, <1>4, <1>6, <2>1, <2>2 DEF EditsInv
<1> QED  BY <1>11, <1>12, <1>13, <1>14, <1>15 DEF StoreInv

LEMMA WrittenKeepsStore ==
  ASSUME TypeInv, StoreInv, IndexWritten PROVE StoreInv'
<1>1. /\ CacheInv /\ CallsInv /\ ParentsInv /\ IndexInv /\ EditsInv /\ RevisionsInv
      /\ Batched \subseteq DOMAIN op
  BY DEF StoreInv, TypeInv
<1>2. /\ op' = op /\ object' = object /\ revisions' = revisions /\ crashes' = crashes
      /\ locked' = locked /\ cached' = cached /\ reading' = reading
      /\ flush.stage = "writing" /\ index' = NewIndex /\ flush'.stage = "none"
      /\ currentFlush' = "resolved" /\ nextFlush' = nextFlush /\ pendingUpdates' = pendingUpdates
  BY DEF IndexWritten, opVars, lockVars, cacheVars, NoFlush, Flush, NewIndex, Queue!FlushDone
<1>3. /\ Pending' = Pending /\ Batched' = {} /\ Processed' = Processed \union Batched
      /\ batch' = <<>>
  BY DoneSets DEF IndexWritten
<1>4. NewIndex' = NewIndex
  BY <1>2 DEF NewIndex
<1>5. CacheInv'
  BY <1>1, <1>2, <1>3, <1>4 DEF CacheInv
<1>6. CallsInv'
  BY <1>1, <1>2, <1>3 DEF CallsInv, Active
<1>7. ParentsInv' /\ RevisionsInv'
  BY <1>1, <1>2 DEF ParentsInv, RevisionsInv
<1>8. IndexInv'
  <2>1. ASSUME NEW o \in DOMAIN op, Waits(o) PROVE Waits(o)'
    BY <1>2, <1>3, <2>1 DEF Waits
  <2>2. ASSUME NEW i \in Items
        PROVE  NewIndex[i] \in History(op, NewIndex[i]) \union {NoRevision}
    <3>1. NewIndex[i] \in History(op, object[i]) \union {NoRevision}
      BY <1>1 DEF IndexInv
    <3>2. NewIndex[i] \in DOMAIN op \union {NoRevision}
      BY <3>1, HistoryHas
    <3> QED  BY <3>2, HistoryHas
  <2> QED  BY <1>1, <1>2, <1>4, <2>1, <2>2 DEF IndexInv
<1>9. EditsInv'
  <2>1. ASSUME NEW o \in DOMAIN op, op[o].kind = "edit"
        PROVE  /\ Active(o) => o \in History(op, object[op[o].item])
               /\ op[o].stage = "done" \/ o \in Processed \union Batched =>
                    /\ o \in History(op, object[op[o].item])
                    /\ o \in History(op, NewIndex[op[o].item])
    <3>1. o \in Batched => Active(o)
      BY <1>1 DEF CallsInv, Active
    <3> QED  BY <1>1, <1>2, <2>1, <3>1 DEF EditsInv
  <2>2. \A o : Active(o)' <=> Active(o)
    BY <1>2 DEF Active
  <2> QED  BY <1>2, <1>3, <1>4, <2>1, <2>2 DEF EditsInv
<1> QED  BY <1>5, <1>6, <1>7, <1>8, <1>9 DEF StoreInv

-----------------------------------------------------------------------------
(* A crash: the user's objects are made from the index again. *)

LEMMA CrashKeepsStore ==
  ASSUME TypeInv, StoreInv, Crash PROVE StoreInv'
<1>1. /\ CallsInv /\ ParentsInv /\ IndexInv /\ EditsInv
      /\ index \in Indexes /\ Len(op) \in Nat /\ DOMAIN op = 1 .. Len(op)
      /\ \A o \in DOMAIN op : op[o] \in OpTypes /\ op[o].item \in Items
      /\ crashes \in Nat
  BY Calls DEF StoreInv, TypeInv, TypeOK
<1>2. /\ index' = index /\ object' = index /\ revisions' = revisions /\ crashes' = crashes + 1 /\ locked' = FALSE
      /\ cached' = NoIndex /\ reading'.state = "none" /\ flush'.stage = "none" /\ flush'.map = NoIndex
      /\ pendingUpdates' = <<>> /\ ~nextFlush' /\ currentFlush' = "resolved" /\ batch' = <<>> /\ processed' = <<>>
      /\ op' = [o \in DOMAIN op |-> IF Active(o) THEN [op[o] EXCEPT !.stage = "lost"] ELSE op[o]]
  BY DEF Crash, database, Cache!NotReading, Cache!Reading, NoFlush, Flush
<1>3. NewIndex' = index /\ Pending' = {} /\ Batched' = {} /\ Processed' = {}
  <2>1. Range(<<>>) = {}
    BY DEF Range
  <2> QED  BY <1>2, <2>1 DEF NewIndex, Pending, Batched, Processed
<1>4. ASSUME NEW o \in DOMAIN op
      PROVE  /\ op'[o].kind = op[o].kind /\ op'[o].item = op[o].item /\ op'[o].parent = op[o].parent
             /\ op'[o].stage \in {"done", "lost"} /\ (op'[o].stage = "done" => op[o].stage = "done")
  <2>1. op[o].stage \in {"preparing", "writing", "written", "done", "lost"}
    BY <1>1 DEF CallsInv
  <2>2. CASE Active(o)
    BY <1>1, <1>2, <2>2 DEF OpTypes
  <2>3. CASE ~Active(o)
    BY <1>2, <2>1, <2>3 DEF Active
  <2> QED  BY <2>2, <2>3
<1>5. DOMAIN op' = DOMAIN op
  BY <1>2
<1>6. ASSUME NEW r PROVE History(op, r) \subseteq History(op', r)
  BY <1>1, <1>4, <1>5, HistoryKept DEF ParentsInv
<1>7. ASSUME NEW i \in Items
      PROVE  index[i] \in DOMAIN op \union {NoRevision} /\ index[i] \in History(op', index[i]) \union {NoRevision}
  <2>1. index[i] \in History(op, object[i]) \union {NoRevision}
    BY <1>1 DEF IndexInv
  <2>2. index[i] \in DOMAIN op \union {NoRevision}
    BY <2>1, HistoryHas
  <2> QED  BY <1>5, <2>2, HistoryHas
<1>8. CacheInv'
  BY <1>2 DEF CacheInv
<1>9. CallsInv'
  BY <1>3, <1>4, <1>5 DEF CallsInv, Active
<1>10. ParentsInv'
  BY <1>1, <1>2, <1>4, <1>5, <1>7 DEF ParentsInv
<1>11. IndexInv'
  BY <1>2, <1>3, <1>7 DEF IndexInv
<1>12. EditsInv'
  BY <1>1, <1>2, <1>3, <1>4, <1>5, <1>6 DEF EditsInv, Active
<1>13. RevisionsInv'
  BY <1>1, <1>2 DEF RevisionsInv
<1> QED  BY <1>8, <1>9, <1>10, <1>11, <1>12, <1>13 DEF StoreInv

-----------------------------------------------------------------------------
(* The theorems *)

LEMMA StoreStays ==
  ASSUME ~RecordsOverlap, IInv, [Next]_vars PROVE IInv'
<1>1. TypeInv /\ TypeInv'
  BY StepTypes DEF IInv
<1>2. ASSUME NeverLocked' PROVE StoreInv'
  <2>0. locks \in Nat /\ ((\E o \in DOMAIN op : CallStep(o)) => UNCHANGED lockVars)
    <3>1. locks \in Nat
      BY <1>1 DEF TypeInv, TypeOK
    <3>2. ASSUME NEW o \in DOMAIN op, CallStep(o) PROVE UNCHANGED lockVars
      BY <1>1, <3>2, CallSteps
    <3> QED  BY <3>1, <3>2
  <2>1. locks \in Nat /\ (locks' = locks \/ locks' = locks + 1)
    <3>1. CASE Lock
      BY <2>0, <3>1 DEF Lock
    <3>2. CASE Unlock \/ Crash \/ ListItems
      BY <2>0, <3>2 DEF Unlock, Crash, ListItems, lockVars
    <3>3. CASE StoreStep
      BY <2>0, <3>3 DEF StoreStep, StartFlush, UpdateIndex, IndexNotRead, IndexNotWritten, IndexWritten,
         ReadIndex, IndexRead, ReadIndexFails, lockVars
    <3>4. CASE \E i \in Items : SaveItem(i) \/ LoadForSync(i)
      BY <2>0, <3>4 DEF SaveItem, LoadForSync, lockVars
    <3>5. CASE UNCHANGED vars
      BY <2>0, <3>5 DEF vars, lockVars
    <3> QED  BY <2>0, <3>1, <3>2, <3>3, <3>4, <3>5 DEF Next, Idle, lockVars
  <2>2. NeverLocked /\ StoreInv
    BY <1>2, <2>1 DEF NeverLocked, IInv
  <2>3. ~locked /\ reading.state # "rejected" /\ (flush.stage = "writing" => flush.map \in Indexes)
    BY <1>1, <2>2 DEF StoreInv, CacheInv, TypeInv
  <2>4. ~(Lock \/ Unlock \/ IndexNotRead \/ IndexNotWritten \/ ReadIndexFails)
    BY <1>2, <2>1, <2>3 DEF Lock, Unlock, IndexNotRead, IndexNotWritten, ReadIndexFails, NeverLocked
  <2>5. CASE \E i \in Items : SaveItem(i) \/ LoadForSync(i)
    BY <1>1, <2>2, <2>5, SavesKeepStore, LoadsKeepStore
  <2>6. CASE \E o \in DOMAIN op : CallStep(o)
    BY <1>1, <2>2, <2>6, CallsKeepStore
  <2>7. CASE StoreStep
    BY <1>1, <2>2, <2>4, <2>7, StartKeepsStore, UpdateKeepsStore, WrittenKeepsStore, ReadsKeepStore DEF StoreStep
  <2>8. CASE Crash
    BY <1>1, <2>2, <2>8, CrashKeepsStore
  <2>9. CASE ListItems \/ UNCHANGED vars
    BY <1>1, <2>2, <2>9, ReadsKeepStore
  <2> QED  BY <2>4, <2>5, <2>6, <2>7, <2>8, <2>9 DEF Next, Idle
<1> QED  BY <1>1, <1>2 DEF IInv

LEMMA StoreStarts == Init => IInv
<1> SUFFICES ASSUME Init PROVE IInv
  OBVIOUS
<1>1. TypeInv
  BY InitTypes
<1>2. /\ index = EmptyIndex /\ object = EmptyIndex /\ NewIndex = EmptyIndex /\ DOMAIN op = {}
      /\ ~locked /\ cached = NoIndex /\ reading.state = "none" /\ flush.stage = "none" /\ flush.map = NoIndex
      /\ ~nextFlush /\ currentFlush = "resolved" /\ batch = <<>>
  BY DEF Init, Queue!Init, Cache!Init, Cache!NotReading, Cache!Reading, NoFlush, Flush, NewIndex
<1>3. Pending = {} /\ Batched = {} /\ Processed = {}
  <2>1. Range(<<>>) = {}
    BY DEF Range
  <2> QED  BY <2>1 DEF Init, Queue!Init, Pending, Batched, Processed
<1>4. CacheInv /\ CallsInv
  BY <1>2, <1>3 DEF CacheInv, CallsInv
<1>5. ParentsInv /\ IndexInv /\ EditsInv /\ RevisionsInv
  BY <1>2, <1>3 DEF EmptyIndex, ParentsInv, IndexInv, EditsInv, RevisionsInv
<1> QED  BY <1>1, <1>4, <1>5 DEF IInv, StoreInv

\* The saves that were answered are in the history of what the index names, also
\* after crashes; the revisions that it names exist once nothing is under way; and
\* the cache holds it between two flushes.
LEMMA TrueIndex == IInv => IndexIsTrue
<1> SUFFICES ASSUME IInv, NeverLocked PROVE IndexIsTrue
  BY DEF IndexIsTrue, AcknowledgedSavesAreIndexed, IndexedRevisionsExist, CacheIsCurrent
<1>1. /\ CacheInv /\ CallsInv /\ ParentsInv /\ IndexInv /\ EditsInv /\ RevisionsInv
      /\ TypeInv /\ batch \in Seq(Ops) /\ Batched \subseteq DOMAIN op /\ Pending \subseteq DOMAIN op
  BY DEF IInv, StoreInv, TypeInv, TypeOK, Queue!TypeOK
<1>2. AcknowledgedSavesAreIndexed
  BY <1>1 DEF AcknowledgedSavesAreIndexed, EditsInv
<1>3. CacheIsCurrent
  BY <1>1 DEF CacheIsCurrent, CacheInv, NewIndex
<1>4. IndexedRevisionsExist
  <2> SUFFICES ASSUME crashes = 0, \A o \in DOMAIN op : ~Active(o), NEW i \in Items, index[i] # NoRevision
               PROVE  index[i] \in revisions
    BY DEF IndexedRevisionsExist
  <2>1. Batched = {} /\ Pending = {}
    BY <1>1 DEF CallsInv, Active
  <2>2. batch = <<>>
    <3>1. Len(batch) \in Nat /\ DOMAIN batch = 1 .. Len(batch)
      BY <1>1, LenProperties
    <3>2. Len(batch) # 0 => batch[1] \in Batched
      BY <3>1 DEF Batched, Range
    <3> QED  BY <1>1, <2>1, <3>1, <3>2, EmptySeq
  <2>3. NewIndex = index
    BY <1>1, <2>2 DEF CacheInv, NewIndex
  <2>4. index[i] = object[i]
    BY <1>1, <2>1, <2>3 DEF IndexInv, Waits, Active
  <2> QED  BY <1>1, <2>4 DEF RevisionsInv, ParentsInv, Active
<1> QED  BY <1>2, <1>3, <1>4 DEF IndexIsTrue

\* Unless the vault is locked under calls, or an item is edited while a sync records
\* it, every save that was answered is in what the index names, in whatever order
\* the writes of overlapping calls end and wherever the program dies.
THEOREM IndexStaysTrue == ASSUME ~RecordsOverlap PROVE Spec => []IndexIsTrue
<1> QED  BY StoreStarts, StoreStays, TrueIndex, PTL DEF Spec

\* Under the same conditions the index moves from a revision only to one that was
\* made from it.
THEOREM IndexOnlyMovesForward == ASSUME ~RecordsOverlap PROVE Spec => IndexMovesForward
<1>1. ASSUME IInv, [Next]_vars
      PROVE  [NeverLocked => \A i \in Items :
                index[i] \notin {NoRevision, index'[i]} => index[i] \in History(op, index'[i])]_vars
  <2> SUFFICES ASSUME NeverLocked, NEW i \in Items, index[i] \notin {NoRevision, index'[i]}
               PROVE  index[i] \in History(op, index'[i])
    OBVIOUS
  <2>1. index' # index => IndexWritten
    BY <1>1 DEF Next, CallStep, StoreStep, Idle, vars, database, SaveItem, EncryptFails,
       Encrypted, RevisionSaved, LoadForSync, LastSyncedSaved, CallDone, CallFails, StartFlush, UpdateIndex,
       IndexNotRead, IndexNotWritten, ListItems, ReadIndex, IndexRead, ReadIndexFails,
       Lock, Unlock, Crash
  <2>2. index' = NewIndex
    BY <2>1 DEF IndexWritten, NewIndex
  <2> QED  BY <1>1, <2>2 DEF IInv, StoreInv, IndexInv
<1> QED  BY <1>1, StoreStarts, StoreStays, PTL DEF Spec, IndexMovesForward
=============================================================================
