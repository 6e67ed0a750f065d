---------------------------- MODULE VaultProofs ----------------------------
(***************************************************************************)
(* What a vault promises, for any items and any number of saves, foreign   *)
(* writes, failures and restarts: a save that was answered is stored, and  *)
(* on Dropbox no update of another client is overwritten.                  *)
(***************************************************************************)
EXTENDS Vault, SequenceTheorems, FiniteSetTheorems, TLAPS

(* No later save is for the same item.                                     *)
IsLast(k) == \A j \in 1 .. Len(saves) : saves[j].item = saves[k].item => j <= k

(* The flag and the promise of a flush agree with the flush that runs.     *)
FlushInv ==
    /\ indexUpdated = "pending" <=> flush.step # "none"
    /\ indexUpdated = "resolved" => pending = {}
    /\ \A k \in 1 .. Len(saves) : saves[k].index = "waiting" => indexUpdated = "pending"

(* A call for a file that outlives its save, whose promise was rejected    *)
(* because of the index, does so only until the program stops, and no      *)
(* later save of the item succeeds until then.                             *)
FilesInv ==
    \A k \in 1 .. Len(saves) :
        LET s == saves[k] IN
        /\ s.file = "waiting" => s.index # "lost"
        /\ s.file = "waiting" /\ s.index = "failed" => indexUpdated = "rejected"
        /\ \A j \in 1 .. Len(saves) :
              j < k /\ saves[j].item = s.item /\ saves[j].file = "waiting" => s.index = "failed"
        /\ IsLast(k) /\ s.index # "failed" /\ s.kind = "save" /\ s.file = "done" => file[s.item] = k

(* The update of the index for the last save of an item is in the file, in *)
(* the flush or pending, and a flush takes nothing back.                   *)
IndexInv ==
    \A k \in 1 .. Len(saves) :
        LET s == saves[k]
            i == s.item
            isPending == s.index = "waiting" /\ i \in pending
            isFlushed == flush.step = "write" /\ flush.index.entry[i] = k
        IN IsLast(k) /\ s.index \in {"waiting", "done"} =>
              /\ contents.entry[i] = k \/ isPending \/ (s.index = "waiting" /\ isFlushed)
              /\ flush.step = "write" => isFlushed \/ isPending

(* As long as contents.js has the revision that a flush has seen on        *)
(* Dropbox, it has no other foreign updates than that.                     *)
SeenInv ==
    backend = "dropbox" /\ flush.step \in {"read", "write"} =>
        /\ flush.index.revision <= contents.revision
        /\ flush.step = "write" /\ flush.index.revision = contents.revision =>
              flush.index.foreign = contents.foreign

StoredInv == VaultTypeOK /\ FlushInv /\ FilesInv /\ IndexInv /\ SeenInv

-----------------------------------------------------------------------------
(* The last save of an item                                                *)

LEMMA Smallest ==
    ASSUME NEW T \in SUBSET Nat, T # {} PROVE \E m \in T : \A k \in T : m <= k
<1>1. PICK m \in T : \A k \in T : ~(<<k, m>> \in OpToRel(<, Nat))
  BY NatLessThanWellFounded, WFMin
<1>2. \A k \in T : ~(k < m)
  BY <1>1 DEF OpToRel
<1>3. QED
  BY <1>2

LEMMA Largest ==
    ASSUME NEW n \in Nat, NEW T \in SUBSET (1 .. n), T # {} PROVE \E m \in T : \A k \in T : k <= m
<1> DEFINE U == {n - k : k \in T}
<1>1. U \in SUBSET Nat /\ U # {}
  <2>1. \A k \in T : n - k \in Nat
    OBVIOUS
  <2>2. QED
    BY <2>1
<1>2. PICK u \in U : \A v \in U : u <= v
  BY <1>1, Smallest
<1>3. PICK m \in T : u = n - m
  BY <1>2
<1>4. ASSUME NEW k \in T PROVE k <= m
  <2>1. u <= n - k
    BY <1>2
  <2>2. QED
    BY <1>3, <2>1
<1>5. QED
  BY <1>4

LEMMA LastSaveIsLast ==
    ASSUME VaultTypeOK, NEW i \in Items
    PROVE  /\ LastSave(i) \in SaveIds
           /\ \A k \in 1 .. Len(saves) : LastSave(i) = k <=> saves[k].item = i /\ IsLast(k)
<1> DEFINE mine == {k \in 1 .. Len(saves) : saves[k].item = i}
<1>1. Len(saves) \in Nat /\ Len(saves) <= MaxSaves /\ MaxSaves \in Nat
  BY VaultAssumption DEF VaultTypeOK
<1>2. CASE mine = {}
  <2>1. LastSave(i) = 0
    BY <1>2 DEF LastSave
  <2>2. QED
    BY <1>1, <1>2, <2>1 DEF SaveIds
<1>3. CASE mine # {}
  <2>1. \E k \in mine : \A j \in mine : j <= k
    BY <1>1, <1>3, Largest
  <2>2. LastSave(i) \in mine /\ \A j \in mine : j <= LastSave(i)
    BY <1>3, <2>1 DEF LastSave
  <2>3. ASSUME NEW k \in 1 .. Len(saves), saves[k].item = i, IsLast(k) PROVE LastSave(i) = k
    <3>1. k \in mine /\ LastSave(i) <= k /\ k <= LastSave(i)
      BY <2>2, <2>3 DEF IsLast
    <3>2. QED
      BY <1>1, <2>2, <3>1
  <2>4. ASSUME NEW k \in 1 .. Len(saves), LastSave(i) = k PROVE saves[k].item = i /\ IsLast(k)
    BY <2>2, <2>4 DEF IsLast
  <2>5. QED
    BY <1>1, <2>2, <2>3, <2>4 DEF SaveIds
<1>4. QED
  BY <1>2, <1>3

(* A step in which the saves stay the same but for their promises.         *)
SavesGoOn ==
    /\ saves' \in Seq(Save) /\ Len(saves') = Len(saves)
    /\ \A k \in 1 .. Len(saves) : saves'[k].item = saves[k].item /\ saves'[k].kind = saves[k].kind

LEMMA LastGoesOn ==
    ASSUME VaultTypeOK, SavesGoOn, NEW k \in 1 .. Len(saves) PROVE IsLast(k)' <=> IsLast(k)
  BY DEF SavesGoOn, IsLast

LEMMA SavedOK ==
    ASSUME VaultTypeOK, NEW k \in 1 .. Len(saves)
    PROVE  saves[k] \in Save /\ saves[k].item \in Items /\ k \in SaveIds /\ k # 0
<1>1. saves \in Seq(Save) /\ Len(saves) <= MaxSaves /\ MaxSaves \in Nat
  BY VaultAssumption DEF VaultTypeOK
<1>2. saves[k] \in Save /\ k \in SaveIds /\ k # 0
  BY <1>1 DEF SaveIds
<1>3. QED
  BY <1>2 DEF Save

(* One save changes its file promise.                                      *)
LEMMA FilePromise ==
    ASSUME VaultTypeOK, NEW k \in 1 .. Len(saves), NEW outcome \in Outcome,
           saves' = [saves EXCEPT ![k].file = outcome]
    PROVE  /\ SavesGoOn /\ saves'[k].file = outcome /\ saves'[k].index = saves[k].index
           /\ \A j \in 1 .. Len(saves) : j # k => saves'[j] = saves[j]
<1>1. saves \in Seq(Save) /\ saves[k] \in Save
  BY SavedOK DEF VaultTypeOK
<1>2. /\ saves'[k] = [saves[k] EXCEPT !.file = outcome] /\ Len(saves') = Len(saves)
      /\ \A j \in 1 .. Len(saves) : j # k => saves'[j] = saves[j]
  BY <1>1
<1>3. /\ saves'[k] \in Save /\ saves'[k].file = outcome /\ saves'[k].index = saves[k].index
      /\ saves'[k].item = saves[k].item /\ saves'[k].kind = saves[k].kind
  BY <1>1, <1>2 DEF Save
<1>4. saves' = [saves EXCEPT ![k] = saves'[k]]
  BY <1>1, <1>2
<1>5. saves' \in Seq(Save)
  BY <1>1, <1>3, <1>4, ExceptSeq
<1>6. QED
  BY <1>2, <1>3, <1>5 DEF SavesGoOn

(* All saves that wait for the index are answered.                         *)
LEMMA IndexPromises ==
    ASSUME VaultTypeOK, NEW outcome \in Outcome, saves' = IndexSettled(saves, outcome)
    PROVE  /\ SavesGoOn
           /\ \A k \in 1 .. Len(saves) :
                /\ saves'[k].file = saves[k].file
                /\ saves'[k].index = IF saves[k].index = "waiting" THEN outcome ELSE saves[k].index
<1>1. saves \in Seq(Save) /\ Len(saves) \in Nat /\ DOMAIN saves = 1 .. Len(saves)
  BY DEF VaultTypeOK
<1>2. /\ DOMAIN saves' = 1 .. Len(saves)
      /\ \A k \in 1 .. Len(saves) :
           saves'[k] = IF saves[k].index = "waiting" THEN [saves[k] EXCEPT !.index = outcome] ELSE saves[k]
      /\ saves' = [k \in 1 .. Len(saves) |-> saves'[k]]
  BY <1>1 DEF IndexSettled
<1>3. ASSUME NEW k \in 1 .. Len(saves)
      PROVE  /\ saves'[k] \in Save /\ saves'[k].file = saves[k].file
             /\ saves'[k].item = saves[k].item /\ saves'[k].kind = saves[k].kind
             /\ saves'[k].index = IF saves[k].index = "waiting" THEN outcome ELSE saves[k].index
  <2>1. saves[k] \in Save
    BY SavedOK
  <2>2. QED
    BY <1>2, <2>1 DEF Save
<1>4. saves' \in Seq(Save) /\ Len(saves') = Len(saves)
  <2>1. saves' \in [1 .. Len(saves) -> Save]
    BY <1>2, <1>3
  <2>2. QED
    BY <1>1, <2>1
<1>5. QED
  BY <1>3, <1>4 DEF SavesGoOn

-----------------------------------------------------------------------------
(* The steps                                                               *)

LEMMA VaultStart == VaultInit => StoredInv
<1> SUFFICES ASSUME VaultInit PROVE StoredInv
  OBVIOUS
<1>1. /\ saves = <<>> /\ Len(saves) = 0 /\ 0 \in SaveIds
  BY VaultAssumption DEF VaultInit, SaveIds
<1>2. VaultTypeOK
  <2>1. [i \in Items |-> 0] \in [Items -> SaveIds]
    BY <1>1
  <2>2. Idle \in [step : {"none", "stat", "read", "write"}, index : Index]
    BY <2>1 DEF Idle, Index
  <2>3. contents \in Index
    BY <2>1 DEF VaultInit, Index
  <2>4. QED
    BY <1>1, <2>1, <2>2, <2>3, VaultAssumption DEF VaultInit, VaultTypeOK
<1>3. FlushInv /\ SeenInv
  BY <1>1 DEF VaultInit, FlushInv, SeenInv, Idle
<1>4. FilesInv /\ IndexInv
  BY <1>1 DEF FilesInv, IndexInv
<1>5. QED
  BY <1>2, <1>3, <1>4 DEF StoredInv

LEMMA FlushTypes ==
    /\ Idle \in [step : {"none", "stat", "read", "write"}, index : Index] /\ Idle.step = "none"
    /\ StartedFlush \in [step : {"none", "stat", "read", "write"}, index : Index]
    /\ StartedFlush.step = "stat"
<1>1. [i \in Items |-> 0] \in [Items -> SaveIds]
  BY VaultAssumption DEF SaveIds
<1>2. QED
  BY <1>1 DEF Idle, StartedFlush, Index

(* A save joins the others, each of which has been answered.               *)
LEMMA SaveItemStep ==
    ASSUME StoredInv, NEW i \in Items, NEW kind \in {"save", "remove"}, SaveItem(i, kind)
    PROVE  StoredInv'
<1> DEFINE n == Len(saves) + 1
           new == [item |-> i, kind |-> kind, file |-> "waiting",
                   index |-> IF indexUpdated = "rejected" THEN "failed" ELSE "waiting"]
<1>1. /\ saves \in Seq(Save) /\ Len(saves) \in Nat /\ VaultTypeOK
      /\ saves' = Append(saves, new) /\ pending' = pending \union {i}
      /\ UNCHANGED <<backend, file, contents, faults>> /\ n <= MaxSaves
  BY VaultAssumption DEF StoredInv, VaultTypeOK, SaveItem
<1>2. /\ new \in Save /\ new.item = i /\ new.kind = kind /\ new.file = "waiting"
      /\ new.index = IF indexUpdated = "rejected" THEN "failed" ELSE "waiting"
  BY DEF Save, Outcome
<1> HIDE DEF new
<1>3. /\ saves' \in Seq(Save) /\ Len(saves') = n /\ saves'[n] = new
      /\ \A k \in 1 .. Len(saves) : saves'[k] = saves[k]
      /\ \A k \in 1 .. Len(saves') : k \in 1 .. Len(saves) \/ k = n
      /\ n \in 1 .. Len(saves')
  BY <1>1, <1>2, AppendProperties
<1>4. \A k \in 1 .. Len(saves) : IsLast(k)' => IsLast(k) /\ saves[k].item # i
  <2>1. \A k \in 1 .. Len(saves) : k \in 1 .. Len(saves') /\ ~(n <= k)
    BY <1>1, <1>3
  <2>2. QED
    BY <1>2, <1>3, <2>1 DEF IsLast
<1>5. /\ indexUpdated' = IF indexUpdated = "resolved" THEN "pending" ELSE indexUpdated
      /\ flush' = IF indexUpdated = "resolved" THEN StartedFlush ELSE flush
      /\ indexUpdated \in {"resolved", "pending", "rejected"}
  BY DEF SaveItem, StoredInv, VaultTypeOK
<1>6. VaultTypeOK'
  BY <1>1, <1>3, <1>5, FlushTypes DEF VaultTypeOK
<1>7. FlushInv'
  <2>1. \A k \in 1 .. Len(saves') : saves'[k].index = "waiting" => indexUpdated' = "pending"
    BY <1>2, <1>3, <1>5 DEF StoredInv, FlushInv
  <2>2. QED
    BY <1>5, <2>1, FlushTypes DEF StoredInv, FlushInv
<1>8. FilesInv'
  <2> SUFFICES ASSUME NEW k \in 1 .. Len(saves')
               PROVE  LET s == saves'[k] IN
                      /\ s.file = "waiting" => s.index # "lost"
                      /\ s.file = "waiting" /\ s.index = "failed" => indexUpdated' = "rejected"
                      /\ \A j \in 1 .. Len(saves') :
                            j < k /\ saves'[j].item = s.item /\ saves'[j].file = "waiting" => s.index = "failed"
                      /\ IsLast(k)' /\ s.index # "failed" /\ s.kind = "save" /\ s.file = "done" =>
                            file'[s.item] = k
    BY DEF FilesInv
  <2>1. CASE k = n
    <3>1. ASSUME NEW j \in 1 .. Len(saves), saves[j].item = i, saves[j].file = "waiting"
          PROVE  indexUpdated = "rejected"
      <4>1. Settled(j)
        BY <3>1 DEF SaveItem
      <4>2. saves[j].index \in {"failed", "lost"}
        BY <3>1, <4>1 DEF Settled, Resolved, Rejected
      <4>3. QED
        BY <3>1, <4>2 DEF StoredInv, FilesInv
    <3>2. \A j \in 1 .. Len(saves') : j < k => j \in 1 .. Len(saves)
      BY <1>1, <1>3, <2>1
    <3>3. QED
      BY <1>2, <1>3, <1>5, <2>1, <3>1, <3>2
  <2>2. CASE k \in 1 .. Len(saves)
    <3>1. \A j \in 1 .. Len(saves') : j < k => j \in 1 .. Len(saves)
      BY <1>1, <1>3, <2>2
    <3>2. QED
      BY <1>1, <1>3, <1>4, <1>5, <2>2, <3>1 DEF StoredInv, FilesInv
  <2>3. QED
    BY <1>3, <2>1, <2>2
<1>9. IndexInv'
  <2> SUFFICES ASSUME NEW k \in 1 .. Len(saves'), IsLast(k)', saves'[k].index \in {"waiting", "done"}
               PROVE  LET s == saves'[k]
                          isPending == s.index = "waiting" /\ s.item \in pending'
                          isFlushed == flush'.step = "write" /\ flush'.index.entry[s.item] = k
                      IN /\ contents'.entry[s.item] = k \/ isPending \/ (s.index = "waiting" /\ isFlushed)
                         /\ flush'.step = "write" => isFlushed \/ isPending
    BY DEF IndexInv
  <2>1. CASE k = n
    BY <1>1, <1>2, <1>3, <2>1
  <2>2. CASE k \in 1 .. Len(saves)
    <3>1. flush'.step = "write" => flush' = flush
      BY <1>5, FlushTypes
    <3>2. flush.step = "write" => flush' = flush
      BY <1>5 DEF StoredInv, FlushInv
    <3>3. IsLast(k) /\ saves'[k] = saves[k]
      BY <1>3, <1>4, <2>2
    <3>4. QED
      BY <1>1, <2>2, <3>1, <3>2, <3>3 DEF StoredInv, IndexInv
  <2>3. QED
    BY <1>3, <2>1, <2>2
<1>10. SeenInv'
  BY <1>1, <1>5, FlushTypes DEF StoredInv, SeenInv
<1>11. QED
  BY <1>6, <1>7, <1>8, <1>9, <1>10 DEF StoredInv

(* A call for the file of a save ends.                                     *)
LEMMA FileEnds ==
    ASSUME StoredInv, NEW k \in 1 .. Len(saves), NEW outcome \in {"done", "failed"},
           saves[k].file = "waiting", saves' = [saves EXCEPT ![k].file = outcome],
           file' \in {file, [file EXCEPT ![saves[k].item] = 0], [file EXCEPT ![saves[k].item] = k]},
           outcome = "done" /\ saves[k].kind = "save" => file'[saves[k].item] = k,
           UNCHANGED <<backend, contents, pending, indexUpdated, flush>>, faults' \in Nat
    PROVE  StoredInv'
<1>1. VaultTypeOK /\ file \in [Items -> SaveIds] /\ saves[k] \in Save /\ saves[k].item \in Items /\ k \in SaveIds
      /\ 0 \in SaveIds
  BY SavedOK, VaultAssumption DEF StoredInv, VaultTypeOK, SaveIds
<1>2. /\ SavesGoOn /\ saves'[k].file = outcome /\ saves'[k].index = saves[k].index
      /\ \A j \in 1 .. Len(saves) : j # k => saves'[j] = saves[j]
  BY <1>1, FilePromise DEF Outcome
<1>3. /\ Len(saves') = Len(saves)
      /\ \A j \in 1 .. Len(saves) :
           /\ saves'[j].item = saves[j].item /\ saves'[j].kind = saves[j].kind
           /\ saves'[j].index = saves[j].index /\ IsLast(j)' <=> IsLast(j)
           /\ saves'[j].file = IF j = k THEN outcome ELSE saves[j].file
  BY <1>1, <1>2, LastGoesOn DEF SavesGoOn
<1>4. file' \in [Items -> SaveIds] /\ \A j \in Items : j # saves[k].item => file'[j] = file[j]
  BY <1>1
<1>5. VaultTypeOK'
  BY <1>1, <1>2, <1>4 DEF VaultTypeOK, SavesGoOn
<1>6. FlushInv' /\ IndexInv' /\ SeenInv'
  BY <1>3 DEF StoredInv, FlushInv, IndexInv, SeenInv
<1>7. FilesInv'
  <2> SUFFICES ASSUME NEW m \in 1 .. Len(saves)
               PROVE  LET s == saves'[m] IN
                      /\ s.file = "waiting" => s.index # "lost"
                      /\ s.file = "waiting" /\ s.index = "failed" => indexUpdated' = "rejected"
                      /\ \A j \in 1 .. Len(saves) :
                            j < m /\ saves'[j].item = s.item /\ saves'[j].file = "waiting" => s.index = "failed"
                      /\ IsLast(m)' /\ s.index # "failed" /\ s.kind = "save" /\ s.file = "done" =>
                            file'[s.item] = m
    BY <1>3 DEF FilesInv
  <2>1. /\ saves'[m].file = "waiting" => saves'[m].index # "lost"
        /\ saves'[m].file = "waiting" /\ saves'[m].index = "failed" => indexUpdated' = "rejected"
        /\ \A j \in 1 .. Len(saves) :
              j < m /\ saves'[j].item = saves'[m].item /\ saves'[j].file = "waiting" => saves'[m].index = "failed"
    BY <1>3 DEF StoredInv, FilesInv
  <2>2. ASSUME IsLast(m), saves[m].index # "failed", saves[m].kind = "save", saves'[m].file = "done"
        PROVE  file'[saves[m].item] = m
    <3>1. CASE m = k
      BY <1>3, <2>2, <3>1
    <3>2. CASE m # k /\ saves[k].item = saves[m].item
      <4>1. k < m
        BY <1>1, <2>2, <3>2 DEF IsLast
      <4>2. QED
        BY <2>2, <3>2, <4>1 DEF StoredInv, FilesInv
    <3>3. CASE m # k /\ saves[k].item # saves[m].item
      <4>1. saves[m].item \in Items
        BY <1>1, SavedOK
      <4>2. QED
        BY <1>3, <1>4, <2>2, <3>3, <4>1 DEF StoredInv, FilesInv
    <3>4. QED
      BY <3>1, <3>2, <3>3
  <2>3. QED
    BY <1>3, <2>1, <2>2
<1>8. QED
  BY <1>5, <1>6, <1>7 DEF StoredInv

LEMMA FileSteps ==
    ASSUME StoredInv, NEW k \in 1 .. Len(saves), FileWritten(k) \/ FileRemoved(k) \/ FileFails(k)
    PROVE  StoredInv'
<1>1. faults \in Nat
  BY DEF StoredInv, VaultTypeOK
<1>2. CASE FileWritten(k)
  <2>1. file'[saves[k].item] = k
    <3>1. saves[k].item \in Items /\ file \in [Items -> SaveIds]
      BY SavedOK DEF StoredInv, VaultTypeOK
    <3>2. QED
      BY <1>2, <3>1 DEF FileWritten
  <2>2. QED
    BY <1>1, <1>2, <2>1, FileEnds DEF FileWritten
<1>3. CASE FileRemoved(k)
  <2>1. PICK outcome \in {"done", "failed"} : saves' = [saves EXCEPT ![k].file = outcome]
    BY <1>3 DEF FileRemoved
  <2>2. QED
    BY <1>1, <1>3, <2>1, FileEnds DEF FileRemoved
<1>4. CASE FileFails(k)
  <2>1. /\ saves[k].file = "waiting" /\ saves' = [saves EXCEPT ![k].file = "failed"]
        /\ file' \in {file, [file EXCEPT ![saves[k].item] = 0], [file EXCEPT ![saves[k].item] = k]}
        /\ UNCHANGED <<backend, contents, pending, indexUpdated, flush>>
        /\ faults' = faults + 1
    BY <1>4 DEF FileFails
  <2>2. faults' \in Nat
    BY <1>1, <2>1
  <2> DEFINE outcome == "failed"
  <2>3. outcome \in {"done", "failed"} /\ ~(outcome = "done" /\ saves[k].kind = "save")
    OBVIOUS
  <2>4. saves' = [saves EXCEPT ![k].file = outcome]
    BY <2>1
  <2> HIDE DEF outcome
  <2>5. QED
    BY <2>1, <2>2, <2>3, <2>4, FileEnds
<1>5. QED
  BY <1>2, <1>3, <1>4

(* The saves that wait are answered, if the flush was refused; if it was   *)
(* not, what was written has all of their updates.                         *)
LEMMA IndexAnswered ==
    ASSUME StoredInv, indexUpdated = "pending", NEW outcome \in {"done", "failed"},
           saves' = IndexSettled(saves, outcome),
           indexUpdated' = IF outcome = "done" THEN "resolved" ELSE "rejected",
           outcome = "done" => pending = {},
           flush' = Idle, pending' = pending, UNCHANGED <<backend, file>>,
           contents' \in Index, faults' \in Nat,
           contents'.entry = contents.entry \/ (flush.step = "write" /\ contents'.entry = flush.index.entry),
           outcome = "done" => flush.step = "write" /\ contents'.entry = flush.index.entry
    PROVE  StoredInv'
<1>1. /\ SavesGoOn /\ VaultTypeOK
      /\ \A k \in 1 .. Len(saves) :
           /\ saves'[k].file = saves[k].file
           /\ saves'[k].index = IF saves[k].index = "waiting" THEN outcome ELSE saves[k].index
  BY IndexPromises DEF StoredInv, Outcome
<1>2. /\ Len(saves') = Len(saves)
      /\ \A k \in 1 .. Len(saves) :
           /\ saves'[k].item = saves[k].item /\ saves'[k].kind = saves[k].kind
           /\ IsLast(k)' <=> IsLast(k)
  BY <1>1, LastGoesOn DEF SavesGoOn
<1>3. VaultTypeOK'
  BY <1>1, FlushTypes DEF VaultTypeOK, SavesGoOn
<1>4. FlushInv'
  BY <1>1, <1>2, FlushTypes DEF StoredInv, FlushInv
<1>5. FilesInv'
  BY <1>1, <1>2 DEF StoredInv, FilesInv
<1>6. IndexInv'
  <2> SUFFICES ASSUME NEW k \in 1 .. Len(saves), IsLast(k), saves'[k].index \in {"waiting", "done"}
               PROVE  contents'.entry[saves[k].item] = k
    BY <1>2, FlushTypes DEF IndexInv
  <2>1. \/ saves[k].index = "done"
        \/ saves[k].index = "waiting" /\ outcome = "done"
    BY <1>1
  <2>2. CASE saves[k].index = "done"
    BY <2>2 DEF StoredInv, IndexInv
  <2>3. CASE saves[k].index = "waiting" /\ outcome = "done"
    BY <2>3 DEF StoredInv, IndexInv
  <2>4. QED
    BY <2>1, <2>2, <2>3
<1>7. SeenInv'
  BY FlushTypes DEF SeenInv
<1>8. QED
  BY <1>3, <1>4, <1>5, <1>6, <1>7 DEF StoredInv

LEMMA FlushFailsStep == ASSUME StoredInv, FlushFails PROVE StoredInv'
<1>1. faults \in Nat /\ contents \in Index
  BY DEF StoredInv, VaultTypeOK
<1>2. indexUpdated = "pending"
  BY DEF FlushFails, StoredInv, FlushInv
<1>3. QED
  BY <1>1, <1>2, IndexAnswered DEF FlushFails, FlushRejected

(* The condition of a write.                                               *)
LEMMA ConditionalWrites ==
    ASSUME VaultTypeOK, NEW r, NEW p
    PROVE  LET result == ConditionalWrite(backend, r, p)
           IN /\ ~result.rejected => result.written
              /\ backend = "dropbox" => (result.written <=> r = p)
  BY DEF VaultTypeOK, Backends, ConditionalWrite, NodeWrite, DropboxWrite, HttpWrite

LEMMA WriteContentsStep == ASSUME StoredInv, WriteContents PROVE StoredInv'
<1> DEFINE result == ConditionalWrite(backend, contents.revision, flush.index.revision)
<1>1. /\ flush.step = "write" /\ UNCHANGED <<backend, file, pending, faults>> /\ VaultTypeOK
      /\ contents \in Index /\ flush.index \in Index /\ faults \in Nat
      /\ indexUpdated = "pending"
  BY DEF WriteContents, StoredInv, VaultTypeOK, FlushInv
<1>2. ~result.rejected => result.written
  BY <1>1, ConditionalWrites
<1>3. /\ result.written => contents' = [flush.index EXCEPT !.revision = contents.revision + 1]
      /\ ~result.written => contents' = contents
      /\ result.rejected => FlushRejected
      /\ ~result.rejected => FlushDone
  BY DEF WriteContents
<1> HIDE DEF result
<1>4. /\ contents' \in Index /\ contents'.entry \in {contents.entry, flush.index.entry}
      /\ result.written => contents'.entry = flush.index.entry
      /\ ~result.written => contents' = contents
  <2>1. contents.revision + 1 \in Nat
    BY <1>1 DEF Index
  <2>2. CASE result.written
    BY <1>1, <1>3, <2>1, <2>2 DEF Index
  <2>3. CASE ~result.written
    BY <1>1, <1>3, <2>3
  <2>4. QED
    BY <2>2, <2>3
<1>5. CASE result.rejected
  BY <1>1, <1>3, <1>4, <1>5, IndexAnswered DEF FlushRejected
<1>6. CASE ~result.rejected /\ pending = {}
  BY <1>1, <1>2, <1>3, <1>4, <1>6, IndexAnswered DEF FlushDone
<1>7. CASE ~result.rejected /\ pending # {}
  <2>1. /\ flush' = StartedFlush /\ UNCHANGED <<indexUpdated, saves>>
        /\ contents'.entry = flush.index.entry
    BY <1>2, <1>3, <1>4, <1>7 DEF FlushDone
  <2>2. VaultTypeOK' /\ SavesGoOn
    BY <1>1, <1>4, <2>1, FlushTypes DEF VaultTypeOK, SavesGoOn
  <2>3. \A k \in 1 .. Len(saves) : IsLast(k)' <=> IsLast(k)
    BY <1>1, <2>2, LastGoesOn
  <2>4. FlushInv' /\ FilesInv' /\ SeenInv'
    BY <1>1, <2>1, <2>3, FlushTypes DEF StoredInv, FlushInv, FilesInv, SeenInv
  <2>5. IndexInv'
    <3> SUFFICES ASSUME NEW k \in 1 .. Len(saves), IsLast(k), saves[k].index \in {"waiting", "done"}
                 PROVE  \/ contents'.entry[saves[k].item] = k
                        \/ saves[k].index = "waiting" /\ saves[k].item \in pending
      BY <1>1, <2>1, <2>3, FlushTypes DEF IndexInv
    <3>1. QED
      BY <1>1, <2>1 DEF StoredInv, IndexInv
  <2>6. QED
    BY <2>2, <2>4, <2>5 DEF StoredInv
<1>8. QED
  BY <1>5, <1>6, <1>7

(* The two steps before: the saves and what they have written stay.        *)
LEMMA FlushGoesOn ==
    ASSUME StoredInv, flush.step # "none", flush'.step \in {"read", "write"}, flush'.index \in Index,
           flush' \in [step : {"none", "stat", "read", "write"}, index : Index],
           UNCHANGED <<backend, saves, file, contents, indexUpdated, faults>>, pending' \subseteq Items,
           IndexInv', SeenInv'
    PROVE  StoredInv'
<1>1. VaultTypeOK' /\ SavesGoOn /\ VaultTypeOK /\ indexUpdated = "pending"
  BY DEF StoredInv, VaultTypeOK, SavesGoOn, FlushInv
<1>2. \A k \in 1 .. Len(saves) : IsLast(k)' <=> IsLast(k)
  BY <1>1, LastGoesOn
<1>3. FlushInv' /\ FilesInv'
  BY <1>1, <1>2 DEF StoredInv, FlushInv, FilesInv
<1>4. QED
  BY <1>1, <1>3 DEF StoredInv

LEMMA StatContentsStep == ASSUME StoredInv, StatContents PROVE StoredInv'
<1>1. /\ flush.step = "stat" /\ contents \in Index /\ contents.revision \in Nat
      /\ flush \in [step : {"none", "stat", "read", "write"}, index : Index]
      /\ flush' = [flush EXCEPT !.step = "read", !.index.revision = contents.revision]
      /\ UNCHANGED <<backend, saves, file, contents, pending, indexUpdated, faults>>
      /\ VaultTypeOK /\ SavesGoOn /\ pending \subseteq Items
  BY DEF StatContents, StoredInv, VaultTypeOK, Index, SavesGoOn
<1>2. /\ flush'.step = "read" /\ flush'.index = [flush.index EXCEPT !.revision = contents.revision]
      /\ flush' = [step |-> "read", index |-> flush'.index]
  BY <1>1
<1>3. flush'.index \in Index /\ flush'.index.revision = contents.revision
  BY <1>1, <1>2 DEF Index
<1>4. flush' \in [step : {"none", "stat", "read", "write"}, index : Index]
  BY <1>2, <1>3
<1>5. \A k \in 1 .. Len(saves) : IsLast(k)' <=> IsLast(k)
  BY <1>1, LastGoesOn
<1>6. IndexInv' /\ SeenInv'
  BY <1>1, <1>2, <1>3, <1>5 DEF StoredInv, IndexInv, SeenInv
<1>7. QED
  BY <1>1, <1>2, <1>3, <1>4, <1>6, FlushGoesOn

LEMMA ReadContentsStep == ASSUME StoredInv, ReadContents PROVE StoredInv'
<1> DEFINE entry == [i \in Items |-> IF i \in pending THEN LastSave(i) ELSE contents.entry[i]]
<1>1. /\ flush.step = "read" /\ contents \in Index /\ flush.index \in Index
      /\ UNCHANGED <<backend, saves, file, contents, indexUpdated, faults>> /\ pending' = {}
      /\ VaultTypeOK /\ SavesGoOn /\ pending \subseteq Items
  BY DEF ReadContents, StoredInv, VaultTypeOK, SavesGoOn
<1>2. /\ entry \in [Items -> SaveIds]
      /\ \A i \in Items : entry[i] = IF i \in pending THEN LastSave(i) ELSE contents.entry[i]
  BY <1>1, LastSaveIsLast DEF Index
<1>3. flush' = [step  |-> "write", index |-> [revision |-> flush.index.revision, entry |-> entry,
                                              foreign |-> contents.foreign]]
  BY DEF ReadContents
<1> HIDE DEF entry
<1>4. /\ flush'.step = "write" /\ flush'.index \in Index
      /\ flush'.index.entry = entry /\ flush'.index.foreign = contents.foreign
      /\ flush'.index.revision = flush.index.revision
      /\ flush' \in [step : {"none", "stat", "read", "write"}, index : Index]
  BY <1>1, <1>2, <1>3 DEF Index
<1>5. \A k \in 1 .. Len(saves) : IsLast(k)' <=> IsLast(k)
  BY <1>1, LastGoesOn
<1>6. IndexInv'
  <2> SUFFICES ASSUME NEW k \in 1 .. Len(saves), IsLast(k), saves[k].index \in {"waiting", "done"}
               PROVE  entry[saves[k].item] = k /\ (saves[k].index = "done" => contents.entry[saves[k].item] = k)
    BY <1>1, <1>4, <1>5 DEF IndexInv
  <2>1. saves[k].item \in Items /\ LastSave(saves[k].item) = k
    BY <1>1, SavedOK, LastSaveIsLast
  <2>2. contents.entry[saves[k].item] = k \/ (saves[k].index = "waiting" /\ saves[k].item \in pending)
    BY <1>1 DEF StoredInv, IndexInv
  <2>3. QED
    BY <1>2, <2>1, <2>2
<1>7. SeenInv'
  BY <1>1, <1>4 DEF StoredInv, SeenInv
<1>8. QED
  BY <1>1, <1>4, <1>6, <1>7, FlushGoesOn

LEMMA ForeignWriteStep == ASSUME StoredInv, ForeignWrite PROVE StoredInv'
<1>1. /\ contents \in Index /\ contents.revision \in Nat /\ contents.foreign \in Nat
      /\ UNCHANGED <<backend, saves, file, pending, indexUpdated, flush, faults>>
      /\ VaultTypeOK /\ SavesGoOn
  BY DEF ForeignWrite, StoredInv, VaultTypeOK, Index, SavesGoOn
<1>2. PICK r \in NewRevisions(backend, contents.revision) :
        contents' = [contents EXCEPT !.foreign = @ + 1, !.revision = r]
  BY DEF ForeignWrite
<1>3. r \in Nat /\ (backend = "dropbox" => r = contents.revision + 1)
  BY <1>1 DEF NewRevisions
<1>4. /\ contents' \in Index /\ contents'.entry = contents.entry
      /\ contents'.revision = r
  <2> DEFINE counted == [contents EXCEPT !.foreign = @ + 1]
  <2>1. counted \in Index /\ counted.entry = contents.entry
    BY <1>1 DEF Index
  <2>2. contents' = [counted EXCEPT !.revision = r]
    BY <1>2
  <2> HIDE DEF counted
  <2>3. QED
    BY <1>3, <2>1, <2>2 DEF Index
<1>5. \A k \in 1 .. Len(saves) : IsLast(k)' <=> IsLast(k)
  BY <1>1, LastGoesOn
<1>6. VaultTypeOK' /\ FlushInv' /\ FilesInv' /\ IndexInv'
  BY <1>1, <1>4, <1>5 DEF StoredInv, VaultTypeOK, FlushInv, FilesInv, IndexInv
<1>7. SeenInv'
  <2>1. flush.index.revision \in Nat
    BY <1>1 DEF VaultTypeOK, Index
  <2>2. QED
    BY <1>1, <1>3, <1>4, <2>1 DEF StoredInv, SeenInv
<1>8. QED
  BY <1>6, <1>7 DEF StoredInv

LEMMA CrashStep == ASSUME StoredInv, Crash PROVE StoredInv'
<1>1. /\ saves \in Seq(Save) /\ Len(saves) \in Nat /\ DOMAIN saves = 1 .. Len(saves) /\ VaultTypeOK
      /\ faults \in Nat
  BY DEF StoredInv, VaultTypeOK
<1>2. /\ UNCHANGED <<backend, file, contents>> /\ faults' = faults + 1
      /\ pending' = {} /\ indexUpdated' = "resolved" /\ flush' = Idle
  BY DEF Crash
<1>3. /\ DOMAIN saves' = 1 .. Len(saves)
      /\ \A k \in 1 .. Len(saves) :
           saves'[k] = [saves[k] EXCEPT !.file = IF saves[k].file = "waiting" THEN "lost" ELSE saves[k].file,
                                        !.index = IF saves[k].index = "waiting" THEN "lost" ELSE saves[k].index]
      /\ saves' = [k \in 1 .. Len(saves) |-> saves'[k]]
  BY <1>1 DEF Crash
<1>4. ASSUME NEW k \in 1 .. Len(saves)
      PROVE  /\ saves'[k] \in Save /\ saves'[k].item = saves[k].item /\ saves'[k].kind = saves[k].kind
             /\ saves'[k].file = IF saves[k].file = "waiting" THEN "lost" ELSE saves[k].file
             /\ saves'[k].index = IF saves[k].index = "waiting" THEN "lost" ELSE saves[k].index
  <2>1. saves[k] \in Save
    BY SavedOK, <1>1
  <2>2. QED
    BY <1>3, <2>1 DEF Save, Outcome
<1>5. saves' \in Seq(Save) /\ Len(saves') = Len(saves) /\ SavesGoOn
  <2>1. saves' \in [1 .. Len(saves) -> Save]
    BY <1>3, <1>4
  <2>2. QED
    BY <1>1, <1>4, <2>1 DEF SavesGoOn
<1>6. \A k \in 1 .. Len(saves) : IsLast(k)' <=> IsLast(k)
  BY <1>1, <1>5, LastGoesOn
<1>7. VaultTypeOK' /\ SeenInv'
  BY <1>1, <1>2, <1>5, FlushTypes DEF VaultTypeOK, SeenInv
<1>8. FlushInv'
  BY <1>2, <1>4, <1>5, FlushTypes DEF FlushInv
<1>9. FilesInv'
  BY <1>2, <1>4, <1>5, <1>6 DEF StoredInv, FilesInv
<1>10. IndexInv'
  BY <1>2, <1>4, <1>5, <1>6, FlushTypes DEF StoredInv, IndexInv
<1>11. QED
  BY <1>7, <1>8, <1>9, <1>10 DEF StoredInv

LEMMA VaultStep == StoredInv /\ [VaultNext]_vaultVars => StoredInv'
<1> SUFFICES ASSUME StoredInv, [VaultNext]_vaultVars PROVE StoredInv'
  OBVIOUS
<1>1. CASE UNCHANGED vaultVars
  BY <1>1 DEF vaultVars, StoredInv, VaultTypeOK, FlushInv, FilesInv, IndexInv, SeenInv, IsLast
<1>2. CASE VaultNext
  BY <1>2, SaveItemStep, FileSteps, StatContentsStep, ReadContentsStep, WriteContentsStep,
     FlushFailsStep, ForeignWriteStep, CrashStep DEF VaultNext, CallDone
<1>3. QED
  BY <1>1, <1>2

-----------------------------------------------------------------------------
(* The theorems                                                            *)

(* The pending updates, the flush and the promises agree.                  *)
THEOREM UpdatesAreKept == VaultSpec => []VaultInv
<1>1. StoredInv => VaultInv
  <2> SUFFICES ASSUME StoredInv PROVE VaultInv
    OBVIOUS
  <2>1. \A k \in 1 .. Len(saves) : LastSave(saves[k].item) = k => IsLast(k)
    BY SavedOK, LastSaveIsLast DEF StoredInv
  <2>2. QED
    BY <2>1 DEF VaultInv, StoredInv, FlushInv, IndexInv
<1>2. QED
  BY <1>1, VaultStart, VaultStep, PTL DEF VaultSpec

(* A save that was answered is in the file and in the index, for any items *)
(* and however many saves, other clients, failures and restarts there are  *)
(* (agile_keychain.ts 522-606).                                            *)
THEOREM AnsweredSavesAreStored == VaultSpec => []ResolvedSavesAreStored
<1>1. StoredInv => ResolvedSavesAreStored
  <2> SUFFICES ASSUME StoredInv, NEW k \in 1 .. Len(saves), Resolved(k), LastSave(saves[k].item) = k
               PROVE  IF saves[k].kind = "save"
                      THEN /\ saves[k].item \in ListedLive /\ file[saves[k].item] = k
                           /\ contents.entry[saves[k].item] = k
                      ELSE saves[k].item \in ListedDeleted
    BY DEF ResolvedSavesAreStored
  <2>1. /\ saves[k] \in Save /\ saves[k].item \in Items /\ k # 0 /\ IsLast(k)
        /\ saves[k].file = "done" /\ saves[k].index = "done"
    BY SavedOK, LastSaveIsLast DEF StoredInv, Resolved
  <2>2. contents.entry[saves[k].item] = k
    BY <2>1 DEF StoredInv, IndexInv
  <2>3. saves[k].kind = "save" => file[saves[k].item] = k
    BY <2>1 DEF StoredInv, FilesInv
  <2>4. saves[k].kind \in {"save", "remove"}
    BY <2>1 DEF Save
  <2>5. QED
    BY <2>1, <2>2, <2>3, <2>4 DEF ListedLive, ListedDeleted, Current, Deleted, IsTombstone
<1>2. QED
  BY <1>1, VaultStart, VaultStep, PTL DEF VaultSpec

(* On Dropbox a flush that did not see what another client has written to  *)
(* contents.js does not overwrite it (agile_keychain.ts 547-604).          *)
THEOREM ForeignUpdatesStay == VaultSpec => ForeignUpdatesSurvive
<1>1. StoredInv /\ [VaultNext]_vaultVars => [backend = "dropbox" => contents'.foreign >= contents.foreign]_vaultVars
  <2> SUFFICES ASSUME StoredInv, VaultNext, backend = "dropbox" PROVE contents'.foreign >= contents.foreign
    OBVIOUS
  <2>1. contents \in Index /\ flush.index \in Index /\ contents.foreign \in Nat /\ VaultTypeOK
    BY DEF StoredInv, VaultTypeOK, Index
  <2>2. CASE contents' = contents
    BY <2>1, <2>2
  <2>3. CASE ForeignWrite
    <3>1. PICK r \in NewRevisions(backend, contents.revision) :
            contents' = [contents EXCEPT !.foreign = @ + 1, !.revision = r]
      BY <2>3 DEF ForeignWrite
    <3>2. contents'.foreign = contents.foreign + 1
      BY <2>1, <3>1 DEF Index
    <3>3. QED
      BY <2>1, <3>2
  <2>4. CASE WriteContents /\ contents' # contents
    <3>1. /\ flush.step = "write" /\ contents.revision = flush.index.revision
          /\ contents' = [flush.index EXCEPT !.revision = contents.revision + 1]
      BY <2>1, <2>4, ConditionalWrites DEF WriteContents
    <3>2. contents'.foreign = flush.index.foreign
      BY <2>1, <3>1 DEF Index
    <3>3. QED
      BY <2>1, <3>1, <3>2 DEF StoredInv, SeenInv
  <2>5. QED
    BY <2>2, <2>3, <2>4 DEF VaultNext, CallDone, SaveItem, FileWritten, FileRemoved, FileFails,
                            StatContents, ReadContents, FlushFails, Crash
<1>2. QED
  BY <1>1, VaultStart, VaultStep, PTL DEF VaultSpec, ForeignUpdatesSurvive
=============================================================================
