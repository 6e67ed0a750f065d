------------------------------- MODULE Vault -------------------------------
(***************************************************************************)
(* An Agile Keychain vault (lib/agile_keychain.ts, Vault): one .1password  *)
(* file for each item and the index contents.js, which holds the           *)
(* tombstones of removed items.  A save writes (or removes) the file and   *)
(* at the same time puts the item on the list of pending index updates,    *)
(* which one flush at a time reads, merges into contents.js and writes     *)
(* back on condition that nobody else has written it.                      *)
(***************************************************************************)
EXTENDS Naturals, Sequences, FiniteSets, FileSystem

CONSTANTS
    Items,
    MaxSaves,    \* bound on the calls of saveItem
    MaxForeign,  \* bound on writes of contents.js by other 1Password clients
    MaxFaults    \* bound on failing calls and crashes

ASSUME VaultAssumption ==
    /\ MaxSaves \in Nat
    /\ MaxForeign \in Nat
    /\ MaxFaults \in Nat

VARIABLES
    backend,         \* the file system the vault is stored in
    saves,           \* the calls of saveItem, in order
    file,            \* item -> the save whose content its file has, 0: no file
    contents,        \* contents.js
    pending,         \* pendingIndexUpdates
    indexUpdated,    \* state of the promise of that name
    flush,           \* the flush that is running
    faults

vaultVars == <<backend, saves, file, contents, pending, indexUpdated, flush, faults>>

SaveIds == 0 .. MaxSaves
Outcome == {"waiting", "done", "failed", "lost"}
Save == [item : Items, kind : {"save", "remove"}, file : Outcome, index : Outcome]

(* contents.js: for each item the save that its entry shows (0: none), and *)
(* how many changes of its own another client has made.                    *)
Index == [revision : Nat, entry : [Items -> SaveIds], foreign : Nat]
Idle == [step |-> "none", index |-> [revision |-> 0, entry |-> [i \in Items |-> 0], foreign |-> 0]]

VaultTypeOK ==
    /\ backend \in Backends
    /\ saves \in Seq(Save)
    /\ Len(saves) <= MaxSaves
    /\ file \in [Items -> SaveIds]
    /\ contents \in Index
    /\ pending \subseteq Items
    /\ indexUpdated \in {"resolved", "pending", "rejected"}
    /\ flush \in [step : {"none", "stat", "read", "write"}, index : Index]
    /\ faults \in Nat

-----------------------------------------------------------------------------
(* The item object of a caller, which is the one in pendingIndexUpdates,   *)
(* shows the last save.                                                    *)
LastSave(i) ==
    LET mine == {k \in 1 .. Len(saves) : saves[k].item = i}
    IN IF mine = {} THEN 0 ELSE CHOOSE k \in mine : \A j \in mine : j <= k

IsTombstone(k) == k # 0 /\ saves[k].kind = "remove"

(* The promise of a save: all2 of the file and the index.                  *)
Resolved(k) == saves[k].file = "done" /\ saves[k].index = "done"
Rejected(k) == {saves[k].file, saves[k].index} \cap {"failed", "lost"} # {}
Settled(k) == Resolved(k) \/ Rejected(k)

Deleted == {i \in Items : IsTombstone(contents.entry[i])}
Current == {i \in Items : file[i] # 0}

(* listItemStates: a deletion takes precedence over a file that is there.  *)
ListedDeleted == Deleted
ListedLive == Current \ Deleted

StartedFlush == [Idle EXCEPT !.step = "stat"]

(* The index promises of the saves that wait in until().                   *)
IndexSettled(s, outcome) ==
    [k \in DOMAIN s |-> IF s[k].index = "waiting" THEN [s[k] EXCEPT !.index = outcome]
                                                  ELSE s[k]]

-----------------------------------------------------------------------------
VaultInit ==
    /\ backend \in Backends
    /\ saves = <<>>
    /\ file = [i \in Items |-> 0]
    /\ contents = [revision |-> 1, entry |-> [i \in Items |-> 0], foreign |-> 0]
    /\ pending = {}
    /\ indexUpdated = "resolved"
    /\ flush = Idle
    /\ faults = 0

(* A caller saves or removes an item.  The update joins the pending ones   *)
(* and a flush starts unless one is running; after a flush that failed     *)
(* indexUpdated stays rejected, and with it the index part of every save.  *)
SaveItem(i, kind) ==
    /\ Len(saves) < MaxSaves
    /\ \A k \in 1 .. Len(saves) : saves[k].item = i => Settled(k)
    /\ kind = "remove" => LastSave(i) # 0
    /\ saves' = Append(saves,
                       [item |-> i, kind |-> kind, file |-> "waiting",
                        index |-> IF indexUpdated = "rejected" THEN "failed" ELSE "waiting"])
    /\ pending' = pending \union {i}
    /\ IF indexUpdated = "resolved"
         THEN indexUpdated' = "pending" /\ flush' = StartedFlush
         ELSE UNCHANGED <<indexUpdated, flush>>
    /\ UNCHANGED <<backend, file, contents, faults>>

(* The file is written without a condition.                                *)
FileWritten(k) ==
    /\ saves[k].file = "waiting" /\ saves[k].kind = "save"
    /\ file' = [file EXCEPT ![saves[k].item] = k]
    /\ saves' = [saves EXCEPT ![k].file = "done"]
    /\ UNCHANGED <<backend, contents, pending, indexUpdated, flush, faults>>

(* A file that is already gone is fine if the error is FileNotFound.       *)
FileRemoved(k) ==
    /\ saves[k].file = "waiting" /\ saves[k].kind = "remove"
    /\ file' = [file EXCEPT ![saves[k].item] = 0]
    /\ saves' = [saves EXCEPT ![k].file =
                    IF Rm(backend, file[saves[k].item] # 0) \in {"done", "FileNotFound"}
                      THEN "done" ELSE "failed"]
    /\ UNCHANGED <<backend, contents, pending, indexUpdated, flush, faults>>

(* The write, the removal or the encryption before them fails.             *)
FileFails(k) ==
    /\ saves[k].file = "waiting" /\ faults < MaxFaults
    /\ saves' = [saves EXCEPT ![k].file = "failed"]
    /\ faults' = faults + 1
    /\ UNCHANGED <<backend, file, contents, pending, indexUpdated, flush>>

-----------------------------------------------------------------------------
(* saveContentsFile                                                        *)

StatContents ==
    /\ flush.step = "stat"
    /\ flush' = [flush EXCEPT !.step = "read", !.index.revision = contents.revision]
    /\ UNCHANGED <<backend, saves, file, contents, pending, indexUpdated, faults>>

(* The content is read, the pending updates are taken off the list and     *)
(* merged into it.                                                         *)
ReadContents ==
    /\ flush.step = "read"
    /\ flush' = [step  |-> "write",
                 index |-> [revision |-> flush.index.revision,
                            entry |-> [i \in Items |-> IF i \in pending THEN LastSave(i)
                                                       ELSE contents.entry[i]],
                            foreign |-> contents.foreign]]
    /\ pending' = {}
    /\ UNCHANGED <<backend, saves, file, contents, indexUpdated, faults>>

(* Faulty variants: the saves that wait are forgotten if there is more to  *)
(* do; the updates that came while contents.js was written are dropped.    *)
FlushDoneNoRecheck ==
    /\ indexUpdated' = "resolved" /\ flush' = Idle
    /\ saves' = IF pending = {} THEN IndexSettled(saves, "done") ELSE saves

(* The flush has ended well: the loops of the waiting saves end if nothing *)
(* new is pending, and else the first of them starts another flush for all.*)
FlushDone ==
    IF pending = {}
      THEN /\ indexUpdated' = "resolved" /\ flush' = Idle
           /\ saves' = IndexSettled(saves, "done")
      ELSE /\ flush' = StartedFlush
           /\ UNCHANGED <<indexUpdated, saves>>

FlushRejected ==
    /\ indexUpdated' = "rejected"
    /\ flush' = Idle
    /\ saves' = IndexSettled(saves, "failed")

WriteContentsThenClear ==
    LET result == ConditionalWrite(backend, contents.revision, flush.index.revision)
    IN /\ flush.step = "write"
       /\ contents' = IF result.written
                        THEN [flush.index EXCEPT !.revision = contents.revision + 1]
                        ELSE contents
       /\ IF result.rejected THEN FlushRejected
          ELSE /\ indexUpdated' = "resolved" /\ flush' = Idle
               /\ saves' = IndexSettled(saves, "done")
       /\ pending' = {}
       /\ UNCHANGED <<backend, file, faults>>

WriteContents ==
    LET result == ConditionalWrite(backend, contents.revision, flush.index.revision)
    IN /\ flush.step = "write"
       /\ contents' = IF result.written
                        THEN [flush.index EXCEPT !.revision = contents.revision + 1]
                        ELSE contents
       /\ IF result.rejected THEN FlushRejected ELSE FlushDone
       /\ UNCHANGED <<backend, file, pending, faults>>

FlushFails ==
    /\ flush.step # "none" /\ faults < MaxFaults
    /\ FlushRejected
    /\ faults' = faults + 1
    /\ UNCHANGED <<backend, file, contents, pending>>

-----------------------------------------------------------------------------
(* Another client, which takes care of conflicts, updates contents.js.     *)
ForeignWrite ==
    /\ contents.foreign < MaxForeign
    /\ \E r \in NewRevisions(backend, contents.revision) :
          contents' = [contents EXCEPT !.foreign = @ + 1, !.revision = r]
    /\ UNCHANGED <<backend, saves, file, pending, indexUpdated, flush, faults>>

(* The program stops and starts again with what is on the file system.     *)
Crash ==
    /\ faults < MaxFaults
    /\ faults' = faults + 1
    /\ saves' = [k \in DOMAIN saves |->
                    [saves[k] EXCEPT !.file = IF @ = "waiting" THEN "lost" ELSE @,
                                     !.index = IF @ = "waiting" THEN "lost" ELSE @]]
    /\ pending' = {}
    /\ indexUpdated' = "resolved"
    /\ flush' = Idle
    /\ UNCHANGED <<backend, file, contents>>

CallDone ==
    \/ \E k \in 1 .. Len(saves) : FileWritten(k) \/ FileRemoved(k)
    \/ StatContents
    \/ ReadContents
    \/ WriteContents

VaultNext ==
    \/ \E i \in Items, kind \in {"save", "remove"} : SaveItem(i, kind)
    \/ CallDone
    \/ \E k \in 1 .. Len(saves) : FileFails(k)
    \/ FlushFails
    \/ ForeignWrite
    \/ Crash

VaultSpec == VaultInit /\ [][VaultNext]_vaultVars

-----------------------------------------------------------------------------
(* The flag and the promise of a flush agree with the flush that runs      *)
(* (indexUpdatePending is `flush.step # "none"' or a rejection), and an    *)
(* update of the index is always pending, in the flush or in the file,     *)
(* from the save until it is refused (agile_keychain.ts 522-606).          *)
VaultInv ==
    /\ VaultTypeOK
    /\ indexUpdated = "pending" <=> flush.step # "none"
    /\ indexUpdated = "resolved" => pending = {}
    /\ \A k \in 1 .. Len(saves) :
          LET i == saves[k].item
          IN /\ saves[k].index = "waiting" => indexUpdated = "pending"
             /\ saves[k].index \in {"waiting", "done"} /\ LastSave(i) = k =>
                   \/ contents.entry[i] = k
                   \/ saves[k].index = "waiting" /\ i \in pending
                   \/ saves[k].index = "waiting" /\ flush.step = "write" /\ flush.index.entry[i] = k

(* A save that was answered and is the last one of its item is what the    *)
(* vault holds, in the file and in the index, whatever other saves, other  *)
(* clients, failures and restarts there were: no update of the index is    *)
(* lost between the pending ones and the flush (agile_keychain.ts 522-606).*)
ResolvedSavesAreStored ==
    \A k \in 1 .. Len(saves) :
        LET i == saves[k].item
        IN Resolved(k) /\ LastSave(i) = k =>
              IF saves[k].kind = "save" THEN i \in ListedLive /\ file[i] = k /\ contents.entry[i] = k
              ELSE i \in ListedDeleted

(* Where conditional writes work, what another client has written to       *)
(* contents.js is not overwritten by a flush that did not see it           *)
(* (agile_keychain.ts 547-604).                                            *)
ForeignUpdatesSurvive ==
    [][backend = "dropbox" => contents'.foreign >= contents.foreign]_vaultVars

(* Every save is answered, and while no call has failed and no flush has   *)
(* been refused it succeeds (a removal may not: the file can be gone on a  *)
(* file system that does not say so): the loop of until() ends             *)
(* (agile_keychain.ts 522-539).                                            *)
Answered(k) ==
    /\ k <= Len(saves)
    /\ Settled(k)
    /\ faults = 0 /\ indexUpdated # "rejected" /\ saves[k].kind = "save" => Resolved(k)
VaultSavesAreAnswered == \A k \in 1 .. MaxSaves : Len(saves) >= k ~> Answered(k)
=============================================================================
