------------------------------ MODULE AppView -------------------------------
(***************************************************************************)
(* How the web app drives the syncer (src/webui/app_view.ts): unlocking    *)
(* the store starts a sync; saving an item saves it to the local store,    *)
(* then asks for a sync and reports 'Changes saved and synced' when the    *)
(* promise it got is fulfilled, whether or not items have failed.  Local   *)
(* items change only in this way; other devices change the cloud store as  *)
(* in Syncer.  The app's local store is the database of local_store.ts:    *)
(* LocalTakesTombstones is FALSE.                                          *)
(***************************************************************************)
EXTENDS Syncer

VARIABLES
  saving,   \* saved edits <<item, revision>> whose onSave has yet to ask for a sync
  waiting,  \* those that wait for the promise of the current sync
  shown     \* those reported as 'saved and synced', and whether an item of the
            \* sync had failed

appVars == <<vars, saving, waiting, shown>>

AppInit ==
  /\ Init
  /\ saving = {} /\ waiting = {} /\ shown = {}

OnUnlock == SyncItems /\ UNCHANGED <<saving, waiting, shown>>

OnSave(i, f) ==
  /\ EditItem(i, "local", f) \/ RemoveEntry(i, "local", f)
  /\ saving' = saving \cup {<<i, Latest("local", i) + 1>>}
  /\ UNCHANGED <<waiting, shown>>

Report(m) == [edit |-> m, allSynced |-> progress.failed = 0]

\* Faulty variant: the report does not wait for the sync.
SyncAfterSaveNoWait(m) ==
  /\ m \in saving
  /\ IF currentSync = "none" THEN SyncItems ELSE UNCHANGED vars
  /\ saving' = saving \ {m}
  /\ shown' = shown \cup {Report(m)}
  /\ UNCHANGED waiting

SyncAfterSave(m) ==
  /\ m \in saving
  /\ IF currentSync = "none" THEN SyncItems ELSE UNCHANGED vars
  /\ saving' = saving \ {m}
  /\ waiting' = waiting \cup {m}
  /\ UNCHANGED shown

\* The handlers of the promise: the syncer's own and those of the callers.
\* The count of failed items is not looked at; a rejection shows an error.
SyncSettled ==
  /\ ForgetSync
  /\ shown' = IF currentSync = "resolved" THEN shown \cup {Report(m) : m \in waiting} ELSE shown
  /\ waiting' = {}
  /\ UNCHANGED saving

AppCrash ==
  /\ Crash
  /\ saving' = {} /\ waiting' = {} /\ shown' = {}

OtherDevice(i) == UserChange(i, "cloud")

Background ==
  /\ \/ Listing
     \/ LateSave
     \/ \E i \in Items : StoreCall(i) \/ CallFails(i) \/ OtherDevice(i)
     \/ ListingFails
  /\ UNCHANGED <<saving, waiting, shown>>

AppNext ==
  \/ OnUnlock
  \/ \E i \in Items, f \in Fields : OnSave(i, f)
  \/ \E m \in saving : SyncAfterSave(m)
  \/ SyncSettled
  \/ AppCrash
  \/ Background

AppSpec == AppInit /\ [][AppNext]_appVars

\* Store calls return, and onSave goes on once its save is done.
AppFairness ==
  /\ WF_appVars(Listing /\ UNCHANGED <<saving, waiting, shown>>)
  /\ \A i \in Items : WF_appVars(StoreCall(i) /\ UNCHANGED <<saving, waiting, shown>>)
  /\ WF_appVars(SyncSettled)
  /\ WF_appVars(\E m \in saving : SyncAfterSave(m))

FairAppSpec == AppSpec /\ AppFairness

\* The user keeps unlocking the app, each time of which starts a sync.
RepeatedAppSpec == FairAppSpec /\ WF_appVars(OnUnlock)

-----------------------------------------------------------------------------
\* A change shown as 'saved and synced' has been synced, its revision is the
\* last-synced one or older, if no item of the sync has failed: syncs that are
\* shared, listings, failures and saves that land late do not get in between.
ShownMeansSynced ==
  \A report \in shown :
    report.allSynced => report.edit[2] <= lastSynced[report.edit[1]]["local"]

\* Every save is answered: what waits for a sync, shared with others or not,
\* is told how it ended.
SavesAreAnswered == (saving \cup waiting # {}) ~> (saving \cup waiting = {})

-----------------------------------------------------------------------------
\* What makes ShownMeansSynced inductive, together with what is invariant in
\* Syncer: an edit that waits for the current sync is one that the sync has
\* listed, or is still to list, unless the listing failed.
AppInv ==
  /\ \A m \in saving \cup waiting : m \in Items \X Nat /\ m[2] \in 1..Latest("local", m[1])
  /\ \A report \in shown : report.edit[1] \in Items /\ report.edit[2] \in Nat
  /\ \A m \in saving \cup waiting :
       currentSync \in {"pending", "resolved"} /\ "local" \notin unlisted =>
         m[2] <= listing["local"][m[1]].rev
  /\ ShownMeansSynced
=============================================================================
