# Passcards in TLA+

Passcards is a password manager for 1Password vaults: a browser app, browser
extensions and a command-line client over one library (`src/lib`).  Every
device keeps a copy of the vault in a local database and syncs it with the
vault in cloud storage.  This directory models the parts of the program whose
steps interleave, fail and get repeated, checks them with TLC, and proves the
invariants that matter most with TLAPS.

## 1. Inventory

State, operations, neighbours, difficulties and correctness of each component.
The complete list, with what is modelled, is in `PROJECT.json`.

| Component | State | Operations | Talks to | What is hard | What makes it correct |
|---|---|---|---|---|---|
| `CloudStoreSyncer` (`lib/sync.ts`) | current sync, progress, queue of changed items, what is being done to each item | `syncItems`, `syncKeys` | both stores, progress listeners | item syncs interleave with each other and with edits; each call may fail; a crash between save and record | counts add up, a sync ends, nothing is lost, stores converge, a reported success is one |
| Store contract (`lib/item_store.ts`, `temp_store.ts`) | revisions, last-synced pairs, keys | list, load, save, remove, get/set pair | syncer, views | removal leaves a tombstone that cannot be loaded | every save is a new revision; a pair names one revision |
| Item merge (`lib/item_merge.ts`, `base/diff.ts`) | none | `merge`, `mergeField`, `mergeSets`, ordered diffs | syncer | conflicts, order of lists, duplicates | what either side adds or removes is kept, the local side wins conflicts |
| Local store (`lib/local_store.ts`, `base/key_value_store.ts`) | database, cached index, index queue | the store contract | key agent, database | index and revision are separate writes; the cache is cleared on lock | the index names the latest revision of each item |
| `BatchedUpdateQueue` (`base/collectionutil.ts`), `Cached` (`base/cached.ts`) | pending updates, flushes; value, read in flight | `push`; `get`, `set`, `clear` | local store | pushes during a flush, failed flushes; reads racing with writes | nothing lost or reordered, every push answered; never a stale value |
| Key files (`lib/agile_keychain.ts`, `vfs/node.ts`) | `encryptionKeys.js`, `.password.hint`, the folders of a vault | `createVault`, `changePassword`, `loadKeys` | file systems, key agent, commands | several processes create one vault or change its password; files are written side by side and not atomically | one master key for good; an acknowledged change holds |
| Item format (`lib/agile_keychain.ts`, `item_store.ts`, `item_repair.ts`) | the `.1password` file, item objects | conversions, `updateTimestamps`, `updateOverviewFromContent`, `repairItem` | vault, views | objects older than the file, other clients, seconds of 32 bits | what is not edited is kept; what is written is read back |
| Event streams (`base/event_stream.ts`) | listeners and their contexts | `listen`, `ignore`, `publish` | stores, syncer, views | listeners that listen, ignore and publish | a publish reaches exactly the listeners there were |
| Vault (`lib/agile_keychain.ts`) | item files, `contents.js`, pending index updates, keys | the store contract | file systems, key agent | index flushes shared by saves; failures half way | the index agrees with the files once saves are done |
| File systems (`lib/vfs/*`) | files and their revisions | read, conditional write, list, remove | vault | write conflicts | a conflicting write changes nothing |
| Key agents (`lib/key_agent.ts`, `cli/agent*.ts`) | keys, auto-lock timer; agent process and PID file | add, list, forget, en/decrypt, auto-lock | stores | timers racing with use; agent start and stop | keys are gone in time and not before; one agent |
| RPC (`lib/net/rpc.ts`) | pending calls, handlers, timers | `call`, `on`, `onAsync` | extension pages | late, lost and doubled replies | one answer per call |
| App state (`webui/stores/app.ts`), views (`webui/app_view.ts`) | store, syncer, items, selection, lock | `update`, `refreshItems`, `onUnlock`, `onSave` | syncer, stores | answers that arrive after a lock or a change of store; a shared sync | what is shown is what the store holds; what is reported as synced is |
| List and details views (`webui/item_list_view.ts`, `details_view.ts`) | filter, focus, selection; the edited copy and its content | search, open, edit, save, cancel, autofill | app state, store, page | the views keep objects that were listed or loaded earlier | saved edits survive, cancelled ones do not |
| Page access (`webui/autofill.ts`, `browser_access.ts`, `page.ts`) | ports of tabs; the fields last listed in a document | `findForms`, `autofill` | RPC, tabs | pages that go away, several scripts in one page | a value goes into the field that was listed for it |
| Setup and sign-in (`webui/setup_view.ts`, `auth*.ts`) | stack of screens, sign-in windows, the token left by one | push, pop, `authenticate`, `createVault` | file systems, settings | timers and polls; a reload or failure at any point | no dead end; a sign-in that was finished counts |
| Command-line client (`cli/cli.ts`, `edit_cmd.ts`) | one process for each command | unlock, show, edit, lock, set-password | agent process, vault | agents that start, die and get replaced | every command ends |
| Icons and site info (`webui/item_icons.ts`, `lib/siteinfo/*`) | caches, running lookups | `query`, `lookup`, `forget`, `extractLinks` | HTTP | lookups racing with `forget` and fallbacks; tags as authors write them | a query ends with an icon or none; links are found |
| Cryptography, image decoding, search, password generation, rendering, build | none or local | pure functions, I/O | | bit-level or visual | not modelled, see section 8 |

`PROJECT.json` lists the hazards at the lines where they bite and the property
that catches each, or why none does yet.

## 2. Modules

| Module | Models | Role |
|---|---|---|
| `Syncer` | `sync.ts` over two stores that behave as `temp_store.ts`, or a local one that refuses tombstones as `local_store.ts`; `item_merge.ts` | the core: state, actions, properties, inductive invariant; implements `Replication` |
| `Replication` | what `CloudStoreSyncer` promises for the items | abstract specification: two stores of items, each of which is synced in one step |
| `MCSyncer` | | small instances of `Syncer`, with merges that throw |
| `SyncerProofs` | | theorems about `Syncer` and `AppView` |
| `AppView` | `app_view.ts`, `onUnlock` and `onSave` | composes the app's callers with `Syncer`; each local edit comes from an `onSave` |
| `MCAppView` | | small instances of `AppView` |
| `UpdateLog` | what `BatchedUpdateQueue` promises | abstract specification: accepted updates, and how many are processed |
| `UpdateQueue` | `BatchedUpdateQueue` (`lib/base/collectionutil.ts`) | pushes, batches, failures; implements `UpdateLog` |
| `Cached` | `Cached` (`lib/base/cached.ts`) | a part of `LocalStore` |
| `LocalStore` | `lib/local_store.ts` | composes `UpdateQueue` (the index updates) and `Cached` (the index) with the database, locks and crashes |
| `LocalStoreProofs` | | theorems about `LocalStore` |
| `FileSystem` | `lib/vfs/node.ts`, `dropbox.ts`, `http.ts` | outcomes of conditional writes and removals, as operators |
| `Vault` | `saveItem`, the index flush and the listings of `lib/agile_keychain.ts` | over any of the three file systems, with another client, failures and crashes |
| `VaultProofs` | | theorems about `Vault` |
| `Merge` | `lib/base/diff.ts`, `mergeSets` of `lib/item_merge.ts` | a function, run in two steps over all small inputs |
| `KeyAgent` | `SimpleKeyAgent` (`lib/key_agent.ts`) | keys and the auto-lock timer |
| `AgentServer` | `cli/agent_server.ts`, `cli/agent.ts`, `cli/cli.ts`, `cli/edit_cmd.ts` | the agent process and the commands that use it; extends `KeyAgent`, which is the other agent a client may have |
| `AgentProofs` | | theorems about `KeyAgent` and `AgentServer` |
| `CommandLine` | | `Vault` and `AgentServer` side by side |
| `SignIn` | `webui/auth.ts`, `auth_receiver.ts` | a part of `Setup` |
| `StoreKeys` | `syncKeys`, `saveKeys`, `getKeys`, `unlockStore`, clearing the storage | a part of `Setup` |
| `Setup` | `webui/setup_view.ts`, `auth_dialog.ts`, `createVault`, `initAccount` | composes the two with the wizard |
| `Rpc` | `RpcHandler` of `lib/net/rpc.ts` | a part of `Page` |
| `Page` | `webui/autofill.ts`, `browser_access.ts`, `page.ts` | fills of pages by calls to the scripts in them |
| `ItemViews` | `webui/item_list_view.ts`, `details_view.ts`, and what `app_view.ts` does for them | composes the views with `Page` |
| `Icons` | `webui/item_icons.ts`, `lib/siteinfo/client.ts` | provider, controls, client of the lookup service |
| `SiteInfo` | `SiteInfoService` and `IconFetcher` (`lib/siteinfo/service.ts`) | lookups, their requests and results |
| `PageLinks` | `PageLinkFetcher` of the same file | the tokenizer and the loop over the tags of a page |
| `EventStream` | `lib/base/event_stream.ts` | listeners that call the stream while it publishes |
| `MasterKeys` | `createVault`, `changePassword`, `loadKeys`, `writeKeys` of `lib/agile_keychain.ts`, `mkpath` and `write` of `vfs/*`, the commands of `cli/cli.ts` that use them | processes that share the key files of one vault |
| `ItemFormat` | the conversions of `lib/agile_keychain.ts`, `Item` of `lib/item_store.ts`, `item_repair.ts`, `dateutil.ts`, `BiDiMap` | apps and another client that write the file of one item |
| `Panel`, `MCPanel` | | `ItemViews` and `Icons` side by side, and a small instance of them |
| `WebProofs` | | theorems about `Setup`, `StoreKeys`, `ItemViews` and `Page` |
| `Keychain`, `MCKeychain` | | `ItemFormat` and `MasterKeys` side by side, and the contents that are tried |
| `KeychainProofs` | | theorems about `ItemFormat` and `MasterKeys` |
| `Library`, `MCLibrary` | | `UpdateQueue`, `EventStream`, `Merge`, `PageLinks` and `SiteInfo` side by side, and the site and pages that are tried |
| `LibraryProofs` | | theorems about `UpdateQueue`, with the refinement, `SiteInfo` and `EventStream` |
| `AppSession` | `webui/stores/app.ts`, account changes in `webui/app.ts`, `app_view.ts`, `unlock_view.ts` | log in, unlock, list, edit, lock, switch account |
| `AppSessionProofs` | | theorems about `AppSession` |
| `WebApp` | | `Setup` and `AppSession` side by side |

### State and code

| Variable of `Syncer` | In the code |
|---|---|
| `revisions[s][i]` | all contents store `s` has had for item `i`; the last one is current, an empty sequence is an item the store does not know |
| `lastSynced` | `lastSyncedRevisions` of the local store, `NoPair` when the map has no entry |
| `currentSync` | the deferred of the same name: none, pending, or settled while its handlers still have to run |
| `progress`, `syncQueue` | `syncProgress`, `syncQueue` |
| `listing`, `unlisted` | the results of the two `listItemStates` calls, and which are outstanding |
| `task[i]` | the closure of `syncItem` for item `i`: the listed states, the revisions loaded and saved, the calls outstanding |
| `late` | saves that nobody waits for any more and that may still take effect |
| `edits`, `faults` | bounds |

The program is single threaded, so one action is one store call taking effect
together with the callbacks that its return runs: `ListItemStates`,
`ListingDone`, `LoadItem`, `MergeAndSyncItem`, `SaveItem`,
`SetLastSyncedRevision`, and their failures.  `ItemDone` is `itemDone` with the
progress listener it publishes to, and `Advance` is that listener: it ends the
sync or starts the next batch in the same step, as the code does.  A settled
promise runs its handlers in a later turn, hence `ForgetSync`.

An item is a set of fields and a tombstone flag.  Some of the fields are `Entries`:
sections, URLs and form fields, which `mergeSets` matches by their keys.  The others are
merged by `mergeField`.  Timestamps, keys and encryption are left out: no property tells
them apart.  Every user edit writes a value never used before, so that two equal values
are always the same edit; the removal of an entry writes its negative.  An item is
created in one store only, as its UUID is random.  `MergeEntry` is what becomes of an
entry: `mergeSets` compares entries as objects, and those of two versions that were
loaded are never the same, so that one both have is the first version's, and only
additions and removals are merged.  Which merges throw (`diff.ts:226`) is the parameter
`MergeThrows`; in the runs, those with a `Groups` entry, which stands for four adjacent
ones, that one side has removed.  `LocalTakesTombstones` tells the two local stores
apart: that of the app asserts `createdAt` (`local_store.ts:245`, `304`), which a
tombstone of `createTombstone` does not have.

Tombstones have no revision (`createTombstone`), loading a removed item is
refused, and a merge reads its base with `loadItem(uuid, revision)`, which is
refused too once the item was removed: `HasBase`.

`Replication` knows none of that: `copies` are the items of the two stores, `base`
is what both had when they last agreed, and `Sync(i)` merges, copies, removes or
restores an item in both stores and the base at once.  `Syncer` maps to it by
`Copies` and `SyncedCopies`.  A sync lists, loads, merges, saves and records an item
in steps of their own that interleave with those of other items.  While it does, the
mapping shows the revision it has listed (`Before`), so that the step that records
the pair, or removes it, is the one that the abstract item takes, and all others are
invisible.  A task that fails or is cut short before it saves anything is a step that
does nothing.

`AppView` adds what `onSave` does: save, ask for a sync, report.  A call during
a sync shares its promise, so an edit that asks for a sync waits for one that
may have listed the items before the edit.

`UpdateQueue` keeps what `BatchedUpdateQueue` keeps: the pending updates,
whether `nextFlush` exists, and the state of the promise `currentFlush`.
`batch` and `processed` are the updates that were handed to `updateFn`.  What a
batch does is left open: in `UpdateQueue` it ends well or badly, and in
`LocalStore`, which takes the actions `Push`, `StartFlush`, `FlushDone` and
`FlushFails` from it, it is `updateIndex`.

In `LocalStore` an operation is one call of `saveItem` or
`setLastSyncedRevision`, and a revision is named after the call that made it.
The two writes of a save are two actions (`IndexWritten` for a whole batch,
`RevisionSaved`), since the database runs them side by side.  An index entry
takes the revision that the item object carries when the index is updated
(`EntryOf`), which for an object that was saved again in the meantime is a
later one, and the revision is written under that name too; a sync has an object
of its own.  A user who edits a copy of an item that has not been listed again
since its last save is left out.  A lock clears the cached index but
neither a read that is under way nor a write.

`KeyAgent` has discrete time: a timer is the time it has left, and `Tick` cannot
pass a timer that is due.  `timers` is what the event loop holds and
`lockTimeout` what the agent knows of, so that a timer the agent has lost track
of still fires.

In `AppSession` every login makes a session, with a store object whose index is unread,
asked for, being decrypted, cached or, when there was no key for it, rejected, which
`Cached` keeps for good.  `listing`, `unlocking`, `debounced` and `saving` hold what is
under way and for which session.  Nothing ends it: what is done in another session than
its own is marked as `late`, in the list, the items and the databases it gets into.

In `Vault` a save is known by its number, which stands for the content it writes.
`flush` is the chain of `stat`, `read`, `write` that all waiting saves share, and
`indexUpdated` the promise they wait for; `IndexSettled` is a turn of the loop of
`until`.  The file system is chosen in the initial state, so that one run covers
the one whose conditional writes work and the two whose do not.

`Merge` enumerates its inputs in `Init`.  Which longest common subsequence a diff keeps is
the library's choice (`adiff`), so `KeptByDiff` allows every one, and with some of them
the assertion of `diffSets` throws (`DiffThrows`).  Labels stand for the keys of URLs,
sections and fields.

In `AgentServer` each command is a process that walks through its steps, and the
user runs one when the others are past their start (`StartsOverlap`).  `pidFile`,
the servers and what they hold are the shared state.  An agent may die at any time,
and a version check may find another version on the port.

In `Setup` the wizard is `screenStack` and `currentScreen` with the pushes whose
timer has not run, and everything that answers to it: the sign-ins of `SignIn`, the
account information, the search, the creation of a vault.  An account that is
selected opens a session of `StoreKeys`, in which each call of `syncKeys` is a list
entry that goes through its steps.  `Reload` keeps what the browser keeps: the
database, the token, the settings.

`Page` numbers the documents that get loaded.  A message is on the `wire` until
somebody receives it, which may be several scripts or nobody.  `asked` is what
`page.ts` keeps in `lastFields`: the document and fields that the last
`find-fields` listed.  `ItemViews` identifies an item's content with the set of
changes made to it, so that a change lost or one that was cancelled can be seen in
what is stored.  A tab has a script for every time the panel was shown over it, up to
`MaxScripts`, and the window may have no active tab.

In `SiteInfo` an update has no reference to its result: as in the code it finds it
under its URL when a request ends.  `told` is what a listener has read when the last
event came.  In `PageLinks` a page is written from its tags (`Text`), with the spaces
and quotes its author chose, so that what the scanner finds can be compared with what
was written; `turns` counts the turns of the loop, so that one that changes nothing
is a step all the same.

`WebApp`, `CommandLine`, `Panel`, `Keychain` and `Library` put parts that share no state
side by side: `part` says which of them a behaviour is one of, and the others stay as they
are at the start.  Interleaving them would multiply the states and show nothing more.  Of
`Setup` a session needs only that an account gets opened, which `Login` of `AppSession`
stands for.

`EventStream` keeps every array of listeners there has been, since a `forEach` goes
on with the one it began with; `publishes` is the stack of publishes that run.

In `MasterKeys` a command is a process: it makes folders one by one on disk and all
at once in the cloud, asks for passwords, and writes its files side by side.  A
master key is named after the command that generated it.  `keyFile` is what a reader
gets, which is nothing while the file is open for writing.

`ItemFormat` has the file of one item and an object for each app.  Of the data that
are only copied the folder stands for all; the rest of the content is there with its
conversions.  An app waits for one save before the next; between the time its content
has been read or taken (`SaveItem`) and the write (`WriteFile`) others may write.

## 3. Properties and runs

| Run | Instance | Checks |
|---|---|---|
| `syncer_progress` | 3 items (symmetric), 1 entry whose merges may throw, batch of 2, 3 edits anywhere at any time, 1 failure of any kind or crash | `ProgressAddsUp`, `LastSyncedRevisionsExist`, `CompletedSyncCoversListing` |
| `app_live` | the app's database; 1 item, 1 value and 1 entry whose merges may throw, 3 edits at any time, 1 failing list or load, or a restart in a sync before or after an item is saved and recorded | `StoresConverge`, `SyncsSucceedAgain`, `SavesAreAnswered` |
| `app_quiet` | the app's database; 1 item, 1 value and 1 entry whose merges may throw, 3 edits in the app and on other devices between syncs, 1 failure of any kind or crash | `ShownMeansSynced` |
| `sync_atomic` | 2 items (symmetric), 1 value and 1 entry, 4 edits in both stores between syncs, 1 failing list or load, or a restart in a sync before an item is saved or after it is recorded | `SyncsAreAtomic` (the refinement of `Replication`), `SyncsRespectEdits` |
| `cloud_edits` | 1 item, 1 value and 1 entry, 3 edits between syncs, no failure | the finding of section 4 |
| `store_calls` | 2 items, 3 calls, 1 crash or lock | `IndexIsTrue`, `IndexMovesForward`, `CallsEndUnlessIndexFails` |
| `command_line` | 2 items, 3 saves or removals, 1 write by another client, 1 failure or crash, 3 file systems; or 2 keys, timeouts 0, 2, 3, 4 in the app, 2 commands and a timeout of 2 with the agent process | `ForeignUpdatesSurvive`, `VaultSavesAreAnswered`, `ResolvedSavesAreStored`, `LockedWhenDue`, `UnusedKeysAreForgotten`, `CommandsEnd` |
| `web_app` | the setup with 2 keys, 2 copies of the keys, 2 sign-ins, 1 failure, 1 reload; or sessions of 2 accounts with 2 saves in each, 1 lock, 2 logins | `AccountsStaySeparate`, `ListCatchesUp`, `NeverStranded`, `SyncedKeysAreComplete`, `FinishedSignInsListStores`, `KeysArrive` |
| `panel` | 2 items, 2 changes, 4 acts of the user; 2 tabs, 3 documents, 2 scripts in each, 2 fills; 2 icon controls, 3 URLs, 1 restart | `CancelledEditsAreNotSaved`, `FillsFitThePage`, `SavedEditsSurvive`, `FillsEnd`, `IconsSettle` |
| `merge_diffs` | arrays of up to 4 distinct labels | the finding of section 4 |
| `keychain` | 2 apps (symmetric) and another client, 3 contents, 3 writes, 4 points of time in half seconds; or 3 commands, 2 passwords, 3 folders, 3 file systems, 1 failure or crash | `OneMasterKey`, `CommandsAreTrue`, `RewritesKeepContent`, `SavesAreReadBack`, `StoredTimesAdvance` |
| `library` | 4 pushes, 1 failing batch; or 2 callbacks, 2 contexts, 3 calls of `listen`, 2 of `ignore`, publishes 2 deep; or arrays of up to 4 distinct labels and of up to 3 repeated ones; or pages of 1 or 2 tags with 2 attributes, 6 values, 3 kinds of quotes and 3 of spacing, and pages cut off in a tag; or 2 pages of one host, 3 icons, 2 lookups, failing requests | `ProcessedInOrder` (the refinement of `UpdateLog`), `PublishReachesAll`, `MergeTakesBothSides`, `LinksAreFound`, `ReadyIsComplete`, `LookupsGetReady` |

* `ProgressAddsUp`: each changed item is counted exactly once; at most
  `MaxActive` are active; an unfinished sync always has one that is, so it
  cannot stall.
* `CompletedSyncCoversListing`: a sync without failed items has brought every
  listed revision into a recorded pair, or the item was deleted.
* `LastSyncedRevisionsExist`: no failure leaves a pair that names a revision
  that is not there.
* `SyncsAreAtomic`: whatever the interleaving of the calls of a sync, each item is
  synced as if in one step, by the rules of `Replication`: a value that was changed
  locally stays, any other is that of the cloud; entries that either side has added or
  removed are added or removed, and one that both have is the local one if both items
  were changed; a local removal is final, and a removal in the cloud is undone by a
  local change.
* `SyncsRespectEdits` has two parts.  `UnsyncedLocalEditsSurvive`: the syncer does not
  overwrite a field the local user has changed since the last sync, unless it is an entry
  that the cloud adds or removes.  `NoStaleValueReturns`: a value that was replaced in a
  store is not written back there, but for an entry in the cloud that falls back to what
  it was when the item was last synced (`FallsBack`), which is the finding.
* `StoresConverge`, `SyncsSucceedAgain`: when the users and the failures stop and syncs
  are repeated, the stores agree for good on every item, and syncs fail for none, except
  those that are `Unsyncable`: removed in the cloud, which the app's database refuses, or
  merged by a merge that throws.
* `ShownMeansSynced`: what the app reports as synced is, if no item of that sync failed;
  the app itself does not look at the count of them (section 4).  `SavesAreAnswered`:
  every save is told how its sync ended.
* `ProcessedInOrder`: updates are processed in the order of the pushes, none
  skipped and none twice.
* `LockedWhenDue` (`LockedInTime` and `LockedOnlyWhenIdle`): no key outlives the timeout,
  and no user who is active is locked out.
* `IndexIsTrue` has three parts.  `AcknowledgedSavesAreIndexed`: a save that has been
  answered is in the history of what the index names, whatever the crashes and the
  batches.  `CacheIsCurrent`: between two batches the cached index is the stored one.
  `IndexedRevisionsExist`: once all calls have ended the index names revisions that
  are there.
* `IndexMovesForward`: the index replaces a revision only by one made from it.
* The two above are stated for a vault that is not locked while the store works
  (`NeverLocked`); section 4 says what a lock does to them.
* `CallsEndUnlessIndexFails`: also when the vault is locked under it, a call ends
  unless writing the index failed, after which the queue is stuck for good.
* `AccountsStaySeparate`: items of another account are shown only when their list, or the
  list they were selected from, arrived after the account had changed
  (`ForeignItemsAreLate`); an app without the key of its store is unlocked only by an
  unlock of an earlier account that ends late (`UnlockedHasKeys`); and an item gets into
  another account's database only by such a list or a save that was still delayed at the
  change (`ItemsStayInTheirStore`).  So nothing but late work mixes accounts, and section
  4 shows that late work does.  `ListCatchesUp`: while an account stays open and
  unlocked, its list ends up with what its store holds, unless reading its index has
  failed or a late unlock or list came in between.
* `UnusedKeysAreForgotten`: the agent process holds no key longer than its timeout
  after the last use; `CommandsEnd`: every command ends, whether the agent it found
  was alive, dead, of another version, locked by another command or killed under it.
* `ResolvedSavesAreStored`: a save that was answered and is the last of its item is
  in the file and in the index, although its index update was flushed by another
  save's flush or by one started later.  `VaultSavesAreAnswered`: the loop that waits
  for it ends.  `ForeignUpdatesSurvive`: a flush does not undo what another client
  wrote meanwhile.
* `NeverStranded`: the wizard shows a screen of its stack, and one without buttons
  only while something is coming.  `FinishedSignInsListStores`: a sign-in the user
  has finished leads to the list of stores.  `SyncedKeysAreComplete`, `KeysArrive`:
  copies of the keys that overlap leave all keys in the database, unless one of them was
  cut off that had keys to remove, and the keys of an
  account that was opened get there.
* `SavedEditsSurvive`, `CancelledEditsAreNotSaved`: in whatever order items are
  opened, edited, saved, cancelled and left.
* `FillsFitThePage`: what is filled goes into a visible field of the right kind in
  the document whose fields were listed.  `FillsEnd`: also if nobody answers, except a fill
  whose window lost its active tab between the two calls (section 4).
* `IconsSettle`: in the end every control shows what is known of its location.
* `MergeTakesBothSides`: a merge has the members that a merge of sets has
  (`MergesMembers`), and if one side is unchanged and the other only adds, or only
  removes up to three entries, it is that side (`OneSidedChangesAreTaken`).
* `ReadyIsComplete`: a result is declared ready once and has all icons received for
  it.  `LookupsGetReady`: also if the page or icons fail.
* `LinksAreFound`: whatever surrounds a value and a tag, and no turn of the loop is
  repeated for ever.
* `PublishReachesAll`: each listener that was there when a publish began is called
  once and in order, and no other, whatever they do to the list.
* `OneMasterKey`: what one command encrypts any other can decrypt.
  `CommandsAreTrue`: a command that finds the vault being created gives way only to
  one that creates it (`CreationsYieldToOne`), and keys, hint and contents are those
  of the last command that reported success (`AcknowledgedChangesHold`).
* `RewritesKeepContent`, `SavesAreReadBack`: content goes through the file unchanged in
  both directions, and overviews agree with it.  `StoredTimesAdvance`: a save of an
  object that is up to date stores a later time, in whole seconds, though the clock may
  be set back.

Each property is broken by one plausible defect of the code, written in the
modules as a "faulty variant" next to the definition it would replace.

### Bounds

In `Syncer` `MaxEdits` and `MaxFaults` bound users and failures, and nothing else is bounded.
A conflict
with a base takes three edits (create, one edit on each side), and a fourth shows what the
recorded pair makes of it, which is why `sync_atomic` has four; there two items
interleave, and a field can be changed again on the side that the last sync took it from.
A value and an entry are the two ways in which a field is merged, and together they let
both sides change an item without conflict.  Three items over a batch of two are the
smallest instance in which an item waits in the queue while another finishes or fails.
Items do not influence one another except through the counts and the queue, so one item is
enough for properties of contents.  Model checking stops when no edits are left and a sync
has nothing to do only by starting another sync, so that no state is a deadlock.

Four pushes let two updates wait for a batch of one while a fourth is still to come, and
one failing batch is as good as many, since it is the last.  Three calls on the local
store are two edits of one item with a record or another item's update in the same or the
next batch.  `History` follows a revision to the ones it was made from, so three calls
also let a revision be two steps old.  The timeouts 2 to 4 with up to six steps of idling
let a timer be restarted with a longer and a shorter timeout before it fires.  Two
accounts and two logins are one change of account, or one account opened twice, with all
that may be late in the second session; one lock lets a read of the index fail or end
after it.

Three saves in the vault are one whose index update waits for a flush, one that is
on the list of that flush, and one that arrives after the list was cleared; a second
item lets one of them be another file's.  Four labels are the least with which the
positions of a diff go wrong, and three repeated ones the least that make
`uniqueKeys` endless; positions in longer arrays are adapted in the same way.  Two
commands are one that starts the agent and one that finds it, and a timeout of two
steps lets a use fall between its start and its end.  Two sign-ins and two copies of
the keys overlap; one failure is enough to leave each chain of calls half way.  In
the panel two changes let one be cancelled after or before the other was saved, two
fills meet in one page or in two tabs, two scripts in a tab answer one request twice, and
three URLs are two sites with one
fallback.

Two lookups of one host share nothing but the cache, and three icons let a standard
path and a link name the same one.  In `PageLinks` a tag can only disturb the next
one, and the values include the characters the tokenizer looks for.  Three calls of
`listen` with an `ignore` before and in a publish are the least in which a listener
could be skipped or called late.  Three commands are two that create a vault and one
that uses it; three folders let the two meet on the way and at the end.  Three writes
of an item let an app save over what it has read, over what another has written since,
and then once more; two ticks to a second let a save fall within one.

`ForgetsDuringUpdate`, `ChangesOverlap`, `EditsDuringSync`, `FaultKinds`,
`RecordsOverlap`, `SetOnlyIdle`, `StartsOverlap`, `Patient`, `WaitsForFills` and
`Unhurried` choose the regime.  They are constants of the model and not simplifications of
it: the same properties checked outside their regime are what section 4 lists.

### Fairness

`AnswerFairness` says that every store call is answered (by a result or, in `StoreCall`,
by a refusal of the store), that promise handlers run, and that a save that is still under
way ends.  The event loop and request timeouts of the stores give this.  Nothing is
assumed of users, failures or crashes. In `LocalStore` `AnswerFairness` says that the
database answers and callbacks run, and `FairSpec` that a locked vault is unlocked again,
without which nothing can be read.  In `AppSession` debounce timers fire, an index that
was asked for is decrypted or refused, and a save that cannot be made fails (`AppStep`);
users, unlocks and the end of the delay of a save owe nothing (`FairWebAppSpec` of
`WebApp`, which also states the fairness of `Setup`). `RepeatedAppSpec` adds that syncs
keep being started, which the app does at every unlock and save.  In `CommandLine` the
file system of `Vault` answers (`CallDone`), and commands and agent processes go on, one
by one; a prompt counts as a step of the command, so that `CommandsEnd` assumes a user who
answers it.  In `Setup` timers, polls and the steps of a copy of the keys go on, one by
one; the user, the sign-in window and the unlock owe nothing.  In the panel messages,
timers, reads and requests of scripts go on. In `SiteInfo` requests end, by a reply or a
failure (`RequestsEnd`).

## 4. Findings

* **`cloud_edits`**: a change of an entry that was made in the cloud only is lost when the
  item was also changed locally.  `mergeSets` passes the entries themselves to
  `mergeField` (`item_merge.ts:106`), which compares them as objects; those of two loaded
  versions are never identical, so that the branch for a value "unchanged, or only
  changed in item 'b'" (`item_merge.ts:21-23`) is never taken.  The local entry, which is
  the last-synced one, is saved to the cloud: a password that was changed on another
  device while the title was changed here is the old one again, everywhere.
* **`merge_diffs`**: `patch` does not apply every diff that `diffSets` makes.
  `transformPatch` compares the position of an applied change with a position that it
  has adapted already (`diff.ts:170`), so that an earlier change may stop counting.
  The removal of four adjacent entries throws, and merging an item with it fails.

The passing runs keep to regimes in which their properties hold, and some properties
name what the code does not promise.  With other constants, or without such an
exception, the same modules show where the properties end:

| Module and constants | Property that fails | Because |
|---|---|---|
| `Syncer`, any | `PairNamesSameContent` | after a merge the recorded cloud revision is the one read before it, not the merged one that was saved (`sync.ts:486-490`, `599-602`); the next sync downloads what it has just uploaded |
| `AppView`, `EditsDuringSync = TRUE` | `UnsyncedLocalEditsSurvive` | a local edit between the listing and the save of a downloaded item is overwritten without a merge (`sync.ts:576`) |
| `AppView`, any | `ShownMeansSynced` without `allSynced` | a sync of which items have failed resolves all the same, and `onSave` does not look at the count of them (`app_view.ts:315`): "Changes saved and synced" |
| `AppView`, `LocalTakesTombstones = FALSE` | `StoresConverge`, `SyncsSucceedAgain` without `RemovalIsRefused` | an item removed on another device stays in the app, and every sync counts it as failed (`local_store.ts:304`) |
| `AppView`, any merge that throws | `StoresConverge`, `SyncsSucceedAgain` without `MergeIsRefused` | the merge throws again in every sync |
| `AppView`, `EditsDuringSync = TRUE` | `ShownMeansSynced` | an edit saved during a sync shares the promise of that sync, which had listed the items before (`sync.ts:150`) |
| `Syncer`, `FaultKinds = {"crash"}` | `SyncsSucceedAgain` | a crash between saving and recording an item leaves both sides "added", and the merge has no base (`sync.ts:511`) |
| `Syncer`, `FaultKinds = {"save"}` | `StoresConverge` | a save that was given up lands late and undoes a newer one |
| `Syncer`, `FaultKinds = {"crash"}` | `NoStaleValueReturns` | the last pair is older than what the stores hold |
| `LocalStore`, an index that could not be written | `CallsEnd` | after a batch that failed no update is processed and no push answered (`collectionutil.ts:271`) |
| `KeyAgent`, `SetOnlyIdle = FALSE` | `LockedInTime`, `LockedOnlyWhenIdle` | a timeout set while keys are held without a timer starts none, and disabling it lets a running timer fire (`key_agent.ts:190-214`); the app sets it only when it starts |
| `LocalStore`, `RecordsOverlap = TRUE` | `IndexMovesForward` | recording a synced revision writes the index entry of the item the sync had loaded, and takes a newer edit out of the index (`local_store.ts:436`) |
| `LocalStore`, with locks | `ReadsSucceed` | a read of the index that fails because the vault was locked under it is the answer to every later read (`cached.ts:30-35`) |
| `LocalStore`, without `NeverLocked` | `CacheIsCurrent`, `AcknowledgedSavesAreIndexed` | a read started after a lock and an unlock caches the old index under a write |
| `LocalStore`, without `NeverLocked` or with crashes | `IndexedRevisionsExist` | the index and the revision are separate writes, and one of them can be missing |
| `AppSession` | `ItemsAreFromStore` | the answer to a list asked of one account's store is shown in the next account (`stores/app.ts:124`) |
| `AppSession` | `UnlockedHasKeys` without `unlockedLate` | an unlock that ends after a change of account unlocks the next one in the app's state, without its key (`app_view.ts:160`) |
| `AppSession` | `ItemsStayInTheirStore` without `late` | an edit is saved in the store that is open a second later (`app_view.ts:308`) |
| `AppSession` | `ListCatchesUp` for a `rejected` index | a read of the index that fails under a lock is the answer of `Cached` from then on, and the list stays as it is until the next login (`cached.ts:30-35`, `stores/app.ts:126`) |
| `Page`, a window without an active tab | `FillsEnd` without `Unconnected` | `autofill` does not catch the rejection of `connectToCurrentTab`, and its promise never settles (`browser_access.ts:269-275`) |
| `Merge` | `SecondChangesAreTaken` | `mergeField` compares entries as objects, and those of two versions that were loaded are never the same, so that a change of an entry in the second version is dropped (`item_merge.ts:25-27`) |
| `Merge`, more than adding or removing | `OneSidedChangesAreTaken` | `[1, 2]` patched to `[2, 3, 4]` is `[2, 4, 3]` |
| `Vault`, `backend` other than Dropbox | `ForeignUpdatesSurvive` | a conflicting write is rejected and made all the same (`node.ts:114`), or the option is dropped (`http.ts:114`) |
| `AgentServer`, `StartsOverlap = TRUE` | `CommandsEnd` | of two commands that start, one waits for a PID file written before it looked, or kills the other's agent (`agent_server.ts:207-252`) |
| `AgentServer`, any | `CommandsEnd` without its exception | a change of the password that fails is logged and never answered (`cli.ts:450-452`) |
| `Setup`, any | `NeverStranded` without its exception | `Sign Out` pops, pushes and pops on one state, and the timer of the push moves on to the screen of the last login (`setup_view.ts:914-927`) |
| `Setup`, `Patient = FALSE` | `NeverStranded` | a second click before the timer of the first moves past the end of the stack |
| `Setup`, another flow polling | `FinishedSignInsListStores` | the flow of a cancelled dialog takes the token, whoever it is for (`auth.ts:194-220`) |
| `ItemViews`, `Unhurried = FALSE` | `SavedEditsSurvive`, `CancelledEditsAreNotSaved` | the view goes back to the content it had fetched, and an edit made within a second after a save is part of it, cancelled or not (`details_view.ts:351`, `app_view.ts:302`) |
| `Page`, `WaitsForFills = FALSE` | `FillsFitThePage` | each of the two calls of a fill takes the tab that is active then, and the scripts keep the fields of the last fill only |
| `Page`, a page with a shown text field named `password` and no field for the account | `FillsFitThePage` | the field is taken for both: it is filled with the password by its name, and with the account as the first text field of a form without one (`autofill.ts:56-125`) |
| `SiteInfo`, `ForgetsDuringUpdate = TRUE` | `ReadyIsComplete` | the old update finds the new result under its URL, fills it and declares it ready (`service.ts:326`, `334`) |
| `MasterKeys`, `ChangesOverlap = TRUE` | `AcknowledgedChangesHold` | two commands that change the password write the two files side by side (`agile_keychain.ts:368-381`, whose comment admits it) |
| `PageLinks`, values that are just `=` or a bracket in quotes, or have `=` without quotes | `LinksAreFound` | the parser looks at tokens after their quotes are gone (`service.ts:487-506`) |
| `PageLinks`, quotes that are escaped in a value | `LinksAreFound` | `unquote` adds 2 to an index that the loop adds 1 to, and drops the character that follows (`service.ts:532`), against its own example (517-521) |
| `ItemFormat`, `TimestampLimit = 3` in place of 128 | `StoredTimesAdvance` | `unixTimestampFromDate` wraps, with its 32 bits after 2^31 seconds (`dateutil.ts:12`), and the stored time goes back |
| `ItemFormat`, kinds of fields not in the maps | `RewritesKeepContent` | the kind becomes `null`, and is saved so (`agile_keychain.ts:151`) |
| `Icons`, two URLs of a host | `IconsSettle` | the second one asked for during a lookup is never told of its result (`client.ts:98-102`) |

## 5. Theorems

Every theorem is proved for all values of the constants that satisfy the named
assumptions of its module.  Where a property holds in one regime only, the theorem
assumes that regime, which is the one of the run (section 4 shows what happens
outside it), and names it in its statement.

| Theorem | States | Assumes |
|---|---|---|
| **`SyncerProofs`** | | |
| `InductiveInvariant` | `Spec => []IInv` | |
| `TypeCorrect`, `ProgressCorrect`, `PairsExist` | `TypeOK`, `ProgressAddsUp`, `LastSyncedRevisionsExist` | |
| `SyncsCoverListing` | `Spec => []CompletedSyncCoversListing` | |
| `LocalStaysAsListed`, `LocalEditsSurvive` | `Spec => []QuietInv`, `Spec => UnsyncedLocalEditsSurvive` | `Quiet`: no edits during a sync, no failing saves |
| `OrderlySyncsSettle`, `TasksAreAtomic` | `Spec => []SettledInv`, `Spec => []AtomicInv` | `Orderly`: no edits during a sync, no failure or crash while an item is being saved or recorded |
| `NoValueReturns` | `Spec => NoStaleValueReturns` | `Orderly` |
| `EditsAreRespected` | `Spec => SyncsRespectEdits` | `Orderly` |
| `SyncerReplicates` | `Spec => SyncsAreAtomic`, the refinement of `Replication` | `Orderly` |
| `UndisturbedSyncsSucceed` | `Spec => []Calm`: no item of a sync fails but one that is `Unsyncable` | `Undisturbed`: no edits during a sync, only listings fail, no crash while an item is being saved or recorded |
| `ShownIsSynced` | `AppSpec => []ShownMeansSynced` | `InApp`: the app's database, no edits during a sync |
| **`LocalStoreProofs`** | | |
| `StoreTypeCorrect` | `Spec => []TypeInv` | |
| `IndexStaysTrue`, `IndexOnlyMovesForward` | `Spec => []IndexIsTrue`, `Spec => IndexMovesForward` | `~RecordsOverlap` |
| **`LibraryProofs`** | | |
| `QueueTypeCorrect`, `ProcessesInOrder` | `Spec => []QueueInv`, and the refinement `Spec => ProcessedInOrder` | |
| `ReadyResultsAreComplete` | `SiteSpec => []ReadyIsComplete` | `~ForgetsDuringUpdate` |
| `PublishesReachAll` | `StreamSpec => []PublishReachesAll` | |
| **`VaultProofs`** | | |
| `UpdatesAreKept`, `AnsweredSavesAreStored` | `VaultSpec => []VaultInv`, `VaultSpec => []ResolvedSavesAreStored` | |
| `ForeignUpdatesStay` | `VaultSpec => ForeignUpdatesSurvive` | |
| **`AgentProofs`** | | |
| `TimerCorrect`, `KeysLockedWhenDue` | `Spec => []TimerInv`, `Spec => []LockedWhenDue` | `SetOnlyIdle` |
| `ServerForgetsUnusedKeys` | `ClientSpec => []UnusedKeysAreForgotten` | |
| `ClientLockedWhenDue` | `ClientSpec => []LockedWhenDue` | `SetOnlyIdle` |
| **`KeychainProofs`** | | |
| `KeysTypeCorrect`, `KeysAreMade`, `KeysAreOne` | `KeysTypeOK`, `KeyInv`, `OneMasterKey` under `KeysSpec` | |
| `CommandsTellTheTruth` | `KeysSpec => []CommandsAreTrue` | `~ChangesOverlap` |
| `ContentIsRewritten`, `ContentIsReadBack` | the two conversions are inverse to each other | |
| `ContentsAreKept`, `ContentsAreReadBack` | `Spec => RewritesKeepContent`, `Spec => SavesAreReadBack` | |
| `StoredTimesIncrease` | `Spec => StoredTimesAdvance` | `NoWrap`: the time and the writes that can be ahead of it are below `TimestampLimit` |
| **`AppSessionProofs`** | | |
| `SessionsAreSeparate` | `Spec => []AccountsStaySeparate` | |
| **`WebProofs`** | | |
| `CopiedKeysAreComplete` | `SetupSpec => []SyncedKeysAreComplete` | |
| `WizardLeadsOn` | `SetupSpec => []NeverStranded` | `Patient` |
| `FilledFieldsFit` | `PanelSpec => []FillsFitThePage` | `WaitsForFills`, `GuessesAreNoPasswords` |
| `CancelledEditsStayOut`, `StoredEditsSurvive` | `PanelSpec => []CancelledEditsAreNotSaved`, `PanelSpec => SavedEditsSurvive` | `Unhurried` |

**The syncer** (finitely many items, `MaxActive` above zero).  None of the
properties is inductive, and the invariant has five layers.

* `IInv`.  That the number of active items is right after a batch starts needs the
  queue to hold distinct items that are exactly the queued ones (`QueueInv`).  That a
  sync never stalls needs the queue to be empty unless the batch is full.  That a
  recorded pair exists needs to know what each task has loaded and saved so far
  (`TaskItems`, `TaskSaves`) and that the listed changes it was started for cannot
  change under it (`TaskChange`).  `PhaseInv` ties tasks and counts to the phase.
  `PrefixCardinality` and `Batch` say what taking the first items off a queue does to
  counts and membership; `AdvanceStep` uses them for the progress listener, and
  `ItemDoneKeepsInv` uses that for everything that finishes an item.
* `CoverInv`.  No store lists what it does not have, what a task has loaded or saved is
  not older than what was listed, and what is done is covered.  `NextKeeps` is the fact
  behind it: no step takes a revision away or changes one.
* `QuietInv`, under `Quiet`.  The local store is as it was listed until the sync itself
  saves to it, so that a task knows what it overwrites.
* `SettledInv`, under `Orderly`.  Nothing is late; both
  stores are as listed until the sync saves to them, and what a task has saved is what
  the store has; an item without a pair is in one
  store only or removed from both (`Unpaired`); and what was removed locally stays
  removed (`LocalStaysDead`).  So a merge always has a base and a load is never
  refused, and what a sync records is what the local store has (`RecordedIsCurrent`).
  If loads do not fail either, an item fails only if it is `Unsyncable` (`Calm`).
* `AtomicInv`, under `Orderly` too, is about the revisions that the refinement shows.
  A task is about the changes that were listed and saves once (`TaskAsListed`); an item
  without a pair is in one store or removed (`OneSided`); and one with a pair has in the
  cloud what both agreed on unless it has another revision there, in the local store
  another content whenever it has another revision, and on either side no field that
  differs from the base and was ever in the other store (`ChangesShow`, `NewTo`).  That
  values are never given twice (`ValuesInv`) makes a new edit one of those.

`NoValueReturns` follows: what a merge saves to a store is what the store had, or a value
that is new to it, or for an entry in the cloud that of the base; `EditsAreRespected`
joins it with `LocalEditsSurvive`. For `SyncerReplicates`, `AtomicInv` says that the
branch a task takes, which depends on revisions, is the one that `Replication` takes by
contents, and that the merge with the base that was loaded is the merge with the base that
was agreed on.  Each action is then a step of `Replication` on its item or leaves `Copies`
and `SyncedCopies` as they are.

`AppView` adds `AppInv`: an edit that waits for the current sync was listed by it or is
still to be listed.  When a sync without failed items is resolved `CoverInv` covers the
edit, and it stays covered.  This is proved for the app's database and any failures
(`InApp`): as it takes no tombstone, nothing is removed from it, so that recorded
pairs only move on (`LocalInv`).

**The local store** (any items, calls and crashes).  `IInv` is `TypeInv` and, as long as
there was no lock, `StoreInv`: the cached index is the stored one or the one being
written (`CacheInv`); an update is pending, in the batch or processed, and the record of a
sync is alone with its item (`CallsInv`); revisions are made from others that there are
(`ParentsInv`); the index names a revision from the history of the user's object, and lags
behind it only while an edit waits (`IndexInv`); edits under way are in the history of the
object, and processed ones in that of the index (`EditsInv`); and the revision of the
object exists or is being written (`RevisionsInv`).

**The library.**  For the queue, `QueueInv` is needed for one fact, that a batch that
ends well is not empty; the mapping `Log` makes the processed updates, the batch and the
pending ones one sequence, `Push` accepts an update, `FlushDone` processes the batch and
the other actions change nothing.  For site information, `SiteInv` says that a result is
for an update of its URL and has each icon this update has received, that what is still to
be fetched was never received, and that an update that goes on is the one its result is
for.  For event streams, `StreamInv` says that arrays are in the order of registration, and
of every publish that runs that its array still begins with the listeners there were and
that it has called those before its position.

**The vault** (any of the file systems).  `VaultInv` says where the update of a save is
while it waits.  `StoredInv` says that flag and promise agree with the flush that runs
(`FlushInv`), that a call for a file outlives its save only where no later save of the item
succeeds (`FilesInv`), that the index entry of the last save is in the file, in the flush
or pending (`IndexInv`), and that a flush on Dropbox has seen all foreign updates of the
revision it read (`SeenInv`), on which conditional writes rest.

**The agents.**  `TimerInv`: there is at most one timer, the agent knows of it, and the
time it has left and the time the user has been idle add up to the timeout.
`ServerTimerInv` is its counterpart for the agent process, whose timer is restarted by
each use.  Clients, whichever of the agents they use, keep both.

**The key files** (any commands, passwords, depth of folders and failures).  `KeyInv`:
there is no key before all folders exist (`KeysNeedFolders`), because a command generates
one only when it has made the last folder, and only one command can; from then on keys are
copied and encrypted anew, but not made.  `CommandsInv` says that only the command that
began to write last still writes (`OneWriter`), what each kind of command goes through
(`StepsOfKinds`), what the last writer has written of the files (`LastWriterInv`), and who
creates the vault (`CreationInv`).

**The item format** (contents of any length).  The two conversions rest on
`MapsAreInjective`, that no two kinds of fields have the same code, and are proved from
fields over sections to contents.  The invariant says of an app that is about to write
that its overview shows its content, and that this is the content of the file if it has
none of its own and nobody has written since.  `TimesInv` adds the times: an object of the
current revision has at least the time of the file, in seconds, and more once it is being
saved, and times are ahead of the clock by a second for each write at most, which is what
`NoWrap` bounds.  `ContentsAssumption` is that users and
clients write contents of the types given there.

**Sessions** (any accounts, any work that outlasts its session).  The parts of
`AccountsStaySeparate` need one another and more to be inductive: the store of the app is
that of the last login (`StoreIsCurrent`), an item that waits to be saved is of its
session's store or was shown late (`SavesAreOwn`), an app between two accounts that is
unlocked shows nothing of its own (`ShownInv`), and whatever unlocks the app brings a key
(`KeyInv`).  The behaviour of the code with late work is not assumed away: the proof has a
step for each answer and save that arrives in a later session.

**The web app.**  `CopiesInv`: once the last copy of the keys has ended well the database
has every key, unless a copy has removed some and not set them again.  `WizardInv`: the
stack begins with the list of accounts and a screen of progress in it is temporary
(`SlidesInv`), and one that is shown has a login behind it, save after `Sign Out`
(`LoginInv`).  `PageInv`: what calls and fills hold (`RecordsInv`, `FillsInv`), that the
request of the fill that runs is the last one on the way to its tab, which then remembers
the document that was listed (`OrderInv`), and that what was filled fits (`FilledInv`).
`GuessesAreNoPasswords` is about the pages: the field that is guessed for the account is
none for a password, without which one field is both (section 4). `ViewsInv`: no content
holds a change that was cancelled (`KeptInv`), the edited copy has what is stored, and its
own changes are nowhere else until it is handed over (`DraftInv`), what waits to be saved
has what is stored (`SavesInv`), and a list that is up to date is what is stored
(`ListInv`).

## 6. Only model-checked

* Liveness, which is out of the prover's reach: `StoresConverge`, `SyncsSucceedAgain`,
  `SavesAreAnswered`, `CallsEndUnlessIndexFails`, `ListCatchesUp`,
  `VaultSavesAreAnswered`, `CommandsEnd`, `FinishedSignInsListStores`, `KeysArrive`,
  `FillsEnd`, `IconsSettle`, `LookupsGetReady`.
* `MergeTakesBothSides` and `LinksAreFound` say what folds and a scanner compute for
  their inputs, which takes induction over sequences; their inputs are enumerated instead.
  (Properties of the least or greatest of a set of numbers are within reach, by `WFMin`
  of the library.)

## 7. Plan

`Syncer` takes from `LocalStore` that it refuses tombstones (`LocalTakesTombstones`).
What is left is their composition: the store contract of `Syncer` refined by
`LocalStore`, and with it what an index that a record has reverted does to a sync.

## 8. Not modelled

Ciphers, hashes and image formats are bit-level functions without state. The building,
export and search of items (`item_builder.ts`, `export.ts`, `item_search.ts`) and the
generation of passwords are functions of their arguments that no property stated here
depends on.  The layout of views, their animations and styles, the controls, the wording
of messages and prompts, and build scripts have no behaviour of interest.  Reading and
listing of the file systems are I/O; their failures are those of the calls of `Vault` and
`Setup`. A syncer of an earlier session that still saves while the next one runs is left
out of `AppSession`: it works on the store object and the cloud account it was made for.
Of the copies a sync makes, the `folderUuid` that `cloneItem` sets to the item's UUID
(`item_store.ts:738`) is left out, as is the foreign key of a new, empty database.
