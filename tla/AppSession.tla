----------------------------- MODULE AppSession -----------------------------
(***************************************************************************)
(* The sessions of the app (webui/app.ts, webui/stores/app.ts and the      *)
(* parts of webui/app_view.ts and unlock_view.ts that start asynchronous   *)
(* work): logging in and out, unlocking, locking, listing and saving.      *)
(*                                                                         *)
(* Every login makes a store of its own (local_store.Store) for the        *)
(* database of the account, which has an index from earlier days.  Of a    *)
(* store object only how far its cached index has been read matters, of an *)
(* item only its account, of a list of items its account and how recent it *)
(* is.  No step here ends what an earlier session has under way: it is     *)
(* late when it is done in another session, and is marked as that.         *)
(* When the vault is locked is up to KeyAgent, what a sync does to Syncer. *)
(***************************************************************************)
EXTENDS Naturals, SequencesExt

CONSTANTS Accounts,
          MaxSaves,  \* bound: how often an item is saved in a store
          MaxLocks,  \* bound: how often the vault is locked
          MaxLogins  \* bound: how often the user logs in

NoStore == "no store"

ASSUME BoundsAssumption == MaxSaves \in Nat /\ MaxLocks \in Nat /\ MaxLogins \in Nat
ASSUME AccountsAssumption == NoStore \notin Accounts

NoItems == [from |-> NoStore, version |-> 0, late |-> FALSE]
NoItem == [from |-> NoStore, late |-> FALSE]

VARIABLES store, isLocked, items, selectedItem,  \* the state of the app store
          sessions,    \* the store objects that were made, in order
          keys,        \* the accounts whose keys the agent holds, as it lists them
          versions,    \* how often an item has been saved in each database
          holds,       \* the items each database has been given
          unlocking,   \* the sessions with an unlock() under way
          unlockedLate,\* whether the app was unlocked for an earlier session
          debounced,   \* the sessions whose updates have not ceased for long
          listing,     \* the sessions whose index a listItems() waits for
          saving,      \* the items that are about to be saved
          locks

appState == <<store, isLocked, items, selectedItem>>
stores == <<versions, holds>>
work == <<unlocking, debounced, listing, saving>>
vars == <<appState, sessions, keys, stores, work, unlockedLate, locks>>

Sessions == 1..MaxLogins
IndexStates == {"unread", "asked", "decrypting", "cached", "rejected"}
Items == [from : Accounts, late : BOOLEAN]
Saves == [from : Accounts, late : BOOLEAN, session : Sessions]

TypeOK ==
  /\ store \in Accounts \union {NoStore}
  /\ isLocked \in BOOLEAN
  /\ items \in [from : Accounts, version : 0..MaxSaves, late : BOOLEAN] \union {NoItems}
  /\ selectedItem \in Items \union {NoItem}
  /\ sessions \in Seq([account : Accounts, index : IndexStates])
  /\ Len(sessions) \in 0..MaxLogins
  /\ keys \in Seq(Accounts)
  /\ versions \in [Accounts -> 0..MaxSaves]
  /\ holds \in [Accounts -> SUBSET Items]
  /\ unlocking \subseteq DOMAIN sessions
  /\ unlockedLate \in BOOLEAN
  /\ debounced \subseteq DOMAIN sessions
  /\ listing \subseteq DOMAIN sessions
  /\ saving \subseteq {s \in Saves : s.session \in DOMAIN sessions}
  /\ locks \in 0..MaxLocks

Init ==
  /\ store = NoStore /\ isLocked = TRUE /\ items = NoItems /\ selectedItem = NoItem
  /\ sessions = <<>> /\ keys = <<>>
  /\ versions = [a \in Accounts |-> 0]
  /\ holds = [a \in Accounts |-> {}]
  /\ unlocking = {} /\ debounced = {} /\ listing = {} /\ saving = {}
  /\ unlockedLate = FALSE /\ locks = 0

\* The last login's store object is the store of the app, until a logout.
Current == Len(sessions)
IsCurrent(n) == store # NoStore /\ n = Current

\* overviewKey(): the first key of the agent is that of the store.
HasKey(a) == keys # <<>> /\ Head(keys) = a

-----------------------------------------------------------------------------
(* app_store.Store *)

ListOf(n) ==
  [from |-> sessions[n].account, version |-> versions[sessions[n].account],
   late |-> ~IsCurrent(n)]

\* The first to ask for an index has it read (Cached.get).
Ask(n) ==
  sessions' = IF sessions[n].index = "unread" THEN [sessions EXCEPT ![n].index = "asked"]
              ELSE sessions

\* refreshItems() with the items that are shown meanwhile: listItems() of the
\* store of the current state answers at once or when its index has been read.
\* A read that failed is its answer for good, which is only logged.
Refresh(shown) ==
  IF store = NoStore THEN items' = shown /\ UNCHANGED <<sessions, listing>>
  ELSE
    /\ Ask(Current)
    /\ items' = IF sessions[Current].index = "cached" THEN ListOf(Current) ELSE shown
    /\ listing' = IF sessions[Current].index \in {"cached", "rejected"} THEN listing
                  ELSE listing \union {Current}

\* The listener of onItemUpdated: a refresh when the updates have ceased.
DebouncedRefresh(n) ==
  /\ n \in debounced
  /\ debounced' = debounced \ {n}
  /\ IF store = NoStore \/ isLocked
     THEN UNCHANGED <<items, sessions, listing>>
     ELSE Refresh(items)
  /\ UNCHANGED <<store, isLocked, selectedItem, keys, stores, unlocking, saving, unlockedLate, locks>>

-----------------------------------------------------------------------------
(* local_store.Store *)

\* readItemIndex() gets its key, and the agent starts to decrypt with it ...
DecryptIndex(n) ==
  /\ sessions[n].index = "asked"
  /\ HasKey(sessions[n].account)
  /\ sessions' = [sessions EXCEPT ![n].index = "decrypting"]
  /\ UNCHANGED <<appState, keys, stores, work, unlockedLate, locks>>

\* ... or there is none, or that of another account: Cached keeps the failure.
IndexReadFails(n) ==
  /\ sessions[n].index = "asked"
  /\ ~HasKey(sessions[n].account)
  /\ sessions' = [sessions EXCEPT ![n].index = "rejected"]
  /\ listing' = listing \ {n}
  /\ UNCHANGED <<appState, keys, stores, unlocking, debounced, saving, unlockedLate, locks>>

\* The index, also one that was locked meanwhile, and the items that wait for it.
IndexRead(n) ==
  /\ sessions[n].index = "decrypting"
  /\ sessions' = [sessions EXCEPT ![n].index = "cached"]
  /\ items' = IF n \in listing THEN ListOf(n) ELSE items
  /\ listing' = listing \ {n}
  /\ UNCHANGED <<store, isLocked, selectedItem, keys, stores, unlocking, debounced,
                 saving, unlockedLate, locks>>

\* A save or a sync needs the index, too.
IndexAsked ==
  /\ store # NoStore
  /\ sessions[Current].index = "unread"
  /\ keys # <<>>
  /\ Ask(Current)
  /\ UNCHANGED <<appState, keys, stores, work, unlockedLate, locks>>

\* forgetKeys(): every store object is told, the ones of earlier logins, too.
Forget ==
  /\ keys' = <<>>
  /\ isLocked' = TRUE
  /\ sessions' = [n \in DOMAIN sessions |->
                    IF sessions[n].index = "cached" THEN [sessions[n] EXCEPT !.index = "unread"]
                    ELSE sessions[n]]

-----------------------------------------------------------------------------
(* Accounts *)

\* initAccount(), from the setup view that is shown while there is no store.
Login(a) ==
  /\ store = NoStore
  /\ Current < MaxLogins
  /\ store' = a
  /\ sessions' = Append(sessions, [account |-> a, index |-> "unread"])
  /\ UNCHANGED <<isLocked, items, selectedItem, keys, stores, work, unlockedLate, locks>>

\* "Switch Store": the account is cleared, the keys are forgotten, which locks
\* the app, and then there is no store.  What is under way goes on.
Logout ==
  /\ store # NoStore
  /\ Forget
  /\ store' = NoStore
  /\ UNCHANGED <<items, selectedItem, stores, work, unlockedLate, locks>>

-----------------------------------------------------------------------------
(* Locking and unlocking *)

Lock ==
  /\ locks < MaxLocks
  /\ ~isLocked
  /\ locks' = locks + 1
  /\ Forget
  /\ UNCHANGED <<store, items, selectedItem, stores, work, unlockedLate>>

StartUnlock ==
  /\ store # NoStore
  /\ isLocked
  /\ unlocking' = unlocking \union {Current}
  /\ UNCHANGED <<appState, sessions, keys, stores, debounced, listing, saving, unlockedLate, locks>>

\* The wrong password.
UnlockFails(n) ==
  /\ n \in unlocking
  /\ unlocking' = unlocking \ {n}
  /\ UNCHANGED <<appState, sessions, keys, stores, debounced, listing, saving, unlockedLate, locks>>

KeysWith(a) == IF Contains(keys, a) THEN keys ELSE Append(keys, a)

\* Faulty variant: what was shown is kept until the items have been listed.
UnlockedKeepsItems(n) ==
  /\ n \in unlocking
  /\ unlocking' = unlocking \ {n}
  /\ keys' = KeysWith(sessions[n].account)
  /\ isLocked' = FALSE
  /\ IF isLocked
     THEN unlockedLate' = ~IsCurrent(n) /\ Refresh(items)
     ELSE UNCHANGED <<items, sessions, listing, unlockedLate>>
  /\ UNCHANGED <<store, selectedItem, stores, debounced, saving, locks>>

\* onUnlock(): whoever becomes unlocked starts with an empty list.
Unlocked(n) ==
  /\ n \in unlocking
  /\ unlocking' = unlocking \ {n}
  /\ keys' = KeysWith(sessions[n].account)
  /\ isLocked' = FALSE
  /\ IF isLocked
     THEN selectedItem' = NoItem /\ unlockedLate' = ~IsCurrent(n) /\ Refresh(NoItems)
     ELSE UNCHANGED <<items, selectedItem, sessions, listing, unlockedLate>>
  /\ UNCHANGED <<store, stores, debounced, saving, locks>>

-----------------------------------------------------------------------------
(* Items *)

ListedItem == [from |-> items.from, late |-> items.late]
NewItem == [from |-> store, late |-> FALSE]

\* An item of the list, or a new one.
SelectItem ==
  /\ store # NoStore
  /\ ~isLocked
  /\ selectedItem' \in {ListedItem, NewItem} \ {NoItem}
  /\ UNCHANGED <<store, isLocked, items, sessions, keys, stores, work, unlockedLate, locks>>

\* The user goes back, or the active tab shows another page.
Deselect ==
  /\ selectedItem # NoItem
  /\ selectedItem' = NoItem
  /\ UNCHANGED <<store, isLocked, items, sessions, keys, stores, work, unlockedLate, locks>>

\* The details view is left with changes; they are saved after a delay.
OnSave ==
  /\ store # NoStore
  /\ ~isLocked
  /\ selectedItem # NoItem
  /\ saving' = saving \union {[from |-> selectedItem.from, late |-> selectedItem.late,
                               session |-> Current]}
  /\ selectedItem' = NoItem
  /\ UNCHANGED <<store, isLocked, items, sessions, keys, stores, unlocking, debounced,
                 listing, unlockedLate, locks>>

\* The store takes an item, and publishes the update.
Saved ==
  /\ store # NoStore
  /\ HasKey(store)
  /\ sessions[Current].index = "cached"
  /\ versions[store] < MaxSaves
  /\ versions' = [versions EXCEPT ![store] = @ + 1]
  /\ debounced' = debounced \union {Current}
  /\ UNCHANGED <<appState, sessions, keys, unlocking, listing, unlockedLate, locks>>

\* saveTo() the store of that moment, whichever store the item came from.
SaveTo(s) ==
  /\ s \in saving
  /\ Saved
  /\ saving' = saving \ {s}
  /\ holds' = [holds EXCEPT ![store] =
                 @ \union {[from |-> s.from, late |-> s.late \/ s.session # Current]}]

\* Without a store, its key or its index the changes are given up with an error.
SaveFails(s) ==
  /\ s \in saving
  /\ \/ store = NoStore
     \/ ~HasKey(store)
     \/ sessions[Current].index = "rejected"
  /\ saving' = saving \ {s}
  /\ UNCHANGED <<appState, sessions, keys, stores, unlocking, debounced, listing, unlockedLate, locks>>

\* Faulty variant: what a sync saves is not published.
SyncSavesSilently ==
  /\ store # NoStore
  /\ HasKey(store)
  /\ sessions[Current].index = "cached"
  /\ versions[store] < MaxSaves
  /\ versions' = [versions EXCEPT ![store] = @ + 1]
  /\ UNCHANGED <<appState, sessions, keys, holds, work, unlockedLate, locks>>

\* A sync saves an item that it downloaded.
SyncSaves == Saved /\ UNCHANGED <<holds, saving>>

-----------------------------------------------------------------------------
AppStep ==
  \/ \E n \in DOMAIN sessions : DebouncedRefresh(n) \/ DecryptIndex(n) \/ IndexReadFails(n) \/ IndexRead(n)
  \/ \E s \in saving : SaveFails(s)

UserStep ==
  \/ \E a \in Accounts : Login(a)
  \/ \E n \in DOMAIN sessions : UnlockFails(n) \/ Unlocked(n)
  \/ \E s \in saving : SaveTo(s)
  \/ Logout \/ Lock \/ StartUnlock \/ SelectItem \/ Deselect \/ OnSave \/ IndexAsked \/ SyncSaves

\* The user has logged out for the last time.
Idle == store = NoStore /\ Current = MaxLogins /\ UNCHANGED vars

Next == AppStep \/ UserStep \/ Idle

Spec == Init /\ [][Next]_vars

-----------------------------------------------------------------------------
(* Properties *)

\* "Items from the open password store" (stores/app.ts): what an unlocked app
\* lists is of its store.  The code does not keep to this: a list that was
\* asked for before a change of account is shown whenever it arrives.
ItemsAreFromStore == ~isLocked /\ store # NoStore => items.from \in {store, NoStore}

\* Items of another account are shown only when their list, or the list they
\* were selected from, arrived after the account had changed.
ForeignItemsAreLate ==
  ~isLocked /\ store # NoStore =>
    /\ items.from \in {store, NoStore} \/ items.late
    /\ selectedItem.from \in {store, NoStore} \/ selectedItem.late

\* "isLocked: True if {store} is locked": an app that shows its store as
\* unlocked has the store's key, unless an earlier account was unlocked late.
UnlockedHasKeys == ~isLocked /\ store # NoStore => Contains(keys, store) \/ unlockedLate

\* An item gets into the database of another account only when it was shown
\* late, or when the account was changed before the item was saved.
ItemsStayInTheirStore == \A a \in Accounts : \A i \in holds[a] : i.from = a \/ i.late

\* One account never reaches another, neither with its items, its unlocking nor
\* its edits, but by work that outlasts its session.
AccountsStaySeparate == ForeignItemsAreLate /\ UnlockedHasKeys /\ ItemsStayInTheirStore

\* Whoever stays logged in and unlocked sees every item that is saved, however
\* saves, locks and refreshes overlap.  The exceptions are the ones of the
\* code: an index whose reading failed, an app that was unlocked for an earlier
\* account, and a list of one that arrives last.
ListCatchesUp ==
  \A a \in Accounts :
    <>[](store = a /\ ~isLocked /\ ~unlockedLate /\ sessions[Current].index # "rejected")
      => <>[](items = [from |-> a, version |-> versions[a], late |-> FALSE] \/ items.late)
=============================================================================
