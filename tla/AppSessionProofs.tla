-------------------------- MODULE AppSessionProofs --------------------------
(***************************************************************************)
(* Accounts mix by nothing but work that outlasts its session, whatever    *)
(* the user logs out of, locks and unlocks, and whenever answers arrive.   *)
(***************************************************************************)
EXTENDS AppSession, TLAPS

\* The store of the app is that of the last login.
StoreIsCurrent ==
  store # NoStore => Current \in DOMAIN sessions /\ sessions[Current].account = store

\* An item that waits to be saved is of its session's store, or was shown late.
SavesAreOwn == \A s \in saving : s.from = sessions[s.session].account \/ s.late

\* What an unlocked app shows, also one that is between two accounts.
ShownInv ==
  ~isLocked =>
    /\ items.from \in {store, NoStore} \/ items.late
    /\ selectedItem.from \in {store, NoStore} \/ selectedItem.late

\* Whatever unlocks the app brings a key.
KeyInv == ~isLocked => unlockedLate \/ (store # NoStore /\ Contains(keys, store))

IInv ==
  /\ TypeOK /\ StoreIsCurrent /\ SavesAreOwn
  /\ ShownInv /\ KeyInv /\ ItemsStayInTheirStore

Objects == [account : Accounts, index : IndexStates]

-----------------------------------------------------------------------------
(* The steps of the store objects *)

\* The same logins, and store objects of the same accounts.
SameLogins ==
  /\ sessions' \in Seq(Objects)
  /\ Len(sessions') = Len(sessions)
  /\ \A n \in DOMAIN sessions : sessions'[n].account = sessions[n].account

\* Every store object has an account.
LEMMA AccountOf == ASSUME TypeOK, NEW n \in DOMAIN sessions PROVE sessions[n].account \in Accounts
<1>1. sessions \in Seq(Objects)
  BY DEF TypeOK, Objects
<1>2. sessions[n] \in Objects
  BY <1>1
<1>. QED BY <1>2 DEF Objects

\* How far an index has been read changes no store object's account.
LEMMA IndexMoves ==
  ASSUME TypeOK, NEW n \in DOMAIN sessions, NEW i \in IndexStates,
         sessions' = [sessions EXCEPT ![n].index = i]
  PROVE  SameLogins
<1>1. sessions \in Seq(Objects)
  BY DEF TypeOK, Objects
<1>2. sessions[n] \in Objects
  BY <1>1
<1>. DEFINE r == [sessions[n] EXCEPT !.index = i]
<1>3. r \in Objects /\ r.account = sessions[n].account
  BY <1>2 DEF Objects
<1>4. sessions' = [sessions EXCEPT ![n] = r]
  OBVIOUS
<1>. HIDE DEF r
<1>. QED BY <1>1, <1>3, <1>4 DEF SameLogins

\* Nothing happens to the store objects.
LEMMA SameObjects == ASSUME TypeOK, UNCHANGED sessions PROVE SameLogins
BY DEF TypeOK, SameLogins, Objects

\* The app store asks the store object of the state.
LEMMA AskStep == ASSUME TypeOK, NEW n \in DOMAIN sessions, Ask(n) PROVE SameLogins
<1>1. "asked" \in IndexStates
  BY DEF IndexStates
<1>. QED BY <1>1, IndexMoves, SameObjects DEF Ask

\* A lock clears the indexes that have been read.
LEMMA ForgetStep == ASSUME TypeOK, Forget PROVE SameLogins
<1>1. sessions \in Seq(Objects) /\ DOMAIN sessions = 1..Len(sessions) /\ Len(sessions) \in Nat
  BY DEF TypeOK, Objects
<1>2. "unread" \in IndexStates
  BY DEF IndexStates
<1>3. \A n \in DOMAIN sessions :
        /\ sessions[n] \in Objects
        /\ [sessions[n] EXCEPT !.index = "unread"] \in Objects
        /\ [sessions[n] EXCEPT !.index = "unread"].account = sessions[n].account
  <2>. TAKE n \in DOMAIN sessions
  <2>1. sessions[n] \in Objects
    BY <1>1
  <2>. QED BY <1>2, <2>1 DEF Objects
<1>4. DOMAIN sessions' = 1..Len(sessions)
  BY <1>1 DEF Forget
<1>5. \A n \in DOMAIN sessions : sessions'[n] \in Objects /\ sessions'[n].account = sessions[n].account
  BY <1>3 DEF Forget
<1>6. sessions' = [n \in 1..Len(sessions) |-> sessions'[n]]
  BY <1>1 DEF Forget
<1>7. sessions' \in Seq(Objects) /\ Len(sessions') = Len(sessions)
  BY <1>1, <1>4, <1>5, <1>6
<1>. QED BY <1>5, <1>7 DEF SameLogins

\* The list of a store object is of its account, and late unless it is the
\* store of the app.
LEMMA ListIsTrue ==
  ASSUME IInv, NEW n \in DOMAIN sessions
  PROVE  /\ ListOf(n) \in [from : Accounts, version : 0..MaxSaves, late : BOOLEAN]
         /\ ListOf(n).from = store \/ ListOf(n).late
<1>1. sessions[n].account \in Accounts
  BY AccountOf DEF IInv
<1>2. versions[sessions[n].account] \in 0..MaxSaves
  BY <1>1 DEF IInv, TypeOK
<1>3. IsCurrent(n) => sessions[n].account = store
  BY DEF IInv, StoreIsCurrent, IsCurrent
<1>. QED BY <1>1, <1>2, <1>3 DEF ListOf, IsCurrent

\* A refresh shows what was shown, or a list of the store.
LEMMA RefreshStep ==
  ASSUME IInv, NEW shown, Refresh(shown)
  PROVE  /\ SameLogins
         /\ listing' \subseteq DOMAIN sessions
         /\ \/ items' = shown
            \/ /\ items' \in [from : Accounts, version : 0..MaxSaves, late : BOOLEAN]
               /\ items'.from = store \/ items'.late
<1>1. CASE store = NoStore
  BY <1>1, SameObjects DEF Refresh, IInv, TypeOK
<1>2. CASE store # NoStore
  <2>1. Current \in DOMAIN sessions
    BY <1>2 DEF IInv, StoreIsCurrent
  <2>2. SameLogins
    BY <1>2, <2>1, AskStep DEF Refresh, IInv
  <2>. QED BY <1>2, <2>1, <2>2, ListIsTrue DEF Refresh, IInv, TypeOK
<1>. QED BY <1>1, <1>2

\* What the logins are for: the work of a session is known by its number.
LEMMA SameWork ==
  ASSUME IInv, SameLogins
  PROVE  /\ sessions' \in Seq([account : Accounts, index : IndexStates])
         /\ Len(sessions') \in 0..MaxLogins
         /\ DOMAIN sessions' = DOMAIN sessions
         /\ Current' = Current
         /\ UNCHANGED store => StoreIsCurrent'
         /\ store' = NoStore => StoreIsCurrent'
         /\ saving' \subseteq saving => SavesAreOwn'
<1>1. sessions \in Seq(Objects) /\ sessions' \in Seq(Objects) /\ Len(sessions') = Len(sessions)
  BY DEF IInv, TypeOK, SameLogins, Objects
<1>2. DOMAIN sessions' = DOMAIN sessions
  BY <1>1
<1>3. Current' = Current
  BY <1>1 DEF Current
<1>4. UNCHANGED store => StoreIsCurrent'
  BY <1>2, <1>3 DEF IInv, StoreIsCurrent, SameLogins
<1>5. ASSUME saving' \subseteq saving PROVE SavesAreOwn'
  BY <1>2, <1>5 DEF IInv, TypeOK, SavesAreOwn, SameLogins
<1>. QED BY <1>1, <1>2, <1>3, <1>4, <1>5 DEF IInv, TypeOK, Objects, StoreIsCurrent

-----------------------------------------------------------------------------
(* The initial state and every step *)

\* Nobody is logged in when the app is started.
LEMMA InitInv == Init => IInv
<1>. SUFFICES ASSUME Init PROVE IInv
  OBVIOUS
<1>1. 0 \in 0..MaxSaves /\ 0 \in 0..MaxLocks /\ 0 \in 0..MaxLogins
  BY BoundsAssumption
<1>2. /\ <<>> \in Seq([account : Accounts, index : IndexStates])
      /\ <<>> \in Seq(Accounts)
      /\ Len(<<>>) = 0
  OBVIOUS
<1>3. TypeOK
  <2>. USE DEF Init
  <2>1. sessions \in Seq([account : Accounts, index : IndexStates]) /\ Len(sessions) \in 0..MaxLogins
    BY <1>1, <1>2
  <2>2. versions \in [Accounts -> 0..MaxSaves] /\ holds \in [Accounts -> SUBSET Items]
    BY <1>1
  <2>. QED BY <1>1, <1>2, <2>1, <2>2 DEF TypeOK
<1>. QED BY <1>3 DEF Init, IInv, StoreIsCurrent, SavesAreOwn, ShownInv, KeyInv, ItemsStayInTheirStore

\* A refresh starts, or is given up because the app is locked.
LEMMA DebouncedRefreshStep ==
  ASSUME IInv, NEW n \in DOMAIN sessions, DebouncedRefresh(n) PROVE IInv'
<1>. USE DEF DebouncedRefresh, stores
<1>1. /\ SameLogins
      /\ listing' \subseteq DOMAIN sessions
      /\ \/ items' = items
         \/ /\ items' \in [from : Accounts, version : 0..MaxSaves, late : BOOLEAN]
            /\ items'.from = store \/ items'.late
  <2>1. CASE store = NoStore \/ isLocked
    BY <2>1, SameObjects DEF IInv, TypeOK
  <2>2. CASE ~(store = NoStore \/ isLocked)
    BY <2>2, RefreshStep
  <2>. QED BY <2>1, <2>2
<1>2. TypeOK'
  BY <1>1, SameWork DEF IInv, TypeOK
<1>. QED BY <1>1, <1>2, SameWork DEF IInv, ShownInv, KeyInv, ItemsStayInTheirStore

\* Only how far an index has been read changes, and who waits for it.
LEMMA IndexStep ==
  ASSUME IInv, SameLogins, listing' \subseteq listing,
         UNCHANGED <<appState, keys, stores, unlocking, debounced, saving, unlockedLate, locks>>
  PROVE  IInv'
<1>. USE DEF appState, stores
<1>1. TypeOK'
  BY SameWork DEF IInv, TypeOK
<1>. QED BY <1>1, SameWork DEF IInv, ShownInv, KeyInv, ItemsStayInTheirStore

\* The key is there, or an index is asked for, or its reading fails.
LEMMA ReadingStep ==
  ASSUME IInv, NEW n \in DOMAIN sessions, DecryptIndex(n) \/ IndexReadFails(n) PROVE IInv'
<1>. USE DEF work
<1>1. "decrypting" \in IndexStates /\ "rejected" \in IndexStates
  BY DEF IndexStates
<1>2. SameLogins
  BY <1>1, IndexMoves DEF IInv, DecryptIndex, IndexReadFails
<1>. QED BY <1>2, IndexStep DEF DecryptIndex, IndexReadFails

\* A save asks the store of the app for its index.
LEMMA IndexAskedStep == ASSUME IInv, IndexAsked PROVE IInv'
<1>. USE DEF work
<1>1. SameLogins
  BY AskStep DEF IInv, IndexAsked, StoreIsCurrent
<1>. QED BY <1>1, IndexStep DEF IndexAsked

\* The list that is shown is of the store, or late.
LEMMA IndexReadStep == ASSUME IInv, NEW n \in DOMAIN sessions, IndexRead(n) PROVE IInv'
<1>. USE DEF IndexRead, stores
<1>1. "cached" \in IndexStates
  BY DEF IndexStates
<1>2. SameLogins
  BY <1>1, IndexMoves DEF IInv
<1>3. TypeOK'
  BY <1>2, SameWork, ListIsTrue DEF IInv, TypeOK
<1>. QED BY <1>2, <1>3, SameWork, ListIsTrue DEF IInv, ShownInv, KeyInv, ItemsStayInTheirStore

\* An app that was unlocked late shows nothing of the account it is opened for
\* that is not marked as late.
LEMMA LoginStep == ASSUME IInv, NEW a \in Accounts, Login(a) PROVE IInv'
<1>. USE DEF Login, stores, work
<1>1. sessions \in Seq(Objects) /\ Len(sessions) \in Nat
  BY DEF IInv, TypeOK, Objects
<1>2. [account |-> a, index |-> "unread"] \in Objects
  BY DEF Objects, IndexStates
<1>3. /\ sessions' \in Seq(Objects)
      /\ Len(sessions') = Len(sessions) + 1
      /\ sessions'[Len(sessions) + 1].account = a
      /\ \A n \in DOMAIN sessions : n \in DOMAIN sessions' /\ sessions'[n] = sessions[n]
  BY <1>1, <1>2
<1>4. Len(sessions') \in 0..MaxLogins
  BY <1>1, <1>3, BoundsAssumption DEF Current
<1>5. TypeOK'
  BY <1>3, <1>4 DEF IInv, TypeOK, Objects
<1>6. StoreIsCurrent'
  BY <1>1, <1>3 DEF StoreIsCurrent, Current
<1>7. SavesAreOwn'
  BY <1>3 DEF IInv, TypeOK, SavesAreOwn
<1>. QED BY <1>5, <1>6, <1>7 DEF IInv, ShownInv, KeyInv, ItemsStayInTheirStore

\* Whatever goes on, a locked app shows nothing of it.
LEMMA LogoutStep == ASSUME IInv, Logout PROVE IInv'
<1>. USE DEF Logout, stores, work
<1>1. SameLogins
  BY ForgetStep DEF IInv
<1>2. isLocked' = TRUE /\ keys' = <<>>
  BY DEF Forget
<1>3. TypeOK'
  BY <1>1, <1>2, SameWork DEF IInv, TypeOK
<1>. QED BY <1>1, <1>2, <1>3, SameWork DEF IInv, ShownInv, KeyInv, ItemsStayInTheirStore

\* A lock is a logout that keeps the store.
LEMMA LockStep == ASSUME IInv, Lock PROVE IInv'
<1>. USE DEF Lock, stores, work
<1>1. SameLogins
  BY ForgetStep DEF IInv
<1>2. isLocked' = TRUE /\ keys' = <<>>
  BY DEF Forget
<1>3. TypeOK'
  BY <1>1, <1>2, SameWork, BoundsAssumption DEF IInv, TypeOK
<1>. QED BY <1>1, <1>2, <1>3, SameWork DEF IInv, ShownInv, KeyInv, ItemsStayInTheirStore

\* The key of an account joins the ones that are held.
LEMMA KeyArrives ==
  ASSUME IInv, NEW a \in Accounts
  PROVE  /\ KeysWith(a) \in Seq(Accounts)
         /\ Contains(KeysWith(a), a)
         /\ \A b : Contains(keys, b) => Contains(KeysWith(a), b)
<1>1. keys \in Seq(Accounts)
  BY DEF IInv, TypeOK
<1>. QED BY <1>1 DEF KeysWith, Contains

\* An unlock of the store brings its key, another is marked as late.
LEMMA UnlockedStep == ASSUME IInv, NEW n \in DOMAIN sessions, Unlocked(n) PROVE IInv'
<1>. USE DEF Unlocked, stores
<1>. DEFINE a == sessions[n].account
<1>1. a \in Accounts
  BY AccountOf DEF IInv
<1>2. keys' \in Seq(Accounts) /\ Contains(keys', a) /\ (\A b : Contains(keys, b) => Contains(keys', b))
  BY <1>1, KeyArrives
<1>3. IsCurrent(n) => store # NoStore /\ a = store
  BY DEF IInv, StoreIsCurrent, IsCurrent
<1>4. /\ SameLogins
      /\ listing' \subseteq DOMAIN sessions
  BY SameObjects, RefreshStep DEF IInv, TypeOK
<1>5. CASE isLocked
  <2>1. items' = NoItems \/ /\ items' \in [from : Accounts, version : 0..MaxSaves, late : BOOLEAN]
                            /\ items'.from = store \/ items'.late
    BY <1>5, RefreshStep
  <2>2. ShownInv'
    BY <1>5, <2>1 DEF ShownInv, NoItems, NoItem
  <2>3. KeyInv'
    BY <1>2, <1>3, <1>5 DEF KeyInv
  <2>4. TypeOK'
    BY <1>2, <1>4, <1>5, <2>1, SameWork DEF IInv, TypeOK, IsCurrent
  <2>. QED BY <1>4, <2>2, <2>3, <2>4, SameWork DEF IInv, ItemsStayInTheirStore
<1>6. CASE ~isLocked
  <2>1. ShownInv' /\ KeyInv'
    BY <1>2, <1>6 DEF IInv, ShownInv, KeyInv
  <2>2. TypeOK'
    BY <1>2, <1>4, <1>6, SameWork DEF IInv, TypeOK
  <2>. QED BY <1>4, <2>1, <2>2, SameWork DEF IInv, ItemsStayInTheirStore
<1>. QED BY <1>5, <1>6

\* Unlocking begins, or ends with the wrong password.
LEMMA UnlockingStep ==
  ASSUME IInv, StartUnlock \/ \E n \in DOMAIN sessions : UnlockFails(n) PROVE IInv'
<1>. USE DEF StartUnlock, UnlockFails, appState, stores
<1>1. TypeOK'
  BY DEF IInv, TypeOK, StoreIsCurrent
<1>. QED BY <1>1, SameObjects, SameWork DEF IInv, ShownInv, KeyInv, ItemsStayInTheirStore

\* What is selected comes from the list, with its lateness, or is new.
LEMMA SelectionStep == ASSUME IInv, SelectItem \/ Deselect PROVE IInv'
<1>. USE DEF stores, work
<1>1. selectedItem' \in Items \union {NoItem}
  <2>1. ListedItem \in Items \union {NoItem}
    <3>1. CASE items = NoItems
      BY <3>1 DEF ListedItem, NoItems, NoItem
    <3>2. CASE items # NoItems
      BY <3>2 DEF IInv, TypeOK, ListedItem, Items
    <3>. QED BY <3>1, <3>2
  <2>2. store # NoStore => NewItem \in Items
    BY DEF IInv, TypeOK, NewItem, Items
  <2>. QED BY <2>1, <2>2 DEF SelectItem, Deselect
<1>2. ShownInv'
  BY DEF IInv, ShownInv, SelectItem, Deselect, ListedItem, NewItem, NoItem
<1>3. TypeOK'
  BY <1>1 DEF IInv, TypeOK, SelectItem, Deselect
<1>. QED BY <1>2, <1>3, SameObjects, SameWork
     DEF IInv, KeyInv, ItemsStayInTheirStore, SelectItem, Deselect

\* The item to save is the one that was shown, with its lateness.
LEMMA OnSaveStep == ASSUME IInv, OnSave PROVE IInv'
<1>. USE DEF OnSave, stores
<1>. DEFINE s == [from |-> selectedItem.from, late |-> selectedItem.late, session |-> Current]
<1>1. Current \in DOMAIN sessions /\ Current \in Sessions /\ sessions[Current].account = store
  <2>1. Current \in DOMAIN sessions /\ sessions[Current].account = store
    BY DEF IInv, StoreIsCurrent
  <2>. QED BY <2>1, BoundsAssumption DEF IInv, TypeOK, Sessions, Current
<1>2. selectedItem \in Items
  BY DEF IInv, TypeOK
<1>3. s \in Saves /\ s.session \in DOMAIN sessions
  BY <1>1, <1>2 DEF Saves, Items
<1>4. s.from = sessions[s.session].account \/ s.late
  BY <1>1, <1>2, AccountsAssumption DEF IInv, ShownInv, Items
<1>5. TypeOK'
  BY <1>3 DEF IInv, TypeOK
<1>6. SavesAreOwn'
  BY <1>4 DEF IInv, SavesAreOwn
<1>7. ShownInv'
  BY DEF IInv, ShownInv, NoItem
<1>. QED BY <1>5, <1>6, <1>7, SameObjects, SameWork DEF IInv, KeyInv, ItemsStayInTheirStore

\* The store takes an item: how recent it is changes.
LEMMA SavedTypes ==
  ASSUME IInv, Saved
  PROVE  /\ store \in Accounts
         /\ versions' \in [Accounts -> 0..MaxSaves]
         /\ debounced' \subseteq DOMAIN sessions
<1>1. store \in Accounts
  BY DEF IInv, TypeOK, Saved
<1>2. versions[store] + 1 \in 0..MaxSaves
  BY <1>1, BoundsAssumption DEF IInv, TypeOK, Saved
<1>. QED BY <1>1, <1>2 DEF IInv, TypeOK, StoreIsCurrent, Saved

\* An item of another account than the store's was shown late or is saved late.
LEMMA SaveToStep == ASSUME IInv, NEW s \in saving, SaveTo(s) PROVE IInv'
<1>. USE DEF SaveTo, appState
<1>. DEFINE i == [from |-> s.from, late |-> s.late \/ s.session # Current]
<1>1. s \in Saves /\ s.session \in DOMAIN sessions
  BY DEF IInv, TypeOK
<1>2. i \in Items
  BY <1>1 DEF Saves, Items
<1>3. i.from = store \/ i.late
  <2>1. s.session = Current => sessions[s.session].account = store
    BY DEF IInv, StoreIsCurrent, Saved
  <2>. QED BY <2>1 DEF IInv, SavesAreOwn
<1>. HIDE DEF i
<1>4. UNCHANGED <<appState, sessions, keys, unlocking, listing, unlockedLate, locks>>
  BY DEF Saved
<1>5. holds' = [holds EXCEPT ![store] = @ \union {i}]
  BY DEF i
<1>6. TypeOK'
  BY <1>2, <1>4, <1>5, SavedTypes DEF IInv, TypeOK
<1>7. ItemsStayInTheirStore'
  BY <1>3, <1>5, SavedTypes DEF IInv, TypeOK, ItemsStayInTheirStore
<1>. QED BY <1>4, <1>6, <1>7, SameObjects, SameWork DEF IInv, ShownInv, KeyInv

\* Changes that are given up reach no store.
LEMMA SaveFailsStep == ASSUME IInv, NEW s \in saving, SaveFails(s) PROVE IInv'
<1>. USE DEF SaveFails, appState, stores
<1>1. TypeOK'
  BY DEF IInv, TypeOK
<1>. QED BY <1>1, SameObjects, SameWork DEF IInv, ShownInv, KeyInv, ItemsStayInTheirStore

\* What a sync saves is its own store's.
LEMMA SyncSavesStep == ASSUME IInv, SyncSaves PROVE IInv'
<1>. USE DEF SyncSaves, appState
<1>1. UNCHANGED <<appState, sessions, keys, unlocking, listing, unlockedLate, locks>>
  BY DEF Saved
<1>2. TypeOK'
  BY <1>1, SavedTypes DEF IInv, TypeOK
<1>. QED BY <1>1, <1>2, SameObjects, SameWork DEF IInv, ShownInv, KeyInv, ItemsStayInTheirStore

-----------------------------------------------------------------------------
\* Every step keeps the accounts apart.
LEMMA NextStep == ASSUME IInv, [Next]_vars PROVE IInv'
<1>1. CASE AppStep
  BY <1>1, DebouncedRefreshStep, ReadingStep, IndexReadStep, SaveFailsStep DEF AppStep
<1>2. CASE UserStep
  BY <1>2, LoginStep, UnlockingStep, UnlockedStep, SaveToStep, LogoutStep, LockStep,
     SelectionStep, OnSaveStep, IndexAskedStep, SyncSavesStep DEF UserStep
<1>3. CASE UNCHANGED vars
  <2>. USE <1>3 DEF vars, appState, stores, work
  <2>1. TypeOK'
    BY DEF IInv, TypeOK
  <2>. QED BY <2>1, SameObjects, SameWork DEF IInv, ShownInv, KeyInv, ItemsStayInTheirStore
<1>. QED BY <1>1, <1>2, <1>3 DEF Next, Idle

\* However often the user switches accounts, and with whatever under way, items
\* of another account are shown and saved, and the app is unlocked without a
\* key, only by an answer, an edit or an unlock that outlasts its session
\* (stores/app.ts: update and refreshItems; app_view.ts: onUnlock and onSave).
THEOREM SessionsAreSeparate == Spec => []AccountsStaySeparate
<1>1. IInv => AccountsStaySeparate
  BY DEF IInv, AccountsStaySeparate, ShownInv, ForeignItemsAreLate, KeyInv, UnlockedHasKeys
<1>. QED BY <1>1, InitInv, NextStep, PTL DEF Spec
=============================================================================
