------------------------------ MODULE ItemViews ------------------------------
(***************************************************************************)
(* The item list (webui/item_list_view.ts), the details view with its      *)
(* editing (webui/details_view.ts) and what the app does for them          *)
(* (webui/app_view.ts), beside the page whose forms the selected item      *)
(* fills.  The content of an item is the set of the changes made to it.    *)
(*                                                                         *)
(* The views hold on to JavaScript objects: a listed item stands for the   *)
(* revision that was listed, and a draft that was handed over to be saved  *)
(* is still the object that the details view edits.                        *)
(***************************************************************************)
EXTENDS Page, FiniteSetsExt, SequencesExt

CONSTANTS
    Items,          \* item UUIDs, in the order of their titles
    Queries,        \* the items whose titles the user searches for
    NewItem,        \* the UUID that the next new item gets
    ItemUrl,        \* the website of each item
    MaxChanges,     \* bound on the changes made to items
    MaxActs,        \* bound on openings, changes, fills, page loads and further
                    \* scripts of a page together
    Unhurried       \* whether the user, and the syncer, wait for what was
                    \* saved to be stored and listed, and for queries to apply

NoItem == 0
All == 0            \* the query that every item matches

ASSUME ItemsAssumption ==
    /\ Items \subseteq Nat \ {NoItem} /\ NewItem \in Items
    /\ Queries \subseteq Items /\ DOMAIN ItemUrl = Items
    /\ MaxChanges \in Nat /\ MaxActs \in Nat /\ Unhurried \in BOOLEAN

VARIABLES
    stored,     \* the items in the store: their changes, and whether trashed
    listed,     \* the listed items, as they were when they were listed
    stale,      \* whether the store has told of an update since
    typed,      \* what is in the search field
    filter,     \* what the list is filtered by
    focused,    \* the item with the focus in the list
    details,    \* the details view
    saves,      \* the drafts about to be saved, `shared' with the details view
    changes,    \* how many changes were made
    openings,
    cancelled   \* the changes that were cancelled before they were saved

listVars == <<listed, stale, typed, filter, focused>>
itemVars == <<stored, listed, stale, typed, filter, focused, details, saves, changes,
             openings, cancelled>>
vars == <<pageVars, itemVars>>

Changes == 1 .. MaxChanges
Content == [changes : SUBSET Changes, trashed : BOOLEAN]
NoDraft == [changes |-> {}, trashed |-> FALSE, loaded |-> FALSE]
Draft(content) == [changes |-> content.changes, trashed |-> content.trashed, loaded |-> TRUE]
Closed == [item |-> NoItem, mode |-> "EditItem", base |-> [changes |-> {}, trashed |-> FALSE],
           draft |-> NoDraft, isEditing |-> FALSE, didEditItem |-> FALSE, leaving |-> FALSE,
           handed |-> {}]

TypeOK ==
    /\ PageTypeOK
    /\ DOMAIN stored \subseteq Items /\ \A u \in DOMAIN stored : stored[u] \in Content
    /\ DOMAIN listed \subseteq Items /\ \A u \in DOMAIN listed : listed[u] \in Content
    /\ stale \in BOOLEAN
    /\ {typed, filter} \subseteq Queries \union {All}
    /\ focused \in Items \union {NoItem}
    /\ details.item \in Items \union {NoItem} /\ details.base \in Content
    /\ saves \in Seq([item : Items, changes : SUBSET Changes, trashed : BOOLEAN, shared : BOOLEAN])
    /\ changes \in 0 .. MaxChanges /\ openings \in 0 .. MaxActs
    /\ cancelled \subseteq Changes

-----------------------------------------------------------------------------
(* ItemList.updateMatchingItems *)

Matching(list, query, url) ==
    IF query # All THEN DOMAIN list \intersect {query}
    ELSE LET forPage == {u \in DOMAIN list : ItemUrl[u] = url}
         IN IF forPage # {} THEN forPage ELSE DOMAIN list

First(set) == IF set = {} THEN NoItem ELSE Min(set)

(* The focus stays on the object that had it if that is still listed.      *)
Refocus(keeps, matching) ==
    focused' = IF keeps /\ focused \in matching THEN focused ELSE First(matching)

Open == details.item # NoItem
FurtherScripts == Cardinality({p \in Tabs \X (2 .. MaxScripts) : p[2] \in DOMAIN tabs[p[1]].asked})
MayAct == openings + changes + Len(fills) + Len(docs) - 1 + FurtherScripts < MaxActs
Current == saves = <<>> /\ ~stale

Init ==
    /\ PageInit([url |-> NoPage, form |-> <<>>])
    /\ stored = [u \in Items \ {NewItem} |-> [changes |-> {}, trashed |-> FALSE]]
    /\ listed = stored /\ stale = FALSE
    /\ typed = All /\ filter = All
    /\ focused = First(Items \ {NewItem})
    /\ details = Closed
    /\ saves = <<>>
    /\ changes = 0 /\ openings = 0 /\ cancelled = {}

-----------------------------------------------------------------------------
(* The store *)

(* Faulty variant: items that are listed already are not replaced.         *)
RefreshAdds ==
    LET visible == {u \in DOMAIN stored : ~stored[u].trashed} IN
    /\ stale /\ stale' = FALSE
    /\ listed' = [u \in visible |-> IF u \in DOMAIN listed THEN listed[u] ELSE stored[u]]
    /\ Refocus(FALSE, Matching(listed', filter, currentUrl))
    /\ UNCHANGED <<pageVars, stored, typed, filter, details, saves, changes,
                   openings, cancelled>>

(* refreshItems, when updates have ceased: every item is a new object.     *)
Refresh ==
    /\ stale /\ stale' = FALSE
    /\ listed' = Restrict(stored, {u \in DOMAIN stored : ~stored[u].trashed})
    /\ Refocus(FALSE, Matching(listed', filter, currentUrl))
    /\ UNCHANGED <<pageVars, stored, typed, filter, details, saves, changes,
                   openings, cancelled>>

(* The syncer stores what another device saved.                            *)
RemoteChange(u) ==
    /\ changes < MaxChanges /\ MayAct /\ u \in DOMAIN stored
    /\ Unhurried => ~Open /\ saves = <<>>
    /\ changes' = changes + 1
    /\ stored' = [stored EXCEPT ![u].changes = @ \union {changes'}]
    /\ stale' = TRUE
    /\ UNCHANGED <<pageVars, listed, typed, filter, focused, details, saves,
                   openings, cancelled>>

(* SAVE_DELAY has passed: the draft is saved as it is now.                 *)
SaveDelayed ==
    /\ saves # <<>> /\ saves' = Tail(saves)
    /\ LET draft == Head(saves)
       IN stored' = [u \in DOMAIN stored \union {draft.item} |->
                        IF u # draft.item THEN stored[u]
                        ELSE [changes |-> draft.changes, trashed |-> draft.trashed]]
    /\ stale' = TRUE
    /\ UNCHANGED <<pageVars, listed, typed, filter, focused, details, changes,
                   openings, cancelled>>

(* The vault was locked meanwhile, or the write failed: an error is shown. *)
SaveFails ==
    /\ saves # <<>> /\ saves' = Tail(saves)
    /\ UNCHANGED <<pageVars, stored, listVars, details, changes, openings, cancelled>>

-----------------------------------------------------------------------------
(* The list *)

TypeQuery(q) ==
    /\ ~Open /\ typed' = q /\ q # typed
    /\ UNCHANGED <<pageVars, stored, listed, stale, filter, focused, details, saves,
                   changes, openings, cancelled>>

(* The debounced onQueryChanged.                                           *)
ApplyQuery ==
    /\ filter # typed /\ filter' = typed
    /\ Refocus(TRUE, Matching(listed, typed, currentUrl))
    /\ UNCHANGED <<pageVars, stored, listed, stale, typed, details, saves, changes,
                   openings, cancelled>>

MoveFocus(u) ==
    /\ ~Open /\ focused # NoItem
    /\ LET matching == Matching(listed, filter, currentUrl) IN
        /\ u \in matching \ {focused}
        /\ ~\E w \in matching : w \in focused + 1 .. u - 1 \/ w \in u + 1 .. focused - 1
    /\ focused' = u
    /\ UNCHANGED <<pageVars, stored, listed, stale, typed, filter, details, saves,
                   changes, openings, cancelled>>

(* setSelectedItem: a click on an item, or Enter for the focused one.      *)
OpenItem(u) ==
    /\ ~Open /\ MayAct
    /\ u \in Matching(listed, filter, currentUrl)
    /\ Unhurried => Current /\ filter = typed
    /\ details' = [Closed EXCEPT !.item = u, !.base = listed[u]]
    /\ openings' = openings + 1
    /\ UNCHANGED <<pageVars, stored, listVars, saves, changes, cancelled>>

(* The menu's "Add Item".                                                  *)
AddItem ==
    /\ ~Open /\ MayAct
    /\ NewItem \notin DOMAIN stored /\ \A k \in DOMAIN saves : saves[k].item # NewItem
    /\ details' = [Closed EXCEPT !.item = NewItem, !.mode = "AddItem",
                                 !.isEditing = TRUE, !.didEditItem = TRUE]
    /\ openings' = openings + 1
    /\ UNCHANGED <<pageVars, stored, listVars, saves, changes, cancelled>>

-----------------------------------------------------------------------------
(* The details view *)

DetailsStep == UNCHANGED <<pageVars, stored, listVars, openings>>

(* The view lets go of its draft: later changes do not reach the saves.     *)
LetGo == [k \in DOMAIN saves |-> [saves[k] EXCEPT !.shared = FALSE]]

(* resetEdits: the draft is a clone of the item that is shown, with the    *)
(* content that was fetched for it.                                        *)
ResetEdits(view) ==
    /\ details' = [view EXCEPT !.draft = Draft(view.base)]
    /\ saves' = LetGo

(* fetchContent                                                            *)
ContentLoaded ==
    /\ Open /\ ~details.draft.loaded
    /\ ResetEdits(details)
    /\ DetailsStep /\ UNCHANGED <<changes, cancelled>>

Edit ==
    /\ Open /\ details.draft.loaded /\ ~details.isEditing
    /\ Unhurried => details.handed = {}
    /\ details' = [details EXCEPT !.isEditing = TRUE]
    /\ DetailsStep /\ UNCHANGED <<saves, changes, cancelled>>

Editing == Open /\ details.draft.loaded /\ details.isEditing

(* The handlers of the fields change the draft, then call onChangeItem.    *)
ChangeDraft(draft) ==
    /\ Editing /\ changes < MaxChanges /\ MayAct /\ changes' = changes + 1
    /\ details' = [details EXCEPT !.draft = draft, !.draft.changes = @ \union {changes'},
                                  !.didEditItem = TRUE]
    /\ saves' = [k \in DOMAIN saves |->
            IF saves[k].shared
            THEN [saves[k] EXCEPT !.changes = @ \union {changes'}, !.trashed = draft.trashed]
            ELSE saves[k]]
    /\ DetailsStep /\ UNCHANGED cancelled

Change == ChangeDraft(details.draft)

MoveToTrashOrRestore ==
    /\ details.mode = "EditItem"
    /\ ChangeDraft([details.draft EXCEPT !.trashed = ~@])

Handed == [item |-> details.item, changes |-> details.draft.changes,
           trashed |-> details.draft.trashed, shared |-> details.mode = "EditItem"]

Save ==
    /\ Editing
    /\ saves' = IF details.didEditItem THEN Append(saves, Handed) ELSE saves
    /\ details' = IF details.mode = "AddItem" THEN Closed
                  ELSE [details EXCEPT !.isEditing = FALSE, !.didEditItem = FALSE,
                                       !.handed = IF details.didEditItem
                                                  THEN details.draft.changes ELSE @]
    /\ DetailsStep /\ UNCHANGED <<changes, cancelled>>

CancelClicked ==
    /\ Editing /\ details.mode = "EditItem"
    /\ cancelled' = cancelled \union (details.draft.changes \ (details.base.changes \union details.handed))
    /\ DetailsStep /\ UNCHANGED changes

(* Faulty variant: the draft is kept, only the editing ends.               *)
CancelKeepsDraft ==
    /\ CancelClicked
    /\ details' = [details EXCEPT !.isEditing = FALSE, !.didEditItem = FALSE]
    /\ UNCHANGED saves

Cancel ==
    /\ CancelClicked
    /\ ResetEdits([details EXCEPT !.isEditing = FALSE, !.didEditItem = FALSE])

(* exit: Back, Cancel of a new item, or Backspace, also while editing.     *)
Exit ==
    /\ Open /\ ~details.leaving
    /\ details' = [details EXCEPT !.leaving = TRUE]
    /\ DetailsStep /\ UNCHANGED <<saves, changes, cancelled>>

(* The transition has ended: onGoBack.                                     *)
GoBack ==
    /\ Open /\ details.leaving
    /\ details' = Closed /\ saves' = LetGo
    /\ DetailsStep /\ UNCHANGED <<changes, cancelled>>

AutoFillSelected == Open /\ MayAct /\ AutoFill /\ UNCHANGED itemVars

-----------------------------------------------------------------------------
(* The panel is shown on a page: if its URL is another one the selection,  *)
(* with what was being edited, is dropped (stores/app.ts update).          *)
PageShown ==
    /\ tabs[activeTab].asked = <<>> \/ MayAct
    /\ ShowPanel
    /\ IF currentUrl' = currentUrl THEN UNCHANGED <<details, saves>>
       ELSE details' = Closed /\ saves' = LetGo
    /\ Refocus(TRUE, Matching(listed, filter, currentUrl'))
    /\ UNCHANGED <<stored, listed, stale, typed, filter, changes, openings, cancelled>>

BrowserStep ==
    /\ \/ SwitchTab
       \/ MayAct /\ \E page \in Pages : Navigate(activeTab, page)
       \/ \E f \in DOMAIN fills : ContentFails(f) \/ ConnectFails(f)
    /\ UNCHANGED itemVars

ScriptStep == PageStep /\ UNCHANGED itemVars

Next ==
    \/ Refresh \/ (\E u \in Items : RemoteChange(u)) \/ SaveDelayed \/ SaveFails
    \/ (\E q \in Queries \union {All} : TypeQuery(q)) \/ ApplyQuery
    \/ \E u \in Items : MoveFocus(u) \/ OpenItem(u)
    \/ AddItem \/ ContentLoaded \/ Edit \/ Change \/ MoveToTrashOrRestore
    \/ Save \/ Cancel \/ Exit \/ GoBack \/ AutoFillSelected
    \/ PageShown \/ BrowserStep \/ ScriptStep

Spec == Init /\ [][Next]_vars /\ WF_vars(ScriptStep)

-----------------------------------------------------------------------------
(* A change that has been stored is never lost when the item is saved      *)
(* again, in whatever order items are opened, edited, cancelled, left and  *)
(* saved (details_view.ts 342-353, app_view.ts 300-326).  So it is only if *)
(* the user waits for a save to be stored and listed: the view goes on     *)
(* showing the content it had fetched.                                     *)
SavedEditsSurvive ==
    [][\A u \in DOMAIN stored : u \in DOMAIN stored'
                                /\ stored[u].changes \subseteq stored'[u].changes]_vars

(* What was cancelled is not saved, not even with a later save of the same *)
(* item (details_view.ts 675-695).                                         *)
CancelledEditsAreNotSaved == \A u \in DOMAIN stored : stored[u].changes \intersect cancelled = {}
=============================================================================
