----------------------------- MODULE Replication ----------------------------
(***************************************************************************)
(* What CloudStoreSyncer (src/lib/sync.ts) promises its users, apart from  *)
(* listings, revisions, store calls and progress: two stores hold copies   *)
(* of items, their users change them, and at any moment an item may be     *)
(* synced.  That is one step: each field gets the value that one of the    *)
(* users has given it since both stores agreed on the item.  An entry of a *)
(* list that a user has added or removed is added or removed; if both      *)
(* stores have changed the item, one that both have is that of the local.  *)
(***************************************************************************)
EXTENDS Integers

CONSTANTS
  Items,
  Fields,
  Entries   \* the fields that are entries of lists

VARIABLES
  copies,   \* copies[s][i]: what store s has of item i
  base,     \* base[i]: what both stores had when item i was last synced
  edits     \* number of changes by users, which makes each value a new one

replicaVars == <<copies, base, edits>>

Stores == {"local", "cloud"}

Blank == [f \in Fields |-> 0]
Missing == [state |-> "missing", fields |-> Blank]
Removed == [state |-> "removed", fields |-> Blank]
Live(fields) == [state |-> "live", fields |-> fields]

IsLive(s, i) == copies[s][i].state = "live"
IsNew(i) == \A s \in Stores : copies[s][i] = Missing

-----------------------------------------------------------------------------
Init ==
  /\ copies = [s \in Stores |-> [i \in Items |-> Missing]]
  /\ base = [i \in Items |-> Missing]
  /\ edits = 0

(* Users *)

Edit(i, s, f) ==
  /\ IsLive(s, i) \/ IsNew(i)
  /\ edits' = edits + 1
  /\ copies' = [copies EXCEPT ![s][i] = Live([@.fields EXCEPT ![f] = edits + 1])]
  /\ UNCHANGED base

Present(value) == value > 0

RemoveEntry(i, s, f) ==
  /\ IsLive(s, i)
  /\ f \in Entries /\ Present(copies[s][i].fields[f])
  /\ edits' = edits + 1
  /\ copies' = [copies EXCEPT ![s][i] = Live([@.fields EXCEPT ![f] = -(edits + 1)])]
  /\ UNCHANGED base

Remove(i, s) ==
  /\ IsLive(s, i)
  /\ edits' = edits + 1
  /\ copies' = [copies EXCEPT ![s][i] = Removed]
  /\ UNCHANGED base

(* Syncs *)

Synced(i) == base[i] # Missing

Settle(i, copy) ==
  /\ copies' = [s \in Stores |-> [copies[s] EXCEPT ![i] = copy]]
  /\ base' = [base EXCEPT ![i] = IF copy = Removed THEN Missing ELSE copy]
  /\ UNCHANGED edits

\* An item that only one store has is copied to the other.
Spread(i, s) ==
  /\ ~Synced(i) /\ IsLive(s, i) /\ \A t \in Stores \ {s} : copies[t][i] = Missing
  /\ Settle(i, copies[s][i])

\* A field gets the value in the cloud if the local store has not changed it.
\* An entry of an item that the local store has changed does so only if it was
\* added or removed in the cloud.
CloudWins(i, f) ==
  LET old == base[i].fields[f]
      mine == copies["local"][i].fields[f]
      theirs == copies["cloud"][i].fields[f]
  IN  IF f \in Entries /\ copies["local"][i] # base[i]
      THEN Present(mine) = Present(old) /\ Present(theirs) # Present(old)
      ELSE mine = old

Merged(i) ==
  [f \in Fields |-> copies[IF CloudWins(i, f) THEN "cloud" ELSE "local"][i].fields[f]]

MergeCopies(i) ==
  /\ Synced(i) /\ \A s \in Stores : IsLive(s, i)
  /\ Settle(i, Live(Merged(i)))

\* A removal is final in the local store.  One in the cloud is undone if the
\* item has changed in the local store.
RemoveCopies(i) ==
  /\ Synced(i)
  /\ \/ copies["local"][i] = Removed
     \/ copies["cloud"][i] = Removed /\ copies["local"][i] = base[i]
  /\ Settle(i, Removed)

Restore(i) ==
  /\ Synced(i)
  /\ copies["cloud"][i] = Removed /\ IsLive("local", i) /\ copies["local"][i] # base[i]
  /\ Settle(i, copies["local"][i])

Sync(i) ==
  \/ \E s \in Stores : Spread(i, s)
  \/ MergeCopies(i)
  \/ RemoveCopies(i)
  \/ Restore(i)

Next ==
  \E i \in Items :
    \/ Sync(i)
    \/ \E s \in Stores :
         \/ Remove(i, s)
         \/ \E f \in Fields : Edit(i, s, f) \/ RemoveEntry(i, s, f)

Spec == Init /\ [][Next]_replicaVars
=============================================================================
