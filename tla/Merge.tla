-------------------------------- MODULE Merge --------------------------------
(***************************************************************************)
(* Three-way merge of the URLs, sections or form fields of two versions of *)
(* an item (lib/item_merge.ts, mergeSets) by diffs of ordered sets         *)
(* (lib/base/diff.ts).  Entries are matched by a label; an entry whose     *)
(* label occurred before in its array gets a key with a suffix.            *)
(***************************************************************************)
EXTENDS Naturals, Sequences, FiniteSets, SequencesExt

CONSTANTS
    MaxLabel,    \* bound on the labels of arrays without a repeated label
    MaxRepeated, \* bound on the length of arrays with repeated labels
    Values       \* what an entry holds besides its label

ASSUME MergeAssumption ==
    /\ MaxLabel \in Nat /\ MaxRepeated \in Nat
    /\ Values # {} /\ IsFiniteSet(Values)

VARIABLES
    base, first, second,    \* the arrays that are merged
    deltas,                 \* the two set diffs
    merged,                 \* the merged keys or entries
    step                    \* "diff", "merge"; then "done", or "hangs", "throws in
                            \* diff" or "throws", as uniqueKeys, diffSets and patch do

mergeVars == <<base, first, second, deltas, merged, step>>

-----------------------------------------------------------------------------
(* uniqueKeys: the second entry with a label gets a suffix.  The number in *)
(* the suffix is never advanced, so the third one is looked for for good.  *)
UniqueKeys(array, suffix) ==
    [i \in DOMAIN array |->
        <<array[i].label, IF \E j \in 1 .. i - 1 : array[j].label = array[i].label
                            THEN suffix ELSE "">>]

NoUniqueKeys(array) ==
    \E i \in DOMAIN array :
        Cardinality({j \in DOMAIN array : array[j].label = array[i].label}) > 2

BaseKeys == UniqueKeys(base, "base")
FirstKeys == UniqueKeys(first, "first")
SecondKeys == UniqueKeys(second, "second")

(* indexOf, counted from 0 as the positions of the operations are.         *)
IndexOf(s, v) == (CHOOSE i \in DOMAIN s : s[i] = v) - 1

-----------------------------------------------------------------------------
(* adiff keeps a longest common subsequence of a and b and reports one     *)
(* change for each gap.  Which one it keeps of several is left open.       *)
CommonSubsequences(a, b) ==
    {K \in SUBSET (ToSet(a) \intersect ToSet(b)) :
        LET InK(v) == v \in K IN SelectSeq(a, InK) = SelectSeq(b, InK)}
KeptByDiff(a, b) ==
    LET common == CommonSubsequences(a, b)
    IN {K \in common : \A L \in common : Cardinality(L) <= Cardinality(K)}

(* diffSets asserts that what is not kept has another index than before.   *)
DiffThrows(a, b, K) == \E i \in DOMAIN a \intersect DOMAIN b : a[i] = b[i] /\ a[i] \notin K

Removal(pos, value) == [type |-> "Remove", pos |-> pos, value |-> value]
Insertion(pos, value) == [type |-> "Insert", pos |-> pos, value |-> value]
Movement(pos, prevPos, value) ==
    [type |-> "Move", pos |-> pos, prevPos |-> prevPos, value |-> value]

(* The gap after the g-th element that is kept.                            *)
GapStart(s, kept, g) == IF g = 0 THEN 0 ELSE IndexOf(s, kept[g]) + 1
GapEnd(s, kept, g) == IF g = Len(kept) THEN Len(s) ELSE IndexOf(s, kept[g + 1])

DiffLists(a, b, K) ==
    LET InK(v) == v \in K
        kept == SelectSeq(a, InK)
        Change(g) ==
            LET index == GapStart(a, kept, g)
                inserted == SubSeq(b, GapStart(b, kept, g) + 1, GapEnd(b, kept, g))
            IN [i \in 1 .. GapEnd(a, kept, g) - index |-> Removal(index + i - 1, a[index + i])]
               \o [i \in DOMAIN inserted |-> Insertion(index, inserted[i])]
    IN FlattenSeq([n \in 1 .. Len(kept) + 1 |-> Change(n - 1)])

(* A removal and an insertion of one element become a move.                *)
DiffSets(a, b, K) ==
    LET Reported(op) == op.type = "Insert" \/ op.value \notin ToSet(b)
        AsSetOp(op) == IF op.type = "Insert" /\ op.value \in ToSet(a)
                         THEN Movement(op.pos, IndexOf(a, op.value), op.value) ELSE op
        ops == SelectSeq(DiffLists(a, b, K), Reported)
    IN [i \in DOMAIN ops |-> AsSetOp(ops[i])]

ChangedBy(delta) == {delta[i].value : i \in DOMAIN delta}

(* Faulty variant: both changes of an element are kept.                    *)
MergeSetDiffsBoth(a, b) == a \o b

(* A change in the first diff overrides one of the same element in the     *)
(* second.                                                                 *)
MergeSetDiffs(a, b) ==
    LET NotSeen(op) == op.value \notin ChangedBy(a) IN a \o SelectSeq(b, NotSeen)

-----------------------------------------------------------------------------
(* transformPatch: the position after the changes that were applied.       *)
TransformedPos(change, applied) ==
    LET ForInsert(pos, op) ==
            IF op.type = "Insert" /\ op.pos <= pos THEN pos + 1
            ELSE IF op.type = "Remove" /\ op.pos < pos THEN pos - 1 ELSE pos
        ForRemove(pos, op) ==
            IF op.pos <= pos THEN IF op.type = "Insert" THEN pos + 1 ELSE pos - 1
            ELSE pos
    IN IF change.type = "Insert" THEN FoldLeft(ForInsert, change.pos, applied)
       ELSE FoldLeft(ForRemove, change.pos, applied)

(* Moves are split, the changes are sorted by position, without changing   *)
(* the order of those with the same one, and applied one by one.           *)
SplitMoves(delta) ==
    FlattenSeq([i \in DOMAIN delta |->
        IF delta[i].type = "Move"
          THEN <<Insertion(delta[i].pos, delta[i].value), Removal(delta[i].prevPos, delta[i].value)>>
          ELSE <<delta[i]>>])

SortByPos(ops, n) ==
    FlattenSeq([p \in 1 .. n + 1 |->
        LET AtPos(op) == op.pos = p - 1 IN SelectSeq(ops, AtPos)])

(* splice puts an element past the end at the end.                         *)
Apply(s, change) ==
    LET pos == TransformedPos(change, s.applied)
        at == IF pos > Len(s.list) THEN Len(s.list) ELSE pos
        applied == Append(s.applied, change)
    IN IF change.type = "Insert"
         THEN [s EXCEPT !.list = InsertAt(@, at + 1, change.value), !.applied = applied]
         ELSE IF pos \in 0 .. Len(s.list) - 1 /\ s.list[pos + 1] = change.value
                THEN [s EXCEPT !.list = RemoveAt(@, pos + 1), !.applied = applied]
                ELSE [s EXCEPT !.failed = TRUE]

Patch(list, delta) ==
    FoldLeft(Apply, [list |-> list, applied |-> <<>>, failed |-> FALSE],
             SortByPos(SplitMoves(delta), Len(list)))

-----------------------------------------------------------------------------
(* The entry for a merged key.  mergeField compares the objects, and those *)
(* of versions that were loaded one by one are never the same, so that of  *)
(* `first' wins whenever both sides have the key.  An entry that only one  *)
(* side has left is taken if it is new, and is undefined if it is old.     *)
EntryOf(key) ==
    CASE key \in ToSet(FirstKeys) /\ (key \in ToSet(SecondKeys) \/ key \notin ToSet(BaseKeys)) ->
            first[IndexOf(FirstKeys, key) + 1]
      [] key \in ToSet(SecondKeys) \ (ToSet(FirstKeys) \union ToSet(BaseKeys)) ->
            second[IndexOf(SecondKeys, key) + 1]

Undefined(key) ==
    \/ key \in ToSet(BaseKeys) /\ ~(key \in ToSet(FirstKeys) /\ key \in ToSet(SecondKeys))
    \/ key \notin ToSet(FirstKeys) \union ToSet(SecondKeys)

(* Labels are named in the order in which they appear in the base.         *)
DistinctArrays == {s \in UNION {[1 .. n -> 1 .. MaxLabel] : n \in 0 .. MaxLabel} : IsInjective(s)}
RepeatedArrays == UNION {[1 .. n -> {1, 2}] : n \in 0 .. MaxRepeated}
WithValues(s, values) == {[i \in DOMAIN s |-> [label |-> s[i], value |-> v[i]]] :
                              v \in [DOMAIN s -> values]}
OldValue == CHOOSE v \in Values : TRUE
InOrder(s) == \A i \in DOMAIN s : s[i] = i

InputsOf(arrays, bases) ==
    /\ base \in UNION {WithValues(s, {OldValue}) : s \in bases}
    /\ first \in UNION {WithValues(s, Values) : s \in arrays}
    /\ second \in UNION {WithValues(s, Values) : s \in arrays}

MergeInit ==
    /\ \/ InputsOf(DistinctArrays, {s \in DistinctArrays : InOrder(s)})
       \/ InputsOf(RepeatedArrays, RepeatedArrays)
    /\ deltas = [first |-> <<>>, second |-> <<>>]
    /\ merged = <<>>
    /\ step = "diff"

DiffFromBase ==
    /\ step = "diff"
    /\ IF NoUniqueKeys(base) \/ NoUniqueKeys(first) \/ NoUniqueKeys(second)
         THEN step' = "hangs" /\ UNCHANGED deltas
         ELSE \E K \in KeptByDiff(BaseKeys, FirstKeys), L \in KeptByDiff(BaseKeys, SecondKeys) :
                IF DiffThrows(BaseKeys, FirstKeys, K) \/ DiffThrows(BaseKeys, SecondKeys, L)
                THEN step' = "throws in diff" /\ UNCHANGED deltas
                ELSE /\ step' = "merge"
                     /\ deltas' = [first |-> DiffSets(BaseKeys, FirstKeys, K),
                                   second |-> DiffSets(BaseKeys, SecondKeys, L)]
    /\ UNCHANGED <<base, first, second, merged>>

MergeSets ==
    LET patched == Patch(BaseKeys, MergeSetDiffs(deltas.first, deltas.second))
        keys == patched.list
    IN /\ step = "merge"
       /\ IF patched.failed \/ \E i \in DOMAIN keys : Undefined(keys[i])
            THEN step' = "throws" /\ UNCHANGED merged
            ELSE step' = "done" /\ merged' = [i \in DOMAIN keys |->
                    [key |-> keys[i], entry |-> EntryOf(keys[i])]]
       /\ UNCHANGED <<base, first, second, deltas>>

MergeNext == DiffFromBase \/ MergeSets

MergeSpec == MergeInit /\ [][MergeNext]_mergeVars

-----------------------------------------------------------------------------
MergedKeys == [i \in DOMAIN merged |-> merged[i].key]

(* The merge holds, once each, the entries that a merge of sets holds:     *)
(* those that were added on a side and those that were removed on none.    *)
MergesMembers ==
    step = "done" =>
        /\ IsInjective(MergedKeys)
        /\ ToSet(MergedKeys) =
              (ToSet(FirstKeys) \intersect ToSet(SecondKeys))
                \union ((ToSet(FirstKeys) \union ToSet(SecondKeys)) \ ToSet(BaseKeys))

(* If one side has left the array alone and the other has only added       *)
(* entries, or only removed entries and at most three, the merge is that   *)
(* side, in its order (diff.ts 151-235).  More is not true: the positions  *)
(* of the applied changes are compared with one that has been adapted      *)
(* already, so that the removal of <<1, 2, 3, 4>> fails, and <<1, 2>>      *)
(* patched to <<2, 3, 4>> is <<2, 4, 3>>.                                  *)
OnlyAdds(old, new) == LET Old(key) == key \in ToSet(old) IN SelectSeq(new, Old) = old
OnlyRemoves(old, new) == OnlyAdds(new, old) /\ Len(old) - Len(new) <= 3
OneSidedChangesAreTaken ==
    \A sides \in {<<FirstKeys, SecondKeys>>, <<SecondKeys, FirstKeys>>} :
        /\ sides[1] = BaseKeys
        /\ OnlyAdds(BaseKeys, sides[2]) \/ OnlyRemoves(BaseKeys, sides[2])
        => /\ step \notin {"throws", "throws in diff"}
           /\ step = "done" => MergedKeys = sides[2]

(* So a merge that ends has taken what both sides did, and the changes of  *)
(* one side alone as they are.                                             *)
MergeTakesBothSides == MergesMembers /\ OneSidedChangesAreTaken

(* A diff of one side applies (diff.ts 183-186: "Apply a patch to a list   *)
(* or set and return the patched version. The patches can be created using *)
(* the diffSets() or diffLists() functions").  This is false.              *)
OneSidedDiffsApply == deltas.first = <<>> \/ deltas.second = <<>> => step # "throws"

(* An entry that only the second version has changed is in the merge with  *)
(* its change (item_merge.ts 25-27: "unchanged, or only changed in item    *)
(* 'b'").  This is false: see EntryOf.                                     *)
ValueIn(array, keys, key) == array[IndexOf(keys, key) + 1].value
SecondChangesAreTaken ==
    \A i \in DOMAIN merged :
        LET key == merged[i].key
        IN /\ key \in ToSet(BaseKeys) /\ key \in ToSet(FirstKeys) /\ key \in ToSet(SecondKeys)
           /\ ValueIn(first, FirstKeys, key) = ValueIn(base, BaseKeys, key)
           => merged[i].entry.value = ValueIn(second, SecondKeys, key)
=============================================================================
