---------------------------- MODULE EventStream -----------------------------
(***************************************************************************)
(* EventStream (lib/base/event_stream.ts), by which the stores, the syncer *)
(* and the views hear of changes.  A listener that is called may listen,   *)
(* ignore or publish in its turn, while the publish that called it is      *)
(* still going through the array of listeners: listen() extends that array *)
(* in place, ignore() leaves it and makes another one.                     *)
(***************************************************************************)
EXTENDS Naturals, FiniteSets, SequencesExt

CONSTANTS
    Callbacks,
    Contexts,
    NoContext,
    MaxListens,   \* bound on the calls of listen()
    MaxIgnores,   \* bound on the calls of ignore() and ignoreContext()
    MaxDepth      \* bound on the publishes within each other

ASSUME EventStreamAssumption ==
    NoContext \notin Contexts /\ MaxListens \in Nat /\ MaxIgnores \in Nat /\ MaxDepth \in Nat

VARIABLES
    arrays,       \* all arrays of listeners there have been; the last is this.listeners
    registered,   \* number of calls of listen()
    ignored,      \* number of calls of ignore() and ignoreContext()
    publishes     \* the publishes that run, the innermost last

streamVars == <<arrays, registered, ignored, publishes>>

Listener == [id : 1 .. MaxListens, callback : Callbacks, context : Contexts \union {NoContext}]

(* A publish goes through one array.  Only for the properties it knows the *)
(* listeners there were when it began, and whom it has called.             *)
Publishing == [array : Nat, length : 0 .. MaxListens, next : 1 .. MaxListens + 1,
               begun : Seq(Listener), called : Seq(Listener)]

StreamTypeOK ==
    /\ arrays \in Seq(Seq(Listener)) /\ arrays # <<>>
    /\ registered \in 0 .. MaxListens /\ ignored \in 0 .. MaxIgnores
    /\ publishes \in Seq(Publishing) /\ Len(publishes) <= MaxDepth

listeners == Last(arrays)

StreamInit ==
    /\ arrays = <<<<>>>>
    /\ registered = 0 /\ ignored = 0
    /\ publishes = <<>>

-----------------------------------------------------------------------------
(* Faulty variant: the listeners are taken out of the array in place.      *)
WithoutCallbackInPlace(all, callback) ==
    Append(Front(all), SelectSeq(Last(all), LAMBDA l : l.callback # callback))

(* listeners.filter: a new array, of the listeners at the positions that   *)
(* are kept, in their order.                                               *)
Nth(kept, n) == CHOOSE i \in kept : Cardinality({j \in kept : j <= i}) = n
Filtered(array, kept) == [n \in 1 .. Cardinality(kept) |-> array[Nth(kept, n)]]

WithoutCallback(all, callback) ==
    Append(all, Filtered(Last(all), {i \in DOMAIN Last(all) : Last(all)[i].callback # callback}))
WithoutContext(all, context) ==
    Append(all, Filtered(Last(all), {i \in DOMAIN Last(all) : Last(all)[i].context # context}))

(* A context has one listener, the last.                                   *)
MadeWay(all, context) == IF context = NoContext THEN all ELSE WithoutContext(all, context)

(* Code outside, or of a listener that has been called, runs.              *)
Runs == publishes # <<>> => Last(publishes).next > 1

Listen(callback, context) ==
    LET all == MadeWay(arrays, context)
        listener == [id |-> registered + 1, callback |-> callback, context |-> context]
    IN /\ Runs /\ registered < MaxListens
       /\ registered' = registered + 1
       /\ arrays' = Append(Front(all), Append(Last(all), listener))
       /\ UNCHANGED <<ignored, publishes>>

Ignore ==
    /\ Runs /\ ignored < MaxIgnores /\ ignored' = ignored + 1
    /\ \/ \E callback \in Callbacks : arrays' = WithoutCallback(arrays, callback)
       \/ \E context \in Contexts : arrays' = WithoutContext(arrays, context)
    /\ UNCHANGED <<registered, publishes>>

(* forEach goes through the array and stops at the length it had.          *)
Publish ==
    /\ Runs /\ Len(publishes) < MaxDepth
    /\ publishes' = Append(publishes,
            [array |-> Len(arrays), length |-> Len(listeners), next |-> 1,
             begun |-> listeners, called |-> <<>>])
    /\ UNCHANGED <<arrays, registered, ignored>>

(* The next listener is called; forEach skips one that is no longer there. *)
CallListener ==
    LET inner == Last(publishes)
        array == arrays[inner.array]
    IN /\ publishes # <<>> /\ inner.next <= inner.length
       /\ publishes' = Append(Front(publishes),
             [inner EXCEPT !.next = @ + 1,
                           !.called = IF inner.next \in DOMAIN array THEN Append(@, array[inner.next]) ELSE @])
       /\ UNCHANGED <<arrays, registered, ignored>>

PublishEnds ==
    /\ publishes # <<>> /\ Last(publishes).next > Last(publishes).length
    /\ publishes' = Front(publishes)
    /\ UNCHANGED <<arrays, registered, ignored>>

(* A listener throws, and the listeners after it are not called.           *)
ListenerThrows ==
    /\ publishes # <<>> /\ Last(publishes).next > 1
    /\ publishes' = Front(publishes)
    /\ UNCHANGED <<arrays, registered, ignored>>

StreamNext ==
    \/ \E callback \in Callbacks, context \in Contexts \union {NoContext} : Listen(callback, context)
    \/ Ignore
    \/ Publish \/ CallListener \/ PublishEnds \/ ListenerThrows

StreamSpec == StreamInit /\ [][StreamNext]_streamVars

-----------------------------------------------------------------------------
(* A publish calls the listeners there were when it began, each once and   *)
(* in the order in which they were registered, whatever they do to the     *)
(* list and however often they publish themselves: none is skipped because *)
(* one before it was taken off the list, and none that joins the list is   *)
(* called for an event of before.  If one throws, the publish is over      *)
(* (event_stream.ts 34-80).                                                *)
PublishReachesAll ==
    \A n \in DOMAIN publishes :
        LET p == publishes[n] IN
        /\ p.called = SubSeq(p.begun, 1, p.next - 1)
        /\ \A i, j \in DOMAIN p.called : i < j => p.called[i].id < p.called[j].id
=============================================================================
