------------------------------- MODULE Cached -------------------------------
(***************************************************************************)
(* Cached (lib/base/cached.ts): a value that is slow to retrieve, read at  *)
(* most once at a time.  The getter and the setter belong to the owner; in *)
(* the program that is LocalStore, whose index is the only cached value.   *)
(***************************************************************************)
CONSTANTS Values, NoValue

VARIABLES cached,  \* the value, or NoValue
          reading  \* the promise of the getter and what it has retrieved

vars == <<cached, reading>>

Reading(state, value) == [state |-> state, value |-> value]
NotReading == Reading("none", NoValue)

TypeOK ==
  /\ cached \in Values \union {NoValue}
  /\ reading \in [state : {"none", "asked", "retrieved", "rejected"},
                  value : Values \union {NoValue}]

Init == cached = NoValue /\ reading = NotReading

\* get(), the first time: later calls share the promise, also a rejected one.
MustRead == cached = NoValue /\ reading.state = "none"
Get == MustRead /\ reading' = Reading("asked", NoValue) /\ UNCHANGED cached

\* The getter looks the value up ...
Retrieve(value) ==
  /\ reading.state = "asked"
  /\ reading' = Reading("retrieved", value)
  /\ UNCHANGED cached

\* ... and hands it over after whatever else it has to do.
Retrieved ==
  /\ reading.state = "retrieved"
  /\ cached' = reading.value
  /\ reading' = NotReading

\* Nothing resets the promise of a getter that failed.
GetterFails ==
  /\ reading.state \in {"asked", "retrieved"}
  /\ reading' = Reading("rejected", NoValue)
  /\ UNCHANGED cached

Set(value) == cached' = value /\ UNCHANGED reading

Clear == cached' = NoValue /\ UNCHANGED reading
=============================================================================
