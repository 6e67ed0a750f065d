------------------------------ MODULE StoreKeys ------------------------------
(***************************************************************************)
(* The encryption keys of a store: CloudStoreSyncer.syncKeys copies them   *)
(* from the vault to the local database (lib/sync.ts, local_store.ts       *)
(* saveKeys), and the unlock view reads them there (item_store.ts          *)
(* unlockStore, webui/unlock_view.ts).  The calls of one step of saveKeys  *)
(* are transactions of IndexedDB, which runs them in order, so that        *)
(* another step falls between them only if the page is closed.             *)
(***************************************************************************)
EXTENDS Naturals, Sequences, FiniteSets

CONSTANTS
    KeyIds,         \* the keys of the vault
    MaxKeySyncs,    \* bound on the calls of syncKeys
    MaxFailures \* bound on failing calls

ASSUME StoreKeysAssumption ==
    /\ IsFiniteSet(KeyIds) /\ KeyIds # {}
    /\ MaxKeySyncs \in Nat /\ MaxFailures \in Nat

VARIABLES
    session,       \* number of times a store was opened (initAccount)
    vaultKeys,     \* session -> the promise Vault.keys
    syncs,         \* the calls of syncKeys
    saved,         \* the keys in the local database
    haveKeys,      \* state of the unlock view, which is shown if...
    open,          \* ...an account is open
    unlock,        \* the attempt to unlock
    failures

keyVars == <<session, vaultKeys, syncs, saved, haveKeys, open, unlock, failures>>

Ended == {"done", "failed"}
SyncOfKeys == [session : Nat, step : {"read", "list", "remove", "set"} \union Ended,
               listed : SUBSET KeyIds]
NoUnlock == [step |-> "none", listed |-> {}]

KeysTypeOK ==
    /\ session \in Nat
    /\ vaultKeys \in Seq({"none", "loaded", "failed"}) /\ Len(vaultKeys) = session
    /\ syncs \in Seq(SyncOfKeys) /\ Len(syncs) <= MaxKeySyncs
    /\ saved \in SUBSET KeyIds
    /\ haveKeys \in BOOLEAN /\ open \in BOOLEAN
    /\ unlock \in [step : {"none", "listed", "decrypting", "unlocked", "failed"}, listed : SUBSET KeyIds]
    /\ failures \in Nat

KeysInit ==
    /\ session = 0 /\ vaultKeys = <<>> /\ syncs = <<>>
    /\ saved = {}
    /\ haveKeys = FALSE /\ open = FALSE
    /\ unlock = NoUnlock
    /\ failures = 0

NewSync(s) == [session |-> s, step |-> "read", listed |-> {}]

(* initAccount, and the unlock view that asks for the keys as it mounts.   *)
OpenStore ==
    /\ Len(syncs) < MaxKeySyncs
    /\ session' = session + 1
    /\ vaultKeys' = Append(vaultKeys, "none")
    /\ syncs' = Append(syncs, NewSync(session + 1))
    /\ haveKeys' = (saved # {})
    /\ open' = TRUE
    /\ unlock' = NoUnlock
    /\ UNCHANGED <<saved, failures>>

(* `Switch Store': the syncs of the store that is left go on.              *)
CloseStore ==
    /\ open
    /\ open' = FALSE
    /\ haveKeys' = FALSE
    /\ unlock' = NoUnlock
    /\ UNCHANGED <<session, vaultKeys, syncs, saved, failures>>

(* `Clear Offline Storage': the database is deleted and the keys synced    *)
(* again.  The unlock view is not told that the keys are gone.             *)
ClearOfflineStorage ==
    /\ open /\ Len(syncs) < MaxKeySyncs
    /\ saved' = {}
    /\ syncs' = Append(syncs, NewSync(session))
    /\ unlock' = NoUnlock
    /\ UNCHANGED <<session, vaultKeys, haveKeys, open, failures>>

-----------------------------------------------------------------------------
AtStep(n, step) == n \in DOMAIN syncs /\ syncs[n].step = step
Step(n, step) == syncs' = [syncs EXCEPT ![n].step = step]

(* listKeys of the vault: what getKeys has loaded, or failed to load, is   *)
(* not loaded again.  A vault that has no keys fails.                      *)
KeysRead(n, readable) ==
    /\ AtStep(n, "read")
    /\ LET s == syncs[n].session
       IN CASE vaultKeys[s] = "loaded" -> Step(n, "list") /\ UNCHANGED vaultKeys
            [] vaultKeys[s] = "failed" -> Step(n, "failed") /\ UNCHANGED vaultKeys
            [] OTHER ->
                  IF readable THEN Step(n, "list") /\ vaultKeys' = [vaultKeys EXCEPT ![s] = "loaded"]
                  ELSE Step(n, "failed") /\ vaultKeys' = [vaultKeys EXCEPT ![s] = "failed"]
    /\ UNCHANGED <<session, saved, haveKeys, open, unlock, failures>>

ReadFails(n) ==
    /\ AtStep(n, "read") /\ failures < MaxFailures
    /\ vaultKeys[syncs[n].session] = "none"
    /\ Step(n, "failed")
    /\ vaultKeys' = [vaultKeys EXCEPT ![syncs[n].session] = "failed"]
    /\ failures' = failures + 1
    /\ UNCHANGED <<session, saved, haveKeys, open, unlock>>

(* saveKeys                                                                *)
ListKeyIds(n) ==
    /\ AtStep(n, "list")
    /\ syncs' = [syncs EXCEPT ![n].step = "remove", ![n].listed = saved]
    /\ UNCHANGED <<session, vaultKeys, saved, haveKeys, open, unlock, failures>>

RemoveKeys(n) ==
    /\ AtStep(n, "remove")
    /\ saved' = saved \ syncs[n].listed
    /\ Step(n, "set")
    /\ UNCHANGED <<session, vaultKeys, haveKeys, open, unlock, failures>>

(* Faulty variant: what was listed is removed after the new keys are saved.*)
SetKeysThenRemove(n) ==
    /\ AtStep(n, "set")
    /\ saved' = KeyIds \ syncs[n].listed
    /\ Step(n, "done")
    /\ haveKeys' = (haveKeys \/ (open /\ syncs[n].session = session))
    /\ UNCHANGED <<session, vaultKeys, open, unlock, failures>>

(* A faulty variant: the view is told of the keys only if it opened last   *)
(* and none were there before.                                             *)
SetKeysOfNewStore(n) ==
    /\ AtStep(n, "set")
    /\ saved' = KeyIds
    /\ Step(n, "done")
    /\ haveKeys' = (haveKeys \/ (open /\ syncs[n].session = session /\ syncs[n].listed = {}))
    /\ UNCHANGED <<session, vaultKeys, open, unlock, failures>>

(* The keys and the hint are saved, and then onKeysUpdated is published to *)
(* the unlock view if it is one of this store.                             *)
SetKeys(n) ==
    /\ AtStep(n, "set")
    /\ saved' = KeyIds
    /\ Step(n, "done")
    /\ haveKeys' = (haveKeys \/ (open /\ syncs[n].session = session))
    /\ UNCHANGED <<session, vaultKeys, open, unlock, failures>>

-----------------------------------------------------------------------------
(* unlockStore.  The password field is disabled until there are keys.      *)
TryUnlock ==
    /\ open /\ haveKeys
    /\ unlock.step \in {"none", "failed"}
    /\ unlock' = IF saved = {} THEN [step |-> "failed", listed |-> {}]
                 ELSE [step |-> "listed", listed |-> saved]
    /\ UNCHANGED <<session, vaultKeys, syncs, saved, haveKeys, open, failures>>

(* The keys are read one by one; decrypting one that is gone fails.        *)
KeysGot ==
    /\ unlock.step = "listed"
    /\ unlock' = [unlock EXCEPT !.step = IF unlock.listed \subseteq saved THEN "decrypting" ELSE "failed"]
    /\ UNCHANGED <<session, vaultKeys, syncs, saved, haveKeys, open, failures>>

Decrypted(rightPassword) ==
    /\ unlock.step = "decrypting"
    /\ unlock' = [unlock EXCEPT !.step = IF rightPassword THEN "unlocked" ELSE "failed"]
    /\ UNCHANGED <<session, vaultKeys, syncs, saved, haveKeys, open, failures>>

(* The page is closed and opened again, in the middle of a step.           *)
ReloadKeys ==
    /\ \/ saved' = saved
       \/ \E n \in DOMAIN syncs, done \in SUBSET KeyIds :
             \/ AtStep(n, "remove") /\ saved' = saved \ (syncs[n].listed \intersect done)
             \/ AtStep(n, "set") /\ saved' = saved \union done
    /\ syncs' = [n \in DOMAIN syncs |-> [syncs[n] EXCEPT !.step = IF @ \in Ended THEN @ ELSE "failed"]]
    /\ open' = FALSE /\ haveKeys' = FALSE /\ unlock' = NoUnlock
    /\ UNCHANGED <<session, vaultKeys, failures>>
=============================================================================
