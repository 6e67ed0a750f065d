-------------------------------- MODULE Setup --------------------------------
(***************************************************************************)
(* From the first screen to an unlocked store: the wizard                  *)
(* (webui/setup_view.ts) with its stack of screens, the sign-in, the       *)
(* search for stores and the creation of one (Vault.createVault); the      *)
(* opening of the account that was chosen (webui/app.ts, initAccount) and  *)
(* the copy of its keys; and the dialog for signing in again               *)
(* (webui/auth_dialog.ts).                                                 *)
(***************************************************************************)
EXTENDS SignIn, StoreKeys

CONSTANTS
    MaxFlows,    \* bound on the sign-ins
    MaxReloads,  \* bound on reloads of the page
    Patient      \* the user does not click while a screen is about to change

ASSUME SetupAssumption == MaxFlows \in Nat /\ MaxReloads \in Nat /\ Patient \in BOOLEAN

VARIABLES
    stack, current,  \* screenStack and currentScreen of the wizard
    pushes,          \* pushScreen calls whose timer has not run yet
    login,           \* connectToCloudService
    fs,              \* the wizard has a file system to work with
    search,          \* the list of stores that were found
    form,            \* the new-store form
    vault,           \* the directory of the vault in the cloud
    accounts,        \* Setting.Accounts has the account
    active,          \* Setting.ActiveAccount
    dialog,          \* the AuthDialog, and its flow
    reloads

wizardVars == <<stack, current, pushes, login, fs, search, form>>
setupVars == <<flows, token, session, vaultKeys, syncs, saved, haveKeys, open, unlock, failures,
          stack, current, pushes, login, fs, search, form, vault, accounts, active, dialog, reloads>>

Screens == {"StoreList", "CloudServiceList", "CloudStoreLogin", "CloudStoreList",
            "CloudStoreSignout", "NewStore"}
ProgressScreens == {"CloudStoreLogin", "CloudStoreSignout"}
Slide(screen) == [id |-> screen, temporary |-> FALSE]
TemporarySlide(screen) == [id |-> screen, temporary |-> TRUE]
NoLogin == [step |-> "none", flow |-> 0]
NoDialog == [step |-> "none", flow |-> 0]
Prompt == [step |-> "prompt", flow |-> 0]

SetupTypeOK ==
    /\ SignInTypeOK /\ Len(flows) <= MaxFlows
    /\ KeysTypeOK
    /\ stack \in Seq([id : Screens, temporary : BOOLEAN])
    /\ current \in Nat /\ pushes \in Nat
    /\ login \in [step : {"none", "auth", "info"}, flow : Nat]
    /\ fs \in BOOLEAN
    /\ search \in {"none", "searching", "empty", "found", "failed"}
    /\ form \in {"editing", "mkpath", "writing"}
    /\ vault \in {"none", "partial", "ready"}
    /\ accounts \in BOOLEAN /\ active \in BOOLEAN
    /\ dialog \in [step : {"none", "prompt", "waiting"}, flow : Nat]
    /\ reloads \in Nat

(* The constructor of SetupView; a login may be resumed in the URL.        *)
FreshWizard ==
    /\ stack' \in {<<Slide("StoreList")>>, <<Slide("StoreList"), Slide("CloudStoreLogin")>>}
    /\ current' = 0 /\ pushes' = 0
    /\ login' = NoLogin /\ fs' = FALSE /\ search' = "none" /\ form' = "editing"

SetupInit ==
    /\ SignInInit /\ KeysInit
    /\ stack \in {<<Slide("StoreList")>>, <<Slide("StoreList"), Slide("CloudStoreLogin")>>}
    /\ current = 0 /\ pushes = 0
    /\ login = NoLogin /\ fs = FALSE /\ search = "none" /\ form = "editing"
    /\ vault \in {"none", "ready"}
    /\ accounts = FALSE /\ active = FALSE
    /\ dialog = NoDialog
    /\ reloads = 0

-----------------------------------------------------------------------------
(* The wizard                                                              *)

Showing(screen) ==
    /\ ~active
    /\ current < Len(stack) /\ stack[current + 1].id = screen
    /\ Patient => pushes = 0

Push(slide) ==
    /\ stack' = Append(SubSeq(stack, 1, current + 1), slide)
    /\ pushes' = pushes + 1

PoppedTo ==
    CHOOSE n \in 0 .. current - 1 :
        /\ ~stack[n + 1].temporary
        /\ \A k \in n + 1 .. current - 1 : stack[k + 1].temporary

PushTimer ==
    /\ pushes > 0
    /\ pushes' = pushes - 1
    /\ current' = current + 1
    /\ UNCHANGED <<signInVars, keyVars, stack, login, fs, search, form, vault, accounts, active, dialog, reloads>>

AddStore ==
    /\ Showing("StoreList")
    /\ Push(Slide("CloudServiceList"))
    /\ UNCHANGED <<signInVars, keyVars, current, login, fs, search, form, vault, accounts, active, dialog, reloads>>

PopScreen ==
    /\ \/ Showing("CloudServiceList") \/ Showing("CloudStoreList")
       \/ Showing("NewStore") /\ form = "editing"
    /\ current' = PoppedTo
    /\ UNCHANGED <<signInVars, keyVars, stack, pushes, login, fs, search, form, vault, accounts, active, dialog, reloads>>

ConnectToCloudService ==
    /\ Showing("CloudServiceList") /\ Len(flows) < MaxFlows
    /\ Push(TemporarySlide("CloudStoreLogin"))
    /\ Authenticate
    /\ login' = [step |-> "auth", flow |-> Len(flows) + 1]
    /\ UNCHANGED <<keyVars, current, fs, search, form, vault, accounts, active, dialog, reloads>>

(* A faulty variant: a sign-in that fails only clears the login.           *)
LoginPollsNoPop ==
    /\ login.step = "auth" /\ pushes = 0
    /\ Poll(login.flow)
    /\ login' = IF PollResult(login.flow) = "credentials" THEN [login EXCEPT !.step = "info"] ELSE NoLogin
    /\ UNCHANGED <<keyVars, current, stack, pushes, fs, search, form, vault, accounts, active, dialog, reloads>>

(* The interval of the polls is longer than that of the push timer.        *)
LoginPolls ==
    /\ login.step = "auth" /\ pushes = 0
    /\ Poll(login.flow)
    /\ IF PollResult(login.flow) = "credentials"
         THEN login' = [login EXCEPT !.step = "info"] /\ UNCHANGED current
         ELSE login' = NoLogin /\ current' = PoppedTo
    /\ UNCHANGED <<keyVars, stack, pushes, fs, search, form, vault, accounts, active, dialog, reloads>>

(* accountInfo() answers; the list of stores starts to search as it mounts.*)
AccountInfo ==
    /\ login.step = "info"
    /\ Push(Slide("CloudStoreList"))
    /\ login' = NoLogin /\ fs' = TRUE
    /\ search' = "searching"
    /\ UNCHANGED <<signInVars, keyVars, current, form, vault, accounts, active, dialog, reloads>>

AccountInfoFails ==
    /\ login.step = "info" /\ failures < MaxFailures
    /\ failures' = failures + 1
    /\ login' = NoLogin /\ current' = PoppedTo
    /\ UNCHANGED <<signInVars, session, vaultKeys, syncs, saved, haveKeys, open, unlock, stack, pushes,
                   fs, search, form, vault, accounts, active, dialog, reloads>>

SearchEnds ==
    /\ search = "searching" /\ ~active
    /\ \/ search' = (IF vault = "none" THEN "empty" ELSE "found") /\ UNCHANGED failures
       \/ failures < MaxFailures /\ failures' = failures + 1 /\ search' = "failed"
    /\ UNCHANGED <<signInVars, session, vaultKeys, syncs, saved, haveKeys, open, unlock, stack, current,
                   pushes, login, fs, form, vault, accounts, active, dialog, reloads>>

TryAgain ==
    /\ Showing("CloudStoreList") /\ search = "failed" /\ fs
    /\ search' = "searching"
    /\ UNCHANGED <<signInVars, keyVars, stack, current, pushes, login, fs, form, vault, accounts, active, dialog, reloads>>

(* `Sign Out' pushes a screen between two calls of popScreen.  The changes *)
(* are made at the end of the event, when the second pop, which saw the    *)
(* same state as the first, replaces it; the timer of the push is left.    *)
SignOut ==
    /\ Showing("CloudStoreList")
    /\ Push(TemporarySlide("CloudStoreSignout"))
    /\ current' = PoppedTo
    /\ fs' = FALSE
    /\ UNCHANGED <<signInVars, keyVars, login, search, form, vault, accounts, active, dialog, reloads>>

NewStore ==
    /\ Showing("CloudStoreList")
    /\ Push(Slide("NewStore"))
    /\ form' = "editing"
    /\ UNCHANGED <<signInVars, keyVars, current, login, fs, search, vault, accounts, active, dialog, reloads>>

Create ==
    /\ Showing("NewStore") /\ form = "editing" /\ fs
    /\ form' = "mkpath"
    /\ UNCHANGED <<signInVars, keyVars, stack, current, pushes, login, fs, search, vault, accounts, active, dialog, reloads>>

(* mkpath fails if the directory is there, as it is after an attempt that  *)
(* failed later on.                                                        *)
MkPath ==
    /\ form = "mkpath"
    /\ IF vault = "none" THEN form' = "writing" /\ vault' = "partial"
       ELSE form' = "editing" /\ UNCHANGED vault
    /\ UNCHANGED <<signInVars, keyVars, stack, current, pushes, login, fs, search, accounts, active, dialog, reloads>>

VaultWriteFails ==
    /\ form = "writing" /\ failures < MaxFailures
    /\ failures' = failures + 1
    /\ form' = "editing"
    /\ vault' \in {"partial", "ready"}
    /\ UNCHANGED <<signInVars, session, vaultKeys, syncs, saved, haveKeys, open, unlock, stack, current,
                   pushes, login, fs, search, accounts, active, dialog, reloads>>

(* onSelectStore, and the listener of App that opens the account.          *)
SelectStore ==
    /\ \/ Showing("CloudStoreList") /\ search = "found" /\ UNCHANGED vault
       \/ form = "writing" /\ vault' = "ready"
    /\ accounts' = TRUE /\ active' = TRUE
    /\ OpenStore
    /\ FreshWizard
    /\ UNCHANGED <<signInVars, dialog, reloads>>

SelectAccount ==
    /\ Showing("StoreList") /\ accounts
    /\ active' = TRUE
    /\ OpenStore
    /\ FreshWizard
    /\ UNCHANGED <<signInVars, vault, accounts, dialog, reloads>>

-----------------------------------------------------------------------------
(* The open account                                                        *)

KeySyncStep(n) ==
    /\ KeysRead(n, vault = "ready") \/ ListKeyIds(n) \/ RemoveKeys(n) \/ SetKeys(n)
    /\ UNCHANGED <<signInVars, wizardVars, vault, accounts, active, dialog, reloads>>

UnlockStep ==
    /\ KeysGot \/ \E rightPassword \in BOOLEAN : Decrypted(rightPassword)
    /\ UNCHANGED <<signInVars, wizardVars, vault, accounts, active, dialog, reloads>>

UserOfStore ==
    /\ TryUnlock \/ ClearOfflineStorage
    /\ UNCHANGED <<signInVars, wizardVars, vault, accounts, active, dialog, reloads>>

(* An authentication error of the first syncKeys of an account prompts to  *)
(* sign in again; the keys are not synced again after that.                *)
VaultReadFails ==
    /\ \E n \in DOMAIN syncs :
          /\ ReadFails(n)
          /\ \/ UNCHANGED dialog
             \/ dialog.step = "none" /\ dialog' = Prompt
    /\ UNCHANGED <<signInVars, wizardVars, vault, accounts, active, reloads>>

(* `Switch Store'.  The app goes on asking for a sign-in: the dialog goes  *)
(* with the view, and comes back as a new one in that of the next account. *)
SwitchStore ==
    /\ CloseStore
    /\ active' = FALSE
    /\ dialog' = IF dialog.step = "none" THEN NoDialog ELSE Prompt
    /\ FreshWizard
    /\ UNCHANGED <<signInVars, vault, accounts, reloads>>

DialogSignIn ==
    /\ open /\ dialog.step = "prompt" /\ Len(flows) < MaxFlows
    /\ Authenticate
    /\ dialog' = [step |-> "waiting", flow |-> Len(flows) + 1]
    /\ UNCHANGED <<keyVars, wizardVars, vault, accounts, active, reloads>>

(* The flow of a dialog that was cancelled polls on.                       *)
DialogCancel ==
    /\ open /\ dialog.step # "none"
    /\ dialog' = NoDialog
    /\ UNCHANGED <<signInVars, keyVars, wizardVars, vault, accounts, active, reloads>>

DialogPolls(f) ==
    /\ f \in DOMAIN flows /\ f # login.flow
    /\ Poll(f)
    /\ dialog' = IF dialog.flow = f THEN NoDialog ELSE dialog
    /\ UNCHANGED <<keyVars, wizardVars, vault, accounts, active, reloads>>

-----------------------------------------------------------------------------
SignInWindow(f) ==
    /\ f \in DOMAIN flows
    /\ ReceiveToken(f) \/ CloseWindow(f)
    /\ UNCHANGED <<keyVars, wizardVars, vault, accounts, active, dialog, reloads>>

Reload ==
    /\ reloads < MaxReloads
    /\ reloads' = reloads + 1
    /\ ReloadKeys
    /\ FreshWizard
    /\ flows' = [f \in DOMAIN flows |-> [flows[f] EXCEPT !.result = IF @ = "none" THEN "failed" ELSE @]]
    /\ dialog' = NoDialog
    /\ UNCHANGED <<token, vault, accounts, active>>

(* The constructor of App opens the active account.                        *)
AppStarts ==
    /\ active /\ ~open
    /\ OpenStore
    /\ UNCHANGED <<signInVars, wizardVars, vault, accounts, active, dialog, reloads>>

SetupStep ==
    \/ PushTimer \/ LoginPolls \/ AccountInfo \/ SearchEnds \/ MkPath
    \/ form = "writing" /\ SelectStore
    \/ UnlockStep \/ AppStarts
    \/ \E n \in 1 .. MaxKeySyncs : KeySyncStep(n)
    \/ \E f \in 1 .. MaxFlows : DialogPolls(f)

User ==
    \/ AddStore \/ PopScreen \/ ConnectToCloudService \/ TryAgain \/ SignOut
    \/ NewStore \/ Create \/ SelectStore \/ SelectAccount
    \/ UserOfStore \/ SwitchStore \/ DialogSignIn \/ DialogCancel

Failure == AccountInfoFails \/ VaultWriteFails \/ VaultReadFails \/ Reload

SetupNext == SetupStep \/ User \/ Failure \/ \E f \in 1 .. MaxFlows : SignInWindow(f)

SetupSpec == SetupInit /\ [][SetupNext]_setupVars

-----------------------------------------------------------------------------
(* The wizard always shows a screen that leads on: one of the stack, and a *)
(* screen without buttons only while a sign-in is under way or the next    *)
(* screen is coming.  (Not so after `Sign Out', whose timer moves on to    *)
(* the screen of the last login.)  setup_view.ts 601-626, 726-799, 914-927 *)
SignedOut == ~fs /\ search # "none"
NeverStranded ==
    /\ current < Len(stack)
    /\ stack[current + 1].id \in ProgressScreens =>
          login.step # "none" \/ pushes > 0 \/ SignedOut

(* A sign-in of the wizard that the user has finished while no other flow  *)
(* polls leads to the list of stores, unless something fails               *)
(* (auth.ts 155-238, setup_view.ts 726-798).                               *)
Alone(f) == \A g \in DOMAIN flows : g # f => ~Polling(g)
Finished(f) ==
    /\ login = [step |-> "auth", flow |-> f] /\ token = f /\ Alone(f)
FinishedSignInsListStores ==
    \A f \in 1 .. MaxFlows :
        Finished(f) ~> (stack[current + 1].id = "CloudStoreList" /\ fs)
                         \/ failures > 0 \/ reloads > 0

(* When the copies of the keys have ended, the last of them succeeded and  *)
(* those that failed had no keys to remove, the database has every key, so *)
(* that an unlock cannot fail for want of one, whatever copies overlapped  *)
(* (local_store.ts 378-402).                                               *)
SyncedKeysAreComplete ==
    /\ syncs # <<>> /\ syncs[Len(syncs)].step = "done"
    /\ \A n \in DOMAIN syncs : syncs[n].step \in Ended
    /\ \A n \in DOMAIN syncs : syncs[n].step = "failed" => syncs[n].listed = {}
    => saved = KeyIds

(* The keys of an account that is opened arrive, unless its vault could    *)
(* not be read or has none: then they never do until the account is opened *)
(* again (app.ts 149-206, agile_keychain.ts 332-337).                      *)
KeysArrive ==
    open ~> (haveKeys /\ saved = KeyIds) \/ ~open \/ failures > 0 \/ vault # "ready"
=============================================================================
